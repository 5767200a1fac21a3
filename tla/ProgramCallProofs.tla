-------------------------- MODULE ProgramCallProofs --------------------------
(***************************************************************************)
(* Proofs about ProgramCall, for any nodes, data structures and limits: a  *)
(* program is called only with arguments that were made and by an          *)
(* interface that can pass them, the list of arguments is laid out, each   *)
(* value is found where its type says it is, what the program has left     *)
(* there gets back, and a right value is taken.                            *)
(*                                                                         *)
(* copyIn, copyBack, the leaves and the offsets are recursive.  That they  *)
(* are what their definitions say is lemma Recursion: parameters have      *)
(* layers (Nested), and each function asks a lower layer only.  What holds *)
(* of every parameter is shown by OfAll, from the entries upwards.         *)
(***************************************************************************)
EXTENDS ProgramCall, SequenceLemmas

-----------------------------------------------------------------------------
(* The parameters *)

\* The parameters of depth d are made of those of depth d - 1.
LEMMA NestedIs ==
  Nested = [d \in 0 .. MaxDepth |-> IF d = 0 THEN {} ELSE ParamOf(Nested[d - 1])]
<1> DEFINE Upto(n, f) == f = [d \in 0 .. n |-> IF d = 0 THEN {} ELSE ParamOf(f[d - 1])]
           S == {n \in Nat : \E f : Upto(n, f)}
<1>1. 0 \in S
  <2> DEFINE f == [d \in 0 .. 0 |-> {}]
  <2>1. f = [d \in 0 .. 0 |-> IF d = 0 THEN {} ELSE ParamOf(f[d - 1])]
    OBVIOUS
  <2>2. QED
    BY <2>1
<1>2. ASSUME NEW n \in Nat, n \in S PROVE n + 1 \in S
  <2>1. PICK f : Upto(n, f)
    BY <1>2
  <2> DEFINE m == n + 1
             g == [d \in 0 .. m |-> IF d = m THEN ParamOf(f[n]) ELSE f[d]]
  <2>2. ASSUME NEW d \in 0 .. m PROVE g[d] = IF d = 0 THEN {} ELSE ParamOf(g[d - 1])
    <3>1. CASE d = m
      <4>1. g[m] = ParamOf(f[n]) /\ g[n] = f[n] /\ m # 0 /\ m - 1 = n
        OBVIOUS
      <4>2. QED
        BY <3>1, <4>1
    <3>2. CASE d \in 0 .. n
      <4>1. g[d] = f[d] /\ (d # 0 => d - 1 \in 0 .. n /\ g[d - 1] = f[d - 1])
        BY <3>2
      <4> HIDE DEF g
      <4>2. f[d] = IF d = 0 THEN {} ELSE ParamOf(f[d - 1])
        BY <2>1, <3>2
      <4>3. QED
        BY <4>1, <4>2
    <3>3. QED
      BY <3>1, <3>2
  <2>3. g = [d \in 0 .. m |-> g[d]]
    OBVIOUS
  <2> HIDE DEF g
  <2>4. g = [d \in 0 .. m |-> IF d = 0 THEN {} ELSE ParamOf(g[d - 1])]
    BY <2>2, <2>3
  <2>5. QED
    BY <2>4
<1> HIDE DEF S
<1>3. Nat \subseteq S
  BY <1>1, <1>2, Induction
<1>4. MaxDepth \in S
  BY <1>3, ArgumentsAssumption
<1>5. \E f : Upto(MaxDepth, f)
  BY <1>4 DEF S
<1>6. QED
  BY <1>5, Zenon DEF Nested

\* What is known of every parameter.
LEMMA ParamType ==
  ASSUME NEW a \in Params
  PROVE  /\ a.type \in Scalars \cup {"ds"} /\ a.n \in Int
         /\ a.by \in {"none", "ref", "val", "other"} /\ a.io \in Ways \cup {"none"}
<1>1. Params = ParamOf(Nested[MaxDepth - 1])
  <2>1. MaxDepth \in 0 .. MaxDepth /\ MaxDepth # 0
    BY ArgumentsAssumption
  <2>2. QED
    BY <2>1, NestedIs DEF Params
<1>2. QED
  BY <1>1 DEF ParamOf

-----------------------------------------------------------------------------
(* The places of arguments *)

\* alignPadding gives the next multiple of the boundary of a size.
LEMMA Aligned ==
  ASSUME NEW end \in Nat, NEW size \in Nat
  PROVE  /\ Boundary(size) \in {1, 2, 4, 8, 16} /\ AlignPadding(end, size) \in Nat
         /\ AlignPadding(end, size) % Boundary(size) = 0
         /\ end <= AlignPadding(end, size) /\ AlignPadding(end, size) < end + Boundary(size)
<1>1. Boundary(size) \in {1, 2, 4, 8, 16}
  BY DEF Boundary
<1>2. ASSUME NEW b \in {1, 2, 4, 8, 16}
      PROVE  LET p == IF end % b = 0 THEN end ELSE end + b - (end % b) IN
             p \in Nat /\ p % b = 0 /\ end <= p /\ p < end + b
  <2>1. CASE b = 1
    BY <2>1
  <2>2. CASE b = 2
    BY <2>2
  <2>3. CASE b = 4
    BY <2>3
  <2>4. CASE b = 8
    BY <2>4
  <2>5. CASE b = 16
    BY <2>5
  <2>6. QED
    BY <2>1, <2>2, <2>3, <2>4, <2>5
<1>3. QED
  BY <1>1, <1>2 DEF AlignPadding

\* The next multiple of 16, which is not before that of any other boundary.
Up16(n) == AlignPadding(n, 16)

\* The next multiple of 16 is at least n and less than 16 more.
LEMMA Up16Is ==
  ASSUME NEW n \in Nat
  PROVE  Up16(n) \in Nat /\ Up16(n) % 16 = 0 /\ n <= Up16(n) /\ Up16(n) < n + 16
<1>1. Boundary(16) = 16
  BY DEF Boundary
<1>2. /\ AlignPadding(n, 16) \in Nat /\ AlignPadding(n, 16) % Boundary(16) = 0
      /\ n <= AlignPadding(n, 16) /\ AlignPadding(n, 16) < n + Boundary(16)
  BY Aligned
<1>3. QED
  BY <1>1, <1>2 DEF Up16

\* No boundary pads further than 16 does.
LEMMA Up16Least ==
  ASSUME NEW n \in Nat, NEW size \in Nat
  PROVE  AlignPadding(n, size) <= Up16(n)
<1>1. /\ Boundary(size) \in {1, 2, 4, 8, 16} /\ AlignPadding(n, size) \in Nat
      /\ AlignPadding(n, size) % Boundary(size) = 0
      /\ AlignPadding(n, size) < n + Boundary(size)
  BY Aligned
<1>2. ASSUME NEW p \in Nat, NEW q \in Nat, NEW b \in {1, 2, 4, 8, 16},
             p % b = 0, p < n + b, q % 16 = 0, n <= q
      PROVE  p <= q
  <2>1. CASE b = 1
    BY <1>2, <2>1
  <2>2. CASE b = 2
    BY <1>2, <2>2
  <2>3. CASE b = 4
    BY <1>2, <2>3
  <2>4. CASE b = 8
    BY <1>2, <2>4
  <2>5. CASE b = 16
    BY <1>2, <2>5
  <2>6. QED
    BY <2>1, <2>2, <2>3, <2>4, <2>5
<1>3. QED
  BY <1>1, <1>2, Up16Is

\* What pads an argument, and what its signature may be.
Unit(a) ==
  IF ~ ByValue(a, FALSE) THEN PtrSize
  ELSE IF a.type \in {"int", "uint", "float", "double"} THEN Bytes(a) ELSE 1
Added(a) == 16 + (IF ByValue(a, FALSE) THEN Bytes(a) ELSE 0)

PointersAre16 == PtrSize = 16

\* A scalar that was taken has a size.
LEMMA TakenSize ==
  ASSUME NEW a \in Params, Taken(a), ByValue(a, FALSE)
  PROVE  /\ a.type \in Scalars /\ Bytes(a) = ScalarBytes(a) /\ Bytes(a) \in Nat \ {0}
         /\ a.type \in {"int", "uint", "float", "double"} =>
              Bytes(a) \in {2, 4, 8} /\ Boundary(Bytes(a)) = Bytes(a)
<1>1. a.type \in Scalars
  BY ParamType DEF ByValue
<1>2. Bytes(a) = ScalarBytes(a)
  BY <1>1 DEF Bytes, Scalars
<1>3. a.n \in Nat \ {0}
  BY <1>1, ParamType DEF Taken, Scalars
<1>4. ASSUME NEW n \in Nat \ {0} PROVE (IF n % 2 # 0 THEN (n + 1) \div 2 ELSE n \div 2 + 1) \in Nat \ {0}
  OBVIOUS
<1>5. ScalarBytes(a) \in Nat \ {0}
  <2>1. CASE a.type = "packed"
    BY <2>1, <1>3, <1>4 DEF ScalarBytes
  <2>2. CASE a.type # "packed"
    BY <2>2, <1>3 DEF ScalarBytes
  <2>3. QED
    BY <2>1, <2>2
<1>6. a.type \in {"int", "uint", "float", "double"} => ScalarBytes(a) \in {2, 4, 8}
  BY DEF ScalarBytes, Taken
<1>7. Boundary(2) = 2 /\ Boundary(4) = 4 /\ Boundary(8) = 8
  BY DEF Boundary
<1>8. QED
  BY <1>1, <1>2, <1>5, <1>6, <1>7

\* Each argument is put at the next multiple of its unit, and with it the list
\* gets no longer than the memory that was added for it.
LEMMA Placed ==
  ASSUME PointersAre16, NEW a \in Params, Taken(a), NEW end \in Nat
  PROVE  /\ Place(a, end) \in Nat /\ Width(a) \in Nat \ {0} /\ Added(a) \in Nat
         /\ Place(a, end) % Unit(a) = 0
         /\ end <= Place(a, end) /\ Place(a, end) < end + Unit(a)
         /\ Up16(Place(a, end) + Width(a)) <= Up16(end) + Added(a)
<1>1. Up16(end) \in Nat /\ Up16(end) % 16 = 0 /\ end <= Up16(end)
  BY Up16Is
<1>2. CASE ~ ByValue(a, FALSE)
  <2>1. Place(a, end) = Up16(end) /\ Width(a) = 16 /\ Unit(a) = 16 /\ Added(a) = 16
    BY <1>2 DEF Place, Width, Unit, Added, PointersAre16, Up16
  <2>2. Up16(end) < end + 16
    BY Up16Is
  <2> DEFINE u == Up16(end) v == Up16(u + 16)
  <2>3. u \in Nat /\ u % 16 = 0 /\ v \in Nat /\ v % 16 = 0 /\ v < u + 16 + 16
    BY <1>1, Up16Is
  <2> HIDE DEF u, v
  <2>4. v <= u + 16
    BY <2>3
  <2>5. QED
    BY <2>1, <2>2, <2>4, <1>1 DEF u, v
<1>3. CASE ByValue(a, FALSE)
  <2> DEFINE w == Bytes(a) p == Place(a, end)
  <2>1. /\ a.type \in Scalars /\ w \in Nat \ {0} /\ Width(a) = w /\ Added(a) = 16 + w
        /\ a.type \in {"int", "uint", "float", "double"} => w \in {2, 4, 8} /\ Boundary(w) = w
    BY <1>3, TakenSize DEF Width, Added
  <2>2. /\ p \in Nat /\ end <= p /\ p <= Up16(end)
        /\ p % Unit(a) = 0 /\ p < end + Unit(a)
    <3>1. CASE Signature(a) = "bytes"
      <4>1. p = end /\ Unit(a) = 1
        BY <1>3, <2>1, <3>1 DEF Place, Unit, Signature, Scalars, ARG_END
      <4>2. QED
        BY <4>1, <1>1
    <3>2. CASE Signature(a) # "bytes"
      <4>1. p = AlignPadding(end, w) /\ a.type \in {"int", "uint", "float", "double"} /\ Unit(a) = w
        BY <1>3, <2>1, <3>2 DEF Place, Unit, Signature, Scalars, ARG_END
      <4> HIDE DEF w, p
      <4>2. QED
        BY <4>1, <2>1, Aligned, Up16Least
    <3>3. QED
      BY <3>1, <3>2
  <2>3. Up16(p + w) < p + w + 16 /\ Up16(p + w) \in Nat
    BY <2>1, <2>2, Up16Is
  <2> HIDE DEF w, p
  <2>4. Up16(p + w) <= Up16(end) + (16 + w)
    BY <2>1, <2>2, <2>3, <1>1
  <2>5. QED
    BY <2>1, <2>2, <2>4 DEF p
<1>4. QED
  BY <1>2, <1>3

-----------------------------------------------------------------------------
(* The invariant *)

Pcs == {"init", "create", "copyIn", "start", "symbol", "resolve", "call", "copyBack", "done"}
Before == {"create", "copyIn", "start", "symbol", "resolve", "call"}

Typed ==
  /\ node \in Nodes /\ pc \in Pcs /\ isPase \in BOOLEAN
  /\ at \in 1 .. Number + 1 /\ calls \in 1 .. MaxCalls

\* Nothing has failed while there is more to be made, nor if a call follows; and
\* the interface is the one that was chosen for parameters that were taken.
Flow ==
  /\ pc \in {"init", "create", "copyIn"} => fr = Clean
  /\ pc \in {"init", "create"} => at = 1
  /\ pc \in {"start", "symbol", "resolve"} /\ fr.code = OK => fr = Clean /\ at > Number
  /\ pc = "call" => fr = Clean /\ at > Number
  /\ pc \in Before => isPase = NeedsPase /\ \A i \in 1 .. Number : Taken(node.parms[i])

\* A call in PASE has a PASE, the name space and the symbol; and no node starts
\* more than one.
PaseInv ==
  /\ starts \in Nat /\ id \in 0 .. starts /\ pase \in {0, starts}
  /\ syms \in [{"_PGMCALL", "_ILECALL"} -> 0 .. id]
  /\ pc \in {"symbol", "resolve", "call"} /\ isPase => pase # 0 /\ id # 0
  /\ pc \in {"resolve", "call"} /\ isPase => syms[Interface] # 0
  /\ starts <= calls
  /\ pase = 0 /\ pc \in {"init", "create", "copyIn", "start"} => starts < calls

StateInv == Typed /\ Flow /\ PaseInv

\* What is added up for the arguments one after the other.
Sums(f) ==
  /\ f \in [0 .. Number -> Int] /\ f[0] = 16
  /\ \A i \in 1 .. Number : f[i] = f[i - 1] + Added(node.parms[i])

Sigs == Scalars \cup {ARG_END, "ARG_SPCPTR", "bytes"}
Item == [at : Nat, width : Nat, sig : Sigs]

InPlace(l, i) ==
  LET a == node.parms[i]
      last == IF i = 1 THEN 0 ELSE l[i - 1].at + l[i - 1].width
  IN  /\ l[i].at % Unit(a) = 0
      /\ last <= l[i].at /\ l[i].at < last + Unit(a)
      /\ l[i].sig = ARG_END => a.type = "uint" /\ a.io = "out"

EndOf(l) == IF l = <<>> THEN 0 ELSE l[Len(l)].at + l[Len(l)].width

\* The list has the arguments made so far, each in its place, and there is room.
GoodList(l) ==
  /\ l \in Seq(Item) /\ Len(l) <= Number
  /\ \A i \in 1 .. Len(l) : InPlace(l, i)
  /\ \A f : Sums(f) => Up16(EndOf(l)) + 16 <= f[Len(l)]

ListInv ==
  /\ GoodList(list)
  /\ list # <<>> => isPase /\ node.func /\ \A i \in 1 .. Number : Taken(node.parms[i])
  /\ pc \in {"init", "create"} => list = <<>>
  /\ isPase /\ node.func =>
       /\ pc = "copyIn" => Len(list) = at - 1
       /\ pc \in {"start", "symbol", "resolve", "call"} /\ fr.code = OK => Len(list) = Number

-----------------------------------------------------------------------------
(* The steps *)

\* An error leaves its code.
LEMMA Reports ==
  ASSUME NEW c, c # OK
  PROVE  /\ Report(Clean, c, Author).code # OK
         /\ \A d : d # OK => Report(Report(Clean, d, Author), c, Author).code # OK
<1>1. Report(Clean, c, Author).code = c
  BY DEF Report, AddMessages, SetCode, Clean
<1>2. ASSUME NEW d PROVE Report(Report(Clean, d, Author), c, Author).code = c
  <2> DEFINE f == Report(Clean, d, Author)
  <2> DEFINE g == SetCode(Clean, d)
  <2>a. g = [code |-> d, msgs |-> <<>>]
    BY DEF SetCode, Clean
  <2> HIDE DEF g
  <2>b. [g EXCEPT !.msgs = g.msgs \o <<Author>>] = [code |-> d, msgs |-> <<>> \o <<Author>>]
    BY <2>a
  <2>1. f = [code |-> d, msgs |-> <<>> \o <<Author>>]
    BY <2>b DEF Report, AddMessages, g
  <2> HIDE DEF f
  <2>2. Report(f, c, Author).code = c
    BY <2>1 DEF Report, AddMessages, SetCode
  <2>3. QED
    BY <2>2 DEF f
<1>3. QED
  BY <1>1, <1>2

\* The number of a node's parameters.
LEMMA NumberIs ==
  ASSUME node \in Nodes
  PROVE  node.parms \in Seq(Params) /\ Number \in Nat
BY CallAssumption DEF Number

\* The limits.
LEMMA Limits == MaxCalls \in Nat \ {0} /\ MaxArgs \in Nat \ {0}
  BY CallAssumption

\* It holds at the start of a job,
LEMMA StateBegins == CallInit => StateInv
<1> SUFFICES ASSUME CallInit PROVE StateInv
  OBVIOUS
<1>1. node \in Nodes /\ Number \in Nat
  BY NumberIs DEF CallInit
<1>2. Typed
  <2>1. at = 1 /\ calls = 1 /\ pc = "init" /\ isPase = FALSE
    BY DEF CallInit
  <2>2. at \in 1 .. Number + 1 /\ calls \in 1 .. MaxCalls /\ pc \in Pcs
    BY <1>1, <2>1, Limits DEF Pcs
  <2>3. isPase \in BOOLEAN
    BY <2>1, Zenon
  <2>4. QED
    BY <1>1, <2>2, <2>3, Zenon DEF Typed
<1>3. Flow
  BY DEF CallInit, Flow, Before
<1>4. PaseInv
  BY DEF CallInit, PaseInv
<1>5. QED
  BY <1>2, <1>3, <1>4 DEF StateInv

\* is kept by every step,
LEMMA StateStep ==
  ASSUME StateInv, [CallNext]_vars
  PROVE  StateInv'
<1> USE DEF StateInv
<1>0. node \in Nodes /\ node.parms \in Seq(Params) /\ Number \in Nat
  BY NumberIs DEF Typed
<1>1. CASE InitProgram
  <2>1. UNCHANGED <<node, at, calls, errno, pase, starts, id, syms>> /\ pc = "init"
    BY <1>1 DEF InitProgram, job
  <2>2. \/ pc' = "done" /\ UNCHANGED isPase
        \/ /\ pc' = "create" /\ UNCHANGED fr /\ isPase' = NeedsPase
           /\ \A i \in 1 .. Number : Taken(node.parms[i])
    BY <1>1 DEF InitProgram, Fail, Accepted
  <2>3. NeedsPase \in BOOLEAN
    BY DEF NeedsPase
  <2>4. Typed'
    BY <2>1, <2>2, <2>3 DEF Typed, Pcs, Number
  <2>5. Flow'
    BY <2>1, <2>2 DEF Flow, Before, Number, NeedsPase
  <2>6. PaseInv'
    BY <2>1, <2>2 DEF PaseInv, Interface
  <2>7. QED
    BY <2>4, <2>5, <2>6
<1>2. CASE Create
  <2>1. UNCHANGED <<node, isPase, at, calls, errno, syms>> /\ pc = "create" /\ fr = Clean /\ at = 1
    BY <1>2 DEF Create, request, job, Flow
  <2>2. \/ pc' = "copyIn" /\ UNCHANGED <<fr, pase, starts, id>>
        \/ pc' = "copyIn" /\ UNCHANGED fr /\ PaseStarts
        \/ pc' = "start" /\ fr'.code # OK /\ PaseStartFails
    BY <1>2, <2>1, Reports DEF Create, job, OK
  <2>3. Typed'
    BY <2>1, <2>2 DEF Typed, Pcs, Number
  <2>4. Flow'
    BY <2>1, <2>2 DEF Flow, Before, Number, NeedsPase
  <2>5. PaseInv'
    BY <2>1, <2>2, CallAssumption DEF PaseInv, Interface, PaseStarts, PaseStartFails, Typed
  <2>6. QED
    BY <2>3, <2>4, <2>5
<1>3. CASE CopyInArg
  <2>1. UNCHANGED <<node, isPase, calls, pase, starts, id, syms>> /\ pc = "copyIn" /\ fr = Clean
        /\ at <= Number
    BY <1>3 DEF CopyInArg, request, Flow
  <2>2. \/ pc' = "copyIn" /\ UNCHANGED fr /\ at' = at + 1
        \/ pc' = "start" /\ fr'.code # OK /\ UNCHANGED at
    BY <1>3, <2>1, Reports DEF CopyInArg, OK
  <2>3. Typed'
    BY <2>1, <2>2, <1>0 DEF Typed, Pcs, Number
  <2>4. Flow'
    BY <2>1, <2>2 DEF Flow, Before, Number, NeedsPase
  <2>5. PaseInv'
    BY <2>1, <2>2 DEF PaseInv, Interface
  <2>6. QED
    BY <2>3, <2>4, <2>5
<1>4. CASE AllCopied
  <2>1. UNCHANGED <<node, isPase, at, calls, pase, starts, id, syms, fr>>
        /\ pc = "copyIn" /\ at > Number /\ pc' = "start"
    BY <1>4 DEF AllCopied, request, job
  <2>2. Typed' /\ Flow'
    BY <2>1 DEF Typed, Flow, Pcs, Before, Number, NeedsPase
  <2>3. PaseInv'
    BY <2>1 DEF PaseInv, Interface
  <2>4. QED
    BY <2>2, <2>3
<1>5. CASE StartCall
  <2>1. UNCHANGED <<node, isPase, at, calls, syms>> /\ pc = "start"
    BY <1>5 DEF StartCall, request, job
  <2>2. \/ ~ isPase /\ pc' = "resolve" /\ UNCHANGED <<fr, pase, starts, id>>
        \/ isPase /\ pc' = "symbol" /\ UNCHANGED fr /\ PaseStarts
        \/ isPase /\ pc' = "done" /\ PaseStartFails
    BY <1>5 DEF StartCall, job, Fail
  <2>3. Typed' /\ Flow'
    BY <2>1, <2>2 DEF Typed, Flow, Pcs, Before, Number, NeedsPase
  <2>4. PaseInv'
    BY <2>1, <2>2, CallAssumption DEF PaseInv, Interface, PaseStarts, PaseStartFails, Typed
  <2>5. QED
    BY <2>3, <2>4
<1>6. CASE FindSymbol
  <2>1. UNCHANGED <<node, isPase, at, calls, pase, starts, id>> /\ pc = "symbol"
    BY <1>6 DEF FindSymbol, request
  <2>2. \/ /\ pc' = "resolve" /\ UNCHANGED fr
           /\ syms' = IF syms[Interface] = 0 THEN [syms EXCEPT ![Interface] = id] ELSE syms
        \/ pc' = "done" /\ UNCHANGED syms
    BY <1>6 DEF FindSymbol, Fail
  <2>3. Typed' /\ Flow'
    BY <2>1, <2>2 DEF Typed, Flow, Pcs, Before, Number, NeedsPase
  <2>4. Interface \in {"_PGMCALL", "_ILECALL"} /\ Interface' = Interface
    BY <2>1 DEF Interface
  <2>5. /\ syms' \in [{"_PGMCALL", "_ILECALL"} -> 0 .. id]
        /\ pc' = "resolve" /\ isPase => syms'[Interface] # 0
    BY <2>1, <2>2, <2>4 DEF PaseInv
  <2>6. PaseInv'
    BY <2>1, <2>2, <2>4, <2>5 DEF PaseInv
  <2>7. QED
    BY <2>3, <2>6
<1>7. CASE Resolve
  <2>1. UNCHANGED <<node, isPase, at, calls, pase, starts, id, syms>> /\ pc = "resolve"
        /\ ((pc' = "call" /\ fr.code = OK /\ UNCHANGED fr) \/ pc' = "done")
    BY <1>7 DEF Resolve, request, job, Fail
  <2>2. Typed' /\ Flow'
    BY <2>1 DEF Typed, Flow, Pcs, Before, Number, NeedsPase
  <2>3. PaseInv'
    BY <2>1 DEF PaseInv, Interface
  <2>4. QED
    BY <2>2, <2>3
<1>8. CASE Call
  <2>1. UNCHANGED <<node, isPase, calls, starts, id, syms>> /\ pc' \in {"copyBack", "done"}
        /\ at' = 1 /\ pase' \in {0, pase}
    BY <1>8 DEF Call, request, Fail
  <2>2. Typed' /\ Flow'
    BY <2>1, <1>0 DEF Typed, Flow, Pcs, Before, Number
  <2>3. PaseInv'
    BY <2>1 DEF PaseInv
  <2>4. QED
    BY <2>2, <2>3
<1>9. CASE CopyBackArg
  <2>1. UNCHANGED <<node, isPase, calls, pase, starts, id, syms, pc>> /\ pc = "copyBack"
        /\ at <= Number /\ at' = at + 1
    BY <1>9 DEF CopyBackArg, request, job
  <2>2. Typed' /\ Flow'
    BY <2>1, <1>0 DEF Typed, Flow, Pcs, Before, Number
  <2>3. PaseInv'
    BY <2>1 DEF PaseInv
  <2>4. QED
    BY <2>2, <2>3
<1>10. CASE ReturnBack
  <2>1. UNCHANGED <<node, isPase, at, calls, pase, starts, id, syms>> /\ pc' = "done"
    BY <1>10 DEF ReturnBack, request, job
  <2>2. Typed' /\ Flow'
    BY <2>1, <1>0 DEF Typed, Flow, Pcs, Before, Number
  <2>3. PaseInv'
    BY <2>1 DEF PaseInv
  <2>4. QED
    BY <2>2, <2>3
<1>11. CASE NextNode
  <2>1. UNCHANGED <<pase, starts, id, syms>> /\ node' \in Nodes /\ pc' = "init" /\ at' = 1
        /\ isPase' = FALSE /\ fr' = Clean /\ calls' = calls + 1 /\ calls < MaxCalls
    BY <1>11, CallAssumption DEF NextNode, job
  <2>2. Number' \in Nat
    BY <2>1, CallAssumption DEF Number
  <2>3. Typed'
    <3>1. at' \in 1 .. Number' + 1 /\ calls' \in 1 .. MaxCalls /\ pc' \in Pcs
      <4>1. calls \in 1 .. MaxCalls
        BY DEF Typed
      <4>2. calls + 1 \in 1 .. MaxCalls
        BY <4>1, <2>1, Limits
      <4>3. 1 \in 1 .. Number' + 1 /\ "init" \in Pcs
        <5>1. \A n \in Nat : 1 \in 1 .. n + 1
          OBVIOUS
        <5>2. QED
          BY <5>1, <2>2, Zenon DEF Pcs
      <4>4. QED
        BY <4>2, <4>3, <2>1, Zenon
    <3>2. isPase' \in BOOLEAN
      BY <2>1, Zenon
    <3>3. QED
      BY <2>1, <3>1, <3>2, Zenon DEF Typed
  <2>a. Flow'
    BY <2>1, <2>2 DEF Flow, Before
  <2>4. PaseInv'
    BY <2>1, CallAssumption DEF PaseInv, Typed
  <2>5. QED
    BY <2>3, <2>4, <2>a
<1>12. CASE UNCHANGED vars
  <2>1. Typed' /\ Flow'
    BY <1>12 DEF vars, request, Typed, Flow, Pcs, Before, Number, NeedsPase
  <2>2. PaseInv'
    BY <1>12 DEF vars, request, job, PaseInv, Interface
  <2>3. QED
    BY <2>1, <2>2
<1>13. QED
  BY <1>1, <1>2, <1>3, <1>4, <1>5, <1>6, <1>7, <1>8, <1>9, <1>10, <1>11, <1>12 DEF CallNext

\* and so holds always.
LEMMA StateAlways == CallSpec => []StateInv
<1>1. StateInv /\ [CallNext]_vars => StateInv'
  BY StateStep
<1>2. QED
  BY <1>1, StateBegins, PTL DEF CallSpec

-----------------------------------------------------------------------------
(* The calls *)

\* Only a node whose arguments were all made without an error gets to the call;
\* the direct call has no argument by value, no result and no more arguments than
\* ILE takes; and in the first PASE of the job the symbol is one of that PASE.
THEOREM CallsAreGood == CallSpec => []CallIsGood
<1>1. StateInv => CallIsGood
  <2> SUFFICES ASSUME StateInv PROVE CallIsGood
    OBVIOUS
  <2>1. CalledOnlyIfMade
    BY DEF StateInv, Flow, CalledOnlyIfMade
  <2>2. InterfaceCanPass
    <3> SUFFICES ASSUME pc = "call", ~ isPase
                 PROVE  /\ Number <= MaxArgs
                        /\ \A i \in 1 .. Number : ~ ByValue(node.parms[i], FALSE)
                        /\ node.func => node.return = "none"
      BY DEF InterfaceCanPass
    <3>1. ~ NeedsPase
      BY DEF StateInv, Flow, Before
    <3>2. Number \in Nat
      BY NumberIs DEF StateInv, Typed
    <3>3. ~ (Number > MaxArgs)
      BY <3>1 DEF NeedsPase
    <3>4. Number <= MaxArgs
      BY <3>2, <3>3, Limits
    <3>5. QED
      BY <3>1, <3>4, Zenon DEF NeedsPase
  <2>3. SymbolIsLive
    <3> SUFFICES ASSUME pc = "call", isPase, starts = 1
                 PROVE  pase = 1 /\ id = 1 /\ syms[Interface] = 1
      BY DEF SymbolIsLive
    <3>1. pase \in {0, 1} /\ pase # 0 /\ id \in 0 .. 1 /\ id # 0 /\ syms[Interface] # 0
      BY DEF StateInv, PaseInv
    <3>2. Interface \in {"_PGMCALL", "_ILECALL"}
      BY DEF Interface
    <3>3. syms[Interface] \in 0 .. 1
      BY <3>1, <3>2 DEF StateInv, PaseInv
    <3>4. QED
      BY <3>1, <3>3
  <2>4. QED
    BY <2>1, <2>2, <2>3 DEF CallIsGood
<1>2. QED
  BY <1>1, StateAlways, PTL

-----------------------------------------------------------------------------
(* The list *)

\* A parameter's signature is one of these, and ARG_END that of an output only.
LEMMA SigIs ==
  ASSUME NEW a \in Params
  PROVE  Signature(a) \in Sigs /\ (Signature(a) = ARG_END => a.type = "uint" /\ a.io = "out")
<1>1. a.type \in Scalars \cup {"ds"}
  BY ParamType
<1>2. Signature(a) \in Sigs
  BY <1>1 DEF Signature, Sigs, Scalars, ARG_END
<1>3. Signature(a) = ARG_END => a.type = "uint" /\ Io(a, "both") = "out"
  BY <1>1 DEF Signature, Scalars, ARG_END
<1>4. QED
  BY <1>2, <1>3 DEF Io

\* The empty list is good.
LEMMA NoList == Number \in Nat => GoodList(<<>>)
<1> SUFFICES ASSUME Number \in Nat PROVE GoodList(<<>>)
  OBVIOUS
<1>1. <<>> \in Seq(Item) /\ Len(<<>>) = 0
  OBVIOUS
<1>2. EndOf(<<>>) = 0
  BY DEF EndOf
<1>3. Up16(0) = 0
  BY DEF Up16, AlignPadding, Boundary
<1>4. \A f : Sums(f) => Up16(EndOf(<<>>)) + 16 <= f[0]
  BY <1>2, <1>3 DEF Sums
<1>5. QED
  BY <1>1, <1>4 DEF GoodList

\* One more argument keeps it good.
LEMMA MoreList ==
  ASSUME PointersAre16, node.parms \in Seq(Params), Number \in Nat,
         \A i \in 1 .. Number : Taken(node.parms[i]),
         NEW l, GoodList(l), NEW k \in 1 .. Number, Len(l) = k - 1
  PROVE  LET a == node.parms[k] IN
         GoodList(Append(l, [at |-> Place(a, EndOf(l)), width |-> Width(a), sig |-> Signature(a)]))
<1> DEFINE a == node.parms[k]
           end == EndOf(l)
           item == [at |-> Place(a, end), width |-> Width(a), sig |-> Signature(a)]
           m == Append(l, item)
<1>1. a \in Params /\ Taken(a)
  BY DEF Number
<1>2. l \in Seq(Item) /\ \A i \in 1 .. Len(l) : InPlace(l, i)
  BY DEF GoodList
<1>3. end \in Nat
  <2>1. CASE l = <<>>
    BY <2>1 DEF EndOf
  <2>2. CASE l # <<>>
    <3>1. l[Len(l)] \in Item
      BY <1>2, <2>2
    <3>2. l[Len(l)].at \in Nat /\ l[Len(l)].width \in Nat
      BY <3>1 DEF Item
    <3>3. QED
      BY <2>2, <3>2 DEF EndOf
  <2>3. QED
    BY <2>1, <2>2
<1> HIDE DEF end, a
<1>4. /\ Place(a, end) \in Nat /\ Width(a) \in Nat \ {0} /\ Added(a) \in Nat
      /\ Place(a, end) % Unit(a) = 0
      /\ end <= Place(a, end) /\ Place(a, end) < end + Unit(a)
      /\ Up16(Place(a, end) + Width(a)) <= Up16(end) + Added(a)
  BY <1>1, <1>3, Placed
<1>5. Signature(a) \in Sigs /\ (Signature(a) = ARG_END => a.type = "uint" /\ a.io = "out")
  BY <1>1, SigIs
<1>6. item \in Item /\ item.at = Place(a, end) /\ item.width = Width(a) /\ item.sig = Signature(a)
  BY <1>4, <1>5 DEF Item
<1> HIDE DEF item
<1>7. /\ m \in Seq(Item) /\ Len(m) = k /\ m[k] = item /\ \A i \in 1 .. k - 1 : m[i] = l[i]
  BY <1>2, <1>6
<1> HIDE DEF m
<1>8. ASSUME NEW i \in 1 .. k PROVE InPlace(m, i)
  <2>1. CASE i = k
    <3>1. end = IF k = 1 THEN 0 ELSE l[k - 1].at + l[k - 1].width
      <4>1. CASE k = 1
        BY <4>1, <1>2 DEF end, EndOf
      <4>2. CASE k # 1
        <5>1. l # <<>>
          BY <4>2, <1>2
        <5>2. QED
          BY <4>2, <5>1 DEF end, EndOf
      <4>3. QED
        BY <4>1, <4>2
    <3>2. end = IF k = 1 THEN 0 ELSE m[k - 1].at + m[k - 1].width
      <4>1. k # 1 => k - 1 \in 1 .. k - 1
        OBVIOUS
      <4>2. QED
        BY <3>1, <4>1, <1>7
    <3>3. QED
      BY <2>1, <3>2, <1>4, <1>5, <1>6, <1>7 DEF InPlace, a
  <2>2. CASE i \in 1 .. k - 1
    <3>1. InPlace(l, i)
      BY <2>2, <1>2
    <3>2. m[i] = l[i] /\ (i # 1 => m[i - 1] = l[i - 1])
      BY <2>2, <1>7
    <3>3. QED
      BY <3>1, <3>2 DEF InPlace
  <2>3. QED
    BY <2>1, <2>2
<1>9. ASSUME NEW f, Sums(f) PROVE Up16(EndOf(m)) + 16 <= f[k]
  <2>1. Up16(end) + 16 <= f[k - 1]
    BY <1>9 DEF GoodList, end
  <2>2. f[k] = f[k - 1] + Added(a) /\ f[k - 1] \in Int
    BY <1>9 DEF Sums, a
  <2>3. EndOf(m) = Place(a, end) + Width(a)
    <3>1. m # <<>>
      BY <1>7
    <3>2. QED
      BY <3>1, <1>6, <1>7 DEF EndOf
  <2>4. Up16(end) \in Nat /\ Up16(Place(a, end) + Width(a)) \in Nat
    <3> DEFINE n == Place(a, end) + Width(a)
    <3>1. n \in Nat
      BY <1>4
    <3> HIDE DEF n
    <3>2. Up16(end) \in Nat /\ Up16(n) \in Nat
      BY <3>1, <1>3, Up16Is
    <3>3. QED
      BY <3>2 DEF n
  <2>5. QED
    BY <2>1, <2>2, <2>3, <2>4, <1>4
<1>10. GoodList(m)
  BY <1>7, <1>8, <1>9 DEF GoodList
<1>11. QED
  BY <1>10 DEF m, item, end, a

\* Room is the last of the sums, and they grow.
LEMMA RoomIs ==
  ASSUME PointersAre16, node.parms \in Seq(Params), Number \in Nat,
         \A i \in 1 .. Number : Taken(node.parms[i])
  PROVE  \E f : /\ Sums(f) /\ Room = f[Number]
                /\ \A i, j \in 0 .. Number : i <= j => f[i] <= f[j]
<1> DEFINE n == Number
           d == [i \in Nat |-> IF i \in 1 .. n THEN Added(node.parms[i]) ELSE 0]
           step == [i \in Nat |-> [q \in Int |-> q + d[i]]]
<1>1. \A i \in 1 .. n : Added(node.parms[i]) \in Nat
  <2> SUFFICES ASSUME NEW i \in 1 .. n PROVE Added(node.parms[i]) \in Nat
    OBVIOUS
  <2>1. node.parms[i] \in Params /\ Taken(node.parms[i]) /\ 0 \in Nat
    BY DEF Number
  <2>2. QED
    BY <2>1, Placed
<1>2. d \in [Nat -> Nat]
  BY <1>1
<1> HIDE DEF d
<1>3. step \in [Nat -> [Int -> Int]] /\ \A i \in Nat, q \in Int : step[i][q] = q + d[i]
  BY <1>2
<1> HIDE DEF step
<1>4. Iterates(Int, 16, step, n)
  <2> DEFINE Y == Int base == 16
  <2>a. base \in Y
    OBVIOUS
  <2>b. step \in [Nat -> [Y -> Y]]
    BY <1>3, Zenon
  <2>1. base \in Y /\ step \in [Nat -> [Y -> Y]]
    BY <2>a, <2>b
  <2> HIDE DEF Y, base
  <2>2. Iterates(Y, base, step, n)
    BY <2>1, Iteration
  <2>3. QED
    BY <2>2 DEF Y, base
<1>5. PICK f \in [0 .. n -> Int] : f[0] = 16 /\ \A i \in 1 .. n : f[i] = step[i][f[i - 1]]
  BY <1>4 DEF Iterates
<1>6. \A i \in 1 .. n : f[i] = f[i - 1] + Added(node.parms[i]) /\ f[i - 1] \in Int
  <2> SUFFICES ASSUME NEW i \in 1 .. n
               PROVE  f[i] = f[i - 1] + Added(node.parms[i]) /\ f[i - 1] \in Int
    OBVIOUS
  <2>1. f[i - 1] \in Int /\ i \in Nat
    BY <1>5
  <2>2. d[i] = Added(node.parms[i])
    BY DEF d
  <2>3. QED
    BY <2>1, <2>2, <1>3, <1>5
<1>7. Sums(f)
  BY <1>5, <1>6 DEF Sums
<1>8. \A i, j \in 0 .. n : i <= j => f[i] <= f[j]
  <2> DEFINE S == {j \in Nat : \A i \in 0 .. n : i <= j /\ j <= n => f[i] <= f[j]}
  <2>1. 0 \in S
    BY <1>5
  <2>2. ASSUME NEW j \in Nat, j \in S PROVE j + 1 \in S
    <3> SUFFICES ASSUME NEW i \in 0 .. n, i <= j + 1, j + 1 <= n PROVE f[i] <= f[j + 1]
      OBVIOUS
    <3>1. f[i] \in Int /\ f[j] \in Int /\ f[j + 1] \in Int
      BY <1>5
    <3>2. f[j + 1] >= f[j]
      <4> DEFINE k == j + 1
      <4>1. k \in 1 .. n /\ k - 1 = j
        OBVIOUS
      <4> HIDE DEF k
      <4>2. f[k] = f[j] + Added(node.parms[k]) /\ Added(node.parms[k]) \in Nat
        BY <4>1, <1>1, <1>6
      <4>3. f[k] >= f[j]
        BY <4>2, <3>1
      <4>4. QED
        BY <4>3 DEF k
    <3>3. CASE i = j + 1
      BY <3>3, <3>1
    <3>4. CASE i <= j
      <4>1. f[i] <= f[j]
        BY <2>2, <3>4
      <4>2. QED
        BY <4>1, <3>1, <3>2
    <3>5. QED
      BY <3>3, <3>4
  <2> HIDE DEF S
  <2>3. Nat \subseteq S
    BY <2>1, <2>2, Induction
  <2>4. QED
    BY <2>3 DEF S
<1>9. Room = f[Number]
  <2> DEFINE F(g) == [i \in 0 .. n |-> IF i = 0 THEN 16
                        ELSE g[i - 1] + 16
                               + (IF ByValue(node.parms[i], FALSE) THEN Bytes(node.parms[i]) ELSE 0)]
             h == CHOOSE g : g = F(g)
  <2>1. ASSUME NEW i \in 1 .. n
        PROVE  f[i] = f[i - 1] + 16
                 + (IF ByValue(node.parms[i], FALSE) THEN Bytes(node.parms[i]) ELSE 0)
    <3> DEFINE b == IF ByValue(node.parms[i], FALSE) THEN Bytes(node.parms[i]) ELSE 0
    <3>1. f[i] = f[i - 1] + (16 + b) /\ f[i - 1] \in Int /\ b \in Int
      <4>1. f[i] = f[i - 1] + (16 + b) /\ f[i - 1] \in Int
        BY <1>6 DEF Added
      <4>2. node.parms[i] \in Params /\ Taken(node.parms[i])
        BY DEF Number
      <4> DEFINE a == node.parms[i]
      <4>3. ASSUME ByValue(a, FALSE) PROVE Bytes(a) \in Int
        <5> HIDE DEF a
        <5>1. a \in Params /\ Taken(a)
          BY <4>2 DEF a
        <5>2. Bytes(a) \in Nat \ {0}
          BY <5>1, <4>3, TakenSize
        <5>3. QED
          BY <5>2
      <4>4. b \in Int
        <5>1. CASE ByValue(a, FALSE)
          BY <5>1, <4>3
        <5>2. CASE ~ ByValue(a, FALSE)
          BY <5>2
        <5>3. QED
          BY <5>1, <5>2
      <4>5. QED
        BY <4>1, <4>4
    <3> HIDE DEF b
    <3>2. f[i] = f[i - 1] + 16 + b
      BY <3>1
    <3>3. QED
      BY <3>2 DEF b
  <2>2. f = F(f)
    <3>1. f = [i \in 0 .. n |-> f[i]]
      BY <1>5
    <3>2. \A i \in 0 .. n : i = 0 \/ i \in 1 .. n
      OBVIOUS
    <3>3. \A i \in 0 .. n : f[i] = IF i = 0 THEN 16 ELSE f[i - 1] + 16
            + (IF ByValue(node.parms[i], FALSE) THEN Bytes(node.parms[i]) ELSE 0)
      BY <3>2, <2>1, <1>5
    <3>4. QED
      BY <3>1, <3>3
  <2>3. h = F(h)
    BY <2>2
  <2>4. h = f
    <3> DEFINE S == {i \in Nat : i <= n => h[i] = f[i]}
    <3>1. 0 \in S
      <4>1. F(h)[0] = 16
        OBVIOUS
      <4>2. h[0] = 16
        BY <2>3, <4>1
      <4>3. QED
        BY <4>2, <1>5
    <3>2. ASSUME NEW i \in Nat, i \in S PROVE i + 1 \in S
      <4> SUFFICES ASSUME i + 1 <= n PROVE h[i + 1] = f[i + 1]
        OBVIOUS
      <4> DEFINE k == i + 1
      <4>1. k \in 1 .. n /\ k - 1 = i /\ h[i] = f[i]
        BY <3>2
      <4>2. h[k] = h[k - 1] + 16
              + (IF ByValue(node.parms[k], FALSE) THEN Bytes(node.parms[k]) ELSE 0)
        <5> HIDE DEF h
        <5>1. k \in 0 .. n /\ k # 0
          BY <4>1
        <5> HIDE DEF k
        <5>2. F(h)[k] = h[k - 1] + 16
              + (IF ByValue(node.parms[k], FALSE) THEN Bytes(node.parms[k]) ELSE 0)
          BY <5>1
        <5>3. h[k] = F(h)[k]
          BY <2>3
        <5>4. QED
          BY <5>2, <5>3
      <4> HIDE DEF k, h
      <4>3. h[k] = f[k]
        BY <4>1, <4>2, <2>1
      <4>4. QED
        BY <4>3 DEF k
    <3> HIDE DEF S
    <3>3. Nat \subseteq S
      BY <3>1, <3>2, Induction
    <3>4. \A i \in 0 .. n : h[i] = f[i]
      <4> HIDE DEF h, n
      <4>1. \A i \in 0 .. n : i \in Nat /\ i <= n
        OBVIOUS
      <4>2. QED
        BY <3>3, <4>1 DEF S
    <3>5. h = [i \in 0 .. n |-> h[i]] /\ f = [i \in 0 .. n |-> f[i]]
      <4>1. F(h) = [i \in 0 .. n |-> F(h)[i]]
        OBVIOUS
      <4>2. QED
        BY <4>1, <2>3, <1>5
    <3> HIDE DEF h
    <3>6. QED
      BY <3>4, <3>5
  <2>5. Room = h[n]
    BY Zenon DEF Room
  <2>6. QED
    BY <2>4, <2>5
<1>10. QED
  BY <1>7, <1>8, <1>9

\* There is no list at the start.
LEMMA ListBegins == CallInit => ListInv
<1> SUFFICES ASSUME CallInit PROVE ListInv
  OBVIOUS
<1>1. list = <<>> /\ pc = "init"
  BY DEF CallInit
<1>2. GoodList(<<>>)
  BY NoList, NumberIs DEF CallInit
<1>3. QED
  BY <1>1, <1>2 DEF ListInv

\* Every step keeps the list in order.
LEMMA ListStep ==
  ASSUME PointersAre16, StateInv, ListInv, [CallNext]_vars
  PROVE  ListInv'
<1>0. node \in Nodes /\ node.parms \in Seq(Params) /\ Number \in Nat
  BY NumberIs DEF StateInv, Typed
<1>a. ASSUME UNCHANGED <<node, list>> PROVE GoodList(list)'
  <2>1. GoodList(list)
    BY DEF ListInv
  <2>2. \A f : Sums(f)' => Sums(f)
    BY <1>a DEF Sums, Number
  <2>3. QED
    BY <1>a, <2>1, <2>2 DEF GoodList, InPlace, Number
<1>b. ASSUME UNCHANGED <<node, isPase, list>>,
             pc' \in {"init", "create"} => list = <<>>,
             pc' = "copyIn" => (pc = "create" /\ at' = 1) \/ (pc = "copyIn" /\ UNCHANGED at),
             pc' \in {"start", "symbol", "resolve", "call"} /\ fr'.code = OK =>
               \/ pc \in {"start", "symbol", "resolve", "call"} /\ fr.code = OK
               \/ pc = "copyIn" /\ at > Number
      PROVE  ListInv'
  <2>1. GoodList(list)'
    BY <1>a, <1>b
  <2>2. list' # <<>> => isPase' /\ node'.func /\ \A i \in 1 .. Number' : Taken(node'.parms[i])
    BY <1>b DEF ListInv, Number
  <2>3. ASSUME isPase', node'.func, pc' = "copyIn" PROVE Len(list') = at' - 1
    <3>1. CASE pc = "create" /\ at' = 1
      <4>1. list = <<>>
        BY <3>1 DEF ListInv
      <4>2. QED
        BY <4>1, <3>1, <1>b
    <3>2. CASE pc = "copyIn" /\ UNCHANGED at
      BY <3>2, <2>3, <1>b DEF ListInv
    <3>3. QED
      BY <3>1, <3>2, <2>3, <1>b
  <2>4. ASSUME isPase', node'.func, pc' \in {"start", "symbol", "resolve", "call"}, fr'.code = OK
        PROVE  Len(list') = Number'
    <3>1. CASE pc = "copyIn" /\ at > Number
      <4>1. Len(list) = at - 1 /\ at \in 1 .. Number + 1
        BY <3>1, <2>4, <1>b DEF ListInv, StateInv, Typed
      <4>2. Len(list) = Number
        BY <4>1, <3>1, <1>0
      <4>3. QED
        BY <4>2, <1>b DEF Number
    <3>2. CASE pc \in {"start", "symbol", "resolve", "call"} /\ fr.code = OK
      <4>1. Len(list) = Number
        BY <3>2, <2>4, <1>b DEF ListInv
      <4>2. QED
        BY <4>1, <1>b DEF Number
    <3>3. QED
      BY <3>1, <3>2, <2>4, <1>b
  <2>5. pc' \in {"init", "create"} => list' = <<>>
    BY <1>b
  <2>6. QED
    BY <2>1, <2>2, <2>3, <2>4, <2>5 DEF ListInv
<1>1. CASE InitProgram
  <2>1. list = <<>> /\ UNCHANGED <<node, list>> /\ pc' \in {"done", "create"}
    BY <1>1 DEF InitProgram, args, Fail, ListInv
  <2>2. GoodList(list)'
    BY <1>a, <2>1
  <2>3. QED
    BY <2>1, <2>2 DEF ListInv
<1>2. CASE Create
  <2>1. UNCHANGED <<node, isPase, list, at>> /\ pc = "create" /\ at = 1 /\ fr = Clean
    BY <1>2 DEF Create, request, args, StateInv, Flow
  <2>2. pc' = "copyIn" \/ (pc' = "start" /\ fr'.code # OK)
    BY <1>2, <2>1, Reports DEF Create, OK
  <2>3. QED
    BY <2>1, <2>2, <1>b
<1>3. CASE CopyInArg
  <2>1. /\ pc = "copyIn" /\ at \in 1 .. Number /\ fr = Clean /\ UNCHANGED <<node, isPase>>
        /\ \A i \in 1 .. Number : Taken(node.parms[i])
    <3>1. pc = "copyIn" /\ at <= Number /\ UNCHANGED <<node, isPase>>
      BY <1>3 DEF CopyInArg, request
    <3>2. at \in 1 .. Number
      BY <3>1, <1>0 DEF StateInv, Typed
    <3>3. QED
      BY <3>1, <3>2 DEF StateInv, Flow, Before
  <2>2. CASE UNCHANGED <<list, at>> /\ pc' = "start" /\ fr'.code # OK
    BY <2>1, <2>2, <1>b
  <2>3. CASE ~ (isPase /\ node.func) /\ UNCHANGED list /\ at' = at + 1 /\ UNCHANGED <<pc, fr>>
    <3>1. GoodList(list)'
      BY <1>a, <2>1, <2>3
    <3>2. list = <<>>
      BY <2>3 DEF ListInv
    <3>3. QED
      BY <2>1, <2>3, <3>1, <3>2 DEF ListInv
  <2>4. CASE /\ isPase /\ node.func /\ at' = at + 1 /\ UNCHANGED <<pc, fr>>
             /\ LET a == node.parms[at] IN
                list' = Append(list, [at |-> Place(a, End), width |-> Width(a), sig |-> Signature(a)])
    <3> DEFINE a == node.parms[at]
               more == Append(list, [at |-> Place(a, EndOf(list)), width |-> Width(a), sig |-> Signature(a)])
    <3>1. End = EndOf(list)
      BY DEF End, EndOf
    <3>2. list' = more
      BY <2>4, <3>1
    <3>3. GoodList(list) /\ Len(list) = at - 1
      BY <2>1, <2>4 DEF ListInv
    <3>4. GoodList(more)
      BY <2>1, <3>3, <1>0, MoreList
    <3>5. Len(list') = at
      <4>1. list \in Seq(Item)
        BY <3>3 DEF GoodList
      <4>2. Len(more) = Len(list) + 1
        BY <4>1
      <4> HIDE DEF more
      <4>3. QED
        BY <3>2, <3>3, <4>2, <2>1, <1>0
    <3> HIDE DEF more
    <3>6. GoodList(list)'
      <4>1. GoodList(more)'  = GoodList(more)' /\ \A f : Sums(f)' => Sums(f)
        BY <2>1 DEF Sums, Number
      <4>2. QED
        BY <2>1, <3>2, <3>4, <4>1 DEF GoodList, InPlace, Number
    <3>7. Len(list') = at' - 1
      BY <3>5, <2>1, <2>4, <1>0
    <3>8. QED
      BY <2>1, <2>4, <3>6, <3>7 DEF ListInv, Number
  <2>5. QED
    BY <1>3, <2>1, <2>2, <2>3, <2>4, Reports DEF CopyInArg, OK
<1>4. CASE AllCopied
  BY <1>4, <1>b DEF AllCopied, request, args
<1>5. CASE StartCall
  BY <1>5, <1>b DEF StartCall, request, args, Fail
<1>6. CASE FindSymbol
  BY <1>6, <1>b DEF FindSymbol, request, args, Fail
<1>7. CASE Resolve
  BY <1>7, <1>b DEF Resolve, request, args, Fail
<1>8. CASE Call
  <2>1. UNCHANGED <<node, isPase, list>> /\ pc' \in {"copyBack", "done"}
    BY <1>8 DEF Call, request, Fail
  <2>2. QED
    BY <2>1, <1>b
<1>9. CASE CopyBackArg
  <2>1. UNCHANGED <<node, isPase, list>> /\ pc' = "copyBack"
    BY <1>9 DEF CopyBackArg, request, args
  <2>2. QED
    BY <2>1, <1>b
<1>10. CASE ReturnBack
  BY <1>10, <1>b DEF ReturnBack, request, args
<1>11. CASE NextNode
  <2>1. node' \in Nodes /\ list' = <<>> /\ pc' = "init"
    BY <1>11, CallAssumption DEF NextNode
  <2>2. Number' \in Nat
    BY <2>1, CallAssumption DEF Number
  <2>3. GoodList(<<>>)'
    <3>1. (Number \in Nat => GoodList(<<>>))'
      BY NoList, PTL
    <3>2. QED
      BY <2>2, <3>1
  <2>4. GoodList(list)'
    BY <2>1, <2>3 DEF GoodList, InPlace, EndOf
  <2>5. QED
    BY <2>1, <2>4 DEF ListInv
<1>12. CASE UNCHANGED vars
  BY <1>12, <1>b DEF vars, request, args, ListInv
<1>13. QED
  BY <1>1, <1>2, <1>3, <1>4, <1>5, <1>6, <1>7, <1>8, <1>9, <1>10, <1>11, <1>12 DEF CallNext

\* The callee finds the arguments of _ILECALL in order, each at a multiple of its
\* size behind the one before (Arguments::create).  The list may be longer than
\* the memory that was allocated for it, but by 16 bytes at most.
THEOREM ListsAreLaidOut == PointersAre16 => (CallSpec => [](ListInOrder /\ ListOverrun))
<1> SUFFICES ASSUME PointersAre16 PROVE CallSpec => [](ListInOrder /\ ListOverrun)
  OBVIOUS
<1>1. StateInv /\ ListInv => ListInOrder /\ ListOverrun
  <2> SUFFICES ASSUME StateInv, ListInv PROVE ListInOrder /\ ListOverrun
    OBVIOUS
  <2>0. node \in Nodes /\ node.parms \in Seq(Params) /\ Number \in Nat
    BY NumberIs DEF StateInv, Typed
  <2>1. ListInOrder
    <3> SUFFICES ASSUME pc = "call", isPase, node.func
                 PROVE  Len(list) = Number /\ \A i \in 1 .. Number : InPlace(list, i)
      BY Zenon DEF ListInOrder, InPlace, Unit
    <3>1. Len(list) = Number
      BY DEF ListInv, StateInv, Flow, Clean
    <3>2. \A i \in 1 .. Len(list) : InPlace(list, i)
      BY DEF ListInv, GoodList
    <3>3. QED
      BY <3>1, <3>2
  <2>2. ListOverrun
    <3> SUFFICES ASSUME isPase, node.func, list # <<>> PROVE Base + End <= Room + 16
      BY DEF ListOverrun
    <3>1. \A i \in 1 .. Number : Taken(node.parms[i])
      BY DEF ListInv
    <3>2. PICK f : /\ Sums(f) /\ Room = f[Number]
                   /\ \A i, j \in 0 .. Number : i <= j => f[i] <= f[j]
      BY <2>0, <3>1, RoomIs
    <3>3. /\ list \in Seq(Item) /\ Len(list) <= Number /\ Up16(EndOf(list)) + 16 <= f[Len(list)]
      BY <3>2 DEF ListInv, GoodList
    <3>4. f[Len(list)] <= Room /\ f[Len(list)] \in Int /\ Room \in Int
      <4>1. Len(list) \in 0 .. Number /\ Number \in 0 .. Number
        BY <3>3, <2>0
      <4>2. QED
        BY <4>1, <3>2, <3>3 DEF Sums
    <3>5. End \in Nat /\ End = EndOf(list)
      <4>1. list[Len(list)] \in Item
        BY <3>3
      <4>2. list[Len(list)].at \in Nat /\ list[Len(list)].width \in Nat
        BY <4>1 DEF Item
      <4>3. QED
        BY <4>2 DEF End, EndOf
    <3>6. End <= Up16(End) /\ Up16(End) \in Nat
      BY <3>5, Up16Is
    <3>7. QED
      BY <3>3, <3>4, <3>5, <3>6 DEF Base
  <2>3. QED
    BY <2>1, <2>2
<1>2. StateInv /\ ListInv /\ [CallNext]_vars => ListInv'
  BY ListStep
<1>3. QED
  BY <1>1, <1>2, ListBegins, StateAlways, PTL DEF CallSpec

-----------------------------------------------------------------------------
(* Parameters within parameters: offsets and what is accepted *)

\* The bounds of what a parameter may be.
LEMMA DepthIs == MaxDepth \in Nat /\ MaxDepth # 0 /\ PtrSize \in Nat /\ PtrSize # 0
  BY ArgumentsAssumption

\* One more layer of structures.
LEMMA NestedSteps ==
  /\ Nested[0] = {}
  /\ \A k \in Nat : k + 1 <= MaxDepth => Nested[k + 1] = ParamOf(Nested[k])
<1>1. Nested[0] = {}
  BY NestedIs, DepthIs
<1>2. ASSUME NEW k \in Nat, k + 1 <= MaxDepth PROVE Nested[k + 1] = ParamOf(Nested[k])
  <2> DEFINE m == k + 1
  <2>1. m \in 0 .. MaxDepth /\ m # 0 /\ m - 1 = k
    BY <1>2, DepthIs
  <2> HIDE DEF m
  <2>2. Nested[m] = ParamOf(Nested[m - 1])
    BY <2>1, NestedIs
  <2> QED
    BY <2>1, <2>2 DEF m
<1> QED
  BY <1>1, <1>2

\* What is known of a parameter with entries in S.
LEMMA ParamFields ==
  ASSUME NEW S, NEW a \in ParamOf(S)
  PROVE  /\ a.type \in Scalars \cup {"ds"} /\ a.n \in Int
         /\ a.by \in {"none", "ref", "val", "other"} /\ a.io \in Ways \cup {"none"}
         /\ a.value \in Values /\ a.entries \in Seq(S)
  BY DEF ParamOf

\* With more entries to choose from there are more parameters.
LEMMA ParamOfGrows ==
  ASSUME NEW S, NEW T, S \subseteq T
  PROVE  ParamOf(S) \subseteq ParamOf(T)
<1>1. Seq(S) \subseteq Seq(T)
  OBVIOUS
<1> QED
  BY <1>1, Zenon DEF ParamOf

\* What has a layer is a parameter.
LEMMA NestedGrows == \A k \in Nat : k <= MaxDepth => Nested[k] \subseteq Params
<1> DEFINE Grown(k) == k + 1 <= MaxDepth => Nested[k] \subseteq Nested[k + 1]
           S == {k \in Nat : Grown(k)}
<1>1. 0 \in S
  BY NestedSteps
<1>2. ASSUME NEW k \in Nat, k \in S PROVE k + 1 \in S
  <2> DEFINE m == k + 1
  <2>1. m \in Nat
    OBVIOUS
  <2>2. ASSUME m + 1 <= MaxDepth PROVE Nested[m] \subseteq Nested[m + 1]
    <3>1. m <= MaxDepth /\ Nested[k] \subseteq Nested[m]
      BY <2>1, <2>2, <1>2, DepthIs
    <3>2. Nested[m] = ParamOf(Nested[k])
      BY <3>1, NestedSteps
    <3>3. Nested[m + 1] = ParamOf(Nested[m])
      BY <2>1, <2>2, NestedSteps
    <3> HIDE DEF m
    <3>4. ParamOf(Nested[k]) \subseteq ParamOf(Nested[m])
      BY <3>1, ParamOfGrows
    <3> QED
      BY <3>2, <3>3, <3>4
  <2>3. Grown(m)
    BY <2>2
  <2> HIDE DEF Grown
  <2> QED
    BY <2>1, <2>3
<1>3. \A k \in Nat : Grown(k)
  <2>1. Nat \subseteq S
    <3> HIDE DEF S
    <3> QED
      BY <1>1, <1>2, Induction
  <2> QED
    BY <2>1
<1> DEFINE Inside_(j) == j <= MaxDepth => Nested[MaxDepth - j] \subseteq Params
           R == {j \in Nat : Inside_(j)}
<1>4. 0 \in R
  BY DepthIs DEF Params
<1>5. ASSUME NEW j \in Nat, j \in R PROVE j + 1 \in R
  <2> DEFINE m == j + 1
  <2>1. ASSUME m <= MaxDepth PROVE Nested[MaxDepth - m] \subseteq Params
    <3> DEFINE k == MaxDepth - m
    <3>1. k \in Nat /\ k + 1 = MaxDepth - j /\ k + 1 <= MaxDepth /\ j <= MaxDepth
      BY <2>1, DepthIs
    <3> HIDE DEF k
    <3>2. Nested[k] \subseteq Nested[k + 1] /\ Nested[k + 1] \subseteq Params
      BY <3>1, <1>3, <1>5
    <3> QED
      BY <3>2 DEF k
  <2>2. m \in Nat /\ Inside_(m)
    BY <2>1
  <2> HIDE DEF Inside_
  <2> QED
    BY <2>2
<1>6. \A j \in Nat : Inside_(j)
  <2>1. Nat \subseteq R
    <3> HIDE DEF R
    <3> QED
      BY <1>4, <1>5, Induction
  <2> QED
    BY <2>1
<1>7. ASSUME NEW k \in Nat, k <= MaxDepth PROVE Nested[k] \subseteq Params
  <2> DEFINE j == MaxDepth - k
  <2>1. j \in Nat /\ j <= MaxDepth /\ MaxDepth - j = k
    BY <1>7, DepthIs
  <2> HIDE DEF j
  <2>2. Nested[MaxDepth - j] \subseteq Params
    BY <2>1, <1>6
  <2> QED
    BY <2>1, <2>2
<1> QED
  BY <1>7

\* A parameter and its entries.
LEMMA ParamIs ==
  ASSUME NEW a \in Params
  PROVE  /\ a.type \in Scalars \cup {"ds"} /\ a.n \in Int
         /\ a.by \in {"none", "ref", "val", "other"} /\ a.io \in Ways \cup {"none"}
         /\ a.value \in Values /\ a.entries \in Seq(Params)
<1> DEFINE k == MaxDepth - 1
<1>1. k \in Nat /\ k + 1 = MaxDepth /\ k + 1 <= MaxDepth /\ k <= MaxDepth
  BY DepthIs
<1> HIDE DEF k
<1>2. Params = ParamOf(Nested[k]) /\ Nested[k] \subseteq Params
  BY <1>1, NestedSteps, NestedGrows DEF Params
<1>3. a \in ParamOf(Nested[k]) /\ ParamOf(Nested[k]) \subseteq ParamOf(Params)
  BY <1>2, ParamOfGrows
<1> QED
  BY <1>3, ParamFields

\* The entries of a parameter of a layer are of the layer below.
LEMMA EntriesBelow ==
  ASSUME NEW k \in Nat, k + 1 <= MaxDepth, NEW a \in Nested[k + 1]
  PROVE  /\ a \in Params /\ a.entries \in Seq(Nested[k]) /\ Len(a.entries) \in Nat
         /\ \A i \in 1 .. Len(a.entries) : a.entries[i] \in Nested[k] /\ a.entries[i] \in Params
<1>1. a \in ParamOf(Nested[k]) /\ Nested[k + 1] \subseteq Params
  BY NestedSteps, NestedGrows
<1>2. k <= MaxDepth /\ Nested[k] \subseteq Params
  BY NestedGrows, DepthIs
<1>3. a.entries \in Seq(Nested[k])
  BY <1>1, ParamFields
<1> QED
  BY <1>1, <1>2, <1>3

\* A fact about parameters that follows from it being so of their entries.
LEMMA OfAll ==
  ASSUME NEW S,
         \A a \in Params : (\A i \in 1 .. Len(a.entries) : a.entries[i] \in S) => a \in S
  PROVE  Params \subseteq S
<1> DEFINE Holds(k) == k <= MaxDepth => Nested[k] \subseteq S
           T == {k \in Nat : Holds(k)}
<1>1. 0 \in T
  BY NestedSteps
<1>2. ASSUME NEW k \in Nat, k \in T PROVE k + 1 \in T
  <2>1. ASSUME k + 1 <= MaxDepth, NEW a \in Nested[k + 1] PROVE a \in S
    <3>1. k <= MaxDepth /\ Nested[k] \subseteq S
      BY <2>1, <1>2, DepthIs
    <3>2. a \in Params /\ \A i \in 1 .. Len(a.entries) : a.entries[i] \in Nested[k]
      BY <2>1, EntriesBelow
    <3> QED
      BY <3>1, <3>2
  <2>2. Holds(k + 1)
    BY <2>1
  <2> HIDE DEF Holds
  <2> QED
    BY <2>2
<1>3. Nat \subseteq T
  <2> HIDE DEF T
  <2> QED
    BY <1>1, <1>2, Induction
<1>4. Holds(MaxDepth)
  <2> HIDE DEF Holds
  <2> QED
    BY <1>3, DepthIs
<1> QED
  BY <1>4, DepthIs DEF Params

\* The layers of things that are asked of parameters.
LEMMA Layers ==
  /\ \A a \in Params : a \notin Nested[0] /\ a \in Nested[MaxDepth]
  BY NestedSteps DEF Params

\* Functions with an offset for each of the entries, and the next one.
Offsetting ==
  {g \in [Params -> UNION {[0 .. n -> Int] : n \in Nat}] :
     \A a \in Params : g[a] \in [0 .. Len(a.entries) -> Int]}

\* What an entry takes, with the offsets of its own entries.
EntrySize(g, e) ==
  IF ~ ByValue(e, TRUE) THEN PtrSize
  ELSE IF e.type = "ds" THEN g[e][Len(e.entries)] ELSE ScalarBytes(e)

\* A scalar has a size.
LEMMA ScalarSize == \A a \in Params : ScalarBytes(a) \in Int
<1> SUFFICES ASSUME NEW a \in Params PROVE ScalarBytes(a) \in Int
  OBVIOUS
<1>1. a.n \in Int
  BY ParamIs
<1> QED
  BY <1>1 DEF ScalarBytes

\* So has an entry, whatever the offsets are.
LEMMA EntrySizeIs ==
  ASSUME NEW g \in Offsetting, NEW e \in Params
  PROVE  EntrySize(g, e) \in Int
<1>1. g[e] \in [0 .. Len(e.entries) -> Int] /\ Len(e.entries) \in Nat
  BY ParamIs DEF Offsetting
<1>2. g[e][Len(e.entries)] \in Int
  BY <1>1
<1>3. ScalarBytes(e) \in Int /\ PtrSize \in Int
  BY ScalarSize, DepthIs
<1> QED
  BY <1>2, <1>3, Zenon DEF EntrySize

\* The recursion over the entries.
LEMMA OffsetsAre ==
  ASSUME NEW g \in Offsetting, NEW a \in Params
  PROVE  /\ Offsets(g, a) \in [0 .. Len(a.entries) -> Int] /\ Offsets(g, a)[0] = 0
         /\ \A i \in 1 .. Len(a.entries) :
              Offsets(g, a)[i] = Offsets(g, a)[i - 1] + EntrySize(g, a.entries[i])
<1> DEFINE n == Len(a.entries)
           w == [i \in Nat |-> IF i \in 1 .. n THEN EntrySize(g, a.entries[i]) ELSE 0]
           step == [i \in Nat |-> [q \in Int |-> q + w[i]]]
           F(f) == [i \in 0 .. n |->
                      IF i = 0 THEN 0 ELSE f[i - 1] + EntrySize(g, a.entries[i])]
           h == CHOOSE f : f = F(f)
<1>1. n \in Nat /\ \A i \in 1 .. n : a.entries[i] \in Params
  BY ParamIs
<1>2. \A i \in 1 .. n : EntrySize(g, a.entries[i]) \in Int
  BY <1>1, EntrySizeIs
<1> HIDE DEF n
<1>3. w \in [Nat -> Int] /\ \A i \in 1 .. n : w[i] = EntrySize(g, a.entries[i])
  BY <1>1, <1>2
<1> HIDE DEF w
<1>4. step \in [Nat -> [Int -> Int]] /\ \A i \in Nat, q \in Int : step[i][q] = q + w[i]
  BY <1>3
<1> HIDE DEF step
<1>5. PICK f \in [0 .. n -> Int] : f[0] = 0 /\ \A i \in 1 .. n : f[i] = step[i][f[i - 1]]
  <2>1. Iterates(Int, 0, step, n)
    <3>1. 0 \in Int
      OBVIOUS
    <3> QED
      BY <1>1, <1>4, <3>1, Iteration
  <2> QED
    BY <2>1 DEF Iterates
<1>6. \A i \in 1 .. n : f[i - 1] \in Int /\ i \in Nat
  BY <1>1, <1>5
<1>7. \A i \in 1 .. n : f[i] = f[i - 1] + EntrySize(g, a.entries[i])
  <2> SUFFICES ASSUME NEW i \in 1 .. n
               PROVE  f[i] = f[i - 1] + EntrySize(g, a.entries[i])
    OBVIOUS
  <2>1. f[i] = step[i][f[i - 1]] /\ i \in Nat /\ f[i - 1] \in Int
    BY <1>5, <1>6
  <2>2. step[i][f[i - 1]] = f[i - 1] + w[i]
    BY <1>4, <2>1
  <2> QED
    BY <1>3, <2>1, <2>2
<1>8. f = F(f)
  <2>1. \A i \in 0 .. n : f[i] = IF i = 0 THEN 0 ELSE f[i - 1] + EntrySize(g, a.entries[i])
    BY <1>1, <1>5, <1>7
  <2> QED
    BY <1>5, <2>1
<1>9. h = F(h)
  <2> HIDE DEF F
  <2> QED
    BY <1>8, Zenon
<1>10. h[0] = 0 /\ \A i \in 1 .. n : h[i] = h[i - 1] + EntrySize(g, a.entries[i])
  <2>1. \A i \in 0 .. n : h[i] = IF i = 0 THEN 0 ELSE h[i - 1] + EntrySize(g, a.entries[i])
    <3> HIDE DEF h
    <3> QED
      BY <1>9
  <2> HIDE DEF h, F
  <2> QED
    BY <1>1, <2>1
<1>11. \A i \in Nat : i \in 0 .. n => h[i] \in Int
  <2> HIDE DEF h, F
  <2> DEFINE S == {i \in Nat : i \in 0 .. n => h[i] \in Int}
  <2>1. 0 \in S
    BY <1>10
  <2>2. ASSUME NEW i \in Nat, i \in S PROVE i + 1 \in S
    <3>1. ASSUME i + 1 \in 0 .. n PROVE h[i + 1] \in Int
      <4> DEFINE m == i + 1
      <4>1. m \in 1 .. n /\ m - 1 = i /\ i \in 0 .. n
        BY <1>1, <3>1
      <4> HIDE DEF m
      <4>2. h[m] = h[m - 1] + EntrySize(g, a.entries[m]) /\ EntrySize(g, a.entries[m]) \in Int
        BY <4>1, <1>2, <1>10
      <4>3. h[m - 1] \in Int
        BY <4>1, <2>2
      <4> QED
        BY <4>2, <4>3 DEF m
    <3> QED
      BY <3>1
  <2>3. Nat \subseteq S
    <3> HIDE DEF S
    <3> QED
      BY <2>1, <2>2, Induction
  <2> QED
    BY <2>3
<1>12. h \in [0 .. n -> Int]
  <2>1. h = [i \in 0 .. n |-> h[i]]
    <3> HIDE DEF h
    <3> QED
      BY <1>9
  <2> HIDE DEF h
  <2> QED
    BY <1>1, <1>11, <2>1
<1>13. Offsets(g, a) = h
  BY DEF Offsets, EntrySize, n
<1> HIDE DEF h
<1> QED
  BY <1>10, <1>12, <1>13 DEF n

\* They depend on the entries only.
LEMMA OffsetsSame ==
  ASSUME NEW g, NEW h, NEW a \in Params,
         \A i \in 1 .. Len(a.entries) : EntrySize(g, a.entries[i]) = EntrySize(h, a.entries[i])
  PROVE  Offsets(g, a) = Offsets(h, a)
<1> DEFINE n == Len(a.entries)
           F(f) == [i \in 0 .. n |->
                      IF i = 0 THEN 0 ELSE f[i - 1] + EntrySize(g, a.entries[i])]
           G(f) == [i \in 0 .. n |->
                      IF i = 0 THEN 0 ELSE f[i - 1] + EntrySize(h, a.entries[i])]
<1>1. n \in Nat
  BY ParamIs
<1>2. ASSUME NEW f PROVE F(f) = G(f)
  <2>1. \A i \in 1 .. n : EntrySize(g, a.entries[i]) = EntrySize(h, a.entries[i])
    OBVIOUS
  <2> HIDE DEF n
  <2>2. \A i \in 0 .. n :
          (IF i = 0 THEN 0 ELSE f[i - 1] + EntrySize(g, a.entries[i]))
            = (IF i = 0 THEN 0 ELSE f[i - 1] + EntrySize(h, a.entries[i]))
    BY <1>1, <2>1
  <2> QED
    BY <2>2
<1>3. (CHOOSE f : f = F(f)) = (CHOOSE f : f = G(f))
  <2> HIDE DEF F, G
  <2>1. \A f : f = F(f) <=> f = G(f)
    BY <1>2
  <2> QED
    BY <2>1, Zenon
<1>4. Offsets(g, a) = CHOOSE f : f = F(f)
  BY DEF Offsets, EntrySize
<1>5. Offsets(h, a) = CHOOSE f : f = G(f)
  BY DEF Offsets, EntrySize
<1> QED
  BY <1>3, <1>4, <1>5, Zenon

\* The offsets are those of the entries, with the offsets of theirs.
LEMMA OffsetIs == Offset \in Offsetting /\ Offset = [a \in Params |-> Offsets(Offset, a)]
<1> DEFINE F == [g \in Offsetting |-> [a \in Params |-> Offsets(g, a)]]
<1>1. ASSUME NEW g \in Offsetting PROVE [a \in Params |-> Offsets(g, a)] \in Offsetting
  <2> DEFINE f == [a \in Params |-> Offsets(g, a)]
  <2>1. \A a \in Params : f[a] \in [0 .. Len(a.entries) -> Int] /\ Len(a.entries) \in Nat
    <3> SUFFICES ASSUME NEW a \in Params
                 PROVE  f[a] \in [0 .. Len(a.entries) -> Int] /\ Len(a.entries) \in Nat
      OBVIOUS
    <3>1. f[a] = Offsets(g, a)
      OBVIOUS
    <3> QED
      BY <3>1, OffsetsAre, ParamIs
  <2>2. f = [a \in Params |-> f[a]]
    OBVIOUS
  <2> HIDE DEF f
  <2>3. f \in [Params -> UNION {[0 .. n -> Int] : n \in Nat}]
    BY <2>1, <2>2
  <2>4. f \in Offsetting
    BY <2>1, <2>3 DEF Offsetting
  <2> QED
    BY <2>4 DEF f
<1>2. F \in [Offsetting -> Offsetting] /\ \A g \in Offsetting : F[g] = [a \in Params |-> Offsets(g, a)]
  BY <1>1
<1> HIDE DEF F
<1>3. Offsetting # {}
  <2> DEFINE f == [a \in Params |-> [i \in 0 .. Len(a.entries) |-> 0]]
  <2>1. \A a \in Params : f[a] \in [0 .. Len(a.entries) -> Int] /\ Len(a.entries) \in Nat
    <3> SUFFICES ASSUME NEW a \in Params
                 PROVE  f[a] \in [0 .. Len(a.entries) -> Int] /\ Len(a.entries) \in Nat
      OBVIOUS
    <3>1. f[a] = [i \in 0 .. Len(a.entries) |-> 0]
      OBVIOUS
    <3> HIDE DEF f
    <3> QED
      BY <3>1, ParamIs
  <2>2. f = [a \in Params |-> f[a]]
    OBVIOUS
  <2> HIDE DEF f
  <2>3. f \in [Params -> UNION {[0 .. n -> Int] : n \in Nat}]
    BY <2>1, <2>2
  <2>4. f \in Offsetting
    BY <2>1, <2>3 DEF Offsetting
  <2> QED
    BY <2>4
<1>4. \A g \in Offsetting : g = [a \in Params |-> g[a]]
  BY DEF Offsetting
<1>5. ASSUME NEW k \in Nat, k + 1 <= MaxDepth, NEW g \in Offsetting, NEW h \in Offsetting,
             \A a \in Params : a \in Nested[k] => g[a] = h[a],
             NEW a \in Params, a \in Nested[k + 1]
      PROVE  F[g][a] = F[h][a]
  <2> DEFINE n == Len(a.entries)
  <2>1. n \in Nat /\ \A i \in 1 .. n : a.entries[i] \in Nested[k] /\ a.entries[i] \in Params
    BY <1>5, EntriesBelow
  <2>2. \A i \in 1 .. n : EntrySize(g, a.entries[i]) = EntrySize(h, a.entries[i])
    <3> SUFFICES ASSUME NEW i \in 1 .. n
                 PROVE  EntrySize(g, a.entries[i]) = EntrySize(h, a.entries[i])
      OBVIOUS
    <3>1. g[a.entries[i]] = h[a.entries[i]]
      BY <2>1, <1>5
    <3> QED
      BY <3>1, Zenon DEF EntrySize
  <2>3. F[g][a] = Offsets(g, a) /\ F[h][a] = Offsets(h, a)
    BY <1>2, <1>5
  <2> QED
    BY <1>5, <2>2, <2>3, OffsetsSame DEF n
<1>6. Layered(Params, Offsetting, F, MaxDepth, Nested)
  BY <1>2, <1>3, <1>4, <1>5, Layers, DepthIs DEF Layered
<1>7. PICK f \in Offsetting : f = F[f]
  BY <1>6, Recursion
<1>8. f = [a \in Params |-> Offsets(f, a)]
  BY <1>2, <1>7
<1>9. Offset = [a \in Params |-> Offsets(Offset, a)]
  BY <1>8, Zenon DEF Offset
<1>10. Params \subseteq {a \in Params : Offset[a] = f[a]}
  <2> DEFINE S == {a \in Params : Offset[a] = f[a]}
  <2>1. ASSUME NEW a \in Params, \A i \in 1 .. Len(a.entries) : a.entries[i] \in S
        PROVE  a \in S
    <3>1. \A i \in 1 .. Len(a.entries) : EntrySize(Offset, a.entries[i]) = EntrySize(f, a.entries[i])
      <4> SUFFICES ASSUME NEW i \in 1 .. Len(a.entries)
                   PROVE  EntrySize(Offset, a.entries[i]) = EntrySize(f, a.entries[i])
        OBVIOUS
      <4>1. Offset[a.entries[i]] = f[a.entries[i]]
        BY <2>1
      <4> QED
        BY <4>1, Zenon DEF EntrySize
    <3>2. Offsets(Offset, a) = Offsets(f, a)
      BY <3>1, OffsetsSame
    <3>3. Offset[a] = Offsets(Offset, a) /\ f[a] = Offsets(f, a)
      BY <1>8, <1>9
    <3> QED
      BY <3>2, <3>3
  <2> HIDE DEF S
  <2>2. Params \subseteq S
    BY <2>1, OfAll
  <2> QED
    BY <2>2 DEF S
<1>11. Offset = f
  <2>1. Offset = [a \in Params |-> Offset[a]] /\ f = [a \in Params |-> f[a]]
    BY <1>4, <1>7, <1>9
  <2> HIDE DEF F
  <2>2. \A a \in Params : Offset[a] = f[a]
    BY <1>10
  <2> QED
    BY <2>1, <2>2
<1> QED
  BY <1>9, <1>11

\* What is said of the entries of a.
TakenBy(g, a) == \A i \in DOMAIN a.entries : Taken(a.entries[i]) /\ g[a.entries[i]]

\* The recursive definition means what it says.
LEMMA EntriesTakenIs == \A a \in Params : EntriesTaken[a] <=> TakenBy(EntriesTaken, a)
<1> DEFINE G == [Params -> BOOLEAN]
           F == [g \in G |-> [a \in Params |-> TakenBy(g, a)]]
<1>1. \A g \in G, a \in Params : TakenBy(g, a) \in BOOLEAN
  BY Zenon DEF TakenBy
<1>2. F \in [G -> G]
  BY <1>1
<1>3. \A g \in G : F[g] = [a \in Params |-> TakenBy(g, a)]
  OBVIOUS
<1>4. G # {}
  <2>1. [a \in Params |-> TRUE] \in G
    OBVIOUS
  <2> QED
    BY <2>1
<1>5. \A g \in G : g = [a \in Params |-> g[a]]
  OBVIOUS
<1> HIDE DEF F, G
<1>6. ASSUME NEW k \in Nat, k + 1 <= MaxDepth, NEW g \in G, NEW h \in G,
             \A a \in Params : a \in Nested[k] => g[a] = h[a],
             NEW a \in Params, a \in Nested[k + 1]
      PROVE  F[g][a] = F[h][a]
  <2>1. \A i \in 1 .. Len(a.entries) : a.entries[i] \in Nested[k] /\ a.entries[i] \in Params
    BY <1>6, EntriesBelow
  <2>2. DOMAIN a.entries = 1 .. Len(a.entries)
    BY ParamIs
  <2>3. \A i \in DOMAIN a.entries : g[a.entries[i]] = h[a.entries[i]]
    BY <2>1, <2>2, <1>6
  <2>4. TakenBy(g, a) = TakenBy(h, a)
    BY <2>3, Zenon DEF TakenBy
  <2>5. F[g][a] = TakenBy(g, a) /\ F[h][a] = TakenBy(h, a)
    <3>1. \A f \in G : [b \in Params |-> TakenBy(f, b)][a] = TakenBy(f, a)
      BY Zenon
    <3> QED
      BY <3>1, <1>3, <1>6, Zenon
  <2> QED
    BY <2>4, <2>5, Zenon
<1>7. Layered(Params, G, F, MaxDepth, Nested)
  BY <1>2, <1>4, <1>5, <1>6, Layers, DepthIs DEF Layered
<1>8. PICK f \in G : f = F[f]
  BY <1>7, Recursion
<1>9. f = [a \in Params |-> TakenBy(f, a)]
  BY <1>3, <1>8, Zenon
<1>10. EntriesTaken = [a \in Params |-> TakenBy(EntriesTaken, a)]
  BY <1>9, Zenon DEF EntriesTaken, TakenBy
<1> QED
  BY <1>10, Zenon

\* The entries of a parameter that is accepted are.
LEMMA AcceptedEntries ==
  ASSUME NEW a \in Params, Accepted(a)
  PROVE  Taken(a) /\ \A i \in 1 .. Len(a.entries) : Accepted(a.entries[i])
<1>1. DOMAIN a.entries = 1 .. Len(a.entries)
  BY ParamIs
<1>2. EntriesTaken[a] => TakenBy(EntriesTaken, a)
  BY EntriesTakenIs, Zenon
<1> QED
  BY <1>1, <1>2, Zenon DEF Accepted, TakenBy

\* Each entry is where the one before it ends.
LEMMA OffsetSteps ==
  ASSUME NEW a \in Params
  PROVE  /\ Len(a.entries) \in Nat /\ Offset[a] \in [0 .. Len(a.entries) -> Int]
         /\ Offset[a][0] = 0
         /\ \A i \in 1 .. Len(a.entries) : Offset[a][i] = Offset[a][i - 1] + Size(a.entries[i])
<1>1. Offset[a] = Offsets(Offset, a) /\ Offset \in Offsetting
  BY OffsetIs
<1>2. ASSUME NEW i \in 1 .. Len(a.entries)
      PROVE  EntrySize(Offset, a.entries[i]) = Size(a.entries[i])
  BY Zenon DEF EntrySize, Size, Bytes
<1> QED
  BY <1>1, <1>2, OffsetsAre, ParamIs

\* The sizes of what is accepted.
LEMMA ScalarTaken ==
  ASSUME NEW a \in Params, Taken(a), a.type # "ds"
  PROVE  Bytes(a) \in Nat \ {0}
<1>1. a.type \in Scalars /\ a.n \in Nat \ {0}
  BY ParamIs DEF Taken, Scalars
<1>2. Bytes(a) = ScalarBytes(a)
  BY DEF Bytes
<1>3. ScalarBytes(a) \in Nat \ {0}
  <2>1. CASE a.type = "packed"
    <3>1. ScalarBytes(a) = IF a.n % 2 # 0 THEN (a.n + 1) \div 2 ELSE a.n \div 2 + 1
      BY <2>1 DEF ScalarBytes
    <3> QED
      BY <3>1, <1>1
  <2>2. CASE a.type # "packed"
    BY <1>1, <2>2 DEF ScalarBytes
  <2> QED
    BY <2>1, <2>2
<1> QED
  BY <1>2, <1>3

\* The offsets of the entries of a structure never fall, if these have sizes.
LEMMA OffsetsGrow ==
  ASSUME NEW a \in Params, \A i \in 1 .. Len(a.entries) : Size(a.entries[i]) \in Nat
  PROVE  /\ \A i \in 0 .. Len(a.entries) : Offset[a][i] \in Nat
         /\ \A i, j \in 0 .. Len(a.entries) : i <= j => Offset[a][i] <= Offset[a][j]
<1> DEFINE n == Len(a.entries)
           o == Offset[a]
<1>1. /\ n \in Nat /\ o \in [0 .. n -> Int] /\ o[0] = 0
      /\ \A i \in 1 .. n : o[i] = o[i - 1] + Size(a.entries[i])
  BY OffsetSteps
<1>2. \A i \in 1 .. n : Size(a.entries[i]) \in Nat
  OBVIOUS
<1> HIDE DEF n, o
<1> DEFINE S == {j \in Nat : j <= n => o[j] \in Nat /\ \A i \in 0 .. j : o[i] <= o[j]}
<1>3. 0 \in S
  BY <1>1
<1>4. ASSUME NEW j \in Nat, j \in S PROVE j + 1 \in S
  <2> DEFINE m == j + 1
  <2>1. m \in Nat /\ m - 1 = j /\ (m <= n => m \in 1 .. n /\ j <= n)
        /\ \A i \in 0 .. m : i \in 0 .. j \/ i = m
    BY <1>1
  <2> HIDE DEF m
  <2>2. ASSUME m <= n PROVE o[m] \in Nat /\ \A i \in 0 .. m : o[i] <= o[m]
    <3>1. o[m] = o[j] + Size(a.entries[m]) /\ Size(a.entries[m]) \in Nat
      BY <2>1, <2>2, <1>1, <1>2
    <3>2. o[j] \in Nat /\ \A i \in 0 .. j : o[i] <= o[j]
      BY <2>1, <2>2, <1>4
    <3>3. o[m] \in Nat /\ o[j] <= o[m]
      BY <3>1, <3>2
    <3>4. ASSUME NEW i \in 0 .. m PROVE o[i] <= o[m]
      <4>1. CASE i = m
        BY <4>1, <3>3
      <4>2. CASE i \in 0 .. j
        <5>1. o[i] <= o[j] /\ o[i] \in Int
          BY <4>2, <3>2, <1>1, <2>1, <2>2
        <5> QED
          BY <5>1, <3>2, <3>3
      <4> QED
        BY <4>1, <4>2, <2>1
    <3> QED
      BY <3>3, <3>4
  <2>3. m \in S
    BY <2>1, <2>2
  <2> QED
    BY <2>3 DEF m
<1>5. Nat \subseteq S
  <2> HIDE DEF S
  <2> QED
    BY <1>3, <1>4, Induction
<1>6. \A j \in 0 .. n : o[j] \in Nat /\ \A i \in 0 .. j : o[i] <= o[j]
  BY <1>1, <1>5
<1>7. \A i, j \in 0 .. n : i <= j => i \in 0 .. j
  BY <1>1
<1>8. \A i, j \in 0 .. n : i <= j => o[i] <= o[j]
  BY <1>6, <1>7
<1> QED
  BY <1>6, <1>8 DEF n, o

\* What is accepted has a size, and its entries have.
LEMMA SizesAreNat == \A a \in Params : Accepted(a) => Bytes(a) \in Nat /\ Size(a) \in Nat
<1> DEFINE S == {a \in Params : Accepted(a) => Bytes(a) \in Nat /\ Size(a) \in Nat}
<1>1. ASSUME NEW a \in Params, \A i \in 1 .. Len(a.entries) : a.entries[i] \in S PROVE a \in S
  <2>1. ASSUME Accepted(a) PROVE Bytes(a) \in Nat
    <3>1. CASE a.type # "ds"
      BY <2>1, <3>1, ScalarTaken, AcceptedEntries
    <3>2. CASE a.type = "ds"
      <4>1. \A i \in 1 .. Len(a.entries) : Size(a.entries[i]) \in Nat
        BY <2>1, <1>1, AcceptedEntries
      <4>2. Offset[a][Len(a.entries)] \in Nat
        <5>1. Len(a.entries) \in 0 .. Len(a.entries)
          BY OffsetSteps
        <5> QED
          BY <4>1, <5>1, OffsetsGrow
      <4> QED
        BY <3>2, <4>2 DEF Bytes
    <3> QED
      BY <3>1, <3>2
  <2>2. Bytes(a) \in Nat => Size(a) \in Nat
    BY DepthIs DEF Size
  <2> QED
    BY <2>1, <2>2
<1>2. Params \subseteq S
  <2> HIDE DEF S
  <2> QED
    BY <1>1, OfAll
<1> QED
  BY <1>2

-----------------------------------------------------------------------------
(* copyIn *)

Marks == [what : {"in", "blank", "ptr", "new"}, path : Paths]
Places == Paths \X Int \X Marks

\* Memory is any set of places.
LEMMA MemoryIs == Memory = SUBSET Places
  BY DEF Memory, Places, Marks

\* A cell is a place, and says where and whose it is.
LEMMA CellIs ==
  ASSUME NEW block \in Paths, NEW where \in Int, NEW what \in {"in", "blank", "ptr", "new"},
         NEW path \in Paths
  PROVE  /\ Cell(block, where, what, path) \in Places
         /\ Cell(block, where, what, path)[1] = block /\ Cell(block, where, what, path)[2] = where
         /\ Cell(block, where, what, path)[3] = [what |-> what, path |-> path]
  BY DEF Cell, Places, Marks

\* A place is a block, an offset and a mark.
LEMMA PlaceIs ==
  ASSUME NEW c \in Places
  PROVE  c[1] \in Paths /\ c[2] \in Int /\ c[3] \in Marks /\ c = <<c[1], c[2], c[3]>>
  BY DEF Places

\* What is moved is in memory, each cell as far from its old offset.
LEMMA MovedIs ==
  ASSUME NEW cells \in Memory, NEW block \in Paths, NEW where \in Int
  PROVE  /\ Moved(cells, block, where) \in Memory
         /\ \A d \in Moved(cells, block, where) :
              d[1] = block /\ \E c \in cells : d[2] = c[2] + where /\ d[3] = c[3]
<1>1. ASSUME NEW c \in cells
      PROVE  LET d == <<block, c[2] + where, c[3]>> IN
             d \in Places /\ d[1] = block /\ d[2] = c[2] + where /\ d[3] = c[3]
  <2>1. c[2] \in Int /\ c[3] \in Marks
    BY MemoryIs, PlaceIs
  <2> QED
    BY <2>1 DEF Places
<1>2. ASSUME NEW d \in Moved(cells, block, where)
      PROVE  /\ d \in Places /\ d[1] = block
             /\ \E c \in cells : d[2] = c[2] + where /\ d[3] = c[3]
  <2>1. PICK c \in cells : d = <<block, c[2] + where, c[3]>>
    BY DEF Moved
  <2> QED
    BY <1>1, <2>1
<1> QED
  BY <1>2, MemoryIs

\* A part of a block is in memory.
LEMMA CellsIs ==
  ASSUME NEW m \in Memory, NEW block, NEW from, NEW size
  PROVE  Cells(m, block, from, size) \in Memory
  BY MemoryIs DEF Cells

\* What copyIn gives, and what it has after some entries.
CopyInResult == [ok : BOOLEAN, errno : Errnos, mem : Memory]
Making == [ok : BOOLEAN, errno : Errnos, where : Int, mem : Memory]

\* A parameter within another goes some way.
LEMMA IoIs == \A a \in Params, outer \in Ways : Io(a, outer) \in Ways
  BY ParamIs, Zenon DEF Io

\* A conversion leaves errno set or not.
LEMMA ErrnoIs ==
  ASSUME NEW a, NEW io, NEW e \in Errnos
  PROVE  Errno(a, io, e) \in Errnos /\ Converts(a, io, e) \in BOOLEAN
<1>1. Errno(a, io, e) \in {e, "ERANGE", "EINVAL", NoErrno}
  BY Zenon DEF Errno
<1>2. Errno(a, io, e) \in Errnos
  BY <1>1 DEF Errnos
<1>3. Converts(a, io, e) \in BOOLEAN
  BY Zenon DEF Converts
<1> QED
  BY <1>2, <1>3

\* copyIn of a scalar has a result.
LEMMA ScalarCopied ==
  ASSUME NEW a \in Params, NEW path \in Paths, NEW io \in Ways, NEW e \in Errnos
  PROVE  CopyScalar(a, path, io, e) \in CopyInResult
<1> DEFINE m == IF io = "out" THEN {}
                ELSE IF a.type = "hex" /\ a.value = "misfit" THEN {Cell(path, 0, "blank", path)}
                ELSE {Cell(path, 0, "in", path)}
<1>1. m \in Memory
  <2>1. Cell(path, 0, "blank", path) \in Places /\ Cell(path, 0, "in", path) \in Places
    <3>1. 0 \in Int /\ "blank" \in {"in", "blank", "ptr", "new"}
          /\ "in" \in {"in", "blank", "ptr", "new"}
      OBVIOUS
    <3> QED
      BY <3>1, CellIs, Zenon
  <2>2. {} \in Memory /\ {Cell(path, 0, "blank", path)} \in Memory
        /\ {Cell(path, 0, "in", path)} \in Memory
    BY <2>1, MemoryIs
  <2> QED
    BY <2>2, Zenon
<1>2. Errno(a, io, e) \in Errnos /\ Converts(a, io, e) \in BOOLEAN
  BY ErrnoIs
<1>3. CopyScalar(a, path, io, e) = [ok |-> Converts(a, io, e), errno |-> Errno(a, io, e), mem |-> m]
  BY Zenon DEF CopyScalar
<1> HIDE DEF m
<1>4. [ok |-> Converts(a, io, e), errno |-> Errno(a, io, e), mem |-> m] \in CopyInResult
  BY <1>1, <1>2, Zenon DEF CopyInResult
<1> QED
  BY <1>3, <1>4, Zenon

\* A parameter has a size and so has its place in a structure.
LEMMA BytesIs == \A a \in Params : Bytes(a) \in Int /\ Size(a) \in Int
<1> SUFFICES ASSUME NEW a \in Params PROVE Bytes(a) \in Int /\ Size(a) \in Int
  OBVIOUS
<1>1. Len(a.entries) \in Nat /\ Offset[a] \in [0 .. Len(a.entries) -> Int] /\ ScalarBytes(a) \in Int
  BY OffsetSteps, ScalarSize
<1>2. Offset[a][Len(a.entries)] \in Int
  BY <1>1
<1>3. Bytes(a) \in Int
  BY <1>1, <1>2, Zenon DEF Bytes
<1>4. PtrSize \in Int
  BY DepthIs
<1> QED
  BY <1>3, <1>4, Zenon DEF Size

\* What an entry adds to the memory.
Added_(e, this, path, io, where, m) ==
  IF ByValue(e, TRUE)
    THEN IF io = "out" THEN {} ELSE Moved(Cells(m, this, 0, Bytes(e)), path, where)
    ELSE {Cell(path, where, "ptr", this)}

\* What an entry adds to the block of its structure is in memory.
LEMMA EntryAdds ==
  ASSUME NEW e, NEW this \in Paths, NEW path \in Paths, NEW io, NEW where \in Int, NEW m \in Memory
  PROVE  Added_(e, this, path, io, where, m) \in Memory
<1>1. Moved(Cells(m, this, 0, Bytes(e)), path, where) \in Memory
  BY CellsIs, MovedIs
<1>2. {Cell(path, where, "ptr", this)} \in Memory /\ {} \in Memory
  <2>1. Cell(path, where, "ptr", this) \in Places
    BY CellIs
  <2> QED
    BY <2>1, MemoryIs
<1> QED
  BY <1>1, <1>2, Zenon DEF Added_

\* copyIn of an entry has a result, which has what the entry adds.
LEMMA EntryCopied ==
  ASSUME NEW e \in Params, NEW this \in Paths, NEW path \in Paths, NEW io \in Ways,
         NEW done \in Making, NEW one \in CopyInResult
  PROVE  LET r == CopyEntry(e, this, path, io, done, one) IN
         /\ r \in Making /\ r.ok = one.ok /\ r.errno = one.errno
         /\ r.where = done.where + Size(e)
         /\ r.mem = done.mem \cup one.mem
                      \cup (IF one.ok THEN Added_(e, this, path, io, done.where, one.mem) ELSE {})
<1> DEFINE x == IF one.ok THEN Added_(e, this, path, io, done.where, one.mem) ELSE {}
           m == done.mem \cup one.mem \cup x
           w == done.where + Size(e)
<1>1. one.ok \in BOOLEAN /\ one.errno \in Errnos /\ one.mem \in Memory
  BY Zenon DEF CopyInResult
<1>2. done.where \in Int /\ done.mem \in Memory
  BY Zenon DEF Making
<1>3. Added_(e, this, path, io, done.where, one.mem) \in Memory
  BY <1>1, <1>2, EntryAdds
<1>4. x \in Memory
  <2>1. {} \in Memory
    BY MemoryIs
  <2> QED
    BY <1>3, <2>1, Zenon
<1> HIDE DEF x
<1>5. m \in Memory /\ w \in Int
  BY <1>1, <1>2, <1>4, BytesIs, MemoryIs
<1>6. CopyEntry(e, this, path, io, done, one)
        = [ok |-> one.ok, errno |-> one.errno, where |-> w, mem |-> m]
  BY Zenon DEF CopyEntry, Added_, x
<1> HIDE DEF w, m
<1>7. [ok |-> one.ok, errno |-> one.errno, where |-> w, mem |-> m] \in Making
  BY <1>1, <1>5, Zenon DEF Making
<1>8. \A r : r = [ok |-> one.ok, errno |-> one.errno, where |-> w, mem |-> m] =>
          r.ok = one.ok /\ r.errno = one.errno /\ r.where = w /\ r.mem = m
  <2> SUFFICES ASSUME NEW r, r = [ok |-> one.ok, errno |-> one.errno, where |-> w, mem |-> m]
               PROVE  r.ok = one.ok /\ r.errno = one.errno /\ r.where = w /\ r.mem = m
    OBVIOUS
  <2>1. r.ok = one.ok
    BY Zenon
  <2>2. r.errno = one.errno /\ r.where = w /\ r.mem = m
    BY Zenon
  <2> QED
    BY <2>1, <2>2
<1> DEFINE r == CopyEntry(e, this, path, io, done, one)
<1>9. r \in Making /\ r.ok = one.ok /\ r.errno = one.errno /\ r.where = w /\ r.mem = m
  <2> HIDE DEF r
  <2>1. r = [ok |-> one.ok, errno |-> one.errno, where |-> w, mem |-> m]
    BY <1>6 DEF r
  <2> QED
    BY <2>1, <1>7, <1>8, Zenon
<1> HIDE DEF r
<1> QED
  BY <1>9, Zenon DEF r, w, m, x

Copying == [CopyIns -> CopyInResult]
NothingMade(t) == [ok |-> TRUE, errno |-> t.errno, where |-> 0, mem |-> {}]
OneMore(g, t, i, done) ==
  IF ~ done.ok THEN done
  ELSE CopyEntry(t.arg.entries[i], Append(t.path, i), t.path, Io(t.arg, t.outer), done,
                 g[ToCopyIn(t.arg.entries[i], Append(t.path, i), Io(t.arg, t.outer), done.errno)])
MadeOf(f, n) == [ok |-> f[n].ok, errno |-> f[n].errno, mem |-> f[n].mem]

\* f is what there is after each of the entries, and r what there is in the end.
Makes(g, t, f) ==
  /\ f \in [0 .. Len(t.arg.entries) -> Making] /\ f[0] = NothingMade(t)
  /\ \A i \in 1 .. Len(t.arg.entries) : f[i] = OneMore(g, t, i, f[i - 1])

\* What there is to be copied in, and of what it is made.
LEMMA CopyInsAre ==
  ASSUME NEW t \in CopyIns
  PROVE  /\ t.arg \in Params /\ t.path \in Paths /\ t.outer \in Ways /\ t.errno \in Errnos
         /\ Len(t.arg.entries) \in Nat /\ Io(t.arg, t.outer) \in Ways
         /\ \A i \in 1 .. Len(t.arg.entries) :
              t.arg.entries[i] \in Params /\ Append(t.path, i) \in Paths
<1>1. t.arg \in Params /\ t.path \in Paths /\ t.outer \in Ways /\ t.errno \in Errnos
  BY DEF CopyIns
<1>2. t.arg.entries \in Seq(Params)
  BY <1>1, ParamIs
<1>3. Len(t.arg.entries) \in Nat /\ \A i \in 1 .. Len(t.arg.entries) :
        i \in Nat /\ t.arg.entries[i] \in Params
  BY <1>2
<1>4. \A i \in Nat : Append(t.path, i) \in Paths
  BY <1>1 DEF Paths
<1> QED
  BY <1>1, <1>3, <1>4, IoIs

\* The record of a parameter to be copied in.
LEMMA ToCopyInIs ==
  ASSUME NEW a \in Params, NEW path \in Paths, NEW outer \in Ways, NEW e \in Errnos
  PROVE  /\ ToCopyIn(a, path, outer, e) \in CopyIns /\ ToCopyIn(a, path, outer, e).arg = a
         /\ ToCopyIn(a, path, outer, e).path = path /\ ToCopyIn(a, path, outer, e).outer = outer
         /\ ToCopyIn(a, path, outer, e).errno = e
BY DEF ToCopyIn, CopyIns

\* With one more entry there is a result again.
LEMMA OneMoreIs ==
  ASSUME NEW g \in Copying, NEW t \in CopyIns, NEW i \in 1 .. Len(t.arg.entries),
         NEW done \in Making
  PROVE  OneMore(g, t, i, done) \in Making
<1> DEFINE e == t.arg.entries[i]
           this == Append(t.path, i)
           io == Io(t.arg, t.outer)
           x == ToCopyIn(e, this, io, done.errno)
<1>1. e \in Params /\ this \in Paths /\ io \in Ways /\ t.path \in Paths
  BY CopyInsAre
<1>2. done.errno \in Errnos
  BY Zenon DEF Making
<1>3. OneMore(g, t, i, done) =
        IF ~ done.ok THEN done ELSE CopyEntry(e, this, t.path, io, done, g[x])
  BY DEF OneMore
<1> HIDE DEF e, this, io
<1>4. x \in CopyIns
  BY <1>1, <1>2, ToCopyInIs
<1> HIDE DEF x
<1>5. g[x] \in CopyInResult
  BY <1>4 DEF Copying
<1>6. CopyEntry(e, this, t.path, io, done, g[x]) \in Making
  BY <1>1, <1>5, EntryCopied
<1> QED
  BY <1>3, <1>6, Zenon

\* copyIn of a DS depends on that of its entries, and goes through them.
LEMMA EntriesMade ==
  ASSUME NEW g \in Copying, NEW t \in CopyIns, NEW h,
         \A x \in CopyIns : (\E i \in 1 .. Len(t.arg.entries) : x.arg = t.arg.entries[i]) =>
                              h[x] = g[x]
  PROVE  \E f : /\ Makes(g, t, f)
                /\ CopyEntries(g, t) = MadeOf(f, Len(t.arg.entries))
                /\ CopyEntries(h, t) = MadeOf(f, Len(t.arg.entries))
<1> DEFINE n == Len(t.arg.entries)
           base == NothingMade(t)
           step == [i \in Nat |-> [d \in Making |-> IF i \in 1 .. n THEN OneMore(g, t, i, d) ELSE d]]
<1>1. n \in Nat
  BY CopyInsAre
<1>2. base \in Making
  <2>1. t.errno \in Errnos /\ {} \in Memory /\ 0 \in Int /\ TRUE \in BOOLEAN
    BY CopyInsAre, MemoryIs
  <2> QED
    BY <2>1 DEF NothingMade, Making
<1>3. \A i \in 1 .. n, d \in Making : OneMore(g, t, i, d) \in Making
  BY OneMoreIs
<1> HIDE DEF n, base
<1>4. step \in [Nat -> [Making -> Making]]
      /\ \A i \in Nat, d \in Making : i \in 1 .. n => step[i][d] = OneMore(g, t, i, d)
  BY <1>3
<1> HIDE DEF step
<1>5. PICK f \in [0 .. n -> Making] : f[0] = base /\ \A i \in 1 .. n : f[i] = step[i][f[i - 1]]
  <2>1. Iterates(Making, base, step, n)
    BY <1>1, <1>2, <1>4, Iteration
  <2> QED
    BY <2>1 DEF Iterates
<1>6. \A i \in 1 .. n : i \in Nat /\ i - 1 \in 0 .. n /\ f[i - 1] \in Making
  BY <1>1, <1>5
<1>7. \A i \in 1 .. n : f[i] = OneMore(g, t, i, f[i - 1])
  BY <1>4, <1>5, <1>6
<1>8. ASSUME NEW k,
             \A x \in CopyIns : (\E i \in 1 .. n : x.arg = t.arg.entries[i]) => k[x] = g[x]
      PROVE  CopyEntries(k, t) = MadeOf(f, n)
  <2> DEFINE F(u) == [i \in 0 .. n |-> IF i = 0 THEN base ELSE OneMore(k, t, i, u[i - 1])]
             u == CHOOSE u : u = F(u)
  <2>1. ASSUME NEW i \in 1 .. n PROVE OneMore(k, t, i, f[i - 1]) = OneMore(g, t, i, f[i - 1])
    <3> DEFINE d == f[i - 1]
               e == t.arg.entries[i]
               x == ToCopyIn(e, Append(t.path, i), Io(t.arg, t.outer), d.errno)
    <3>1. d \in Making
      BY <1>6
    <3>2. d.errno \in Errnos
      BY <3>1, Zenon DEF Making
    <3>3. e \in Params /\ Append(t.path, i) \in Paths /\ Io(t.arg, t.outer) \in Ways
      BY CopyInsAre DEF n
    <3>4. x \in CopyIns /\ x.arg = e
      <4> HIDE DEF d, e
      <4> QED
        BY <3>2, <3>3, ToCopyInIs
    <3>5. k[x] = g[x]
      <4> HIDE DEF x
      <4> QED
        BY <3>4, <1>8
    <3> QED
      BY <3>5, Zenon DEF OneMore
  <2>2. \A i \in 0 .. n : f[i] = IF i = 0 THEN base ELSE OneMore(k, t, i, f[i - 1])
    BY <1>1, <1>5, <1>7, <2>1
  <2>3. f = F(f)
    BY <1>5, <2>2
  <2>4. u = F(u)
    <3> HIDE DEF F
    <3> QED
      BY <2>3, Zenon
  <2>5. \A i \in 0 .. n : u[i] = IF i = 0 THEN base ELSE OneMore(k, t, i, u[i - 1])
    <3> HIDE DEF u
    <3> QED
      BY <2>4
  <2>6. CopyEntries(k, t) = MadeOf(u, n)
    BY DEF CopyEntries, MadeOf, OneMore, NothingMade, base, n
  <2> HIDE DEF u, F
  <2> DEFINE S == {i \in Nat : i <= n => u[i] = f[i]}
  <2>7. 0 \in S
    BY <1>1, <1>5, <2>5
  <2>8. ASSUME NEW i \in Nat, i \in S PROVE i + 1 \in S
    <3> DEFINE m == i + 1
    <3>1. m \in Nat /\ m - 1 = i /\ m # 0 /\ (m <= n => m \in 1 .. n /\ m \in 0 .. n /\ i <= n)
      BY <1>1
    <3> HIDE DEF m
    <3>2. ASSUME m <= n PROVE u[m] = f[m]
      <4>1. u[m] = OneMore(k, t, m, u[m - 1]) /\ u[m - 1] = f[m - 1]
        BY <3>1, <3>2, <2>5, <2>8
      <4>2. f[m] = OneMore(k, t, m, f[m - 1])
        BY <3>1, <3>2, <2>2
      <4> QED
        BY <4>1, <4>2
    <3>3. m \in S
      BY <3>1, <3>2
    <3> QED
      BY <3>3 DEF m
  <2>9. Nat \subseteq S
    <3> HIDE DEF S
    <3> QED
      BY <2>7, <2>8, Induction
  <2>10. u[n] = f[n]
    BY <1>1, <2>9
  <2> QED
    BY <2>6, <2>10 DEF MadeOf
<1>9. CopyEntries(g, t) = MadeOf(f, n) /\ CopyEntries(h, t) = MadeOf(f, n)
  BY <1>8 DEF n
<1> QED
  BY <1>5, <1>7, <1>9 DEF Makes, n, base

MakeOne(g, t) ==
  IF t.arg.type = "ds" THEN CopyEntries(g, t)
                       ELSE CopyScalar(t.arg, t.path, Io(t.arg, t.outer), t.errno)

\* One unfolding of copyIn has a result.
LEMMA MadeIs ==
  ASSUME NEW g \in Copying, NEW t \in CopyIns
  PROVE  MakeOne(g, t) \in CopyInResult
<1>1. CASE t.arg.type = "ds"
  <2> DEFINE n == Len(t.arg.entries)
  <2>1. PICK f : Makes(g, t, f) /\ CopyEntries(g, t) = MadeOf(f, n)
    BY EntriesMade
  <2>2. n \in Nat /\ n \in 0 .. n
    BY CopyInsAre
  <2>3. f[n] \in Making
    BY <2>1, <2>2 DEF Makes
  <2> HIDE DEF n
  <2>4. f[n].ok \in BOOLEAN /\ f[n].errno \in Errnos /\ f[n].mem \in Memory
    BY <2>3, Zenon DEF Making
  <2>5. MadeOf(f, n) \in CopyInResult
    BY <2>4, Zenon DEF MadeOf, CopyInResult
  <2> QED
    BY <1>1, <2>1, <2>5, Zenon DEF MakeOne, n
<1>2. CASE t.arg.type # "ds"
  BY <1>2, CopyInsAre, ScalarCopied DEF MakeOne
<1> QED
  BY <1>1, <1>2

\* Same results for the entries, same result.
LEMMA MadeSame ==
  ASSUME NEW g \in Copying, NEW h, NEW t \in CopyIns,
         \A x \in CopyIns : (\E i \in 1 .. Len(t.arg.entries) : x.arg = t.arg.entries[i]) =>
                              h[x] = g[x]
  PROVE  MakeOne(h, t) = MakeOne(g, t)
<1>1. CopyEntries(h, t) = CopyEntries(g, t)
  BY EntriesMade
<1> QED
  BY <1>1, Zenon DEF MakeOne

\* copyIn is defined for every parameter, and unfolds.
LEMMA CopyInIs == CopyIn \in Copying /\ \A t \in CopyIns : CopyIn[t] = MakeOne(CopyIn, t)
<1> DEFINE F == [g \in Copying |-> [t \in CopyIns |-> MakeOne(g, t)]]
           L == [k \in 0 .. MaxDepth |-> {t \in CopyIns : t.arg \in Nested[k]}]
<1>1. ASSUME NEW g \in Copying PROVE [t \in CopyIns |-> MakeOne(g, t)] \in Copying
  <2>1. \A t \in CopyIns : MakeOne(g, t) \in CopyInResult
    BY MadeIs
  <2> QED
    BY <2>1 DEF Copying
<1>2. F \in [Copying -> Copying]
      /\ \A g \in Copying : F[g] = [t \in CopyIns |-> MakeOne(g, t)]
  BY <1>1
<1> HIDE DEF F
<1>3. Copying # {}
  <2> DEFINE r == [ok |-> TRUE, errno |-> NoErrno, mem |-> {}]
  <2>1. r \in CopyInResult
    BY MemoryIs DEF CopyInResult, Errnos
  <2> HIDE DEF r
  <2>2. [t \in CopyIns |-> r] \in Copying
    BY <2>1 DEF Copying
  <2> QED
    BY <2>2
<1>4. \A g \in Copying : g = [t \in CopyIns |-> g[t]]
  BY DEF Copying
<1>5. \A k \in Nat, t \in CopyIns : k <= MaxDepth => (t \in L[k] <=> t.arg \in Nested[k])
  BY DepthIs
<1> HIDE DEF L
<1>6. \A t \in CopyIns : t \notin L[0] /\ t \in L[MaxDepth]
  <2> SUFFICES ASSUME NEW t \in CopyIns PROVE t \notin L[0] /\ t \in L[MaxDepth]
    OBVIOUS
  <2>1. t.arg \in Params
    BY CopyInsAre
  <2>2. t.arg \notin Nested[0] /\ t.arg \in Nested[MaxDepth]
    BY <2>1, Layers
  <2>3. 0 \in Nat /\ 0 <= MaxDepth /\ MaxDepth \in Nat /\ MaxDepth <= MaxDepth
    BY DepthIs
  <2> QED
    BY <1>5, <2>2, <2>3
<1>7. ASSUME NEW k \in Nat, k + 1 <= MaxDepth, NEW g \in Copying, NEW h \in Copying,
             \A x \in CopyIns : x \in L[k] => g[x] = h[x],
             NEW t \in CopyIns, t \in L[k + 1]
      PROVE  F[g][t] = F[h][t]
  <2>1. t.arg \in Nested[k + 1] /\ k <= MaxDepth
    BY <1>5, <1>7, DepthIs
  <2>2. \A i \in 1 .. Len(t.arg.entries) : t.arg.entries[i] \in Nested[k]
    BY <1>7, <2>1, EntriesBelow
  <2>3. ASSUME NEW x \in CopyIns, \E i \in 1 .. Len(t.arg.entries) : x.arg = t.arg.entries[i]
        PROVE  g[x] = h[x]
    <3>1. x.arg \in Nested[k]
      BY <2>2, <2>3
    <3> QED
      BY <3>1, <2>1, <1>5, <1>7
  <2>4. MakeOne(g, t) = MakeOne(h, t)
    BY <2>3, MadeSame
  <2> QED
    BY <1>2, <1>7, <2>4
<1>8. Layered(CopyIns, Copying, F, MaxDepth, L)
  BY <1>2, <1>3, <1>4, <1>6, <1>7, DepthIs DEF Layered
<1>9. PICK f \in Copying : f = F[f]
  BY <1>8, Recursion
<1>10. f = [t \in CopyIns |-> MakeOne(f, t)]
  BY <1>2, <1>9
<1>11. CopyIn = [t \in CopyIns |-> MakeOne(CopyIn, t)]
  BY <1>10, Zenon DEF CopyIn, MakeOne
<1> DEFINE S == {a \in Params : \A t \in CopyIns : t.arg = a => CopyIn[t] = f[t]}
<1>12. ASSUME NEW a \in Params, \A i \in 1 .. Len(a.entries) : a.entries[i] \in S PROVE a \in S
  <2>1. ASSUME NEW t \in CopyIns, t.arg = a PROVE CopyIn[t] = f[t]
    <3>1. ASSUME NEW x \in CopyIns, \E i \in 1 .. Len(t.arg.entries) : x.arg = t.arg.entries[i]
          PROVE  CopyIn[x] = f[x]
      BY <1>12, <2>1, <3>1
    <3>2. MakeOne(CopyIn, t) = MakeOne(f, t)
      BY <3>1, MadeSame
    <3>3. CopyIn[t] = MakeOne(CopyIn, t) /\ f[t] = MakeOne(f, t)
      BY <1>10, <1>11
    <3> QED
      BY <3>2, <3>3
  <2> QED
    BY <2>1
<1>13. Params \subseteq S
  <2> HIDE DEF S
  <2> QED
    BY <1>12, OfAll
<1>14. \A t \in CopyIns : CopyIn[t] = f[t]
  BY <1>13, CopyInsAre
<1>15. CopyIn = f
  <2>1. f = [t \in CopyIns |-> f[t]]
    BY <1>4
  <2>2. CopyIn = [t \in CopyIns |-> CopyIn[t]]
    BY <1>11
  <2> QED
    BY <1>14, <2>1, <2>2
<1> QED
  BY <1>11, <1>15

-----------------------------------------------------------------------------
(* The leaves *)

Pointers == [cell : Paths \X Int \X [what : {"ptr"}, path : Paths], around : SUBSET Ways]

\* A context and its parts.
LEMMA ContextIs ==
  ASSUME NEW c \in Context
  PROVE  /\ c.arg \in Params /\ c.path \in Paths /\ c.block \in Paths /\ c.at \in Int
         /\ c.io \in Ways /\ c.ios \in SUBSET Ways /\ c.within \in SUBSET Ways
         /\ c.via \in SUBSET Pointers
         /\ Len(c.arg.entries) \in Nat /\ c.arg.entries \in Seq(Params)
<1>1. /\ c.arg \in Params /\ c.path \in Paths /\ c.block \in Paths /\ c.at \in Int
      /\ c.io \in Ways /\ c.ios \in SUBSET Ways /\ c.within \in SUBSET Ways
      /\ c.via \in SUBSET Pointers
  BY Zenon DEF Context, Pointers
<1>2. c.arg.entries \in Seq(Params)
  BY <1>1, ParamIs
<1> QED
  BY <1>1, <1>2

\* The context of what is in a parameter.
LEMMA InsideIs ==
  ASSUME NEW c \in Context
  PROVE  LET d == Inside(c)
             io == Io(c.arg, c.io) IN
         /\ d \in Context /\ io \in Ways
         /\ d.arg = c.arg /\ d.path = c.path /\ d.block = c.block /\ d.at = c.at /\ d.io = io
         /\ d.ios = c.ios \cup {io} /\ d.within = c.within \cup {io} /\ d.via = c.via
<1> DEFINE io == Io(c.arg, c.io)
           d == [arg |-> c.arg, path |-> c.path, block |-> c.block, at |-> c.at, io |-> io,
                 ios |-> c.ios \cup {io}, within |-> c.within \cup {io}, via |-> c.via]
<1>1. io \in Ways
  BY ContextIs, IoIs
<1>2. Inside(c) = d
  <2>1. Inside(c) = [c EXCEPT !.io = io, !.ios = @ \cup {io}, !.within = @ \cup {io}]
    BY DEF Inside
  <2> HIDE DEF io
  <2> QED
    BY <2>1 DEF Context
<1> HIDE DEF io
<1>3. c.ios \cup {io} \in SUBSET Ways /\ c.within \cup {io} \in SUBSET Ways
  BY <1>1, ContextIs
<1>4. d \in Context
  BY <1>1, <1>3, ContextIs DEF Context, Pointers
<1>5. /\ d.arg = c.arg /\ d.path = c.path /\ d.block = c.block /\ d.at = c.at /\ d.io = io
      /\ d.ios = c.ios \cup {io} /\ d.within = c.within \cup {io} /\ d.via = c.via
  OBVIOUS
<1> HIDE DEF d
<1> QED
  BY <1>1, <1>2, <1>4, <1>5 DEF io

\* By value, an entry is in the block of its structure; else in its own.
LEMMA EntryContextIs ==
  ASSUME NEW c \in Context, NEW i \in 1 .. Len(c.arg.entries)
  PROVE  LET d == EntryContext(c, i)
             e == c.arg.entries[i]
             io == Io(c.arg, c.io)
             off == c.at + Offset[c.arg][i - 1]
             this == Append(c.path, i) IN
         /\ d \in Context
         /\ d.arg = e /\ d.path = this /\ d.io = io /\ d.ios = c.ios \cup {io}
         /\ ByValue(e, TRUE) =>
              /\ d.block = c.block /\ d.at = off
              /\ d.within = c.within \cup {io} /\ d.via = c.via
         /\ ~ ByValue(e, TRUE) =>
              /\ d.block = this /\ d.at = 0 /\ d.within = {}
              /\ d.via = c.via \cup {[cell |-> Cell(c.block, off, "ptr", this),
                                      around |-> c.within]}
<1> DEFINE e == c.arg.entries[i]
           io == Io(c.arg, c.io)
           off == c.at + Offset[c.arg][i - 1]
           this == Append(c.path, i)
           ptr == [cell |-> Cell(c.block, off, "ptr", this), around |-> c.within]
           h == Inside(c)
           x == [arg |-> e, path |-> this, block |-> c.block, at |-> off, io |-> io,
                 ios |-> c.ios \cup {io}, within |-> c.within \cup {io}, via |-> c.via]
           y == [arg |-> e, path |-> this, block |-> this, at |-> 0, io |-> io,
                 ios |-> c.ios \cup {io}, within |-> {}, via |-> c.via \cup {ptr}]
<1>1. e \in Params /\ io \in Ways /\ this \in Paths
  <2>1. e \in Params
    BY ContextIs
  <2>2. this \in Paths
    <3>1. i \in Nat /\ c.path \in Paths
      BY ContextIs
    <3> QED
      BY <3>1 DEF Paths
  <2> QED
    BY <2>1, <2>2, ContextIs, IoIs
<1>2. off \in Int
  <2>1. Offset[c.arg] \in [0 .. Len(c.arg.entries) -> Int] /\ i - 1 \in 0 .. Len(c.arg.entries)
    BY ContextIs, OffsetSteps
  <2>2. Offset[c.arg][i - 1] \in Int
    BY <2>1
  <2> QED
    BY <2>2, ContextIs
<1>3. ptr \in Pointers
  <2>1. Cell(c.block, off, "ptr", this) \in Paths \X Int \X [what : {"ptr"}, path : Paths]
    BY <1>1, <1>2, ContextIs DEF Cell
  <2> QED
    BY <2>1, ContextIs DEF Pointers
<1>4. EntryContext(c, i) =
        LET here == [h EXCEPT !.arg = e, !.path = this] IN
        IF ByValue(e, TRUE) THEN [here EXCEPT !.at = off]
        ELSE [here EXCEPT !.block = this, !.at = 0, !.within = {}, !.via = @ \cup {ptr}]
  BY Zenon DEF EntryContext
<1>5. /\ h \in Context
      /\ h.arg = c.arg /\ h.path = c.path /\ h.block = c.block /\ h.at = c.at /\ h.io = io
      /\ h.ios = c.ios \cup {io} /\ h.within = c.within \cup {io} /\ h.via = c.via
  BY InsideIs
<1> HIDE DEF e, io, off, this, ptr, h
<1>6. CASE ByValue(e, TRUE)
  <2>1. EntryContext(c, i) = x
    <3>1. EntryContext(c, i) = [[h EXCEPT !.arg = e, !.path = this] EXCEPT !.at = off]
      BY <1>4, <1>6
    <3> QED
      BY <3>1, <1>5 DEF Context
  <2>2. x \in Context
    BY <1>1, <1>2, <1>5, ContextIs DEF Context, Pointers
  <2>3. /\ x.arg = e /\ x.path = this /\ x.io = io /\ x.ios = c.ios \cup {io}
        /\ x.block = c.block /\ x.at = off /\ x.within = c.within \cup {io} /\ x.via = c.via
    OBVIOUS
  <2> HIDE DEF x
  <2> QED
    BY <1>6, <2>1, <2>2, <2>3 DEF e, io, off, this
<1>7. CASE ~ ByValue(e, TRUE)
  <2>1. EntryContext(c, i) = y
    <3>1. EntryContext(c, i) =
            [[h EXCEPT !.arg = e, !.path = this]
               EXCEPT !.block = this, !.at = 0, !.within = {}, !.via = @ \cup {ptr}]
      BY <1>4, <1>7
    <3> QED
      BY <3>1, <1>5 DEF Context
  <2>2. y \in Context
    <3>1. c.via \cup {ptr} \in SUBSET Pointers /\ {} \in SUBSET Ways /\ 0 \in Int
      BY <1>3, ContextIs
    <3>2. c.ios \cup {io} \in SUBSET Ways
      BY <1>1, ContextIs
    <3> QED
      BY <1>1, <3>1, <3>2 DEF Context, Pointers
  <2>3. /\ y.arg = e /\ y.path = this /\ y.io = io /\ y.ios = c.ios \cup {io}
        /\ y.block = this /\ y.at = 0 /\ y.within = {} /\ y.via = c.via \cup {ptr}
    OBVIOUS
  <2> HIDE DEF y
  <2> QED
    BY <1>7, <2>1, <2>2, <2>3 DEF e, io, off, this, ptr
<1> QED
  BY <1>6, <1>7

\* The leaves of what is at c.
LeavesAt(g, c) ==
  IF c.arg.type # "ds" THEN {Inside(c)}
  ELSE UNION {g[EntryContext(c, i)] : i \in DOMAIN c.arg.entries}

\* The recursive definition of the leaves unfolds.
LEMMA LeavesAre == \A c \in Context : Leaves[c] = LeavesAt(Leaves, c)
<1> DEFINE G == [Context -> SUBSET Context]
           F == [g \in G |-> [c \in Context |-> LeavesAt(g, c)]]
           L == [k \in 0 .. MaxDepth |-> {c \in Context : c.arg \in Nested[k]}]
<1>1. ASSUME NEW c \in Context
      PROVE  /\ DOMAIN c.arg.entries = 1 .. Len(c.arg.entries) /\ Inside(c) \in Context
             /\ \A i \in DOMAIN c.arg.entries :
                  EntryContext(c, i) \in Context /\ EntryContext(c, i).arg = c.arg.entries[i]
  <2>1. DOMAIN c.arg.entries = 1 .. Len(c.arg.entries)
    BY ContextIs
  <2> QED
    BY <2>1, InsideIs, EntryContextIs
<1>2. ASSUME NEW g \in G PROVE [c \in Context |-> LeavesAt(g, c)] \in G
  <2>1. ASSUME NEW c \in Context PROVE LeavesAt(g, c) \in SUBSET Context
    <3>1. \A i \in DOMAIN c.arg.entries : g[EntryContext(c, i)] \in SUBSET Context
      BY <1>1
    <3> QED
      BY <1>1, <3>1 DEF LeavesAt
  <2> QED
    BY <2>1
<1>3. F \in [G -> G] /\ \A g \in G : F[g] = [c \in Context |-> LeavesAt(g, c)]
  BY <1>2
<1> HIDE DEF F
<1>4. G # {}
  <2>1. [c \in Context |-> {}] \in G
    OBVIOUS
  <2> QED
    BY <2>1
<1>5. \A g \in G : g = [c \in Context |-> g[c]]
  OBVIOUS
<1> HIDE DEF G
<1>6. \A k \in Nat, c \in Context : k <= MaxDepth => (c \in L[k] <=> c.arg \in Nested[k])
  BY DepthIs
<1> HIDE DEF L
<1>7. \A c \in Context : c \notin L[0] /\ c \in L[MaxDepth]
  <2> SUFFICES ASSUME NEW c \in Context PROVE c \notin L[0] /\ c \in L[MaxDepth]
    OBVIOUS
  <2>1. c.arg \in Params
    BY ContextIs
  <2>2. c.arg \notin Nested[0] /\ c.arg \in Nested[MaxDepth]
    BY <2>1, Layers
  <2>3. 0 \in Nat /\ 0 <= MaxDepth /\ MaxDepth \in Nat /\ MaxDepth <= MaxDepth
    BY DepthIs
  <2> QED
    BY <1>6, <2>2, <2>3
<1>8. ASSUME NEW k \in Nat, k + 1 <= MaxDepth, NEW g \in G, NEW h \in G,
             \A x \in Context : x \in L[k] => g[x] = h[x],
             NEW c \in Context, c \in L[k + 1]
      PROVE  F[g][c] = F[h][c]
  <2>1. c.arg \in Nested[k + 1] /\ k <= MaxDepth
    BY <1>6, <1>8, DepthIs
  <2>2. \A i \in DOMAIN c.arg.entries : c.arg.entries[i] \in Nested[k]
    BY <1>1, <1>8, <2>1, EntriesBelow
  <2>3. \A i \in DOMAIN c.arg.entries : g[EntryContext(c, i)] = h[EntryContext(c, i)]
    BY <1>1, <1>6, <1>8, <2>1, <2>2
  <2>4. LeavesAt(g, c) = LeavesAt(h, c)
    BY <2>3 DEF LeavesAt
  <2> QED
    BY <1>3, <1>8, <2>4
<1>9. Layered(Context, G, F, MaxDepth, L)
  BY <1>3, <1>4, <1>5, <1>7, <1>8, DepthIs DEF Layered
<1>10. PICK f \in G : f = F[f]
  BY <1>9, Recursion
<1>11. f = [c \in Context |-> LeavesAt(f, c)]
  BY <1>3, <1>10
<1>12. Leaves = [c \in Context |-> LeavesAt(Leaves, c)]
  BY <1>11, Zenon DEF Leaves, LeavesAt
<1> QED
  BY <1>12

\* A leaf of a structure is a leaf of one of its entries.
LEMMA LeafIs ==
  ASSUME NEW c \in Context, NEW l \in Leaves[c]
  PROVE  IF c.arg.type # "ds" THEN l = Inside(c)
         ELSE \E i \in 1 .. Len(c.arg.entries) : l \in Leaves[EntryContext(c, i)]
<1>1. DOMAIN c.arg.entries = 1 .. Len(c.arg.entries)
  BY ContextIs
<1>2. l \in LeavesAt(Leaves, c)
  BY LeavesAre
<1> QED
  BY <1>1, <1>2 DEF LeavesAt

-----------------------------------------------------------------------------
(* A structure that has been made *)

\* x is the making of entry i of the structure that t makes.
Entry(t, i, x) ==
  /\ x \in CopyIns /\ x.arg = t.arg.entries[i] /\ x.path = Append(t.path, i)
  /\ x.outer = Io(t.arg, t.outer)
AddedBy(t, i, x) ==
  Added_(t.arg.entries[i], Append(t.path, i), t.path, Io(t.arg, t.outer), Offset[t.arg][i - 1],
         CopyIn[x].mem)

\* One step of it.
LEMMA StepMade ==
  ASSUME NEW t \in CopyIns, NEW f, Makes(CopyIn, t, f), NEW i \in 1 .. Len(t.arg.entries)
  PROVE  LET x == ToCopyIn(t.arg.entries[i], Append(t.path, i), Io(t.arg, t.outer), f[i - 1].errno)
         IN  /\ i - 1 \in 0 .. Len(t.arg.entries) /\ f[i - 1] \in Making /\ f[i] \in Making
             /\ Entry(t, i, x) /\ x.errno = f[i - 1].errno
             /\ CopyIn[x] \in CopyInResult
             /\ ~ f[i - 1].ok => f[i] = f[i - 1]
             /\ f[i - 1].ok =>
                  /\ f[i].ok = CopyIn[x].ok /\ f[i].errno = CopyIn[x].errno
                  /\ f[i].where = f[i - 1].where + Size(t.arg.entries[i])
                  /\ f[i].mem = f[i - 1].mem \cup CopyIn[x].mem
                       \cup (IF CopyIn[x].ok
                               THEN Added_(t.arg.entries[i], Append(t.path, i), t.path,
                                           Io(t.arg, t.outer), f[i - 1].where, CopyIn[x].mem)
                               ELSE {})
<1> DEFINE n == Len(t.arg.entries)
           d == f[i - 1]
           e == t.arg.entries[i]
           this == Append(t.path, i)
           io == Io(t.arg, t.outer)
           x == ToCopyIn(e, this, io, d.errno)
<1>1. i - 1 \in 0 .. n /\ d \in Making /\ f[i] \in Making /\ f[i] = OneMore(CopyIn, t, i, d)
  BY CopyInsAre DEF Makes
<1>2. e \in Params /\ this \in Paths /\ io \in Ways /\ t.path \in Paths
  BY CopyInsAre
<1>3. d.errno \in Errnos
  BY <1>1, Zenon DEF Making
<1>4. x \in CopyIns /\ x.arg = e /\ x.path = this /\ x.outer = io /\ x.errno = d.errno
  <2> HIDE DEF e, this, io, d
  <2> QED
    BY <1>2, <1>3, ToCopyInIs
<1>5. Entry(t, i, x)
  <2> HIDE DEF x
  <2> QED
    BY <1>4 DEF Entry
<1>6. CopyIn[x] \in CopyInResult
  <2> HIDE DEF x
  <2> QED
    BY <1>4, CopyInIs DEF Copying
<1>7. OneMore(CopyIn, t, i, d) =
        IF ~ d.ok THEN d ELSE CopyEntry(e, this, t.path, io, d, CopyIn[x])
  BY DEF OneMore
<1> HIDE DEF e, this, io, d, x
<1>8. LET r == CopyEntry(e, this, t.path, io, d, CopyIn[x]) IN
      /\ r \in Making /\ r.ok = CopyIn[x].ok /\ r.errno = CopyIn[x].errno
      /\ r.where = d.where + Size(e)
      /\ r.mem = d.mem \cup CopyIn[x].mem
                   \cup (IF CopyIn[x].ok THEN Added_(e, this, t.path, io, d.where, CopyIn[x].mem)
                         ELSE {})
  BY <1>1, <1>2, <1>6, EntryCopied
<1>9. ~ d.ok => f[i] = d
  BY <1>1, <1>7, Zenon
<1>10. d.ok => f[i] = CopyEntry(e, this, t.path, io, d, CopyIn[x])
  BY <1>1, <1>7, Zenon
<1>11. d.ok =>
         /\ f[i].ok = CopyIn[x].ok /\ f[i].errno = CopyIn[x].errno
         /\ f[i].where = d.where + Size(e)
         /\ f[i].mem = d.mem \cup CopyIn[x].mem
              \cup (IF CopyIn[x].ok THEN Added_(e, this, t.path, io, d.where, CopyIn[x].mem)
                    ELSE {})
  BY <1>8, <1>10, Zenon
<1> QED
  BY <1>1, <1>4, <1>5, <1>6, <1>9, <1>11, Zenon DEF e, this, io, d, x, n

\* What a structure has made is what its entries have made and added.
LEMMA StructureMade ==
  ASSUME NEW t \in CopyIns, t.arg.type = "ds", CopyIn[t].ok
  PROVE  \E q : /\ \A i \in 1 .. Len(t.arg.entries) : Entry(t, i, q[i]) /\ CopyIn[q[i]].ok
                /\ \A d : d \in CopyIn[t].mem <=>
                     \E i \in 1 .. Len(t.arg.entries) :
                       d \in CopyIn[q[i]].mem \/ d \in AddedBy(t, i, q[i])
<1> DEFINE n == Len(t.arg.entries)
<1>1. PICK f : Makes(CopyIn, t, f) /\ CopyEntries(CopyIn, t) = MadeOf(f, n)
  BY CopyInIs, EntriesMade
<1>2. CopyIn[t] = MadeOf(f, n)
  BY <1>1, CopyInIs DEF MakeOne
<1>3. n \in Nat /\ f \in [0 .. n -> Making] /\ f[0] = NothingMade(t)
  BY <1>1, CopyInsAre DEF Makes
<1>4. f[n].ok /\ CopyIn[t].mem = f[n].mem
  <2>1. MadeOf(f, n).ok = f[n].ok /\ MadeOf(f, n).mem = f[n].mem
    BY Zenon DEF MadeOf
  <2> QED
    BY <1>2, <2>1, Zenon
<1> DEFINE q == [i \in 1 .. n |->
                   ToCopyIn(t.arg.entries[i], Append(t.path, i), Io(t.arg, t.outer), f[i - 1].errno)]
           Step(i) ==
             /\ Entry(t, i, q[i])
             /\ ~ f[i - 1].ok => f[i] = f[i - 1]
             /\ f[i - 1].ok =>
                  /\ f[i].ok = CopyIn[q[i]].ok
                  /\ f[i].where = f[i - 1].where + Size(t.arg.entries[i])
                  /\ f[i].mem = f[i - 1].mem \cup CopyIn[q[i]].mem
                       \cup (IF CopyIn[q[i]].ok
                               THEN Added_(t.arg.entries[i], Append(t.path, i), t.path,
                                           Io(t.arg, t.outer), f[i - 1].where, CopyIn[q[i]].mem)
                               ELSE {})
<1>5. ASSUME NEW i \in 1 .. n PROVE Step(i)
  <2> DEFINE x == ToCopyIn(t.arg.entries[i], Append(t.path, i), Io(t.arg, t.outer), f[i - 1].errno)
  <2>1. q[i] = x
    OBVIOUS
  <2>2. i \in 1 .. Len(t.arg.entries)
    OBVIOUS
  <2> HIDE DEF q, n
  <2>a. /\ i - 1 \in 0 .. Len(t.arg.entries) /\ f[i - 1] \in Making /\ f[i] \in Making
        /\ Entry(t, i, x) /\ x.errno = f[i - 1].errno
        /\ CopyIn[x] \in CopyInResult
        /\ ~ f[i - 1].ok => f[i] = f[i - 1]
        /\ f[i - 1].ok =>
             /\ f[i].ok = CopyIn[x].ok /\ f[i].errno = CopyIn[x].errno
             /\ f[i].where = f[i - 1].where + Size(t.arg.entries[i])
             /\ f[i].mem = f[i - 1].mem \cup CopyIn[x].mem
                  \cup (IF CopyIn[x].ok
                          THEN Added_(t.arg.entries[i], Append(t.path, i), t.path,
                                      Io(t.arg, t.outer), f[i - 1].where, CopyIn[x].mem)
                          ELSE {})
    BY <1>1, <2>2, StepMade
  <2> HIDE DEF x
  <2>3. /\ Entry(t, i, x) /\ (~ f[i - 1].ok => f[i] = f[i - 1])
        /\ f[i - 1].ok =>
             /\ f[i].ok = CopyIn[x].ok
             /\ f[i].where = f[i - 1].where + Size(t.arg.entries[i])
             /\ f[i].mem = f[i - 1].mem \cup CopyIn[x].mem
                  \cup (IF CopyIn[x].ok
                          THEN Added_(t.arg.entries[i], Append(t.path, i), t.path,
                                      Io(t.arg, t.outer), f[i - 1].where, CopyIn[x].mem)
                          ELSE {})
    BY <2>a, Zenon
  <2> QED
    BY <2>1, <2>3, Zenon
<1> HIDE DEF q
<1>6. \A i \in 0 .. n : f[i].ok
  <2> DEFINE S == {j \in Nat : j <= n => f[n - j].ok}
  <2>1. 0 \in S
    BY <1>3, <1>4
  <2>2. ASSUME NEW j \in Nat, j \in S PROVE j + 1 \in S
    <3> DEFINE m == j + 1
               i == n - j
    <3>1. m \in Nat /\ (m <= n => i \in 1 .. n /\ n - m = i - 1 /\ j <= n)
      BY <1>3
    <3> HIDE DEF m
    <3>2. ASSUME m <= n PROVE f[n - m].ok
      <4>1. f[i].ok
        BY <3>1, <3>2, <2>2
      <4> HIDE DEF i
      <4>2. Step(i)
        <5> HIDE DEF Step
        <5> QED
          BY <1>5, <3>1, <3>2
      <4>3. ~ f[i - 1].ok => f[i] = f[i - 1]
        BY <4>2, Zenon
      <4>4. f[i - 1].ok
        BY <4>1, <4>3, Zenon
      <4> QED
        BY <4>4, <3>1, <3>2
    <3>3. m \in S
      BY <3>1, <3>2
    <3> QED
      BY <3>3 DEF m
  <2>3. Nat \subseteq S
    <3> HIDE DEF S
    <3> QED
      BY <2>1, <2>2, Induction
  <2>4. ASSUME NEW i \in 0 .. n PROVE f[i].ok
    <3> DEFINE j == n - i
    <3>1. j \in Nat /\ j <= n /\ n - j = i
      BY <1>3
    <3> HIDE DEF j
    <3>2. f[n - j].ok
      BY <2>3, <3>1
    <3> QED
      BY <3>1, <3>2
  <2> QED
    BY <2>4
<1> DEFINE o == Offset[t.arg]
           More(i) == CopyIn[q[i]].mem \cup AddedBy(t, i, q[i])
<1>7. ASSUME NEW i \in 1 .. n
      PROVE  /\ i - 1 \in 0 .. n /\ CopyIn[q[i]].ok
             /\ f[i].where = f[i - 1].where + Size(t.arg.entries[i])
             /\ f[i - 1].where = o[i - 1] => f[i].mem = f[i - 1].mem \cup More(i)
  <2>1. i - 1 \in 0 .. n /\ i \in 0 .. n
    BY <1>3
  <2>2. f[i].ok /\ f[i - 1].ok
    BY <1>6, <2>1
  <2>3. Step(i)
    <3> HIDE DEF Step
    <3> QED
      BY <1>5
  <2> HIDE DEF n
  <2>4. /\ CopyIn[q[i]].ok
        /\ f[i].where = f[i - 1].where + Size(t.arg.entries[i])
    BY <2>2, <2>3, Zenon
  <2>5. f[i].mem = f[i - 1].mem \cup CopyIn[q[i]].mem
                     \cup Added_(t.arg.entries[i], Append(t.path, i), t.path,
                                 Io(t.arg, t.outer), f[i - 1].where, CopyIn[q[i]].mem)
    BY <2>2, <2>3, <2>4, Zenon
  <2>6. f[i - 1].where = o[i - 1] => f[i].mem = f[i - 1].mem \cup More(i)
    <3> SUFFICES ASSUME f[i - 1].where = o[i - 1] PROVE f[i].mem = f[i - 1].mem \cup More(i)
      OBVIOUS
    <3>1. f[i].mem = (f[i - 1].mem \cup CopyIn[q[i]].mem) \cup AddedBy(t, i, q[i])
      BY <2>5, Zenon DEF AddedBy
    <3> QED
      BY <3>1
  <2> QED
    BY <2>1, <2>4, <2>6, Zenon
<1>8. /\ o[0] = 0 /\ \A i \in 1 .. n : o[i] = o[i - 1] + Size(t.arg.entries[i])
  BY CopyInsAre, OffsetSteps
<1>9. f[0].where = 0 /\ f[0].mem = {}
  BY <1>3 DEF NothingMade
<1> HIDE DEF n, o, Step
<1> DEFINE S == {j \in Nat : j <= n => /\ f[j].where = o[j]
                                      /\ \A d : d \in f[j].mem <=>
                                           \E i \in 1 .. j : d \in More(i)}
<1>10. 0 \in S
  <2>1. \A d : d \in f[0].mem <=> \E i \in 1 .. 0 : d \in More(i)
    BY <1>9
  <2> QED
    BY <1>8, <1>9, <2>1
<1>11. ASSUME NEW j \in Nat, j \in S PROVE j + 1 \in S
  <2> DEFINE m == j + 1
  <2>1. m \in Nat /\ m - 1 = j /\ (m <= n => m \in 1 .. n /\ j <= n)
        /\ \A i : i \in 1 .. m <=> i \in 1 .. j \/ i = m
    BY <1>3
  <2> HIDE DEF m, More
  <2>2. ASSUME m <= n
        PROVE  f[m].where = o[m] /\ \A d : d \in f[m].mem <=> \E i \in 1 .. m : d \in More(i)
    <3>1. f[j].where = o[j] /\ \A d : d \in f[j].mem <=> \E i \in 1 .. j : d \in More(i)
      BY <2>1, <2>2, <1>11
    <3>2. /\ f[m].where = f[m - 1].where + Size(t.arg.entries[m])
          /\ f[m - 1].where = o[m - 1] => f[m].mem = f[m - 1].mem \cup More(m)
      BY <1>7, <2>1, <2>2
    <3>3. f[m].where = o[m]
      BY <3>1, <3>2, <1>8, <2>1, <2>2
    <3>4. f[m].mem = f[j].mem \cup More(m)
      BY <3>1, <3>2, <2>1
    <3>5. \A d : d \in f[m].mem <=> \E i \in 1 .. m : d \in More(i)
      BY <3>1, <3>4, <2>1
    <3> QED
      BY <3>3, <3>5
  <2>3. m \in S
    BY <2>1, <2>2
  <2> QED
    BY <2>3 DEF m
<1>12. Nat \subseteq S
  <2> HIDE DEF S
  <2> QED
    BY <1>10, <1>11, Induction
<1>13. \A d : d \in f[n].mem <=> \E i \in 1 .. n : d \in More(i)
  BY <1>3, <1>12
<1>14. \A i \in 1 .. n : Entry(t, i, q[i]) /\ CopyIn[q[i]].ok
  BY <1>5, <1>7, Zenon DEF Step
<1> QED
  BY <1>4, <1>13, <1>14 DEF n

-----------------------------------------------------------------------------
(* Where the cells of what has been made are *)

\* Path q is p or that of something in p.
Extends_(p, q) == Len(p) <= Len(q) /\ \A k \in 1 .. Len(p) : q[k] = p[k]
Under(p, q) == Extends_(p, q) /\ q # p

\* An entry's path is below that of its structure and of no other entry.
LEMMA PathsAre ==
  ASSUME NEW p \in Paths, NEW q \in Paths, NEW i \in Nat, NEW j \in Nat
  PROVE  /\ Append(p, i) \in Paths /\ Under(p, Append(p, i)) /\ ~ Extends_(Append(p, i), p)
         /\ Extends_(Append(p, i), q) => Under(p, q)
         /\ Extends_(Append(p, i), q) /\ Extends_(Append(p, j), q) => i = j
         /\ Extends_(p, p)
<1>1. p \in Seq(Nat) /\ q \in Seq(Nat) /\ Len(p) \in Nat /\ Len(q) \in Nat
  BY DEF Paths
<1>2. \A h \in Nat : /\ Append(p, h) \in Seq(Nat) /\ Len(Append(p, h)) = Len(p) + 1
                     /\ Append(p, h)[Len(p) + 1] = h
                     /\ \A k \in 1 .. Len(p) : Append(p, h)[k] = p[k]
  BY <1>1
<1>3. Append(p, i) \in Paths /\ Append(p, i) # p
  <2>1. Len(Append(p, i)) # Len(p)
    BY <1>1, <1>2
  <2> QED
    BY <1>2, <2>1 DEF Paths
<1>4. Under(p, Append(p, i)) /\ ~ Extends_(Append(p, i), p)
  <2>1. Len(p) <= Len(Append(p, i)) /\ ~ (Len(Append(p, i)) <= Len(p))
    BY <1>1, <1>2
  <2> QED
    BY <1>2, <1>3, <2>1 DEF Under, Extends_
<1>5. \A h \in Nat : Extends_(Append(p, h), q) =>
        Len(p) + 1 <= Len(q) /\ q[Len(p) + 1] = h /\ \A k \in 1 .. Len(p) : q[k] = p[k]
  <2> SUFFICES ASSUME NEW h \in Nat, Extends_(Append(p, h), q)
               PROVE  Len(p) + 1 <= Len(q) /\ q[Len(p) + 1] = h /\ \A k \in 1 .. Len(p) : q[k] = p[k]
    OBVIOUS
  <2> DEFINE r == Append(p, h)
  <2>1. Len(r) = Len(p) + 1 /\ r[Len(p) + 1] = h /\ \A k \in 1 .. Len(p) : r[k] = p[k]
    BY <1>2
  <2>2. Len(r) <= Len(q) /\ \A k \in 1 .. Len(r) : q[k] = r[k]
    BY DEF Extends_
  <2> HIDE DEF r
  <2> QED
    BY <1>1, <2>1, <2>2
<1>6. Extends_(Append(p, i), q) => Under(p, q)
  <2> SUFFICES ASSUME Extends_(Append(p, i), q) PROVE Under(p, q)
    OBVIOUS
  <2>1. Len(p) + 1 <= Len(q) /\ \A k \in 1 .. Len(p) : q[k] = p[k]
    BY <1>5
  <2>2. Len(p) <= Len(q) /\ q # p
    BY <2>1, <1>1
  <2> QED
    BY <2>1, <2>2 DEF Under, Extends_
<1>7. Extends_(Append(p, i), q) /\ Extends_(Append(p, j), q) => i = j
  <2>1. Extends_(Append(p, i), q) => q[Len(p) + 1] = i
    BY <1>5
  <2>2. Extends_(Append(p, j), q) => q[Len(p) + 1] = j
    BY <1>5
  <2> QED
    BY <2>1, <2>2, Zenon
<1>8. Extends_(p, p)
  BY <1>1 DEF Extends_
<1> QED
  BY <1>3, <1>4, <1>6, <1>7, <1>8

\* A cell of a parameter that has been made is in its block or in one below.
Shaped(t, d) ==
  Under(t.path, d[1]) \/ (d[1] = t.path /\ 0 <= d[2] /\ d[2] < Bytes(t.arg))

\* What an entry adds is where the entry is.
LEMMA AddedShape ==
  ASSUME NEW t \in CopyIns, Accepted(t.arg), NEW i \in 1 .. Len(t.arg.entries),
         NEW x, Entry(t, i, x), NEW d \in AddedBy(t, i, x)
  PROVE  /\ d[1] = t.path /\ d[2] \in Int
         /\ Offset[t.arg][i - 1] <= d[2] /\ d[2] < Offset[t.arg][i]
<1> DEFINE e == t.arg.entries[i]
           o == Offset[t.arg]
           this == Append(t.path, i)
           m == CopyIn[x].mem
<1>1. t.arg \in Params /\ e \in Params /\ this \in Paths /\ t.path \in Paths
  BY CopyInsAre
<1>2. Accepted(e)
  BY <1>1, AcceptedEntries
<1>3. o[i - 1] \in Int /\ o[i] = o[i - 1] + Size(e) /\ Bytes(e) \in Nat /\ Size(e) \in Nat
  <2>1. Len(t.arg.entries) \in Nat /\ o \in [0 .. Len(t.arg.entries) -> Int]
        /\ o[i] = o[i - 1] + Size(e)
    BY <1>1, OffsetSteps
  <2>2. i - 1 \in 0 .. Len(t.arg.entries)
    BY <2>1
  <2> QED
    BY <1>1, <1>2, <2>1, <2>2, SizesAreNat
<1>4. m \in Memory
  <2>1. CopyIn[x] \in CopyInResult
    BY CopyInIs DEF Copying, Entry
  <2> QED
    BY <2>1, Zenon DEF CopyInResult
<1>5. d \in Added_(e, this, t.path, Io(t.arg, t.outer), o[i - 1], m)
  BY DEF AddedBy
<1> HIDE DEF e, o, this, m
<1>6. CASE ByValue(e, TRUE)
  <2>1. d \in Moved(Cells(m, this, 0, Bytes(e)), t.path, o[i - 1])
    BY <1>5, <1>6 DEF Added_
  <2>2. Cells(m, this, 0, Bytes(e)) \in Memory
    BY <1>4, CellsIs
  <2>3. PICK c \in Cells(m, this, 0, Bytes(e)) : d[1] = t.path /\ d[2] = c[2] + o[i - 1]
    <3> DEFINE cells == Cells(m, this, 0, Bytes(e))
               where == o[i - 1]
    <3> HIDE DEF cells, where
    <3>1. \A b \in Moved(cells, t.path, where) :
            b[1] = t.path /\ \E c \in cells : b[2] = c[2] + where /\ b[3] = c[3]
      BY <2>2, <1>1, <1>3, MovedIs, Zenon DEF cells, where
    <3>2. d \in Moved(cells, t.path, where)
      BY <2>1 DEF cells, where
    <3> QED
      BY <3>1, <3>2 DEF cells, where
  <2>4. 0 <= c[2] /\ c[2] < 0 + Bytes(e) /\ c \in m
    BY DEF Cells
  <2>5. c[2] \in Int
    BY <1>4, <2>4, MemoryIs, PlaceIs
  <2>6. Size(e) = Bytes(e)
    BY <1>6 DEF Size
  <2> QED
    BY <2>3, <2>4, <2>5, <2>6, <1>3 DEF o
<1>7. CASE ~ ByValue(e, TRUE)
  <2>1. d = Cell(t.path, o[i - 1], "ptr", this)
    BY <1>5, <1>7 DEF Added_
  <2>2. d[1] = t.path /\ d[2] = o[i - 1]
    <3> DEFINE where == o[i - 1]
    <3> HIDE DEF where
    <3>1. Cell(t.path, where, "ptr", this)[1] = t.path /\ Cell(t.path, where, "ptr", this)[2] = where
      BY DEF Cell
    <3> QED
      BY <2>1, <3>1, Zenon DEF where
  <2>3. Size(e) = PtrSize /\ PtrSize \in Nat /\ PtrSize # 0
    BY <1>7, DepthIs DEF Size
  <2> QED
    BY <2>2, <2>3, <1>3 DEF o
<1> QED
  BY <1>6, <1>7

\* All that copyIn makes of a parameter is in its block or below.
LEMMA MadeInShape ==
  \A a \in Params : Accepted(a) =>
    \A t \in CopyIns : t.arg = a /\ CopyIn[t].ok =>
      /\ CopyIn[t].mem \in Memory
      /\ \A d \in CopyIn[t].mem : d \in Places /\ Shaped(t, d)
<1> DEFINE Good(a) == Accepted(a) => \A t \in CopyIns : t.arg = a /\ CopyIn[t].ok =>
                                       \A d \in CopyIn[t].mem : Shaped(t, d)
           S == {a \in Params : Good(a)}
<1>1. ASSUME NEW a \in Params, \A i \in 1 .. Len(a.entries) : a.entries[i] \in S
      PROVE  a \in S
  <2>1. ASSUME Accepted(a), NEW t \in CopyIns, t.arg = a, CopyIn[t].ok, NEW d \in CopyIn[t].mem
        PROVE  Shaped(t, d)
    <3>0. t.path \in Paths
      BY CopyInsAre
    <3>1. CASE a.type # "ds"
      <4> DEFINE io == Io(a, t.outer)
      <4>1. CopyIn[t] = CopyScalar(a, t.path, io, t.errno)
        BY <2>1, <3>1, CopyInIs DEF MakeOne
      <4>2. CopyScalar(a, t.path, io, t.errno).mem =
              IF io = "out" THEN {}
              ELSE IF a.type = "hex" /\ a.value = "misfit" THEN {Cell(t.path, 0, "blank", t.path)}
              ELSE {Cell(t.path, 0, "in", t.path)}
        BY Zenon DEF CopyScalar
      <4>3. d = Cell(t.path, 0, "blank", t.path) \/ d = Cell(t.path, 0, "in", t.path)
        BY <2>1, <4>1, <4>2
      <4>4. d[1] = t.path /\ d[2] = 0
        <5>1. \A what : Cell(t.path, 0, what, t.path)[1] = t.path /\ Cell(t.path, 0, what, t.path)[2] = 0
          BY DEF Cell
        <5> QED
          BY <4>3, <5>1, Zenon
      <4>5. Bytes(a) \in Nat \ {0}
        BY <2>1, <3>1, ScalarTaken DEF Accepted
      <4> QED
        BY <2>1, <4>4, <4>5 DEF Shaped
    <3>2. CASE a.type = "ds"
      <4>1. PICK q : /\ \A i \in 1 .. Len(a.entries) : Entry(t, i, q[i]) /\ CopyIn[q[i]].ok
                     /\ \A b : b \in CopyIn[t].mem <=>
                          \E i \in 1 .. Len(a.entries) :
                            b \in CopyIn[q[i]].mem \/ b \in AddedBy(t, i, q[i])
        BY <2>1, <3>2, StructureMade
      <4>2. PICK i \in 1 .. Len(a.entries) : d \in CopyIn[q[i]].mem \/ d \in AddedBy(t, i, q[i])
        BY <2>1, <4>1
      <4> DEFINE x == q[i]
      <4>3. Entry(t, i, x) /\ CopyIn[x].ok
        BY <4>1
      <4> HIDE DEF x
      <4>4. CASE d \in CopyIn[x].mem
        <5>1. /\ x \in CopyIns /\ x.arg = a.entries[i] /\ x.path = Append(t.path, i)
              /\ Accepted(a.entries[i]) /\ Good(a.entries[i]) /\ i \in Nat
          <6>1. a.entries[i] \in S
            BY <1>1
          <6> QED
            BY <2>1, <4>3, <6>1, AcceptedEntries DEF Entry
        <5>2. Shaped(x, d)
          BY <4>3, <4>4, <5>1
        <5>3. d[1] \in Paths
          <6>1. CopyIn[x] \in CopyInResult
            BY <5>1, CopyInIs DEF Copying
          <6>2. CopyIn[x].mem \in Memory
            BY <6>1, Zenon DEF CopyInResult
          <6> QED
            BY <4>4, <6>2, MemoryIs, PlaceIs
        <5>4. Extends_(Append(t.path, i), d[1])
          <6>1. Append(t.path, i) \in Paths
            BY <5>1, <3>0, PathsAre
          <6>2. Extends_(Append(t.path, i), Append(t.path, i))
            BY <6>1, <5>1, PathsAre
          <6> QED
            BY <5>1, <5>2, <6>2, Zenon DEF Shaped, Under
        <5> QED
          BY <5>1, <5>3, <5>4, <3>0, PathsAre DEF Shaped
      <4>5. CASE d \in AddedBy(t, i, x)
        <5> DEFINE o == Offset[a]
        <5>1. d[1] = t.path /\ d[2] \in Int /\ o[i - 1] <= d[2] /\ d[2] < o[i]
          BY <2>1, <4>3, <4>5, AddedShape
        <5>2. Len(a.entries) \in Nat /\ \A j \in 1 .. Len(a.entries) : Size(a.entries[j]) \in Nat
          BY <2>1, ParamIs, AcceptedEntries, SizesAreNat
        <5>3. /\ \A j \in 0 .. Len(a.entries) : o[j] \in Nat
              /\ \A j, k \in 0 .. Len(a.entries) : j <= k => o[j] <= o[k]
          BY <5>2, OffsetsGrow
        <5> HIDE DEF o
        <5>4. i - 1 \in 0 .. Len(a.entries) /\ i \in 0 .. Len(a.entries)
              /\ Len(a.entries) \in 0 .. Len(a.entries) /\ i <= Len(a.entries)
          BY <5>2
        <5>5. 0 <= d[2] /\ d[2] < o[Len(a.entries)]
          <6>1. o[i - 1] \in Nat /\ o[i] \in Nat /\ o[Len(a.entries)] \in Nat
                /\ o[i] <= o[Len(a.entries)]
            BY <5>3, <5>4
          <6> QED
            BY <5>1, <6>1
        <5>6. Bytes(a) = o[Len(a.entries)]
          BY <3>2 DEF Bytes, o
        <5> QED
          BY <2>1, <5>1, <5>5, <5>6 DEF Shaped
      <4> QED
        BY <4>2, <4>4, <4>5 DEF x
    <3> QED
      BY <3>1, <3>2
  <2> QED
    BY <2>1
<1>2. \A a \in Params : Good(a)
  <2>1. Params \subseteq S
    <3> HIDE DEF S
    <3> QED
      BY <1>1, OfAll
  <2> QED
    BY <2>1
<1>3. ASSUME NEW a \in Params, Accepted(a), NEW t \in CopyIns, t.arg = a, CopyIn[t].ok
      PROVE  CopyIn[t].mem \in Memory /\ \A d \in CopyIn[t].mem : d \in Places /\ Shaped(t, d)
  <2>1. CopyIn[t] \in CopyInResult
    BY CopyInIs DEF Copying
  <2>2. CopyIn[t].mem \in Memory
    BY <2>1, Zenon DEF CopyInResult
  <2> QED
    BY <1>2, <1>3, <2>2, MemoryIs
<1> QED
  BY <1>3

\* The cells that are moved from one block to another.
LEMMA MovedCells ==
  ASSUME NEW m \in Memory, NEW block \in Paths, NEW from \in Int, NEW size \in Int,
         NEW path \in Paths, NEW by \in Int,
         NEW d \in Places, d[1] = path, from + by <= d[2], d[2] < from + by + size
  PROVE  d \in Moved(Cells(m, block, from, size), path, by)
           <=> <<block, d[2] - by, d[3]>> \in m
<1> DEFINE b == <<block, d[2] - by, d[3]>>
<1>1. d = <<path, d[2], d[3]>> /\ d[2] \in Int /\ d[3] \in Marks
  BY PlaceIs
<1>2. b[1] = block /\ b[2] = d[2] - by /\ b[3] = d[3]
  OBVIOUS
<1>3. ASSUME b \in m PROVE d \in Moved(Cells(m, block, from, size), path, by)
  <2>1. b \in Cells(m, block, from, size)
    <3>1. from <= d[2] - by /\ d[2] - by < from + size
      BY <1>1
    <3> QED
      BY <1>2, <1>3, <3>1 DEF Cells
  <2>2. <<path, b[2] + by, b[3]>> \in Moved(Cells(m, block, from, size), path, by)
    <3> HIDE DEF b
    <3> QED
      BY <2>1, Zenon DEF Moved
  <2>3. b[2] + by = d[2]
    BY <1>1, <1>2
  <2> QED
    BY <1>1, <1>2, <2>2, <2>3, Zenon
<1>4. ASSUME d \in Moved(Cells(m, block, from, size), path, by) PROVE b \in m
  <2>1. Cells(m, block, from, size) \in Memory
    BY CellsIs
  <2>2. PICK c \in Cells(m, block, from, size) : d[2] = c[2] + by /\ d[3] = c[3]
    BY <1>4, <2>1, MovedIs
  <2>3. c \in m /\ c[1] = block
    BY DEF Cells
  <2>4. c[2] \in Int /\ c = <<c[1], c[2], c[3]>>
    BY <2>3, MemoryIs, PlaceIs
  <2>5. c[2] = d[2] - by
    BY <1>1, <2>2, <2>4
  <2> QED
    BY <2>2, <2>3, <2>4, <2>5, Zenon
<1> QED
  BY <1>3, <1>4

\* Of the cells of a structure, those below entry i are the entry's, and those
\* where entry i is are what it has added.
LEMMA StructureCells ==
  ASSUME NEW t \in CopyIns, t.arg.type = "ds", CopyIn[t].ok, Accepted(t.arg)
  PROVE  \E q : \A i \in 1 .. Len(t.arg.entries) :
           /\ Entry(t, i, q[i]) /\ CopyIn[q[i]].ok
           /\ \A d \in Places :
                /\ Extends_(Append(t.path, i), d[1]) =>
                     (d \in CopyIn[t].mem <=> d \in CopyIn[q[i]].mem)
                /\ d[1] = t.path /\ Offset[t.arg][i - 1] <= d[2] /\ d[2] < Offset[t.arg][i] =>
                     (d \in CopyIn[t].mem <=> d \in AddedBy(t, i, q[i]))
<1> DEFINE n == Len(t.arg.entries)
           o == Offset[t.arg]
<1>1. PICK q : /\ \A i \in 1 .. n : Entry(t, i, q[i]) /\ CopyIn[q[i]].ok
               /\ \A d : d \in CopyIn[t].mem <=>
                    \E i \in 1 .. n : d \in CopyIn[q[i]].mem \/ d \in AddedBy(t, i, q[i])
  BY StructureMade
<1>2. t.path \in Paths /\ t.arg \in Params /\ n \in Nat
      /\ \A i \in 1 .. n : t.arg.entries[i] \in Params /\ Accepted(t.arg.entries[i])
  BY CopyInsAre, AcceptedEntries
<1>3. /\ \A i \in 0 .. n : o[i] \in Nat
      /\ \A i, j \in 0 .. n : i <= j => o[i] <= o[j]
  <2>1. \A i \in 1 .. n : Size(t.arg.entries[i]) \in Nat
    BY <1>2, SizesAreNat
  <2> QED
    BY <1>2, <2>1, OffsetsGrow
<1>4. ASSUME NEW i \in 1 .. n, NEW d \in CopyIn[q[i]].mem
      PROVE  Extends_(Append(t.path, i), d[1]) /\ d[1] \in Paths
  <2> DEFINE x == q[i]
  <2>1. x \in CopyIns /\ x.arg = t.arg.entries[i] /\ x.path = Append(t.path, i) /\ CopyIn[x].ok
    BY <1>1 DEF Entry
  <2> HIDE DEF x
  <2>2. d \in Places /\ Shaped(x, d)
    BY <2>1, <1>2, <1>4, MadeInShape DEF x
  <2>3. Append(t.path, i) \in Paths /\ i \in Nat
    BY <1>2, PathsAre
  <2>4. Extends_(Append(t.path, i), Append(t.path, i))
    BY <2>3, PathsAre
  <2>5. d[1] \in Paths
    BY <2>2, PlaceIs
  <2> QED
    BY <2>1, <2>2, <2>4, <2>5, Zenon DEF Shaped, Under
<1>5. ASSUME NEW i \in 1 .. n, NEW d \in AddedBy(t, i, q[i])
      PROVE  d[1] = t.path /\ d[2] \in Int /\ o[i - 1] <= d[2] /\ d[2] < o[i]
  <2>1. Entry(t, i, q[i])
    BY <1>1
  <2> QED
    BY <1>5, <2>1, AddedShape
<1> HIDE DEF n, o
<1>6. ASSUME NEW i \in 1 .. n, NEW d \in Places, Extends_(Append(t.path, i), d[1])
      PROVE  d \in CopyIn[t].mem <=> d \in CopyIn[q[i]].mem
  <2>1. d[1] \in Paths /\ i \in Nat
    BY <1>2, PlaceIs
  <2>2. ASSUME NEW j \in 1 .. n, d \in CopyIn[q[j]].mem PROVE j = i
    <3>1. Extends_(Append(t.path, j), d[1]) /\ j \in Nat
      BY <1>4, <2>2, <1>2
    <3> QED
      BY <1>2, <1>6, <2>1, <3>1, PathsAre
  <2>3. ASSUME NEW j \in 1 .. n, d \in AddedBy(t, j, q[j]) PROVE FALSE
    <3>1. d[1] = t.path
      BY <1>5, <2>3
    <3> QED
      BY <1>2, <1>6, <2>1, <3>1, PathsAre
  <2> QED
    BY <1>1, <2>2, <2>3
<1>7. ASSUME NEW i \in 1 .. n, NEW d \in Places, d[1] = t.path, o[i - 1] <= d[2], d[2] < o[i]
      PROVE  d \in CopyIn[t].mem <=> d \in AddedBy(t, i, q[i])
  <2>1. d[2] \in Int /\ i \in Nat
    BY <1>2, PlaceIs
  <2>2. ASSUME NEW j \in 1 .. n, d \in CopyIn[q[j]].mem PROVE FALSE
    <3>1. Extends_(Append(t.path, j), d[1]) /\ j \in Nat
      BY <1>4, <2>2, <1>2
    <3> QED
      BY <1>2, <1>7, <3>1, PathsAre
  <2>3. ASSUME NEW j \in 1 .. n, d \in AddedBy(t, j, q[j]) PROVE j = i
    <3>1. o[j - 1] <= d[2] /\ d[2] < o[j]
      BY <1>5, <2>3
    <3>2. /\ i \in 0 .. n /\ j \in 0 .. n /\ i - 1 \in 0 .. n /\ j - 1 \in 0 .. n
          /\ (i < j => i <= j - 1) /\ (j < i => j <= i - 1)
          /\ (i < j \/ j < i \/ i = j)
      BY <1>2
    <3>3. o[i] \in Nat /\ o[j] \in Nat /\ o[i - 1] \in Nat /\ o[j - 1] \in Nat
          /\ (i < j => o[i] <= o[j - 1]) /\ (j < i => o[j] <= o[i - 1])
      BY <1>3, <3>2
    <3> QED
      BY <1>7, <2>1, <3>1, <3>2, <3>3
  <2> QED
    BY <1>1, <2>2, <2>3
<1> QED
  BY <1>1, <1>6, <1>7 DEF n, o

\* A value that nothing has put there is junk.
LEMMA NothingThere ==
  ASSUME NEW m, NEW block, NEW where, \A d \in m : ~ (d[1] = block /\ d[2] = where)
  PROVE  What(m, block, where) = "junk"
<1>1. There(m, block, where) = {}
  BY DEF There
<1> QED
  BY <1>1 DEF What

\* What is there is what one of the cells there is.
LEMMA SomethingThere ==
  ASSUME NEW m, NEW block, NEW where, \E d \in m : d[1] = block /\ d[2] = where
  PROVE  \E d \in m : d[1] = block /\ d[2] = where /\ What(m, block, where) = d[3].what
<1> DEFINE X == There(m, block, where)
<1>1. What(m, block, where) = IF X = {} THEN "junk" ELSE CHOOSE what \in X : TRUE
  BY DEF What
<1>2. \A w : w \in X <=> \E d \in m : d[1] = block /\ d[2] = where /\ w = d[3].what
  BY DEF There
<1> HIDE DEF X
<1>3. X # {}
  BY <1>2
<1>4. (CHOOSE what \in X : TRUE) \in X
  BY <1>3, Zenon
<1> QED
  BY <1>1, <1>2, <1>3, <1>4, Zenon

\* Parameter t, which has been made, is at c in memory M, with all that is in it.
SamePlace(t, c) == c.arg = t.arg /\ c.path = t.path /\ c.io = t.outer
Below_(M, t) == \A d \in Places : Under(t.path, d[1]) => (d \in M <=> d \in CopyIn[t].mem)
AtIs(M, t, c) ==
  \A d \in Places : d[1] = c.block /\ c.at <= d[2] /\ d[2] < c.at + Bytes(c.arg) =>
    (d \in M <=> "out" \notin c.within /\ <<t.path, d[2] - c.at, d[3]>> \in CopyIn[t].mem)
Pointed(M, c) == \A v \in c.via : v.cell \in M <=> "out" \notin v.around
IsAt(M, t, c) == SamePlace(t, c) /\ Below_(M, t) /\ AtIs(M, t, c) /\ Pointed(M, c)

\* Leaf l is found in M.
FoundIn(M, l) ==
  /\ Pointed(M, l)
  /\ What(M, l.block, l.at) \in IF "out" \in l.within THEN {"junk"} ELSE {"in", "blank"}

\* A scalar at its place is a leaf that is found.
LEMMA ScalarFound ==
  ASSUME NEW M \in Memory, NEW t \in CopyIns, NEW c \in Context, IsAt(M, t, c),
         t.arg.type # "ds", Accepted(t.arg)
  PROVE  FoundIn(M, Inside(c))
<1> DEFINE a == t.arg
           io == Io(a, t.outer)
           p == t.path
           l == Inside(c)
           made == CopyIn[t].mem
<1>1. a \in Params /\ p \in Paths /\ c.arg = a /\ c.path = p /\ c.io = t.outer
      /\ c.block \in Paths /\ c.at \in Int /\ c.within \in SUBSET Ways
  BY CopyInsAre, ContextIs DEF IsAt, SamePlace
<1>2. l.block = c.block /\ l.at = c.at /\ l.within = c.within \cup {io} /\ l.via = c.via
  BY <1>1, InsideIs
<1>3. made = IF io = "out" THEN {}
             ELSE IF a.type = "hex" /\ a.value = "misfit" THEN {Cell(p, 0, "blank", p)}
             ELSE {Cell(p, 0, "in", p)}
  <2>1. CopyIn[t] = CopyScalar(a, p, io, t.errno)
    BY CopyInIs DEF MakeOne
  <2>2. CopyScalar(a, p, io, t.errno).mem =
          IF io = "out" THEN {}
          ELSE IF a.type = "hex" /\ a.value = "misfit" THEN {Cell(p, 0, "blank", p)}
          ELSE {Cell(p, 0, "in", p)}
    BY Zenon DEF CopyScalar
  <2> QED
    BY <2>1, <2>2, Zenon
<1>4. Bytes(a) \in Nat /\ 0 < Bytes(a)
  <2>1. Bytes(a) \in Nat \ {0}
    BY <1>1, ScalarTaken DEF Accepted
  <2> QED
    BY <2>1
<1>5. \A d \in Places : d[1] = c.block /\ d[2] = c.at =>
        (d \in M <=> "out" \notin c.within /\ <<p, 0, d[3]>> \in made)
  <2> SUFFICES ASSUME NEW d \in Places, d[1] = c.block, d[2] = c.at
               PROVE  d \in M <=> "out" \notin c.within /\ <<p, 0, d[3]>> \in made
    OBVIOUS
  <2>1. c.at <= d[2] /\ d[2] < c.at + Bytes(c.arg) /\ d[2] - c.at = 0
    BY <1>1, <1>4
  <2>2. d \in M <=> "out" \notin c.within /\ <<p, d[2] - c.at, d[3]>> \in made
    <3> HIDE DEF made
    <3> QED
      BY <2>1 DEF IsAt, AtIs, made
  <2> HIDE DEF made
  <2> QED
    BY <2>1, <2>2, Zenon
<1> HIDE DEF made, l, a, p, io
<1>6. Pointed(M, l)
  <2>1. Pointed(M, c)
    BY DEF IsAt
  <2> QED
    BY <1>2, <2>1, Zenon DEF Pointed
<1>7. CASE "out" \in l.within
  <2>1. "out" \in c.within \/ made = {}
    BY <1>2, <1>3, <1>7
  <2>2. \A d \in M : ~ (d[1] = c.block /\ d[2] = c.at)
    <3>1. M \subseteq Places
      BY MemoryIs
    <3> QED
      BY <1>5, <2>1, <3>1
  <2>3. What(M, l.block, l.at) = "junk"
    BY <1>2, <2>2, NothingThere
  <2> QED
    BY <1>6, <1>7, <2>3 DEF FoundIn, l
<1>8. CASE "out" \notin l.within
  <2>1. "out" \notin c.within /\ io # "out"
    BY <1>2, <1>8
  <2>2. PICK what \in {"in", "blank"} : made = {Cell(p, 0, what, p)}
    BY <1>3, <2>1
  <2> DEFINE mark == [what |-> what, path |-> p]
             d == <<c.block, c.at, mark>>
  <2>3. Cell(p, 0, what, p) = <<p, 0, mark>>
    BY DEF Cell
  <2>4. d \in Places /\ d[1] = c.block /\ d[2] = c.at /\ d[3] = mark
    BY <1>1 DEF Places, Marks
  <2>5. mark.what = what
    OBVIOUS
  <2> HIDE DEF d, mark
  <2>6. d \in M
    <3>1. <<p, 0, mark>> \in made
      BY <2>2, <2>3
    <3> QED
      BY <1>5, <2>1, <2>4, <3>1
  <2>7. \A b \in M : b[1] = c.block /\ b[2] = c.at => b[3].what \in {"in", "blank"}
    <3> SUFFICES ASSUME NEW b \in M, b[1] = c.block, b[2] = c.at PROVE b[3].what \in {"in", "blank"}
      OBVIOUS
    <3>1. b \in Places
      BY MemoryIs
    <3>2. <<p, 0, b[3]>> \in made
      BY <1>5, <3>1
    <3>3. <<p, 0, b[3]>> = <<p, 0, mark>>
      BY <2>2, <2>3, <3>2
    <3>4. b[3] = mark
      BY <3>3
    <3> QED
      BY <2>5, <3>4
  <2>8. What(M, c.block, c.at) \in {"in", "blank"}
    <3>1. \E b \in M : b[1] = c.block /\ b[2] = c.at
      BY <2>4, <2>6
    <3> QED
      BY <3>1, <2>7, SomethingThere
  <2> QED
    BY <1>2, <1>6, <1>8, <2>8 DEF FoundIn, l
<1> QED
  BY <1>7, <1>8

\* Where something is that is v long and w behind s.
LEMMA Shifted ==
  ASSUME NEW s \in Int, NEW w \in Nat, NEW v \in Nat, NEW y \in Nat, w + v <= y,
         NEW z \in Int, s + w <= z, z < s + w + v
  PROVE  /\ s <= z /\ z < s + y /\ w <= z - s /\ z - s < w + v
         /\ z - s \in Int /\ z - (s + w) \in Int
         /\ (z - s) - w = z - (s + w) /\ (z - (s + w)) + w = z - s
         /\ 0 <= z - (s + w) /\ z - (s + w) < v
  OBVIOUS

\* What holds of a structure in M holds of its entries.
LEMMA EntryIsAt ==
  ASSUME NEW M \in Memory, NEW t \in CopyIns, NEW c \in Context, IsAt(M, t, c),
         t.arg.type = "ds", Accepted(t.arg), NEW i \in 1 .. Len(t.arg.entries),
         NEW x, Entry(t, i, x), CopyIn[x].ok,
         \A d \in Places :
           /\ Extends_(Append(t.path, i), d[1]) => (d \in CopyIn[t].mem <=> d \in CopyIn[x].mem)
           /\ d[1] = t.path /\ Offset[t.arg][i - 1] <= d[2] /\ d[2] < Offset[t.arg][i] =>
                (d \in CopyIn[t].mem <=> d \in AddedBy(t, i, x))
  PROVE  IsAt(M, x, EntryContext(c, i))
<1> DEFINE a == t.arg
           e == a.entries[i]
           o == Offset[a]
           p == t.path
           this == Append(p, i)
           io == Io(a, t.outer)
           made == CopyIn[t].mem
           one == CopyIn[x].mem
           k == EntryContext(c, i)
           off == c.at + o[i - 1]
<1>1. /\ a \in Params /\ p \in Paths /\ c.arg = a /\ c.path = p /\ c.io = t.outer
      /\ c.block \in Paths /\ c.at \in Int
  BY CopyInsAre, ContextIs DEF IsAt, SamePlace
<1>2. /\ x \in CopyIns /\ x.arg = e /\ x.path = this /\ x.outer = io
  BY DEF Entry
<1>3. /\ k \in Context /\ k.arg = e /\ k.path = this /\ k.io = io
      /\ ByValue(e, TRUE) =>
           /\ k.block = c.block /\ k.at = off
           /\ k.within = c.within \cup {io} /\ k.via = c.via
      /\ ~ ByValue(e, TRUE) =>
           /\ k.block = this /\ k.at = 0 /\ k.within = {}
           /\ k.via = c.via \cup {[cell |-> Cell(c.block, off, "ptr", this), around |-> c.within]}
  <2>1. i \in 1 .. Len(c.arg.entries)
    BY <1>1
  <2>2. /\ k \in Context /\ k.arg = c.arg.entries[i] /\ k.path = Append(c.path, i)
        /\ k.io = Io(c.arg, c.io)
        /\ ByValue(c.arg.entries[i], TRUE) =>
             /\ k.block = c.block /\ k.at = c.at + Offset[c.arg][i - 1]
             /\ k.within = c.within \cup {Io(c.arg, c.io)} /\ k.via = c.via
        /\ ~ ByValue(c.arg.entries[i], TRUE) =>
             /\ k.block = Append(c.path, i) /\ k.at = 0 /\ k.within = {}
             /\ k.via = c.via \cup {[cell |-> Cell(c.block, c.at + Offset[c.arg][i - 1], "ptr",
                                                  Append(c.path, i)), around |-> c.within]}
    BY <2>1, EntryContextIs
  <2> HIDE DEF k
  <2> QED
    BY <1>1, <2>2, Zenon
<1>4. i \in Nat /\ this \in Paths /\ e \in Params
      /\ Bytes(e) \in Nat /\ Size(e) \in Nat /\ Accepted(e)
  BY CopyInsAre, AcceptedEntries, SizesAreNat
<1>5. o[i - 1] \in Nat /\ o[i] = o[i - 1] + Size(e) /\ o[i] <= Bytes(a) /\ Bytes(a) \in Nat
  <2> DEFINE n == Len(a.entries)
  <2>1. n \in Nat /\ o[i] = o[i - 1] + Size(e) /\ Bytes(a) = o[n]
    BY <1>1, OffsetSteps DEF Bytes
  <2>2. /\ \A j \in 0 .. n : o[j] \in Nat
        /\ \A j, h \in 0 .. n : j <= h => o[j] <= o[h]
    <3>1. \A j \in 1 .. n : Size(a.entries[j]) \in Nat
      BY <1>1, CopyInsAre, AcceptedEntries, SizesAreNat
    <3> QED
      BY <1>1, <3>1, OffsetsGrow
  <2> HIDE DEF o
  <2>3. i \in 1 .. n
    OBVIOUS
  <2> HIDE DEF n
  <2>4. i - 1 \in 0 .. n /\ i \in 0 .. n /\ n \in 0 .. n /\ i <= n
    BY <2>1, <2>3
  <2> QED
    BY <2>1, <2>2, <2>4
<1>6. one \in Memory
  <2>1. CopyIn[x] \in CopyInResult
    BY <1>2, CopyInIs DEF Copying
  <2> QED
    BY <2>1, Zenon DEF CopyInResult
<1>7. \A d \in Places : Extends_(this, d[1]) => (d \in M <=> d \in one)
  <2> SUFFICES ASSUME NEW d \in Places, Extends_(this, d[1]) PROVE d \in M <=> d \in one
    OBVIOUS
  <2>1. Under(p, d[1])
    BY <1>1, <1>4, PlaceIs, PathsAre
  <2>2. d \in M <=> d \in made
    BY <2>1 DEF IsAt, Below_
  <2> QED
    BY <2>2
<1>8. \A d \in Places : d[1] = c.block /\ off <= d[2] /\ d[2] < off + Size(e) =>
        (d \in M <=> "out" \notin c.within /\ <<p, d[2] - c.at, d[3]>> \in AddedBy(t, i, x))
  <2> SUFFICES ASSUME NEW d \in Places, d[1] = c.block, off <= d[2], d[2] < off + Size(e)
               PROVE  d \in M <=> "out" \notin c.within
                                    /\ <<p, d[2] - c.at, d[3]>> \in AddedBy(t, i, x)
    OBVIOUS
  <2> DEFINE b == <<p, d[2] - c.at, d[3]>>
  <2>1. d[2] \in Int /\ d[3] \in Marks
    BY PlaceIs
  <2>2. c.at <= d[2] /\ d[2] < c.at + Bytes(c.arg)
        /\ o[i - 1] <= d[2] - c.at /\ d[2] - c.at < o[i]
    <3> DEFINE s == c.at
               w == o[i - 1]
               v == Size(e)
               y == Bytes(a)
               z == d[2]
    <3>1. /\ s \in Int /\ w \in Nat /\ v \in Nat /\ y \in Nat /\ z \in Int
          /\ w + v <= y /\ s + w <= z /\ z < s + w + v
      <4> HIDE DEF o, e, a
      <4> QED
        BY <2>1, <1>1, <1>4, <1>5
    <3> HIDE DEF s, w, v, y, z
    <3>2. s <= z /\ z < s + y /\ w <= z - s /\ z - s < w + v
      BY <3>1, Shifted
    <3>3. Bytes(c.arg) = y /\ o[i] = w + v
      BY <1>1, <1>5 DEF y, w, v
    <3> QED
      BY <3>2, <3>3, Zenon DEF s, w, z
  <2>3. d \in M <=> "out" \notin c.within /\ b \in made
    <3> HIDE DEF made, b
    <3> QED
      BY <2>2 DEF IsAt, AtIs, made, b
  <2>4. b \in Places /\ b[1] = p /\ b[2] = d[2] - c.at
    BY <1>1, <2>1 DEF Places
  <2> HIDE DEF b
  <2>5. b \in made <=> b \in AddedBy(t, i, x)
    BY <2>2, <2>4
  <2> QED
    BY <2>3, <2>5 DEF b
<1>9. ByValue(e, TRUE) =>
        AddedBy(t, i, x) = IF io = "out" THEN {}
                           ELSE Moved(Cells(one, this, 0, Bytes(e)), p, o[i - 1])
  BY Zenon DEF AddedBy, Added_
<1>10. ~ ByValue(e, TRUE) => AddedBy(t, i, x) = {Cell(p, o[i - 1], "ptr", this)}
  BY Zenon DEF AddedBy, Added_
<1>11. SamePlace(x, k)
  BY <1>2, <1>3 DEF SamePlace
<1>12. Below_(M, x)
  BY <1>2, <1>7 DEF Below_, Under
<1>13. Pointed(M, c)
  BY DEF IsAt
<1> HIDE DEF a, e, o, p, this, io, made, one, k
<1>14. CASE ByValue(e, TRUE)
  <2>1. Size(e) = Bytes(e)
    BY <1>14 DEF Size
  <2>2. ASSUME NEW d \in Places, d[1] = k.block, k.at <= d[2], d[2] < k.at + Bytes(k.arg)
        PROVE  d \in M <=> "out" \notin k.within /\ <<x.path, d[2] - k.at, d[3]>> \in one
    <3> DEFINE b == <<p, d[2] - c.at, d[3]>>
    <3>1. d[1] = c.block /\ off <= d[2] /\ d[2] < off + Size(e)
      BY <1>3, <1>14, <2>1, <2>2
    <3>2. d \in M <=> "out" \notin c.within /\ b \in AddedBy(t, i, x)
      BY <3>1, <1>8
    <3>3. CASE io = "out"
      BY <3>2, <3>3, <1>3, <1>9, <1>14
    <3>4. CASE io # "out"
      <4>1. d[2] \in Int /\ d[3] \in Marks
        BY PlaceIs
      <4>2. /\ b \in Places /\ b[1] = p /\ o[i - 1] <= b[2] /\ b[2] < o[i - 1] + Bytes(e)
            /\ b[2] - o[i - 1] = d[2] - k.at /\ b[3] = d[3]
        <5> DEFINE s == c.at
                   w == o[i - 1]
                   v == Bytes(e)
                   z == d[2]
        <5>1. /\ s \in Int /\ w \in Nat /\ v \in Nat /\ z \in Int
              /\ s + w <= z /\ z < s + w + v
          BY <4>1, <3>1, <2>1, <1>1, <1>4, <1>5
        <5>2. b[1] = p /\ b[2] = z - s /\ b[3] = d[3]
          OBVIOUS
        <5>3. k.at = s + w
          BY <1>3, <1>14
        <5> HIDE DEF s, w, v, z, b
        <5>4. w <= z - s /\ z - s < w + v /\ z - s \in Int /\ (z - s) - w = z - (s + w)
          <6>1. w + v \in Nat /\ w + v <= w + v
            BY <5>1
          <6> QED
            BY <5>1, <6>1, Shifted
        <5>5. b \in Places
          <6>1. <<p, z - s, d[3]>> \in Places
            BY <4>1, <5>4, <1>1 DEF Places
          <6> QED
            BY <6>1, Zenon DEF b, z, s
        <5> QED
          BY <5>2, <5>3, <5>4, <5>5, Zenon DEF w, v, z
      <4> HIDE DEF b
      <4>3. b \in AddedBy(t, i, x) <=> b \in Moved(Cells(one, this, 0, Bytes(e)), p, o[i - 1])
        BY <3>4, <1>9, <1>14
      <4>4. b \in Moved(Cells(one, this, 0, Bytes(e)), p, o[i - 1])
              <=> <<this, b[2] - o[i - 1], b[3]>> \in one
        <5> DEFINE where == o[i - 1]
                   size == Bytes(e)
        <5>1. where \in Int /\ size \in Nat
          BY <1>4, <1>5
        <5>2. where <= b[2] /\ b[2] < where + size
          BY <4>2
        <5> HIDE DEF where, size
        <5>3. b \in Moved(Cells(one, this, 0, size), p, where) <=> <<this, b[2] - where, b[3]>> \in one
          <6>1. 0 \in Int /\ size \in Int /\ 0 + where <= b[2] /\ b[2] < 0 + where + size
            BY <5>1, <5>2
          <6> DEFINE from == 0
          <6> HIDE DEF from
          <6>2. b \in Moved(Cells(one, this, from, size), p, where) <=> <<this, b[2] - where, b[3]>> \in one
            BY <6>1, <5>1, <4>2, <1>1, <1>4, <1>6, MovedCells DEF from
          <6> QED
            BY <6>2 DEF from
        <5> QED
          BY <5>3 DEF where, size
      <4>5. <<this, b[2] - o[i - 1], b[3]>> = <<x.path, d[2] - k.at, d[3]>>
        BY <4>2, <1>2
      <4>6. "out" \notin k.within <=> "out" \notin c.within
        BY <3>4, <1>3, <1>14
      <4> QED
        BY <3>2, <4>3, <4>4, <4>5, <4>6, Zenon
    <3> QED
      BY <3>3, <3>4
  <2>3. Pointed(M, k)
    BY <1>3, <1>13, <1>14, Zenon DEF Pointed
  <2> QED
    BY <1>11, <1>12, <2>2, <2>3 DEF IsAt, AtIs, k, one
<1>15. CASE ~ ByValue(e, TRUE)
  <2>1. ASSUME NEW d \in Places, d[1] = k.block, k.at <= d[2], d[2] < k.at + Bytes(k.arg)
        PROVE  d \in M <=> "out" \notin k.within /\ <<x.path, d[2] - k.at, d[3]>> \in one
    <3>1. d[1] = this /\ k.at = 0 /\ k.within = {} /\ x.path = this
      BY <1>2, <1>3, <1>15, <2>1
    <3>2. d \in M <=> d \in one
      BY <3>1, <1>4, <1>7, PathsAre
    <3>3. d = <<x.path, d[2] - k.at, d[3]>>
      <4>1. d[2] \in Int /\ d = <<d[1], d[2], d[3]>>
        BY PlaceIs
      <4>2. d[2] - k.at = d[2]
        BY <4>1, <3>1
      <4> QED
        BY <4>1, <4>2, <3>1, Zenon
    <3>4. "out" \notin k.within
      BY <3>1
    <3> QED
      BY <3>2, <3>3, <3>4, Zenon
  <2> DEFINE cell == Cell(c.block, off, "ptr", this)
             v == [cell |-> cell, around |-> c.within]
  <2>2. cell \in M <=> "out" \notin c.within
    <3> DEFINE mark == [what |-> "ptr", path |-> this]
    <3>1. cell = <<c.block, off, mark>> /\ Cell(p, o[i - 1], "ptr", this) = <<p, o[i - 1], mark>>
      BY DEF Cell
    <3>2. mark \in Marks /\ off \in Int
      BY <1>1, <1>4, <1>5 DEF Marks
    <3> HIDE DEF mark
    <3>3. cell \in Places /\ cell[1] = c.block /\ cell[2] = off /\ cell[3] = mark
      BY <3>1, <3>2, <1>1 DEF Places
    <3>4. off <= cell[2] /\ cell[2] < off + Size(e) /\ cell[2] - c.at = o[i - 1]
      <4>1. Size(e) = PtrSize
        BY <1>15 DEF Size
      <4> HIDE DEF cell
      <4> QED
        BY <4>1, <3>2, <3>3, <1>1, <1>5, DepthIs
    <3> HIDE DEF cell
    <3>5. cell \in M <=> "out" \notin c.within /\ <<p, cell[2] - c.at, cell[3]>> \in AddedBy(t, i, x)
      BY <3>3, <3>4, <1>8
    <3>6. <<p, cell[2] - c.at, cell[3]>> \in AddedBy(t, i, x)
      <4>1. <<p, cell[2] - c.at, cell[3]>> = <<p, o[i - 1], mark>>
        BY <3>3, <3>4, Zenon
      <4> QED
        BY <4>1, <3>1, <1>10, <1>15
    <3> QED
      BY <3>5, <3>6, Zenon
  <2>3. v.cell = cell /\ v.around = c.within
    OBVIOUS
  <2>4. k.via = c.via \cup {v}
    BY <1>3, <1>15
  <2> HIDE DEF v, cell
  <2>5. Pointed(M, k)
    <3>1. \A w \in k.via : w \in c.via \/ w = v
      BY <2>4
    <3> QED
      BY <3>1, <2>2, <2>3, <1>13, Zenon DEF Pointed
  <2> QED
    BY <1>11, <1>12, <2>1, <2>5 DEF IsAt, AtIs, k, one
<1> QED
  BY <1>14, <1>15

\* All leaves of what is at c in M are found there.
LEMMA LeavesFound ==
  ASSUME NEW M \in Memory
  PROVE  \A a \in Params : Accepted(a) =>
           \A t \in CopyIns, c \in Context : t.arg = a /\ CopyIn[t].ok /\ IsAt(M, t, c) =>
             \A l \in Leaves[c] : FoundIn(M, l)
<1> DEFINE Good(a) == Accepted(a) =>
             \A t \in CopyIns, c \in Context : t.arg = a /\ CopyIn[t].ok /\ IsAt(M, t, c) =>
               \A l \in Leaves[c] : FoundIn(M, l)
           S == {a \in Params : Good(a)}
<1>1. ASSUME NEW a \in Params, \A i \in 1 .. Len(a.entries) : a.entries[i] \in S
      PROVE  a \in S
  <2>1. ASSUME Accepted(a), NEW t \in CopyIns, NEW c \in Context, t.arg = a, CopyIn[t].ok,
               IsAt(M, t, c), NEW l \in Leaves[c]
        PROVE  FoundIn(M, l)
    <3>1. c.arg = a
      BY <2>1 DEF IsAt, SamePlace
    <3>2. CASE a.type # "ds"
      BY <2>1, <3>1, <3>2, LeafIs, ScalarFound
    <3>3. CASE a.type = "ds"
      <4>1. PICK i \in 1 .. Len(a.entries) : l \in Leaves[EntryContext(c, i)]
        BY <2>1, <3>1, <3>3, LeafIs
      <4>2. PICK q : /\ Entry(t, i, q[i]) /\ CopyIn[q[i]].ok
                     /\ \A d \in Places :
                          /\ Extends_(Append(t.path, i), d[1]) =>
                               (d \in CopyIn[t].mem <=> d \in CopyIn[q[i]].mem)
                          /\ d[1] = t.path /\ Offset[t.arg][i - 1] <= d[2] /\ d[2] < Offset[t.arg][i] =>
                               (d \in CopyIn[t].mem <=> d \in AddedBy(t, i, q[i]))
        <5>1. i \in 1 .. Len(t.arg.entries)
          BY <2>1
        <5> QED
          BY <2>1, <3>3, <5>1, StructureCells
      <4> DEFINE x == q[i]
                 k == EntryContext(c, i)
      <4>3. IsAt(M, x, k)
        BY <2>1, <3>3, <4>2, EntryIsAt
      <4>4. x \in CopyIns /\ x.arg = a.entries[i] /\ CopyIn[x].ok
        BY <2>1, <4>2 DEF Entry
      <4>5. k \in Context
        BY <2>1, <3>1, EntryContextIs
      <4>6. Good(a.entries[i]) /\ Accepted(a.entries[i])
        BY <1>1, <2>1, AcceptedEntries
      <4> HIDE DEF x, k
      <4> QED
        BY <4>1, <4>3, <4>4, <4>5, <4>6 DEF k
    <3> QED
      BY <3>2, <3>3
  <2> QED
    BY <2>1
<1>2. Params \subseteq S
  <2> HIDE DEF S
  <2> QED
    BY <1>1, OfAll
<1> QED
  BY <1>2

-----------------------------------------------------------------------------
(* What the program gets *)

\* m is the memory of the first k arguments, each of which has been made.
Argument(p, i, x) ==
  x \in CopyIns /\ x.arg = p[i] /\ x.path = <<i>> /\ x.outer = "both" /\ CopyIn[x].ok
ArgumentsOf(p, m, k) ==
  \E q : /\ \A i \in 1 .. k : Argument(p, i, q[i])
         /\ \A d : d \in m <=> \E i \in 1 .. k : d \in CopyIn[q[i]].mem
ArgumentsIn(m, k) == ArgumentsOf(node.parms, m, k)

AllAccepted == \A i \in 1 .. Number : Accepted(node.parms[i])

MemoryInv ==
  /\ errno \in Errnos
  /\ pc \in Before \cup {"copyBack"} => AllAccepted
  /\ pc \in {"init", "create"} => mem = {}
  /\ pc = "copyIn" => ArgumentsIn(mem, at - 1)
  /\ pc \in {"start", "symbol", "resolve", "call"} /\ fr.code = OK => ArgumentsIn(mem, Number)
  /\ pc = "copyBack" => ArgumentsIn(seen, Number)

\* Without arguments there is no memory.
LEMMA NoArguments == \A p : ArgumentsOf(p, {}, 0)
<1>1. \A i \in 1 .. 0 : FALSE
  OBVIOUS
<1> QED
  BY <1>1 DEF ArgumentsOf

\* The memory with one more argument.
LEMMA OneMoreArgument ==
  ASSUME NEW p, NEW k \in Nat, NEW m, ArgumentsOf(p, m, k), NEW x, Argument(p, k + 1, x)
  PROVE  ArgumentsOf(p, m \cup CopyIn[x].mem, k + 1)
<1>1. PICK q : /\ \A i \in 1 .. k : Argument(p, i, q[i])
               /\ \A d : d \in m <=> \E i \in 1 .. k : d \in CopyIn[q[i]].mem
  BY DEF ArgumentsOf
<1> DEFINE n == k + 1
           r == [i \in 1 .. n |-> IF i = n THEN x ELSE q[i]]
<1>2. r[n] = x /\ (\A i \in 1 .. k : r[i] = q[i]) /\ \A i : i \in 1 .. n <=> i \in 1 .. k \/ i = n
  OBVIOUS
<1>3. Argument(p, n, x)
  OBVIOUS
<1> HIDE DEF r, n
<1>4. \A i \in 1 .. n : Argument(p, i, r[i])
  BY <1>1, <1>2, <1>3
<1>5. \A d : d \in m \cup CopyIn[x].mem <=> \E i \in 1 .. n : d \in CopyIn[r[i]].mem
  BY <1>1, <1>2
<1>6. ArgumentsOf(p, m \cup CopyIn[x].mem, n)
  BY <1>4, <1>5 DEF ArgumentsOf
<1> QED
  BY <1>6 DEF n

\* At the start there is no memory;
LEMMA MemoryBegins == CallInit => MemoryInv
<1> SUFFICES ASSUME CallInit PROVE MemoryInv
  OBVIOUS
<1>1. errno = NoErrno /\ pc = "init" /\ mem = {}
  BY DEF CallInit
<1> QED
  BY <1>1 DEF MemoryInv, Errnos, Before

\* the node's arguments are accepted as before
LEMMA SameArguments ==
  ASSUME UNCHANGED node
  PROVE  AllAccepted' <=> AllAccepted
BY Zenon DEF AllAccepted, Number

\* and every step keeps the memory right;
LEMMA MemoryStep ==
  ASSUME StateInv, MemoryInv, [CallNext]_vars
  PROVE  MemoryInv'
<1> USE DEF MemoryInv
<1>0. /\ node \in Nodes /\ node.parms \in Seq(Params) /\ Number \in Nat
      /\ pc \in {"init", "create", "copyIn"} => fr = Clean
      /\ pc \in {"init", "create"} => at = 1
      /\ pc = "call" => fr = Clean
      /\ at \in 1 .. Number + 1
  BY NumberIs DEF StateInv, Typed, Flow
<1>1. CASE InitProgram
  <2>1. UNCHANGED <<node, at, mem, seen, errno>> /\ pc = "init"
    BY <1>1 DEF InitProgram, args, job
  <2>2. \/ pc' = "done"
        \/ pc' = "create" /\ AllAccepted
    BY <1>1 DEF InitProgram, Fail, AllAccepted
  <2> QED
    BY <2>1, <2>2, SameArguments DEF Before
<1>2. CASE Create
  <2>1. UNCHANGED <<node, at, mem, seen, errno>> /\ pc = "create" /\ fr = Clean /\ at = 1
    BY <1>0, <1>2 DEF Create, request, args, job
  <2>2. pc' = "copyIn" \/ (pc' = "start" /\ fr'.code # OK)
    BY <1>2, <2>1, Reports DEF Create, OK
  <2>3. ArgumentsIn(mem, at - 1)
    <3>1. mem = {} /\ at - 1 = 0
      BY <2>1
    <3> QED
      BY <3>1, NoArguments, Zenon DEF ArgumentsIn
  <2>4. ArgumentsIn(mem, at - 1)'
    BY <2>1, <2>3, Zenon DEF ArgumentsIn
  <2> QED
    BY <2>1, <2>2, <2>4, SameArguments DEF Before
<1>3. CASE CopyInArg
  <2> DEFINE a == node.parms[at]
             x == ToCopyIn(a, <<at>>, "both", errno)
             k == at - 1
  <2>1. /\ UNCHANGED <<node, seen>> /\ pc = "copyIn" /\ fr = Clean /\ at <= Number
        /\ mem' = mem \cup CopyIn[x].mem /\ errno' = CopyIn[x].errno
    BY <1>0, <1>3 DEF CopyInArg, request
  <2>2. \/ CopyIn[x].ok /\ pc' = "copyIn" /\ at' = at + 1
        \/ pc' = "start" /\ fr'.code # OK
    BY <1>3, <2>1, Reports DEF CopyInArg, OK
  <2>3. k \in Nat /\ k + 1 = at /\ at \in 1 .. Number /\ at \in Nat /\ a \in Params
    BY <1>0, <2>1 DEF Number
  <2>4. x \in CopyIns /\ x.arg = a /\ x.path = <<at>> /\ x.outer = "both"
    <3>1. <<at>> \in Paths /\ "both" \in Ways
      BY <2>3 DEF Paths, Ways
    <3> HIDE DEF a
    <3> QED
      BY <2>3, <3>1, ToCopyInIs
  <2>5. errno' \in Errnos
    <3> HIDE DEF x
    <3>1. CopyIn[x] \in CopyInResult
      BY <2>4, CopyInIs DEF Copying
    <3>2. CopyIn[x].errno \in Errnos
      BY <3>1, Zenon DEF CopyInResult
    <3> QED
      BY <2>1, <3>2
  <2> HIDE DEF x
  <2>6. CASE CopyIn[x].ok /\ pc' = "copyIn" /\ at' = at + 1
    <3>1. Argument(node.parms, at, x)
      BY <2>4, <2>6 DEF Argument
    <3>2. ArgumentsIn(mem, k)
      BY <2>1
    <3> HIDE DEF k
    <3>3. ArgumentsIn(mem \cup CopyIn[x].mem, at)
      <4>1. Argument(node.parms, k + 1, x)
        BY <2>3, <3>1, Zenon
      <4>2. ArgumentsIn(mem \cup CopyIn[x].mem, k + 1)
        BY <2>3, <3>2, <4>1, OneMoreArgument DEF ArgumentsIn
      <4> QED
        BY <2>3, <4>2, Zenon
    <3>4. ArgumentsIn(mem, at - 1)'
      <4> DEFINE m == mem'
      <4>1. m = mem \cup CopyIn[x].mem /\ (at - 1)' = at
        BY <2>1, <2>3, <2>6
      <4>2. ArgumentsIn(m, at)
        BY <3>3, <4>1, Zenon
      <4> QED
        BY <2>1, <4>1, <4>2, Zenon DEF ArgumentsIn
    <3> QED
      BY <2>1, <2>5, <2>6, <3>4, SameArguments DEF Before
  <2>7. CASE pc' = "start" /\ fr'.code # OK
    BY <2>1, <2>5, <2>7, SameArguments DEF Before
  <2> QED
    BY <2>2, <2>6, <2>7
<1>4. CASE AllCopied
  <2>1. UNCHANGED <<node, mem, seen, errno, fr>> /\ pc = "copyIn" /\ at > Number /\ pc' = "start"
    BY <1>4 DEF AllCopied, request, args, job
  <2>2. at - 1 = Number
    BY <1>0, <2>1
  <2>3. ArgumentsIn(mem, Number)
    BY <2>1, <2>2
  <2>4. ArgumentsIn(mem, Number)'
    BY <2>1, <2>3, Zenon DEF ArgumentsIn, Number
  <2> QED
    BY <2>1, <2>4, SameArguments DEF Before
<1>5. CASE StartCall \/ FindSymbol \/ Resolve
  <2>1. /\ UNCHANGED <<node, mem, seen, errno>> /\ pc \in {"start", "symbol", "resolve"}
        /\ pc' \in {"symbol", "resolve", "call", "done"}
        /\ pc' # "done" => UNCHANGED fr
    BY <1>5 DEF StartCall, FindSymbol, Resolve, Fail, request, args, job
  <2>2. ArgumentsIn(mem, Number)' <=> ArgumentsIn(mem, Number)
    BY <2>1, Zenon DEF ArgumentsIn, Number
  <2> QED
    BY <2>1, <2>2, SameArguments DEF Before
<1>6. CASE Call
  <2>1. /\ UNCHANGED node /\ pc = "call" /\ seen' = mem /\ pc' \in {"copyBack", "done"}
        /\ errno' \in Errnos /\ fr.code = OK
    BY <1>0, <1>6 DEF Call, Fail, request, Clean
  <2>2. ArgumentsIn(mem, Number)
    BY <2>1
  <2>3. ArgumentsIn(seen, Number)'
    BY <2>1, <2>2, Zenon DEF ArgumentsIn, Number
  <2> QED
    BY <2>1, <2>3, SameArguments DEF Before
<1>7. CASE CopyBackArg \/ ReturnBack
  <2>1. /\ UNCHANGED <<node, mem, seen, errno>> /\ pc = "copyBack" /\ pc' \in {"copyBack", "done"}
    BY <1>7 DEF CopyBackArg, ReturnBack, request, args, job
  <2>2. ArgumentsIn(seen, Number)' <=> ArgumentsIn(seen, Number)
    BY <2>1, Zenon DEF ArgumentsIn, Number
  <2> QED
    BY <2>1, <2>2, SameArguments DEF Before
<1>8. CASE NextNode
  <2>1. pc' = "init" /\ mem' = {} /\ UNCHANGED errno
    BY <1>8 DEF NextNode, job
  <2> QED
    BY <2>1 DEF Before
<1>9. CASE UNCHANGED vars
  <2>1. UNCHANGED <<node, pc, at, mem, seen, errno, fr>>
    BY <1>9 DEF vars, request, args, job
  <2>2. /\ ArgumentsIn(seen, Number)' <=> ArgumentsIn(seen, Number)
        /\ ArgumentsIn(mem, Number)' <=> ArgumentsIn(mem, Number)
        /\ ArgumentsIn(mem, at - 1)' <=> ArgumentsIn(mem, at - 1)
    BY <2>1, Zenon DEF ArgumentsIn, Number
  <2> QED
    BY <2>1, <2>2, SameArguments
<1> QED
  BY <1>1, <1>2, <1>3, <1>4, <1>5, <1>6, <1>7, <1>8, <1>9 DEF CallNext

\* so it is always.
LEMMA MemoryAlways == CallSpec => []MemoryInv
<1>1. StateInv /\ MemoryInv /\ [CallNext]_vars => MemoryInv'
  BY MemoryStep
<1> QED
  BY <1>1, MemoryBegins, StateAlways, PTL DEF CallSpec

\* The context of an argument.
LEMMA OutermostIs ==
  ASSUME NEW i \in Nat, node.parms[i] \in Params
  PROVE  LET c == Outermost(i) IN
         /\ c \in Context /\ c.arg = node.parms[i] /\ c.path = <<i>> /\ c.block = <<i>> /\ c.at = 0
         /\ c.io = "both" /\ c.ios = {} /\ c.within = {} /\ c.via = {}
<1>1. <<i>> \in Paths /\ "both" \in Ways /\ 0 \in Int
  BY DEF Paths, Ways
<1>2. {} \in SUBSET Ways /\ {} \in SUBSET Pointers
  OBVIOUS
<1> QED
  BY <1>1, <1>2 DEF Outermost, Context, Pointers

\* In the memory of all the arguments each is found in its block.
LEMMA ArgumentIsAt ==
  ASSUME NEW M, ArgumentsIn(M, Number), Number \in Nat, node.parms \in Seq(Params), AllAccepted
  PROVE  /\ M \in Memory
         /\ \A i \in 1 .. Number : \E x : Argument(node.parms, i, x) /\ IsAt(M, x, Outermost(i))
<1>1. PICK q : /\ \A i \in 1 .. Number : Argument(node.parms, i, q[i])
               /\ \A d : d \in M <=> \E i \in 1 .. Number : d \in CopyIn[q[i]].mem
  BY DEF ArgumentsIn, ArgumentsOf
<1>2. \A i \in 1 .. Number : i \in Nat /\ node.parms[i] \in Params /\ <<i>> \in Paths
                             /\ Accepted(node.parms[i])
  BY DEF Paths, Number, AllAccepted
<1>3. ASSUME NEW i \in 1 .. Number, NEW d \in CopyIn[q[i]].mem
      PROVE  d \in Places /\ (Under(<<i>>, d[1]) \/ d[1] = <<i>>)
  <2> DEFINE x == q[i]
  <2>1. x \in CopyIns /\ x.arg = node.parms[i] /\ x.path = <<i>> /\ CopyIn[x].ok
    BY <1>1 DEF Argument
  <2> HIDE DEF x
  <2>2. d \in Places /\ Shaped(x, d)
    BY <1>2, <1>3, <2>1, MadeInShape DEF x
  <2> QED
    BY <2>1, <2>2 DEF Shaped
<1>4. M \in Memory
  BY <1>1, <1>3, MemoryIs
<1>5. ASSUME NEW i \in 1 .. Number, NEW d \in Places, Under(<<i>>, d[1]) \/ d[1] = <<i>>
      PROVE  d \in M <=> d \in CopyIn[q[i]].mem
  <2>1. ASSUME NEW j \in 1 .. Number, NEW r \in Paths, Under(<<j>>, r) \/ r = <<j>>
        PROVE  r[1] = j
    BY <1>2, <2>1 DEF Under, Extends_
  <2>2. d[1] \in Paths
    BY PlaceIs
  <2>3. d[1][1] = i
    BY <2>1, <2>2, <1>5
  <2>4. ASSUME NEW j \in 1 .. Number, d \in CopyIn[q[j]].mem PROVE j = i
    <3>1. d[1][1] = j
      BY <1>3, <2>1, <2>2, <2>4
    <3> QED
      BY <2>3, <3>1
  <2> QED
    BY <1>1, <2>4
<1>6. ASSUME NEW i \in 1 .. Number PROVE Argument(node.parms, i, q[i]) /\ IsAt(M, q[i], Outermost(i))
  <2> DEFINE x == q[i]
             c == Outermost(i)
  <2>1. Argument(node.parms, i, x)
    BY <1>1
  <2>2. /\ x \in CopyIns /\ x.arg = node.parms[i] /\ x.path = <<i>> /\ x.outer = "both"
    BY <2>1 DEF Argument
  <2>3. /\ c \in Context /\ c.arg = node.parms[i] /\ c.path = <<i>> /\ c.block = <<i>> /\ c.at = 0
        /\ c.io = "both" /\ c.within = {} /\ c.via = {}
    BY <1>2, OutermostIs
  <2>4. \A d \in Places : Under(<<i>>, d[1]) \/ d[1] = <<i>> => (d \in M <=> d \in CopyIn[x].mem)
    BY <1>5
  <2> HIDE DEF x, c
  <2>5. SamePlace(x, c) /\ Below_(M, x) /\ Pointed(M, c)
    BY <2>2, <2>3, <2>4 DEF SamePlace, Below_, Pointed
  <2>6. AtIs(M, x, c)
    <3> SUFFICES ASSUME NEW d \in Places, d[1] = c.block
                 PROVE  d \in M <=> "out" \notin c.within
                                      /\ <<x.path, d[2] - c.at, d[3]>> \in CopyIn[x].mem
      BY DEF AtIs
    <3>1. d[2] \in Int /\ d = <<d[1], d[2], d[3]>>
      BY PlaceIs
    <3>2. d[2] - c.at = d[2]
      BY <2>3, <3>1
    <3>3. <<x.path, d[2] - c.at, d[3]>> = d
      BY <2>2, <2>3, <3>1, <3>2, Zenon
    <3>4. "out" \notin c.within
      BY <2>3
    <3>5. d \in M <=> d \in CopyIn[x].mem
      BY <2>3, <2>4
    <3> QED
      BY <3>3, <3>4, <3>5, Zenon
  <2> QED
    BY <2>1, <2>5, <2>6 DEF IsAt, x, c
<1> QED
  BY <1>4, <1>6

(***************************************************************************)
(* Whatever the parameters are, and however structures and pointers are in *)
(* each other: a value that copyIn and the lay-out of its structures have  *)
(* put in memory is where its type says it is when the program runs.       *)
(***************************************************************************)
THEOREM InputsGetThere == CallSpec => []InputsReachTheProgram
<1>1. StateInv /\ MemoryInv => InputsReachTheProgram
  <2> SUFFICES ASSUME StateInv, MemoryInv, pc = "copyBack", NEW l \in AllLeaves
               PROVE  /\ Reached(l, seen) <=> \A p \in l.via : "out" \notin p.around
                      /\ What(seen, l.block, l.at) \in
                           IF "out" \in l.within THEN {"junk"} ELSE {"in", "blank"}
    BY Zenon DEF InputsReachTheProgram
  <2>1. node.parms \in Seq(Params) /\ Number \in Nat
    BY NumberIs DEF StateInv, Typed
  <2>2. ArgumentsIn(seen, Number) /\ AllAccepted
    BY DEF MemoryInv, Before
  <2>3. PICK i \in 1 .. Number : l \in Leaves[Outermost(i)]
    BY DEF AllLeaves
  <2>4. seen \in Memory /\ \E x : Argument(node.parms, i, x) /\ IsAt(seen, x, Outermost(i))
    BY <2>1, <2>2, ArgumentIsAt
  <2>5. PICK x : Argument(node.parms, i, x) /\ IsAt(seen, x, Outermost(i))
    BY <2>4
  <2>6. node.parms[i] \in Params /\ Accepted(node.parms[i]) /\ i \in Nat
    BY <2>1, <2>2 DEF Number, AllAccepted
  <2>7. Outermost(i) \in Context
    BY <2>6, OutermostIs
  <2>8. FoundIn(seen, l)
    BY <2>3, <2>4, <2>5, <2>6, <2>7, LeavesFound DEF Argument
  <2> QED
    BY <2>8, Zenon DEF FoundIn, Pointed, Reached
<1> QED
  BY <1>1, StateAlways, MemoryAlways, PTL

-----------------------------------------------------------------------------
(* What is taken *)

\* The leaves of a parameter are below it.
LEMMA LeafPath ==
  \A a \in Params : \A c \in Context : c.arg = a =>
    \A l \in Leaves[c] : l \in Context /\ l.arg.type # "ds" /\ Extends_(c.path, l.path)
<1> DEFINE Good(a) == \A c \in Context : c.arg = a =>
             \A l \in Leaves[c] : l \in Context /\ l.arg.type # "ds" /\ Extends_(c.path, l.path)
           S == {a \in Params : Good(a)}
<1>1. ASSUME NEW a \in Params, \A i \in 1 .. Len(a.entries) : a.entries[i] \in S
      PROVE  a \in S
  <2>1. ASSUME NEW c \in Context, c.arg = a, NEW l \in Leaves[c]
        PROVE  l \in Context /\ l.arg.type # "ds" /\ Extends_(c.path, l.path)
    <3>1. CASE a.type # "ds"
      <4>1. l = Inside(c)
        BY <2>1, <3>1, LeafIs
      <4>2. l \in Context /\ l.arg = a /\ l.path = c.path /\ c.path \in Paths
        BY <2>1, <4>1, InsideIs, ContextIs
      <4>3. Extends_(c.path, c.path)
        BY <4>2, PathsAre
      <4> QED
        BY <3>1, <4>2, <4>3
    <3>2. CASE a.type = "ds"
      <4>1. PICK i \in 1 .. Len(a.entries) : l \in Leaves[EntryContext(c, i)]
        BY <2>1, <3>2, LeafIs
      <4> DEFINE k == EntryContext(c, i)
      <4>2. k \in Context /\ k.arg = a.entries[i] /\ k.path = Append(c.path, i)
        <5>1. i \in 1 .. Len(c.arg.entries)
          BY <2>1
        <5>2. k \in Context /\ k.arg = c.arg.entries[i] /\ k.path = Append(c.path, i)
          BY <2>1, <5>1, EntryContextIs
        <5> HIDE DEF k
        <5> QED
          BY <2>1, <5>2
      <4> HIDE DEF k
      <4>3. l \in Context /\ l.arg.type # "ds" /\ Extends_(k.path, l.path)
        <5>1. Good(a.entries[i])
          BY <1>1
        <5> QED
          BY <4>1, <4>2, <5>1 DEF k
      <4>4. c.path \in Paths /\ l.path \in Paths /\ i \in Nat
        BY <2>1, <4>3, ContextIs
      <4>5. Under(c.path, l.path)
        BY <4>2, <4>3, <4>4, PathsAre
      <4> QED
        BY <4>3, <4>5 DEF Under
    <3> QED
      BY <3>1, <3>2
  <2> QED
    BY <2>1
<1>2. Params \subseteq S
  <2> HIDE DEF S
  <2> QED
    BY <1>1, OfAll
<1> QED
  BY <1>2

\* A value that is taken when errno is e.
Right(a, e) ==
  a.value = "good" /\ (a.type \in {"char", "hex", "int"} \/ e = NoErrno)

\* A right scalar converts and leaves errno alone.
LEMMA RightIsTaken ==
  ASSUME NEW a \in Params, a.type # "ds", NEW io, NEW e \in Errnos, Right(a, e)
  PROVE  Converts(a, io, e) /\ Errno(a, io, e) \in {NoErrno, e}
<1>1. a.value = "good" /\ a.type \in Scalars
  BY ParamIs DEF Right
<1>2. CASE ~ Looks(a, io)
  <2>1. Errno(a, io, e) = e
    BY <1>2 DEF Errno
  <2> QED
    BY <1>2, <2>1 DEF Converts
<1>3. CASE Looks(a, io)
  <2>1. a.type # "char"
    BY <1>3 DEF Looks
  <2>2. CASE a.type \in {"hex", "int"}
    <3>1. Resets(a)
      BY <1>1, <2>2 DEF Resets
    <3>2. Errno(a, io, e) = NoErrno
      BY <1>1, <1>3, <3>1 DEF Errno
    <3> QED
      BY <1>1, <2>2, <3>1, <3>2 DEF Converts
  <2>3. CASE a.type \notin {"char", "hex", "int"}
    <3>1. e = NoErrno /\ ~ Resets(a)
      BY <2>3 DEF Right, Resets
    <3>2. Errno(a, io, e) = NoErrno
      BY <1>1, <1>3, <3>1 DEF Errno
    <3> QED
      BY <1>1, <2>3, <3>1, <3>2 DEF Converts, NoErrno
  <2> QED
    BY <2>1, <2>2, <2>3
<1> QED
  BY <1>2, <1>3

\* A parameter of right values is made, however deep they are.
LEMMA RightIsMade ==
  \A a \in Params : \A t \in CopyIns, c \in Context :
    t.arg = a /\ c.arg = a /\ (\A l \in Leaves[c] : Right(l.arg, t.errno)) =>
      CopyIn[t].ok /\ CopyIn[t].errno \in {NoErrno, t.errno}
<1> DEFINE Good(a) == \A t \in CopyIns, c \in Context :
             t.arg = a /\ c.arg = a /\ (\A l \in Leaves[c] : Right(l.arg, t.errno)) =>
               CopyIn[t].ok /\ CopyIn[t].errno \in {NoErrno, t.errno}
           S == {a \in Params : Good(a)}
<1>1. ASSUME NEW a \in Params, \A i \in 1 .. Len(a.entries) : a.entries[i] \in S
      PROVE  a \in S
  <2>1. ASSUME NEW t \in CopyIns, NEW c \in Context, t.arg = a, c.arg = a,
               \A l \in Leaves[c] : Right(l.arg, t.errno)
        PROVE  CopyIn[t].ok /\ CopyIn[t].errno \in {NoErrno, t.errno}
    <3>1. CASE a.type # "ds"
      <4> DEFINE io == Io(a, t.outer)
      <4>1. Inside(c) \in Leaves[c]
        BY <2>1, <3>1, LeavesAre DEF LeavesAt
      <4>2. Right(a, t.errno) /\ t.errno \in Errnos
        BY <2>1, <4>1, InsideIs, CopyInsAre
      <4>3. Converts(a, io, t.errno) /\ Errno(a, io, t.errno) \in {NoErrno, t.errno}
        BY <3>1, <4>2, RightIsTaken
      <4>4. CopyIn[t] = CopyScalar(a, t.path, io, t.errno)
        BY <2>1, <3>1, CopyInIs DEF MakeOne
      <4>5. /\ CopyScalar(a, t.path, io, t.errno).ok = Converts(a, io, t.errno)
            /\ CopyScalar(a, t.path, io, t.errno).errno = Errno(a, io, t.errno)
        BY Zenon DEF CopyScalar
      <4> QED
        BY <4>3, <4>4, <4>5, Zenon
    <3>2. CASE a.type = "ds"
      <4> DEFINE n == Len(a.entries)
      <4>1. PICK f : Makes(CopyIn, t, f) /\ CopyEntries(CopyIn, t) = MadeOf(f, n)
        BY <2>1, CopyInIs, EntriesMade
      <4>2. CopyIn[t] = MadeOf(f, n)
        BY <2>1, <3>2, <4>1, CopyInIs DEF MakeOne
      <4>3. n \in Nat /\ f[0] = NothingMade(t)
        BY <2>1, <4>1, CopyInsAre DEF Makes
      <4>4. ASSUME NEW i \in 1 .. n, f[i - 1].ok, f[i - 1].errno \in {NoErrno, t.errno}
            PROVE  f[i].ok /\ f[i].errno \in {NoErrno, t.errno}
        <5> DEFINE x == ToCopyIn(t.arg.entries[i], Append(t.path, i), Io(t.arg, t.outer),
                                 f[i - 1].errno)
                   k == EntryContext(c, i)
        <5>1. i \in 1 .. Len(t.arg.entries) /\ i \in 1 .. Len(c.arg.entries)
          BY <2>1
        <5>2. /\ Entry(t, i, x) /\ x.errno = f[i - 1].errno
              /\ f[i - 1].ok => f[i].ok = CopyIn[x].ok /\ f[i].errno = CopyIn[x].errno
          BY <4>1, <5>1, StepMade
        <5>3. k \in Context /\ k.arg = c.arg.entries[i]
          BY <5>1, EntryContextIs
        <5> HIDE DEF x
        <5>4. x \in CopyIns /\ x.arg = a.entries[i] /\ k.arg = a.entries[i]
          BY <2>1, <5>2, <5>3 DEF Entry
        <5>5. \A l \in Leaves[k] : Right(l.arg, x.errno)
          <6>1. Leaves[k] \subseteq Leaves[c]
            <7>1. Leaves[c] = UNION {Leaves[EntryContext(c, j)] : j \in DOMAIN c.arg.entries}
              BY <2>1, <3>2, LeavesAre DEF LeavesAt
            <7>2. DOMAIN c.arg.entries = 1 .. Len(c.arg.entries)
              BY <2>1, ContextIs
            <7> QED
              BY <5>1, <7>1, <7>2
          <6> HIDE DEF k
          <6> QED
            BY <2>1, <4>4, <5>2, <6>1 DEF Right
        <5>6. Good(a.entries[i])
          BY <1>1
        <5> HIDE DEF k
        <5>7. CopyIn[x].ok /\ CopyIn[x].errno \in {NoErrno, x.errno}
          BY <5>3, <5>4, <5>5, <5>6
        <5> QED
          BY <4>4, <5>2, <5>7
      <4> DEFINE R == {j \in Nat : j <= n => f[j].ok /\ f[j].errno \in {NoErrno, t.errno}}
      <4>5. 0 \in R
        <5>1. NothingMade(t).ok /\ NothingMade(t).errno = t.errno
          BY DEF NothingMade
        <5> QED
          BY <4>3, <5>1
      <4>6. ASSUME NEW j \in Nat, j \in R PROVE j + 1 \in R
        <5> DEFINE m == j + 1
        <5>1. m \in Nat /\ m - 1 = j /\ (m <= n => m \in 1 .. n /\ j <= n)
          BY <4>3
        <5> HIDE DEF m, n
        <5>2. ASSUME m <= n PROVE f[m].ok /\ f[m].errno \in {NoErrno, t.errno}
          <6>1. f[m - 1].ok /\ f[m - 1].errno \in {NoErrno, t.errno}
            BY <4>6, <5>1, <5>2
          <6> QED
            BY <4>4, <5>1, <5>2, <6>1
        <5>3. m \in R
          BY <5>1, <5>2
        <5> QED
          BY <5>3 DEF m
      <4>7. Nat \subseteq R
        <5> HIDE DEF R
        <5> QED
          BY <4>5, <4>6, Induction
      <4>8. f[n].ok /\ f[n].errno \in {NoErrno, t.errno}
        BY <4>3, <4>7
      <4>9. MadeOf(f, n).ok = f[n].ok /\ MadeOf(f, n).errno = f[n].errno
        BY Zenon DEF MadeOf
      <4> QED
        BY <4>2, <4>8, <4>9, Zenon
    <3> QED
      BY <3>1, <3>2
  <2> QED
    BY <2>1
<1>2. Params \subseteq S
  <2> HIDE DEF S
  <2> QED
    BY <1>1, OfAll
<1> QED
  BY <1>2

(***************************************************************************)
(* errno, which any conversion before and any program called before may    *)
(* have left set, makes copyIn refuse values that are right only if they   *)
(* are neither characters nor "int".                                       *)
(***************************************************************************)
THEOREM GoodGetsIn == CallSpec => GoodIsTaken
<1> DEFINE Why == \E l \in AllLeaves :
                    /\ l.path[1] = at
                    /\ \/ l.arg.value # "good"
                       \/ l.arg.type \notin {"char", "hex", "int"} /\ errno # NoErrno
<1>1. ASSUME StateInv, MemoryInv, CopyInArg, fr' # fr
      PROVE  Why
  <2> DEFINE a == node.parms[at]
             x == ToCopyIn(a, <<at>>, "both", errno)
             c == Outermost(at)
  <2>1. at <= Number /\ ~ CopyIn[x].ok
    BY <1>1 DEF CopyInArg
  <2>2. at \in Nat /\ at \in 1 .. Number /\ a \in Params /\ errno \in Errnos
    <3>1. node.parms \in Seq(Params) /\ Number \in Nat /\ at \in 1 .. Number + 1
      BY <1>1, NumberIs DEF StateInv, Typed
    <3> QED
      BY <1>1, <2>1, <3>1 DEF Number, MemoryInv
  <2>3. c \in Context /\ c.arg = a /\ c.path = <<at>>
    BY <2>2, OutermostIs
  <2>4. x \in CopyIns /\ x.arg = a /\ x.errno = errno
    <3>1. <<at>> \in Paths /\ "both" \in Ways
      BY <2>2 DEF Paths, Ways
    <3> HIDE DEF a
    <3> QED
      BY <2>2, <3>1, ToCopyInIs
  <2>5. Leaves[c] \subseteq AllLeaves
    BY <2>2 DEF AllLeaves
  <2> HIDE DEF a, x, c
  <2>6. PICK l \in Leaves[c] : ~ Right(l.arg, errno)
    BY <2>1, <2>2, <2>3, <2>4, RightIsMade
  <2>7. l.path[1] = at
    <3>1. Extends_(<<at>>, l.path)
      BY <2>2, <2>3, LeafPath
    <3> QED
      BY <2>2, <3>1 DEF Extends_
  <2> QED
    BY <2>5, <2>6, <2>7, Zenon DEF Right
<1>2. StateInv /\ MemoryInv /\ [CallNext]_vars =>
        [CopyInArg /\ fr' # fr =>
           \E l \in AllLeaves :
             /\ l.path[1] = at
             /\ l.arg.value # "good"
                  \/ (l.arg.type \notin {"char", "hex", "int"} /\ errno # NoErrno)]_vars
  BY <1>1
<1> QED
  BY <1>2, StateAlways, MemoryAlways, PTL DEF CallSpec, GoodIsTaken

-----------------------------------------------------------------------------
(* copyBack *)

Whats == {"junk", "in", "blank", "ptr", "new"}
Attributes == SUBSET (Paths \X Whats)
BackResult == [ok : BOOLEAN, attrs : Attributes]
Backing == [ok : BOOLEAN, attrs : Attributes, mem : Memory]
GivingBack == [CopyBacks -> BackResult]

NothingBack(t) == [ok |-> t.ok, attrs |-> {}, mem |-> t.mem]
TakenAt(t, i, done) ==
  TakeEntry(t.arg.entries[i], Append(t.path, i), t.path, Offset[t.arg][i - 1], done.mem)
BackOf(t, i, done) ==
  ToCopyBack(t.arg.entries[i], Append(t.path, i), Io(t.arg, t.outer), TakenAt(t, i, done),
             t.broken, TRUE)
OneBack(g, t, i, done) ==
  IF ~ done.ok THEN done
  ELSE [ok |-> g[BackOf(t, i, done)].ok, attrs |-> done.attrs \cup g[BackOf(t, i, done)].attrs,
        mem |-> TakenAt(t, i, done)]
BackIn(f, n) == [ok |-> f[n].ok, attrs |-> f[n].attrs]

\* f is what there is after each of the entries.
GivesBack(g, t, f) ==
  /\ f \in [0 .. Len(t.arg.entries) -> Backing] /\ f[0] = NothingBack(t)
  /\ \A i \in 1 .. Len(t.arg.entries) : f[i] = OneBack(g, t, i, f[i - 1])

\* What there is to be copied back, and of what it is made.
LEMMA CopyBacksAre ==
  ASSUME NEW t \in CopyBacks
  PROVE  /\ t.arg \in Params /\ t.path \in Paths /\ t.outer \in Ways /\ t.mem \in Memory
         /\ t.broken \in BOOLEAN /\ t.ok \in BOOLEAN
         /\ Len(t.arg.entries) \in Nat /\ Io(t.arg, t.outer) \in Ways
         /\ \A i \in 1 .. Len(t.arg.entries) :
              /\ i \in Nat /\ t.arg.entries[i] \in Params /\ Append(t.path, i) \in Paths
              /\ Offset[t.arg][i - 1] \in Int /\ Bytes(t.arg.entries[i]) \in Int
<1>1. /\ t.arg \in Params /\ t.path \in Paths /\ t.outer \in Ways /\ t.mem \in Memory
      /\ t.broken \in BOOLEAN /\ t.ok \in BOOLEAN
  BY Zenon DEF CopyBacks
<1>2. t.arg.entries \in Seq(Params)
  BY <1>1, ParamIs
<1>3. Len(t.arg.entries) \in Nat /\ \A i \in 1 .. Len(t.arg.entries) :
        i \in Nat /\ t.arg.entries[i] \in Params /\ i - 1 \in 0 .. Len(t.arg.entries)
  BY <1>2
<1>4. \A i \in Nat : Append(t.path, i) \in Paths
  BY <1>1 DEF Paths
<1>5. \A i \in 1 .. Len(t.arg.entries) :
        Offset[t.arg][i - 1] \in Int /\ Bytes(t.arg.entries[i]) \in Int
  BY <1>1, <1>3, OffsetSteps, BytesIs
<1>6. Io(t.arg, t.outer) \in Ways
  BY <1>1, IoIs
<1> QED
  BY <1>1, <1>3, <1>4, <1>5, <1>6

\* The record of a parameter to be copied back.
LEMMA ToCopyBackIs ==
  ASSUME NEW a \in Params, NEW path \in Paths, NEW outer \in Ways, NEW m \in Memory,
         NEW b \in BOOLEAN, NEW ok \in BOOLEAN
  PROVE  /\ ToCopyBack(a, path, outer, m, b, ok) \in CopyBacks
         /\ ToCopyBack(a, path, outer, m, b, ok).arg = a
         /\ ToCopyBack(a, path, outer, m, b, ok).path = path
         /\ ToCopyBack(a, path, outer, m, b, ok).outer = outer
         /\ ToCopyBack(a, path, outer, m, b, ok).mem = m
         /\ ToCopyBack(a, path, outer, m, b, ok).broken = b
         /\ ToCopyBack(a, path, outer, m, b, ok).ok = ok
BY Zenon DEF ToCopyBack, CopyBacks

\* The memory after an entry has been taken out of its structure.
LEMMA TakeEntryIs ==
  ASSUME NEW e \in Params, NEW this \in Paths, NEW path \in Paths, NEW where \in Int, NEW m \in Memory
  PROVE  TakeEntry(e, this, path, where, m) \in Memory
<1>1. Cells(m, path, where, Bytes(e)) \in Memory
  BY CellsIs
<1>2. 0 - where \in Int
  OBVIOUS
<1>3. Moved(Cells(m, path, where, Bytes(e)), this, 0 - where) \in Memory
  <2> DEFINE w == 0 - where
             cells == Cells(m, path, where, Bytes(e))
  <2> HIDE DEF w, cells
  <2>1. Moved(cells, this, w) \in Memory
    BY <1>1, <1>2, MovedIs DEF w, cells
  <2> QED
    BY <2>1 DEF w, cells
<1>4. {c \in m : c[1] # this} \cup Moved(Cells(m, path, where, Bytes(e)), this, 0 - where) \in Memory
  BY <1>3, MemoryIs
<1> QED
  BY <1>4, Zenon DEF TakeEntry

\* The entry that is copied back next.
LEMMA BackOfIs ==
  ASSUME NEW t \in CopyBacks, NEW i \in 1 .. Len(t.arg.entries), NEW done \in Backing
  PROVE  LET x == BackOf(t, i, done) IN
         /\ x \in CopyBacks /\ TakenAt(t, i, done) \in Memory
         /\ x.arg = t.arg.entries[i] /\ x.path = Append(t.path, i) /\ x.outer = Io(t.arg, t.outer)
         /\ x.mem = TakenAt(t, i, done) /\ x.broken = t.broken /\ x.ok = TRUE
<1> DEFINE e == t.arg.entries[i]
           this == Append(t.path, i)
           io == Io(t.arg, t.outer)
           m == TakenAt(t, i, done)
<1>1. e \in Params /\ this \in Paths /\ io \in Ways /\ t.path \in Paths /\ t.broken \in BOOLEAN
      /\ Offset[t.arg][i - 1] \in Int
  BY CopyBacksAre
<1>2. done.mem \in Memory
  BY Zenon DEF Backing
<1>3. m \in Memory
  BY <1>1, <1>2, TakeEntryIs DEF TakenAt
<1>4. TRUE \in BOOLEAN
  OBVIOUS
<1>5. BackOf(t, i, done) = ToCopyBack(e, this, io, m, t.broken, TRUE)
  BY DEF BackOf
<1> DEFINE x == ToCopyBack(e, this, io, m, t.broken, TRUE)
<1>6. /\ x \in CopyBacks /\ x.arg = e /\ x.path = this /\ x.outer = io /\ x.mem = m
      /\ x.broken = t.broken /\ x.ok = TRUE
  <2> DEFINE b == t.broken
             ok == TRUE
  <2>1. b \in BOOLEAN /\ ok \in BOOLEAN
    BY <1>1, <1>4
  <2> HIDE DEF e, this, io, m, b, ok
  <2>2. /\ ToCopyBack(e, this, io, m, b, ok) \in CopyBacks
        /\ ToCopyBack(e, this, io, m, b, ok).arg = e
        /\ ToCopyBack(e, this, io, m, b, ok).path = this
        /\ ToCopyBack(e, this, io, m, b, ok).outer = io
        /\ ToCopyBack(e, this, io, m, b, ok).mem = m
        /\ ToCopyBack(e, this, io, m, b, ok).broken = b
        /\ ToCopyBack(e, this, io, m, b, ok).ok = ok
    BY <1>1, <1>3, <2>1, ToCopyBackIs
  <2> QED
    BY <2>2 DEF b, ok
<1> QED
  BY <1>3, <1>5, <1>6, Zenon

\* What there is after one more entry.
LEMMA OneBackIs ==
  ASSUME NEW g \in GivingBack, NEW t \in CopyBacks, NEW i \in 1 .. Len(t.arg.entries),
         NEW done \in Backing
  PROVE  LET r == OneBack(g, t, i, done)
             x == BackOf(t, i, done) IN
         /\ r \in Backing
         /\ ~ done.ok => r = done
         /\ done.ok => /\ r.ok = g[x].ok /\ r.attrs = done.attrs \cup g[x].attrs
                       /\ r.mem = TakenAt(t, i, done)
<1> DEFINE x == BackOf(t, i, done)
           m == TakenAt(t, i, done)
           s == done.attrs \cup g[x].attrs
           u == [ok |-> g[x].ok, attrs |-> s, mem |-> m]
<1>1. x \in CopyBacks /\ m \in Memory
  BY BackOfIs
<1>2. OneBack(g, t, i, done) = IF ~ done.ok THEN done ELSE u
  BY DEF OneBack
<1> HIDE DEF x, m
<1>3. g[x] \in BackResult
  BY <1>1 DEF GivingBack
<1>4. g[x].ok \in BOOLEAN /\ g[x].attrs \in Attributes
  BY <1>3, Zenon DEF BackResult
<1>5. done.attrs \in Attributes
  BY Zenon DEF Backing
<1>6. s \in Attributes
  BY <1>4, <1>5 DEF Attributes
<1> HIDE DEF s
<1>7. u \in Backing
  BY <1>1, <1>4, <1>6, Zenon DEF Backing
<1>8. u.ok = g[x].ok /\ u.attrs = s /\ u.mem = m
  BY Zenon
<1> HIDE DEF u
<1> QED
  BY <1>2, <1>7, <1>8, Zenon DEF s, x, m

\* copyBack of a DS depends on that of its entries, and goes through them.
LEMMA EntriesGoBack ==
  ASSUME NEW g \in GivingBack, NEW t \in CopyBacks, NEW h,
         \A x \in CopyBacks : (\E i \in 1 .. Len(t.arg.entries) : x.arg = t.arg.entries[i]) =>
                                h[x] = g[x]
  PROVE  \E f : /\ GivesBack(g, t, f)
                /\ EntriesBack(g, t) = BackIn(f, Len(t.arg.entries))
                /\ EntriesBack(h, t) = BackIn(f, Len(t.arg.entries))
<1> DEFINE n == Len(t.arg.entries)
           base == NothingBack(t)
           step == [i \in Nat |-> [d \in Backing |-> IF i \in 1 .. n THEN OneBack(g, t, i, d) ELSE d]]
<1>1. n \in Nat
  BY CopyBacksAre
<1>2. base \in Backing
  <2>1. t.ok \in BOOLEAN /\ {} \in Attributes /\ t.mem \in Memory
    BY CopyBacksAre DEF Attributes
  <2> QED
    BY <2>1, Zenon DEF NothingBack, Backing
<1>3. \A i \in 1 .. n, d \in Backing : OneBack(g, t, i, d) \in Backing
  BY OneBackIs
<1> HIDE DEF n, base
<1>4. step \in [Nat -> [Backing -> Backing]]
      /\ \A i \in Nat, d \in Backing : i \in 1 .. n => step[i][d] = OneBack(g, t, i, d)
  BY <1>3
<1> HIDE DEF step
<1>5. PICK f \in [0 .. n -> Backing] : f[0] = base /\ \A i \in 1 .. n : f[i] = step[i][f[i - 1]]
  <2>1. Iterates(Backing, base, step, n)
    BY <1>1, <1>2, <1>4, Iteration
  <2> QED
    BY <2>1 DEF Iterates
<1>6. \A i \in 1 .. n : i \in Nat /\ i - 1 \in 0 .. n /\ f[i - 1] \in Backing
  BY <1>1, <1>5
<1>7. \A i \in 1 .. n : f[i] = OneBack(g, t, i, f[i - 1])
  BY <1>4, <1>5, <1>6
<1>8. ASSUME NEW k,
             \A x \in CopyBacks : (\E i \in 1 .. n : x.arg = t.arg.entries[i]) => k[x] = g[x]
      PROVE  EntriesBack(k, t) = BackIn(f, n)
  <2> DEFINE F(u) == [i \in 0 .. n |-> IF i = 0 THEN base ELSE OneBack(k, t, i, u[i - 1])]
             u == CHOOSE u : u = F(u)
  <2>1. ASSUME NEW i \in 1 .. n PROVE OneBack(k, t, i, f[i - 1]) = OneBack(g, t, i, f[i - 1])
    <3> DEFINE d == f[i - 1]
               x == BackOf(t, i, d)
    <3>1. d \in Backing
      BY <1>6
    <3>2. i \in 1 .. Len(t.arg.entries)
      BY DEF n
    <3>3. x \in CopyBacks /\ x.arg = t.arg.entries[i]
      <4> HIDE DEF d
      <4> QED
        BY <3>1, <3>2, BackOfIs
    <3>4. k[x] = g[x]
      <4> HIDE DEF x
      <4> QED
        BY <3>3, <1>8
    <3> QED
      BY <3>4, Zenon DEF OneBack
  <2>2. \A i \in 0 .. n : f[i] = IF i = 0 THEN base ELSE OneBack(k, t, i, f[i - 1])
    BY <1>1, <1>5, <1>7, <2>1
  <2>3. f = F(f)
    BY <1>5, <2>2
  <2>4. u = F(u)
    <3> HIDE DEF F
    <3> QED
      BY <2>3, Zenon
  <2>5. \A i \in 0 .. n : u[i] = IF i = 0 THEN base ELSE OneBack(k, t, i, u[i - 1])
    <3> HIDE DEF u
    <3> QED
      BY <2>4
  <2>6. EntriesBack(k, t) = BackIn(u, n)
    BY DEF EntriesBack, BackIn, OneBack, BackOf, TakenAt, NothingBack, base, n
  <2> HIDE DEF u, F
  <2> DEFINE S == {i \in Nat : i <= n => u[i] = f[i]}
  <2>7. 0 \in S
    BY <1>1, <1>5, <2>5
  <2>8. ASSUME NEW i \in Nat, i \in S PROVE i + 1 \in S
    <3> DEFINE m == i + 1
    <3>1. m \in Nat /\ m - 1 = i /\ m # 0 /\ (m <= n => m \in 1 .. n /\ m \in 0 .. n /\ i <= n)
      BY <1>1
    <3> HIDE DEF m
    <3>2. ASSUME m <= n PROVE u[m] = f[m]
      <4>1. u[m] = OneBack(k, t, m, u[m - 1]) /\ u[m - 1] = f[m - 1]
        BY <3>1, <3>2, <2>5, <2>8
      <4>2. f[m] = OneBack(k, t, m, f[m - 1])
        BY <3>1, <3>2, <2>2
      <4> QED
        BY <4>1, <4>2
    <3>3. m \in S
      BY <3>1, <3>2
    <3> QED
      BY <3>3 DEF m
  <2>9. Nat \subseteq S
    <3> HIDE DEF S
    <3> QED
      BY <2>7, <2>8, Induction
  <2>10. u[n] = f[n]
    BY <1>1, <2>9
  <2> QED
    BY <2>6, <2>10 DEF BackIn
<1>9. EntriesBack(g, t) = BackIn(f, n) /\ EntriesBack(h, t) = BackIn(f, n)
  BY <1>8 DEF n
<1> QED
  BY <1>5, <1>7, <1>9 DEF GivesBack, n, base

GiveOne(g, t) ==
  IF Io(t.arg, t.outer) = "in" THEN [ok |-> t.ok, attrs |-> {}]
  ELSE IF t.arg.type = "ds" THEN EntriesBack(g, t)
  ELSE BackScalar(t.arg, t.path, t.mem, t.broken, t.ok)

\* The three cases of Argument::copyBack.
LEMMA GiveOneIs ==
  ASSUME NEW g, NEW t
  PROVE  /\ Io(t.arg, t.outer) = "in" => GiveOne(g, t) = [ok |-> t.ok, attrs |-> {}]
         /\ Io(t.arg, t.outer) # "in" /\ t.arg.type = "ds" => GiveOne(g, t) = EntriesBack(g, t)
         /\ Io(t.arg, t.outer) # "in" /\ t.arg.type # "ds" =>
              GiveOne(g, t) = BackScalar(t.arg, t.path, t.mem, t.broken, t.ok)
BY DEF GiveOne

\* What is anywhere is junk or something.
LEMMA WhatIs ==
  ASSUME NEW m \in Memory, NEW block, NEW where
  PROVE  What(m, block, where) \in Whats
<1>1. CASE \A d \in m : ~ (d[1] = block /\ d[2] = where)
  BY <1>1, NothingThere DEF Whats
<1>2. CASE \E d \in m : d[1] = block /\ d[2] = where
  <2>1. PICK d \in m : What(m, block, where) = d[3].what
    BY <1>2, SomethingThere
  <2>2. d[3] \in Marks
    BY MemoryIs, PlaceIs
  <2> QED
    BY <2>1, <2>2 DEF Marks, Whats
<1> QED
  BY <1>1, <1>2

\* A scalar gives its value, or fails.
LEMMA BackScalarIs ==
  ASSUME NEW a \in Params, NEW path \in Paths, NEW m \in Memory, NEW b \in BOOLEAN,
         NEW ok \in BOOLEAN
  PROVE  /\ BackScalar(a, path, m, b, ok) \in BackResult
         /\ BackScalar(a, path, m, b, ok).attrs \subseteq {<<path, What(m, path, 0)>>}
         /\ BackScalar(a, path, m, b, ok).ok =>
              BackScalar(a, path, m, b, ok).attrs = {<<path, What(m, path, 0)>>}
<1> DEFINE w == What(m, path, 0)
           yes == [ok |-> ok, attrs |-> {<<path, w>>}]
           no == [ok |-> FALSE, attrs |-> {}]
<1>1. BackScalar(a, path, m, b, ok) = IF a.type \in {"packed", "zoned"} /\ b THEN no ELSE yes
  BY Zenon DEF BackScalar
<1>2. w \in Whats
  BY WhatIs
<1> HIDE DEF w
<1>3. {} \in Attributes /\ {<<path, w>>} \in Attributes /\ FALSE \in BOOLEAN
  BY <1>2 DEF Attributes
<1>4. yes \in BackResult /\ no \in BackResult
  BY <1>3, Zenon DEF BackResult
<1>5. yes.attrs = {<<path, w>>} /\ no.attrs = {} /\ no.ok = FALSE
  BY Zenon
<1> HIDE DEF yes, no
<1>6. CASE a.type \in {"packed", "zoned"} /\ b
  <2>1. BackScalar(a, path, m, b, ok) = no
    BY <1>1, <1>6, Zenon
  <2>2. {} \subseteq {<<path, w>>}
    OBVIOUS
  <2> QED
    BY <2>1, <2>2, <1>4, <1>5, Zenon DEF w
<1>7. CASE ~ (a.type \in {"packed", "zoned"} /\ b)
  <2>1. BackScalar(a, path, m, b, ok) = yes
    BY <1>1, <1>7, Zenon
  <2>2. {<<path, w>>} \subseteq {<<path, w>>}
    OBVIOUS
  <2> QED
    BY <2>1, <2>2, <1>4, <1>5, Zenon DEF w
<1> QED
  BY <1>6, <1>7

\* One unfolding of copyBack has a result.
LEMMA GivenIs ==
  ASSUME NEW g \in GivingBack, NEW t \in CopyBacks
  PROVE  GiveOne(g, t) \in BackResult
<1>1. CASE Io(t.arg, t.outer) = "in"
  <2>1. t.ok \in BOOLEAN /\ {} \in Attributes
    BY CopyBacksAre DEF Attributes
  <2>2. [ok |-> t.ok, attrs |-> {}] \in BackResult
    BY <2>1, Zenon DEF BackResult
  <2> QED
    BY <1>1, <2>2, GiveOneIs
<1>2. CASE Io(t.arg, t.outer) # "in" /\ t.arg.type = "ds"
  <2> DEFINE n == Len(t.arg.entries)
  <2>1. PICK f : GivesBack(g, t, f) /\ EntriesBack(g, t) = BackIn(f, n)
    BY EntriesGoBack
  <2>2. n \in Nat /\ n \in 0 .. n
    BY CopyBacksAre
  <2>3. f[n] \in Backing
    BY <2>1, <2>2 DEF GivesBack
  <2> HIDE DEF n
  <2>4. f[n].ok \in BOOLEAN /\ f[n].attrs \in Attributes
    BY <2>3, Zenon DEF Backing
  <2>5. BackIn(f, n) \in BackResult
    BY <2>4, Zenon DEF BackIn, BackResult
  <2> QED
    BY <1>2, <2>1, <2>5, GiveOneIs DEF n
<1>3. CASE Io(t.arg, t.outer) # "in" /\ t.arg.type # "ds"
  BY <1>3, CopyBacksAre, BackScalarIs, GiveOneIs
<1> QED
  BY <1>1, <1>2, <1>3

\* Same results for the entries, same result.
LEMMA GivenSame ==
  ASSUME NEW g \in GivingBack, NEW h, NEW t \in CopyBacks,
         \A x \in CopyBacks : (\E i \in 1 .. Len(t.arg.entries) : x.arg = t.arg.entries[i]) =>
                                h[x] = g[x]
  PROVE  GiveOne(h, t) = GiveOne(g, t)
<1>1. EntriesBack(h, t) = EntriesBack(g, t)
  BY EntriesGoBack
<1> QED
  BY <1>1, GiveOneIs

\* copyBack is defined for every parameter, and unfolds.
LEMMA CopyBackIs == CopyBack \in GivingBack /\ \A t \in CopyBacks : CopyBack[t] = GiveOne(CopyBack, t)
<1> DEFINE F == [g \in GivingBack |-> [t \in CopyBacks |-> GiveOne(g, t)]]
           L == [k \in 0 .. MaxDepth |-> {t \in CopyBacks : t.arg \in Nested[k]}]
<1>1. ASSUME NEW g \in GivingBack PROVE [t \in CopyBacks |-> GiveOne(g, t)] \in GivingBack
  <2>1. \A t \in CopyBacks : GiveOne(g, t) \in BackResult
    BY GivenIs
  <2> QED
    BY <2>1 DEF GivingBack
<1>2. F \in [GivingBack -> GivingBack]
      /\ \A g \in GivingBack : F[g] = [t \in CopyBacks |-> GiveOne(g, t)]
  BY <1>1
<1> HIDE DEF F
<1>3. GivingBack # {}
  <2> DEFINE r == [ok |-> TRUE, attrs |-> {}]
  <2>1. r \in BackResult
    BY DEF BackResult, Attributes
  <2> HIDE DEF r
  <2>2. [t \in CopyBacks |-> r] \in GivingBack
    BY <2>1 DEF GivingBack
  <2> QED
    BY <2>2
<1>4. \A g \in GivingBack : g = [t \in CopyBacks |-> g[t]]
  BY DEF GivingBack
<1>5. \A k \in Nat, t \in CopyBacks : k <= MaxDepth => (t \in L[k] <=> t.arg \in Nested[k])
  BY DepthIs
<1> HIDE DEF L
<1>6. \A t \in CopyBacks : t \notin L[0] /\ t \in L[MaxDepth]
  <2> SUFFICES ASSUME NEW t \in CopyBacks PROVE t \notin L[0] /\ t \in L[MaxDepth]
    OBVIOUS
  <2>1. t.arg \in Params
    BY CopyBacksAre
  <2>2. t.arg \notin Nested[0] /\ t.arg \in Nested[MaxDepth]
    BY <2>1, Layers
  <2>3. 0 \in Nat /\ 0 <= MaxDepth /\ MaxDepth \in Nat /\ MaxDepth <= MaxDepth
    BY DepthIs
  <2> QED
    BY <1>5, <2>2, <2>3
<1>7. ASSUME NEW k \in Nat, k + 1 <= MaxDepth, NEW g \in GivingBack, NEW h \in GivingBack,
             \A x \in CopyBacks : x \in L[k] => g[x] = h[x],
             NEW t \in CopyBacks, t \in L[k + 1]
      PROVE  F[g][t] = F[h][t]
  <2>1. t.arg \in Nested[k + 1] /\ k <= MaxDepth
    BY <1>5, <1>7, DepthIs
  <2>2. \A i \in 1 .. Len(t.arg.entries) : t.arg.entries[i] \in Nested[k]
    BY <1>7, <2>1, EntriesBelow
  <2>3. ASSUME NEW x \in CopyBacks, \E i \in 1 .. Len(t.arg.entries) : x.arg = t.arg.entries[i]
        PROVE  g[x] = h[x]
    <3>1. x.arg \in Nested[k]
      BY <2>2, <2>3
    <3> QED
      BY <3>1, <2>1, <1>5, <1>7
  <2>4. GiveOne(g, t) = GiveOne(h, t)
    BY <2>3, GivenSame
  <2> QED
    BY <1>2, <1>7, <2>4
<1>8. Layered(CopyBacks, GivingBack, F, MaxDepth, L)
  BY <1>2, <1>3, <1>4, <1>6, <1>7, DepthIs DEF Layered
<1>9. PICK f \in GivingBack : f = F[f]
  BY <1>8, Recursion
<1>10. f = [t \in CopyBacks |-> GiveOne(f, t)]
  BY <1>2, <1>9
<1>11. CopyBack = [t \in CopyBacks |-> GiveOne(CopyBack, t)]
  BY <1>10, Zenon DEF CopyBack, GiveOne
<1> DEFINE S == {a \in Params : \A t \in CopyBacks : t.arg = a => CopyBack[t] = f[t]}
<1>12. ASSUME NEW a \in Params, \A i \in 1 .. Len(a.entries) : a.entries[i] \in S PROVE a \in S
  <2>1. ASSUME NEW t \in CopyBacks, t.arg = a PROVE CopyBack[t] = f[t]
    <3>1. ASSUME NEW x \in CopyBacks, \E i \in 1 .. Len(t.arg.entries) : x.arg = t.arg.entries[i]
          PROVE  CopyBack[x] = f[x]
      BY <1>12, <2>1, <3>1
    <3>2. GiveOne(CopyBack, t) = GiveOne(f, t)
      BY <3>1, GivenSame
    <3>3. CopyBack[t] = GiveOne(CopyBack, t) /\ f[t] = GiveOne(f, t)
      BY <1>10, <1>11
    <3> QED
      BY <3>2, <3>3
  <2> QED
    BY <2>1
<1>13. Params \subseteq S
  <2> HIDE DEF S
  <2> QED
    BY <1>12, OfAll
<1>14. \A t \in CopyBacks : CopyBack[t] = f[t]
  BY <1>13, CopyBacksAre
<1>15. CopyBack = f
  <2>1. f = [t \in CopyBacks |-> f[t]]
    BY <1>4
  <2>2. CopyBack = [t \in CopyBacks |-> CopyBack[t]]
    BY <1>11
  <2> QED
    BY <1>14, <2>1, <2>2
<1> QED
  BY <1>11, <1>15

\* What is around a leaf is around it still.
LEMMA LeafWays ==
  \A a \in Params : \A c \in Context : c.arg = a =>
    \A l \in Leaves[c] : c.ios \cup {Io(a, c.io)} \subseteq l.ios
<1> DEFINE Good(a) == \A c \in Context : c.arg = a =>
                        \A l \in Leaves[c] : c.ios \cup {Io(a, c.io)} \subseteq l.ios
           S == {a \in Params : Good(a)}
<1>1. ASSUME NEW a \in Params, \A i \in 1 .. Len(a.entries) : a.entries[i] \in S
      PROVE  a \in S
  <2>1. ASSUME NEW c \in Context, c.arg = a, NEW l \in Leaves[c]
        PROVE  c.ios \cup {Io(a, c.io)} \subseteq l.ios
    <3>1. CASE a.type # "ds"
      <4>1. l = Inside(c)
        BY <2>1, <3>1, LeafIs
      <4>2. Inside(c).ios = c.ios \cup {Io(c.arg, c.io)}
        BY <2>1, InsideIs
      <4> QED
        BY <2>1, <4>1, <4>2
    <3>2. CASE a.type = "ds"
      <4>1. PICK i \in 1 .. Len(a.entries) : l \in Leaves[EntryContext(c, i)]
        BY <2>1, <3>2, LeafIs
      <4> DEFINE k == EntryContext(c, i)
      <4>2. k \in Context /\ k.arg = a.entries[i] /\ k.ios = c.ios \cup {Io(a, c.io)}
        <5>1. i \in 1 .. Len(c.arg.entries)
          BY <2>1
        <5>2. k \in Context /\ k.arg = c.arg.entries[i] /\ k.ios = c.ios \cup {Io(c.arg, c.io)}
          BY <2>1, <5>1, EntryContextIs
        <5> HIDE DEF k
        <5> QED
          BY <2>1, <5>2
      <4> HIDE DEF k
      <4>3. k.ios \cup {Io(a.entries[i], k.io)} \subseteq l.ios
        <5>1. Good(a.entries[i])
          BY <1>1
        <5> QED
          BY <4>1, <4>2, <5>1 DEF k
      <4> QED
        BY <4>2, <4>3
    <3> QED
      BY <3>1, <3>2
  <2> QED
    BY <2>1
<1>2. Params \subseteq S
  <2> HIDE DEF S
  <2> QED
    BY <1>1, OfAll
<1> QED
  BY <1>2

\* The memory after an entry by value has got what is in its DS.
LEMMA TakenIs ==
  ASSUME NEW e \in Params, NEW this \in Paths, NEW path \in Paths, NEW where \in Int, NEW m \in Memory
  PROVE  /\ \A d \in Places : d[1] # this => (d \in TakeEntry(e, this, path, where, m) <=> d \in m)
         /\ ByValue(e, TRUE) =>
              \A d \in Places : d[1] = this /\ 0 <= d[2] /\ d[2] < Bytes(e) =>
                (d \in TakeEntry(e, this, path, where, m) <=> <<path, d[2] + where, d[3]>> \in m)
         /\ ~ ByValue(e, TRUE) => TakeEntry(e, this, path, where, m) = m
<1> DEFINE size == Bytes(e)
           by == 0 - where
           moved == Moved(Cells(m, path, where, size), this, by)
           r == TakeEntry(e, this, path, where, m)
<1>1. r = IF ByValue(e, TRUE) THEN {c \in m : c[1] # this} \cup moved ELSE m
  BY DEF TakeEntry
<1>2. \A d \in moved : d[1] = this
  BY DEF Moved
<1>3. size \in Int /\ by \in Int /\ where + by = 0
  BY BytesIs
<1>4. \A d \in Places : d[1] # this => (d \in r <=> d \in m)
  <2> HIDE DEF r, moved
  <2> QED
    BY <1>1, <1>2
<1>5. ASSUME ByValue(e, TRUE), NEW d \in Places, d[1] = this, 0 <= d[2], d[2] < size
      PROVE  d \in r <=> <<path, d[2] + where, d[3]>> \in m
  <2>1. d[2] \in Int
    BY PlaceIs
  <2> HIDE DEF size, by
  <2>2. where + by <= d[2] /\ d[2] < where + by + size /\ d[2] - by = d[2] + where
    <3>1. where + by + size = size
      BY <1>3
    <3>2. d[2] - by = d[2] + where
      BY <1>3, <2>1 DEF by
    <3> QED
      BY <1>3, <1>5, <3>1, <3>2
  <2>3. d \in moved <=> <<path, d[2] - by, d[3]>> \in m
    BY <1>3, <1>5, <2>2, MovedCells
  <2>4. d \in r <=> d \in moved
    <3> HIDE DEF r, moved
    <3> QED
      BY <1>1, <1>5
  <2> HIDE DEF r, moved
  <2> QED
    BY <2>2, <2>3, <2>4, Zenon
<1> HIDE DEF r
<1>6. ~ ByValue(e, TRUE) => r = m
  BY <1>1
<1> QED
  BY <1>4, <1>5, <1>6 DEF r

\* Parameter t, to be copied back, is at c in memory M, with all that is in it.
GoesBack(M, t, c) ==
  /\ SamePlace(t, c) /\ "in" \notin c.ios
  /\ \A d \in Places : Under(t.path, d[1]) => (d \in M <=> d \in t.mem)
  /\ \A d \in Places : d[1] = c.block /\ c.at <= d[2] /\ d[2] < c.at + Bytes(c.arg) =>
       (d \in M <=> <<t.path, d[2] - c.at, d[3]>> \in t.mem)

\* What goes into the attributes of it.
GivenOf(M, c) ==
  {<<l.path, What(M, l.block, l.at)>> : l \in {x \in Leaves[c] : "in" \notin x.ios}}

\* Copying entries back changes the blocks of these entries only.
LEMMA StructureKept ==
  ASSUME NEW t \in CopyBacks, NEW f, GivesBack(CopyBack, t, f)
  PROVE  \A i \in 0 .. Len(t.arg.entries) :
           \A d \in Places : (\A j \in 1 .. i : d[1] # Append(t.path, j)) =>
                               (d \in f[i].mem <=> d \in t.mem)
<1> DEFINE n == Len(t.arg.entries)
           Kept(i) == \A d \in Places : (\A j \in 1 .. i : d[1] # Append(t.path, j)) =>
                                          (d \in f[i].mem <=> d \in t.mem)
           S == {i \in Nat : i <= n => Kept(i)}
<1>1. n \in Nat /\ f \in [0 .. n -> Backing] /\ f[0] = NothingBack(t)
      /\ \A i \in 1 .. n : f[i] = OneBack(CopyBack, t, i, f[i - 1])
  BY CopyBacksAre DEF GivesBack
<1>2. 0 \in S
  <2>1. f[0].mem = t.mem
    <3>1. NothingBack(t).mem = t.mem
      BY Zenon DEF NothingBack
    <3> QED
      BY <1>1, <3>1
  <2> QED
    BY <2>1
<1>3. ASSUME NEW j \in Nat, j \in S PROVE j + 1 \in S
  <2> DEFINE m == j + 1
  <2>1. m \in Nat /\ m - 1 = j /\ (m <= n => m \in 1 .. n /\ j <= n /\ j \in 0 .. n)
        /\ \A i : i \in 1 .. m <=> i \in 1 .. j \/ i = m
    BY <1>1
  <2> HIDE DEF m
  <2>2. ASSUME m <= n PROVE Kept(m)
    <3> DEFINE done == f[j]
               e == t.arg.entries[m]
               this == Append(t.path, m)
               taken == TakenAt(t, m, done)
    <3>1. f[m] = OneBack(CopyBack, t, m, done) /\ done \in Backing /\ m \in 1 .. n /\ Kept(j)
      <4>1. m \in 1 .. n /\ j \in 0 .. n
        BY <2>1, <2>2
      <4>2. f[m] = OneBack(CopyBack, t, m, f[m - 1]) /\ f[j] \in Backing
        BY <1>1, <4>1
      <4>3. Kept(j)
        BY <1>3, <2>1, <2>2
      <4> QED
        BY <2>1, <4>1, <4>2, <4>3
    <3>2. e \in Params /\ this \in Paths /\ t.path \in Paths /\ Offset[t.arg][m - 1] \in Int
      BY <3>1, CopyBacksAre
    <3>3. done.mem \in Memory
      BY <3>1, Zenon DEF Backing
    <3>4. \A d \in Places : d[1] # this => (d \in taken <=> d \in done.mem)
      <4> HIDE DEF done, e, this
      <4> QED
        BY <3>2, <3>3, TakenIs DEF TakenAt, e, this
    <3>5. f[m].mem = done.mem \/ f[m].mem = taken
      <4>1. /\ ~ done.ok => f[m] = done
            /\ done.ok => f[m].mem = taken
        <5> HIDE DEF n, done, taken
        <5> QED
          BY <3>1, CopyBackIs, OneBackIs DEF n, taken
      <4> QED
        BY <4>1, Zenon
    <3> HIDE DEF taken, done, e
    <3>6. \A d \in Places : d[1] # this => (d \in f[m].mem <=> d \in done.mem)
      BY <3>4, <3>5, Zenon
    <3> QED
      BY <2>1, <3>1, <3>6 DEF done
  <2>3. m \in S
    BY <2>1, <2>2
  <2> QED
    BY <2>3 DEF m
<1>4. Nat \subseteq S
  <2> HIDE DEF S
  <2> QED
    BY <1>2, <1>3, Induction
<1>5. \A i \in 0 .. n : Kept(i)
  BY <1>1, <1>4
<1> QED
  BY <1>5 DEF n

\* What holds of a structure holds of its entries.
LEMMA EntryGoesBack ==
  ASSUME NEW M \in Memory, NEW t \in CopyBacks, NEW c \in Context, GoesBack(M, t, c),
         t.arg.type = "ds", Accepted(t.arg), Io(t.arg, t.outer) # "in",
         NEW f, GivesBack(CopyBack, t, f), NEW i \in 1 .. Len(t.arg.entries)
  PROVE  GoesBack(M, BackOf(t, i, f[i - 1]), EntryContext(c, i))
<1> DEFINE a == t.arg
           n == Len(a.entries)
           e == a.entries[i]
           o == Offset[a]
           p == t.path
           this == Append(p, i)
           io == Io(a, t.outer)
           done == f[i - 1]
           m == done.mem
           taken == TakenAt(t, i, done)
           x == BackOf(t, i, done)
           k == EntryContext(c, i)
           where == o[i - 1]
<1>1. /\ a \in Params /\ p \in Paths /\ c.arg = a /\ c.path = p /\ c.io = t.outer
      /\ c.block \in Paths /\ c.at \in Int /\ "in" \notin c.ios
      /\ n \in Nat /\ i \in Nat /\ i - 1 \in 0 .. n /\ n \in 0 .. n /\ i \in 0 .. n /\ i <= n
  BY CopyBacksAre, ContextIs DEF GoesBack, SamePlace
<1>2. done \in Backing /\ m \in Memory
  <2>1. done \in Backing
    BY <1>1 DEF GivesBack
  <2> QED
    BY <2>1, Zenon DEF Backing
<1>3. /\ x \in CopyBacks /\ x.arg = e /\ x.path = this /\ x.outer = io /\ x.mem = taken
      /\ taken \in Memory
  <2> HIDE DEF done
  <2> QED
    BY <1>2, BackOfIs
<1>4. /\ k \in Context /\ k.arg = e /\ k.path = this /\ k.io = io /\ k.ios = c.ios \cup {io}
      /\ ByValue(e, TRUE) => k.block = c.block /\ k.at = c.at + where
      /\ ~ ByValue(e, TRUE) => k.block = this /\ k.at = 0
  <2>1. i \in 1 .. Len(c.arg.entries)
    BY <1>1
  <2>2. /\ k \in Context /\ k.arg = c.arg.entries[i] /\ k.path = Append(c.path, i)
        /\ k.io = Io(c.arg, c.io) /\ k.ios = c.ios \cup {Io(c.arg, c.io)}
        /\ ByValue(c.arg.entries[i], TRUE) =>
             k.block = c.block /\ k.at = c.at + Offset[c.arg][i - 1]
        /\ ~ ByValue(c.arg.entries[i], TRUE) => k.block = Append(c.path, i) /\ k.at = 0
    BY <2>1, EntryContextIs
  <2> HIDE DEF k
  <2> QED
    BY <1>1, <2>2, Zenon
<1>5. this \in Paths /\ e \in Params /\ Bytes(e) \in Nat /\ Size(e) \in Nat
  BY <1>1, CopyBacksAre, AcceptedEntries, SizesAreNat
<1>6. where \in Nat /\ o[i] = where + Size(e) /\ o[i] <= Bytes(a) /\ Bytes(a) \in Nat
  <2>1. o[i] = where + Size(e) /\ Bytes(a) = o[n]
    BY <1>1, OffsetSteps DEF Bytes
  <2>2. /\ \A j \in 0 .. n : o[j] \in Nat
        /\ \A j, h \in 0 .. n : j <= h => o[j] <= o[h]
    <3>1. \A j \in 1 .. n : Size(a.entries[j]) \in Nat
      BY <1>1, CopyBacksAre, AcceptedEntries, SizesAreNat
    <3> QED
      BY <1>1, <3>1, OffsetsGrow
  <2> HIDE DEF o, n
  <2> QED
    BY <1>1, <2>1, <2>2
<1>7. \A d \in Places : (\A j \in 1 .. i - 1 : d[1] # Append(p, j)) => (d \in m <=> d \in t.mem)
  BY <1>1, StructureKept
<1>8. /\ \A d \in Places : d[1] # this => (d \in taken <=> d \in m)
      /\ ByValue(e, TRUE) =>
           \A d \in Places : d[1] = this /\ 0 <= d[2] /\ d[2] < Bytes(e) =>
             (d \in taken <=> <<p, d[2] + where, d[3]>> \in m)
      /\ ~ ByValue(e, TRUE) => taken = m
  <2>1. taken = TakeEntry(e, this, p, where, m)
    BY DEF TakenAt
  <2> HIDE DEF e, this, p, m, where, taken
  <2>2. where \in Int
    BY <1>6 DEF where
  <2>3. /\ \A d \in Places : d[1] # this => (d \in TakeEntry(e, this, p, where, m) <=> d \in m)
        /\ ByValue(e, TRUE) =>
             \A d \in Places : d[1] = this /\ 0 <= d[2] /\ d[2] < Bytes(e) =>
               (d \in TakeEntry(e, this, p, where, m) <=> <<p, d[2] + where, d[3]>> \in m)
        /\ ~ ByValue(e, TRUE) => TakeEntry(e, this, p, where, m) = m
    <3>1. p \in Paths /\ m \in Memory /\ this \in Paths /\ e \in Params
      BY <1>1, <1>2, <1>5 DEF p, m, this, e
    <3> QED
      BY <2>2, <3>1, TakenIs
  <2> QED
    BY <2>1, <2>3, Zenon
<1>9. \A d \in Places : Under(p, d[1]) => (d \in M <=> d \in t.mem)
  BY DEF GoesBack
<1>10. \A d \in Places : d[1] = c.block /\ c.at <= d[2] /\ d[2] < c.at + Bytes(c.arg) =>
         (d \in M <=> <<p, d[2] - c.at, d[3]>> \in t.mem)
  BY DEF GoesBack
<1>11. io # "in"
  OBVIOUS
<1> HIDE DEF a, n, e, o, p, this, io, done, m, taken, x, k, where
<1>12. SamePlace(x, k) /\ "in" \notin k.ios
  BY <1>1, <1>3, <1>4, <1>11 DEF SamePlace
\* below the entry, and for one by reference in its block too
<1>13. \A d \in Places : Extends_(this, d[1]) => (d \in M <=> d \in m)
  <2> SUFFICES ASSUME NEW d \in Places, Extends_(this, d[1]) PROVE d \in M <=> d \in m
    OBVIOUS
  <2>1. d[1] \in Paths
    BY PlaceIs
  <2>2. ASSUME NEW j \in 1 .. i - 1, d[1] = Append(p, j) PROVE FALSE
    <3>1. j \in Nat /\ j # i
      BY <1>1
    <3>2. Append(p, j) \in Paths
      BY <1>1, <3>1, PathsAre
    <3>3. Extends_(Append(p, j), d[1])
      BY <2>2, <3>2, <1>1, PathsAre
    <3> QED
      BY <2>1, <3>1, <3>3, <1>1, PathsAre DEF this
  <2>3. Under(p, d[1])
    BY <2>1, <1>1, PathsAre DEF this
  <2> QED
    BY <2>2, <2>3, <1>7, <1>9
<1>14. \A d \in Places : Under(this, d[1]) => (d \in M <=> d \in taken)
  BY <1>8, <1>13 DEF Under
<1>15. ASSUME NEW d \in Places, d[1] = k.block, k.at <= d[2], d[2] < k.at + Bytes(e)
       PROVE  d \in M <=> <<this, d[2] - k.at, d[3]>> \in taken
  <2>0. d[2] \in Int /\ d[3] \in Marks /\ d = <<d[1], d[2], d[3]>>
    BY PlaceIs
  <2>1. CASE ByValue(e, TRUE)
    <3> DEFINE b == <<this, d[2] - k.at, d[3]>>
               h == <<p, d[2] - c.at, d[3]>>
    <3>1. Size(e) = Bytes(e)
      BY <2>1 DEF Size
    <3>2. /\ k.block = c.block /\ k.at = c.at + where
          /\ c.at <= d[2] /\ d[2] < c.at + Bytes(c.arg)
          /\ 0 <= d[2] - k.at /\ d[2] - k.at < Bytes(e) /\ d[2] - k.at + where = d[2] - c.at
          /\ d[2] - k.at \in Int /\ d[2] - c.at \in Int
      <4>1. k.at = c.at + where /\ k.block = c.block
        BY <1>4, <2>1
      <4> QED
        <5>1. /\ c.at \in Int /\ where \in Nat /\ Bytes(e) \in Nat /\ Bytes(a) \in Nat
              /\ where + Bytes(e) <= Bytes(a) /\ Bytes(c.arg) = Bytes(a)
          BY <3>1, <1>1, <1>5, <1>6
        <5>2. d[2] \in Int /\ c.at + where <= d[2] /\ d[2] < c.at + where + Bytes(e)
          BY <2>0, <4>1, <1>15
        <5> DEFINE w == d[2]
                   s == c.at
                   y == Bytes(e)
                   z == Bytes(a)
        <5>3. /\ s <= w /\ w < s + z /\ 0 <= w - (s + where) /\ w - (s + where) < y
              /\ w - (s + where) + where = w - s /\ w - (s + where) \in Int /\ w - s \in Int
          <6>1. /\ s \in Int /\ where \in Nat /\ y \in Nat /\ z \in Nat /\ where + y <= z
                /\ w \in Int /\ s + where <= w /\ w < s + where + y
            BY <5>1, <5>2
          <6> HIDE DEF w, s, y, z, where
          <6> QED
            BY <6>1, Shifted
        <5> QED
          BY <4>1, <5>1, <5>3
    <3>3. b \in Places /\ b[1] = this /\ b[2] = d[2] - k.at /\ b[3] = d[3]
      BY <2>0, <3>2, <1>5 DEF Places
    <3>4. h \in Places /\ h[1] = p
      BY <2>0, <3>2, <1>1 DEF Places
    <3> HIDE DEF b, h
    <3>5. d \in M <=> h \in t.mem
      BY <3>2, <1>10, <1>15 DEF h
    <3>6. h \in m <=> h \in t.mem
      <4>1. ASSUME NEW j \in 1 .. i - 1 PROVE h[1] # Append(p, j)
        <5>1. j \in Nat
          BY <1>1
        <5> QED
          BY <3>4, <5>1, <1>1, PathsAre DEF Under
      <4> QED
        BY <3>4, <4>1, <1>7
    <3>7. b \in taken <=> <<p, b[2] + where, b[3]>> \in m
      <4>1. 0 <= b[2] /\ b[2] < Bytes(e)
        BY <3>2, <3>3
      <4> QED
        BY <2>1, <3>3, <4>1, <1>8
    <3>8. <<p, b[2] + where, b[3]>> = h
      BY <3>2, <3>3 DEF h
    <3> QED
      BY <3>5, <3>6, <3>7, <3>8, Zenon DEF b
  <2>2. CASE ~ ByValue(e, TRUE)
    <3>1. d[1] = this /\ k.at = 0
      BY <1>4, <1>15, <2>2
    <3>2. Extends_(this, this)
      BY <1>1, <1>5, PathsAre
    <3>3. d \in M <=> d \in m
      BY <3>1, <3>2, <1>13
    <3>4. d[2] - k.at = d[2]
      BY <2>0, <3>1
    <3>5. <<this, d[2] - k.at, d[3]>> = d
      BY <2>0, <3>1, <3>4, Zenon
    <3> QED
      BY <3>3, <3>5, <1>8, <2>2
  <2> QED
    BY <2>1, <2>2
<1> QED
  BY <1>3, <1>4, <1>12, <1>14, <1>15 DEF GoesBack, x, k, done

\* A scalar gives what is at its place.
LEMMA ScalarGiven ==
  ASSUME NEW M \in Memory, NEW t \in CopyBacks, NEW c \in Context, GoesBack(M, t, c),
         t.arg.type # "ds", Accepted(t.arg), Io(t.arg, t.outer) # "in"
  PROVE  GivenOf(M, c) = {<<t.path, What(t.mem, t.path, 0)>>}
<1> DEFINE a == t.arg
           io == Io(a, t.outer)
           l == Inside(c)
<1>1. a \in Params /\ c.arg = a /\ c.path = t.path /\ c.io = t.outer /\ "in" \notin c.ios
      /\ c.block \in Paths /\ c.at \in Int /\ t.path \in Paths /\ t.mem \in Memory
  BY CopyBacksAre, ContextIs DEF GoesBack, SamePlace
<1>2. l.path = t.path /\ l.block = c.block /\ l.at = c.at /\ l.ios = c.ios \cup {io}
  BY <1>1, InsideIs
<1>3. Leaves[c] = {l}
  BY <1>1, LeavesAre DEF LeavesAt
<1> HIDE DEF l
<1>4. "in" \notin l.ios
  BY <1>1, <1>2
<1>5. GivenOf(M, c) = {<<t.path, What(M, c.block, c.at)>>}
  BY <1>2, <1>3, <1>4 DEF GivenOf
<1>6. Bytes(a) \in Nat /\ 0 < Bytes(a)
  <2>1. Bytes(a) \in Nat \ {0}
    BY <1>1, ScalarTaken DEF Accepted
  <2> QED
    BY <2>1
<1>7. \A d \in Places : d[1] = c.block /\ d[2] = c.at =>
        (d \in M <=> <<t.path, 0, d[3]>> \in t.mem)
  <2> SUFFICES ASSUME NEW d \in Places, d[1] = c.block, d[2] = c.at
               PROVE  d \in M <=> <<t.path, 0, d[3]>> \in t.mem
    OBVIOUS
  <2>1. c.at <= d[2] /\ d[2] < c.at + Bytes(c.arg) /\ d[2] - c.at = 0
    BY <1>1, <1>6
  <2>2. d \in M <=> <<t.path, d[2] - c.at, d[3]>> \in t.mem
    BY <2>1 DEF GoesBack
  <2> QED
    BY <2>1, <2>2, Zenon
<1>8. There(M, c.block, c.at) = There(t.mem, t.path, 0)
  <2>1. ASSUME NEW d \in M, d[1] = c.block, d[2] = c.at
        PROVE  \E b \in t.mem : b[1] = t.path /\ b[2] = 0 /\ b[3] = d[3]
    <3> DEFINE b == <<t.path, 0, d[3]>>
    <3>1. b \in t.mem
      BY <2>1, <1>7, MemoryIs
    <3>2. b[1] = t.path /\ b[2] = 0 /\ b[3] = d[3]
      OBVIOUS
    <3> QED
      BY <3>1, <3>2
  <2>2. ASSUME NEW b \in t.mem, b[1] = t.path, b[2] = 0
        PROVE  \E d \in M : d[1] = c.block /\ d[2] = c.at /\ d[3] = b[3]
    <3> DEFINE d == <<c.block, c.at, b[3]>>
    <3>1. b \in Places /\ b[3] \in Marks /\ b = <<b[1], b[2], b[3]>>
      BY <1>1, MemoryIs, PlaceIs
    <3>2. d \in Places /\ d[1] = c.block /\ d[2] = c.at /\ d[3] = b[3]
      BY <3>1, <1>1 DEF Places
    <3> HIDE DEF d
    <3>3. <<t.path, 0, d[3]>> = b
      BY <2>2, <3>1, <3>2, Zenon
    <3>4. d \in M
      BY <3>2, <3>3, <1>7
    <3> QED
      BY <3>2, <3>4
  <2>3. \A w : w \in There(M, c.block, c.at) <=> \E d \in M : d[1] = c.block /\ d[2] = c.at /\ w = d[3].what
    BY DEF There
  <2>4. \A w : w \in There(t.mem, t.path, 0) <=> \E b \in t.mem : b[1] = t.path /\ b[2] = 0 /\ w = b[3].what
    BY DEF There
  <2>5. \A w : w \in There(M, c.block, c.at) <=> w \in There(t.mem, t.path, 0)
    <3> SUFFICES ASSUME NEW w
                 PROVE  w \in There(M, c.block, c.at) <=> w \in There(t.mem, t.path, 0)
      OBVIOUS
    <3>1. w \in There(M, c.block, c.at) => w \in There(t.mem, t.path, 0)
      <4>1. ASSUME NEW d \in M, d[1] = c.block, d[2] = c.at, w = d[3].what
            PROVE  w \in There(t.mem, t.path, 0)
        <5>1. PICK b \in t.mem : b[1] = t.path /\ b[2] = 0 /\ b[3] = d[3]
          BY <4>1, <2>1
        <5>2. w = b[3].what
          BY <4>1, <5>1, Zenon
        <5> QED
          BY <5>1, <5>2, <2>4
      <4> QED
        BY <4>1, <2>3
    <3>2. w \in There(t.mem, t.path, 0) => w \in There(M, c.block, c.at)
      <4>1. ASSUME NEW b \in t.mem, b[1] = t.path, b[2] = 0, w = b[3].what
            PROVE  w \in There(M, c.block, c.at)
        <5>1. PICK d \in M : d[1] = c.block /\ d[2] = c.at /\ d[3] = b[3]
          BY <4>1, <2>2
        <5>2. w = d[3].what
          BY <4>1, <5>1, Zenon
        <5> QED
          BY <5>1, <5>2, <2>3
      <4> QED
        BY <4>1, <2>4
    <3> QED
      BY <3>1, <3>2
  <2> DEFINE here == There(M, c.block, c.at)
             there == There(t.mem, t.path, 0)
  <2> HIDE DEF here, there
  <2>6. here = there
    BY <2>5 DEF here, there
  <2> QED
    BY <2>6 DEF here, there
<1>9. What(M, c.block, c.at) = What(t.mem, t.path, 0)
  <2> DEFINE OneOf(s) == IF s = {} THEN "junk" ELSE CHOOSE what \in s : TRUE
  <2>1. /\ What(M, c.block, c.at) = OneOf(There(M, c.block, c.at))
        /\ What(t.mem, t.path, 0) = OneOf(There(t.mem, t.path, 0))
    BY Zenon DEF What
  <2> HIDE DEF OneOf
  <2> QED
    BY <1>8, <2>1, Zenon
<1> QED
  BY <1>5, <1>9

\* What is given of a structure is what is given of its entries.
LEMMA GivenOfEntries ==
  ASSUME NEW M, NEW c \in Context, c.arg.type = "ds"
  PROVE  \A z : z \in GivenOf(M, c) <=>
                  \E i \in 1 .. Len(c.arg.entries) : z \in GivenOf(M, EntryContext(c, i))
<1>1. DOMAIN c.arg.entries = 1 .. Len(c.arg.entries)
  BY ContextIs
<1>2. Leaves[c] = UNION {Leaves[EntryContext(c, i)] : i \in DOMAIN c.arg.entries}
  BY LeavesAre DEF LeavesAt
<1>3. \A l : l \in Leaves[c] <=> \E i \in 1 .. Len(c.arg.entries) : l \in Leaves[EntryContext(c, i)]
  BY <1>1, <1>2
<1>4. \A z, k : z \in GivenOf(M, k) <=>
                  \E l \in Leaves[k] : "in" \notin l.ios /\ z = <<l.path, What(M, l.block, l.at)>>
  BY DEF GivenOf
<1> SUFFICES ASSUME NEW z
             PROVE  z \in GivenOf(M, c) <=>
                      \E i \in 1 .. Len(c.arg.entries) : z \in GivenOf(M, EntryContext(c, i))
  OBVIOUS
<1> DEFINE Fits(l) == "in" \notin l.ios /\ z = <<l.path, What(M, l.block, l.at)>>
           In(i, l) == i \in 1 .. Len(c.arg.entries) /\ l \in Leaves[EntryContext(c, i)]
<1>5. z \in GivenOf(M, c) <=> \E l \in Leaves[c] : Fits(l)
  BY <1>4
<1>6. \A i : z \in GivenOf(M, EntryContext(c, i)) <=> \E l \in Leaves[EntryContext(c, i)] : Fits(l)
  BY <1>4
<1>7. \A l : l \in Leaves[c] <=> \E i : In(i, l)
  BY <1>3
<1> HIDE DEF Fits
<1> QED
  BY <1>5, <1>6, <1>7

\* All that is to be given is, unless something fails.
LEMMA OutputsGiven ==
  ASSUME NEW M \in Memory
  PROVE  \A a \in Params : Accepted(a) =>
           \A t \in CopyBacks, c \in Context : t.arg = a /\ GoesBack(M, t, c) =>
             /\ CopyBack[t].attrs \subseteq GivenOf(M, c)
             /\ CopyBack[t].ok => CopyBack[t].attrs = GivenOf(M, c)
<1> DEFINE Good(a) == Accepted(a) =>
             \A t \in CopyBacks, c \in Context : t.arg = a /\ GoesBack(M, t, c) =>
               /\ CopyBack[t].attrs \subseteq GivenOf(M, c)
               /\ CopyBack[t].ok => CopyBack[t].attrs = GivenOf(M, c)
           S == {a \in Params : Good(a)}
<1>1. ASSUME NEW a \in Params, \A i \in 1 .. Len(a.entries) : a.entries[i] \in S
      PROVE  a \in S
  <2>1. ASSUME Accepted(a), NEW t \in CopyBacks, NEW c \in Context, t.arg = a, GoesBack(M, t, c)
        PROVE  /\ CopyBack[t].attrs \subseteq GivenOf(M, c)
               /\ CopyBack[t].ok => CopyBack[t].attrs = GivenOf(M, c)
    <3> DEFINE io == Io(a, t.outer)
               n == Len(a.entries)
    <3>1. c.arg = a /\ c.io = t.outer /\ t.path \in Paths /\ t.mem \in Memory
          /\ t.broken \in BOOLEAN /\ t.ok \in BOOLEAN /\ n \in Nat
      BY <2>1, CopyBacksAre DEF GoesBack, SamePlace
    <3>2. CopyBack[t] = GiveOne(CopyBack, t)
      BY <2>1, CopyBackIs
    <3>3. CASE io = "in"
      <4>1. CopyBack[t] = [ok |-> t.ok, attrs |-> {}]
        BY <2>1, <3>2, <3>3, GiveOneIs
      <4>2. CopyBack[t].attrs = {}
        <5> DEFINE r == [ok |-> t.ok, attrs |-> {}]
        <5>1. r.attrs = {}
          OBVIOUS
        <5> HIDE DEF r
        <5> QED
          BY <4>1, <5>1, Zenon DEF r
      <4>3. \A l \in Leaves[c] : "in" \in l.ios
        BY <3>1, <3>3, <2>1, LeafWays
      <4>4. GivenOf(M, c) = {}
        BY <4>3 DEF GivenOf
      <4> QED
        BY <4>2, <4>4
    <3>4. CASE io # "in" /\ a.type # "ds"
      <4>1. CopyBack[t] = BackScalar(a, t.path, t.mem, t.broken, t.ok)
        BY <2>1, <3>2, <3>4, GiveOneIs
      <4>2. GivenOf(M, c) = {<<t.path, What(t.mem, t.path, 0)>>}
        BY <2>1, <3>4, ScalarGiven
      <4> HIDE DEF io
      <4> QED
        BY <4>1, <4>2, <3>1, BackScalarIs
    <3>5. CASE io # "in" /\ a.type = "ds"
      <4>1. PICK f : GivesBack(CopyBack, t, f) /\ EntriesBack(CopyBack, t) = BackIn(f, n)
        BY <2>1, CopyBackIs, EntriesGoBack
      <4>2. CopyBack[t] = BackIn(f, n)
        BY <2>1, <3>2, <3>5, <4>1, GiveOneIs
      <4>3. f \in [0 .. n -> Backing] /\ f[0] = NothingBack(t)
            /\ \A i \in 1 .. n : f[i] = OneBack(CopyBack, t, i, f[i - 1])
        BY <2>1, <4>1 DEF GivesBack
      <4> DEFINE G(i) == GivenOf(M, EntryContext(c, i))
      <4>4. ASSUME NEW i \in 1 .. n
            PROVE  /\ f[i - 1].ok =>
                        /\ \E s : /\ f[i].attrs = f[i - 1].attrs \cup s /\ s \subseteq G(i)
                                  /\ f[i].ok => s = G(i)
                   /\ ~ f[i - 1].ok => f[i] = f[i - 1]
        <5> DEFINE done == f[i - 1]
                   x == BackOf(t, i, done)
                   k == EntryContext(c, i)
        <5>1. i - 1 \in 0 .. n /\ i \in 1 .. Len(t.arg.entries) /\ i \in 1 .. Len(c.arg.entries)
          BY <2>1, <3>1
        <5>2. done \in Backing /\ f[i] = OneBack(CopyBack, t, i, done)
          BY <4>3, <5>1
        <5>3. x \in CopyBacks /\ x.arg = a.entries[i]
          <6> HIDE DEF done
          <6> QED
            BY <2>1, <5>1, <5>2, BackOfIs
        <5>4. /\ ~ done.ok => f[i] = done
              /\ done.ok => /\ f[i].ok = CopyBack[x].ok
                            /\ f[i].attrs = done.attrs \cup CopyBack[x].attrs
          <6> HIDE DEF done
          <6> QED
            BY <5>1, <5>2, CopyBackIs, OneBackIs
        <5>5. GoesBack(M, x, k)
          BY <2>1, <3>5, <4>1, <5>1, EntryGoesBack
        <5>6. k \in Context
          BY <5>1, EntryContextIs
        <5>7. Good(a.entries[i]) /\ Accepted(a.entries[i])
          BY <1>1, <2>1, AcceptedEntries
        <5> HIDE DEF x, k, done
        <5>8. /\ CopyBack[x].attrs \subseteq GivenOf(M, k)
              /\ CopyBack[x].ok => CopyBack[x].attrs = GivenOf(M, k)
          BY <5>3, <5>5, <5>6, <5>7
        <5> QED
          BY <5>4, <5>8, Zenon DEF k, done
      <4> HIDE DEF G, n
      <4> DEFINE Upto(j) == /\ \A z \in f[j].attrs : \E i \in 1 .. j : z \in G(i)
                            /\ f[j].ok => \A i \in 1 .. j : G(i) \subseteq f[j].attrs
                 R == {j \in Nat : j <= n => Upto(j)}
      <4>5. 0 \in R
        <5>1. f[0].attrs = {}
          <6>1. NothingBack(t).attrs = {}
            BY Zenon DEF NothingBack
          <6> QED
            BY <4>3, <6>1
        <5> QED
          BY <5>1
      <4>6. ASSUME NEW j \in Nat, j \in R PROVE j + 1 \in R
        <5> DEFINE m == j + 1
        <5>1. m \in Nat /\ m - 1 = j /\ (m <= n => m \in 1 .. n /\ j <= n)
              /\ \A i : i \in 1 .. m <=> i \in 1 .. j \/ i = m
          BY <3>1
        <5> HIDE DEF m
        <5>2. ASSUME m <= n PROVE Upto(m)
          <6>1. Upto(j)
            BY <4>6, <5>1, <5>2
          <6>2. CASE f[j].ok
            <7>1. PICK s : /\ f[m].attrs = f[j].attrs \cup s /\ s \subseteq G(m)
                           /\ f[m].ok => s = G(m)
              BY <4>4, <5>1, <5>2, <6>2
            <7> QED
              BY <5>1, <6>1, <6>2, <7>1
          <6>3. CASE ~ f[j].ok
            <7>1. f[m] = f[j]
              BY <4>4, <5>1, <5>2, <6>3
            <7> QED
              BY <5>1, <6>1, <6>3, <7>1
          <6> QED
            BY <6>2, <6>3
        <5>3. m \in R
          BY <5>1, <5>2
        <5> QED
          BY <5>3 DEF m
      <4>7. Nat \subseteq R
        <5> HIDE DEF R
        <5> QED
          BY <4>5, <4>6, Induction
      <4>8. Upto(n)
        BY <3>1, <4>7
      <4>9. \A z : z \in GivenOf(M, c) <=> \E i \in 1 .. n : z \in G(i)
        BY <2>1, <3>1, <3>5, GivenOfEntries DEF G, n
      <4>10. CopyBack[t].attrs = f[n].attrs /\ CopyBack[t].ok = f[n].ok
        <5>1. BackIn(f, n).attrs = f[n].attrs /\ BackIn(f, n).ok = f[n].ok
          BY Zenon DEF BackIn
        <5> QED
          BY <4>2, <5>1, Zenon DEF n
      <4> QED
        BY <4>8, <4>9, <4>10
    <3> QED
      BY <3>3, <3>4, <3>5
  <2> QED
    BY <2>1
<1>2. Params \subseteq S
  <2> HIDE DEF S
  <2> QED
    BY <1>1, OfAll
<1> QED
  BY <1>2

-----------------------------------------------------------------------------
(* What comes back *)

\* What the first k arguments give of m.
Given(m, k) == UNION {GivenOf(m, Outermost(i)) : i \in 1 .. k}

\* The recorder has a code and messages.
Recorder(f) == \E c, ms : f = [code |-> c, msgs |-> ms]

BackInv ==
  /\ Recorder(fr) /\ mem \in Memory /\ broken \in BOOLEAN
  /\ pc \notin {"copyBack", "done"} => attrs = {}
  /\ attrs \subseteq Given(mem, Number)
  /\ pc = "copyBack" /\ fr.code = OK => attrs = Given(mem, at - 1)
  /\ pc = "done" /\ fr.code = OK => attrs = Given(mem, Number)

\* An error leaves its code and a recorder.
LEMMA Reported ==
  ASSUME NEW f, Recorder(f), NEW c
  PROVE  /\ Recorder(Report(f, c, Author)) /\ Report(f, c, Author).code = c
         /\ Recorder(SetCode(f, c)) /\ SetCode(f, c).code = c
<1>1. PICK d, ms : f = [code |-> d, msgs |-> ms]
  BY DEF Recorder
<1> DEFINE g == [code |-> c, msgs |-> ms]
           r == [code |-> c, msgs |-> ms \o <<Author>>]
<1>2. SetCode(f, c) = g
  BY <1>1 DEF SetCode
<1>3. [g EXCEPT !.msgs = g.msgs \o <<Author>>] = r
  OBVIOUS
<1>4. Report(f, c, Author) = r
  BY <1>2, <1>3 DEF Report, AddMessages
<1>5. r.code = c /\ g.code = c
  OBVIOUS
<1>6. Recorder(r) /\ Recorder(g)
  BY Zenon DEF Recorder
<1> HIDE DEF r, g
<1> QED
  BY <1>2, <1>4, <1>5, <1>6, Zenon

\* The leaves of all the arguments.
LEMMA AllLeavesAre ==
  ASSUME node.parms \in Seq(Params)
  PROVE  AllLeaves \subseteq Context
<1>1. ASSUME NEW i \in 1 .. Number, NEW l \in Leaves[Outermost(i)] PROVE l \in Context
  <2>1. i \in Nat /\ node.parms[i] \in Params
    BY DEF Number
  <2>2. Outermost(i) \in Context /\ Outermost(i).arg = node.parms[i]
    BY <2>1, OutermostIs
  <2> HIDE DEF Outermost
  <2> QED
    BY <2>1, <2>2, LeafPath
<1> QED
  BY <1>1 DEF AllLeaves

\* What the program leaves is memory.
LEMMA WrittenIs ==
  ASSUME node.parms \in Seq(Params), mem \in Memory
  PROVE  Written \in Memory
<1>1. \A l \in AllLeaves : Cell(l.block, l.at, "new", l.path) \in Places
  <2> SUFFICES ASSUME NEW l \in AllLeaves PROVE Cell(l.block, l.at, "new", l.path) \in Places
    OBVIOUS
  <2>1. l.block \in Paths /\ l.at \in Int /\ l.path \in Paths
    BY AllLeavesAre, ContextIs
  <2>2. "new" \in {"in", "blank", "ptr", "new"}
    OBVIOUS
  <2> QED
    BY <2>1, <2>2, CellIs, Zenon
<1> DEFINE out == {l \in AllLeaves : ~ Copied(l) /\ Reached(l, mem)}
           gone == {c \in mem : \E l \in out : c[1] = l.block /\ c[2] = l.at}
           cells == {Cell(l.block, l.at, "new", l.path) : l \in out}
<1>2. Written = (mem \ gone) \cup cells
  BY Zenon DEF Written
<1>3. cells \subseteq Places
  BY <1>1
<1>4. gone \subseteq mem
  OBVIOUS
<1> HIDE DEF gone, cells
<1> QED
  BY <1>2, <1>3, MemoryIs

\* No argument gives nothing.
LEMMA NothingGiven ==
  ASSUME NEW m PROVE Given(m, 0) = {}
<1>1. 1 .. 0 = {}
  OBVIOUS
<1> QED
  BY <1>1 DEF Given

\* At the start nothing has been given;
LEMMA BackBegins == CallInit => BackInv
<1> SUFFICES ASSUME CallInit PROVE BackInv
  OBVIOUS
<1>1. pc = "init" /\ mem = {} /\ broken = FALSE /\ attrs = {} /\ fr = Clean
  BY DEF CallInit
<1>2. broken \in BOOLEAN /\ Recorder(fr)
  BY <1>1, Zenon DEF Recorder, Clean
<1> QED
  BY <1>1, <1>2, MemoryIs DEF BackInv

\* every step keeps what has been given right;
LEMMA BackStep ==
  ASSUME StateInv, MemoryInv, BackInv, [CallNext]_vars
  PROVE  BackInv'
<1>0. /\ node.parms \in Seq(Params) /\ Number \in Nat /\ at \in 1 .. Number + 1
      /\ pc = "call" => fr = Clean
      /\ pc \in {"init", "create", "copyIn"} => fr = Clean
      /\ Recorder(fr) /\ mem \in Memory /\ broken \in BOOLEAN
      /\ pc \notin {"copyBack", "done"} => attrs = {}
  BY NumberIs DEF StateInv, Typed, Flow, BackInv
<1>f. ASSUME NEW c, c # OK, Fail(c) PROVE pc' = "done" /\ fr'.code # OK /\ Recorder(fr')
  BY <1>f, <1>0, Reported DEF Fail
<1>a. ASSUME Recorder(fr'), mem' \in Memory, broken' \in BOOLEAN, attrs' = {}, pc' # "copyBack",
             pc' = "done" => fr'.code # OK
      PROVE  BackInv'
  BY <1>a DEF BackInv
<1>b. ASSUME UNCHANGED <<mem, broken, attrs>>, pc \notin {"copyBack", "done"}, Recorder(fr'),
             pc' # "copyBack", pc' = "done" => fr'.code # OK
      PROVE  BackInv'
  BY <1>0, <1>a, <1>b, Zenon
<1>1. CASE InitProgram
  <2>1. UNCHANGED <<mem, broken, attrs>> /\ pc = "init"
        /\ ((pc' = "create" /\ UNCHANGED fr) \/ Fail("ARGUMENT_INIT") \/ Fail("RETURN_INIT"))
    BY <1>1 DEF InitProgram, args, results
  <2>2. "ARGUMENT_INIT" # OK /\ "RETURN_INIT" # OK
    BY DEF OK
  <2> QED
    BY <2>1, <2>2, <1>0, <1>b, <1>f
<1>2. CASE Create
  <2>1. UNCHANGED <<mem, broken, attrs>> /\ pc = "create" /\ pc' \in {"copyIn", "start"}
        /\ (UNCHANGED fr \/ fr' = Report(Report(fr, "PASE_START", Author), "ARGUMENT_INIT", Author))
    BY <1>2 DEF Create, args, results
  <2>2. Recorder(fr')
    <3>1. Recorder(Report(fr, "PASE_START", Author))
      BY <1>0, Reported
    <3>2. Recorder(Report(Report(fr, "PASE_START", Author), "ARGUMENT_INIT", Author))
      BY <3>1, Reported
    <3> QED
      BY <2>1, <3>2, <1>0
  <2> QED
    BY <2>1, <2>2, <1>b
<1>3. CASE CopyInArg
  <2> DEFINE a == node.parms[at]
             x == ToCopyIn(a, <<at>>, "both", errno)
  <2>1. /\ UNCHANGED <<broken, attrs>> /\ pc = "copyIn" /\ at <= Number
        /\ mem' = mem \cup CopyIn[x].mem
        /\ pc' \in {"copyIn", "start"}
        /\ (UNCHANGED fr \/ fr' = Report(fr, "ARGUMENT_INIT", Author))
    BY <1>3 DEF CopyInArg, results
  <2>2. Recorder(fr')
    BY <2>1, <1>0, Reported
  <2>3. x \in CopyIns
    <3>1. a \in Params /\ <<at>> \in Paths /\ "both" \in Ways /\ errno \in Errnos
      BY <1>0, <2>1 DEF Paths, Ways, MemoryInv, Number
    <3> HIDE DEF a
    <3> QED
      BY <3>1, ToCopyInIs
  <2> HIDE DEF x
  <2>4. CopyIn[x].mem \in Memory
    <3>1. CopyIn[x] \in CopyInResult
      BY <2>3, CopyInIs DEF Copying
    <3> QED
      BY <3>1, Zenon DEF CopyInResult
  <2>5. mem' \in Memory
    <3> DEFINE m == CopyIn[x].mem
    <3>1. m \in Memory /\ mem' = mem \cup m
      BY <2>1, <2>4
    <3> HIDE DEF m
    <3> QED
      BY <3>1, <1>0, MemoryIs
  <2> QED
    BY <2>1, <2>2, <2>5, <1>0, <1>a
<1>4. CASE AllCopied
  <2>1. UNCHANGED <<mem, broken, attrs, fr>> /\ pc = "copyIn" /\ pc' = "start"
    BY <1>4 DEF AllCopied, args, results
  <2> QED
    BY <2>1, <1>0, <1>b
<1>5. CASE StartCall \/ FindSymbol \/ Resolve
  <2>1. /\ UNCHANGED <<mem, broken, attrs>> /\ pc \in {"start", "symbol", "resolve"}
        /\ \/ pc' \in {"symbol", "resolve", "call"} /\ UNCHANGED fr
           \/ Fail("PASE_START") \/ Fail("PGM_RUN") \/ Fail("PASE_RUN")
           \/ pc' = "done" /\ fr.code # OK /\ UNCHANGED fr
    BY <1>5 DEF StartCall, FindSymbol, Resolve, args, results
  <2>2. "PASE_START" # OK /\ "PGM_RUN" # OK /\ "PASE_RUN" # OK
    BY DEF OK
  <2> QED
    BY <2>1, <2>2, <1>0, <1>b, <1>f
<1>6. CASE Call
  <2>1. /\ UNCHANGED <<node, attrs>> /\ pc = "call" /\ mem' \in {mem, Written} /\ broken' \in BOOLEAN
        /\ at' = 1
        /\ \/ pc' = "copyBack" /\ UNCHANGED fr
           \/ Fail("PGM_RUN")
           \/ pc' = "done" /\ fr' = SetCode(fr, "PGM_RUN")
    <3>1. UNCHANGED <<node, attrs>> /\ pc = "call" /\ broken' \in BOOLEAN /\ at' = 1
      BY <1>6 DEF Call, request, results
    <3>2. mem' \in {mem, Written}
      BY <1>6 DEF Call
    <3>3. \/ pc' = "copyBack" /\ UNCHANGED fr
          \/ Fail("PGM_RUN")
          \/ pc' = "done" /\ fr' = SetCode(fr, "PGM_RUN")
      BY <1>6 DEF Call
    <3> QED
      BY <3>1, <3>2, <3>3
  <2>2. mem' \in Memory
    <3>1. Written \in Memory
      BY <1>0, WrittenIs
    <3> QED
      BY <2>1, <3>1, <1>0
  <2>3. attrs' = {}
    BY <2>1, <1>0
  <2>4. "PGM_RUN" # OK
    BY DEF OK
  <2>5. CASE pc' = "copyBack" /\ UNCHANGED fr
    <3>1. attrs' = Given(mem', at' - 1)
      <4>1. at' - 1 = 0
        BY <2>1
      <4> QED
        BY <2>3, <4>1, NothingGiven
    <3>2. (at - 1)' = at' - 1
      OBVIOUS
    <3>3. (attrs = Given(mem, at - 1))'
      <4> DEFINE m == mem' n == at' - 1
      <4>1. Given(m, n) = {}
        BY <2>3, <3>1
      <4>2. n = 0
        BY <2>1
      <4>3. (Given(mem, at - 1) = {})'
        <5>1. 1 .. n = {}
          BY <4>2
        <5> QED
          BY <5>1 DEF Given
      <4> QED
        BY <2>3, <4>3
    <3> QED
      BY <2>2, <2>3, <2>1, <2>5, <3>3, <1>0 DEF BackInv
  <2>6. CASE Fail("PGM_RUN")
    BY <2>6, <2>1, <2>2, <2>3, <2>4, <1>a, <1>f
  <2>7. CASE pc' = "done" /\ fr' = SetCode(fr, "PGM_RUN")
    BY <2>7, <2>1, <2>2, <2>3, <2>4, <1>a, <1>0, Reported
  <2> QED
    BY <2>1, <2>5, <2>6, <2>7
<1>7. CASE CopyBackArg
  <2> DEFINE a == node.parms[at]
             ok == fr.code = OK
             t == ToCopyBack(a, <<at>>, "both", mem, broken, ok)
             c == Outermost(at)
             done == CopyBack[t]
  <2>1. /\ UNCHANGED <<node, mem, broken>> /\ pc = "copyBack" /\ at <= Number /\ at' = at + 1
        /\ attrs' = attrs \cup done.attrs /\ UNCHANGED pc
        /\ fr' = IF done.ok \/ fr.code # OK THEN fr ELSE Report(fr, "PGM_RUN", Author)
    BY <1>7 DEF CopyBackArg, request, args
  <2>2. at \in Nat /\ at \in 1 .. Number /\ a \in Params /\ Accepted(a) /\ <<at>> \in Paths
    BY <1>0, <2>1 DEF Paths, Number, MemoryInv, AllAccepted
  <2>3. /\ t \in CopyBacks /\ t.arg = a /\ t.path = <<at>> /\ t.outer = "both" /\ t.mem = mem
    <3>1. "both" \in Ways /\ ok \in BOOLEAN
      BY DEF Ways
    <3> HIDE DEF a, ok
    <3> QED
      BY <2>2, <3>1, <1>0, ToCopyBackIs
  <2>4. /\ c \in Context /\ c.arg = a /\ c.path = <<at>> /\ c.block = <<at>> /\ c.at = 0
        /\ c.io = "both" /\ c.ios = {} /\ c.within = {} /\ c.via = {}
    BY <2>2, OutermostIs
  <2> HIDE DEF a, t, c
  <2>5. GoesBack(mem, t, c)
    <3>1. SamePlace(t, c) /\ "in" \notin c.ios
      BY <2>3, <2>4 DEF SamePlace
    <3>2. ASSUME NEW d \in Places, d[1] = c.block
          PROVE  d \in mem <=> <<t.path, d[2] - c.at, d[3]>> \in t.mem
      <4>1. d[2] \in Int /\ d = <<d[1], d[2], d[3]>>
        BY PlaceIs
      <4>2. d[2] - c.at = d[2]
        BY <4>1, <2>4
      <4>3. <<t.path, d[2] - c.at, d[3]>> = d
        BY <2>3, <2>4, <3>2, <4>1, <4>2, Zenon
      <4> QED
        BY <2>3, <4>3, Zenon
    <3> QED
      BY <2>3, <3>1, <3>2 DEF GoesBack
  <2>6. /\ done.attrs \subseteq GivenOf(mem, c)
        /\ done.ok => done.attrs = GivenOf(mem, c)
    BY <1>0, <2>2, <2>3, <2>4, <2>5, OutputsGiven
  <2> HIDE DEF done
  <2>7. Given(mem, at) = Given(mem, at - 1) \cup GivenOf(mem, c)
    <3>1. \A i : i \in 1 .. at <=> i \in 1 .. at - 1 \/ i = at
      BY <2>2
    <3> QED
      BY <3>1 DEF Given, c
  <2>8. Given(mem, at) \subseteq Given(mem, Number)
    <3>1. 1 .. at \subseteq 1 .. Number
      BY <2>2, <1>0
    <3> QED
      BY <3>1 DEF Given
  <2>9. attrs' \subseteq Given(mem, Number)
    BY <2>1, <2>6, <2>7, <2>8 DEF BackInv
  <2>10. Recorder(fr') /\ (fr'.code = OK => fr.code = OK /\ done.ok)
    <3>1. "PGM_RUN" # OK
      BY DEF OK
    <3> QED
      BY <3>1, <2>1, <1>0, Reported
  <2>11. fr'.code = OK => attrs' = Given(mem, at)
    BY <2>1, <2>6, <2>7, <2>10 DEF BackInv
  <2>12. (at - 1)' = at
    BY <2>1, <2>2
  <2>13. (Given(mem, Number) = Given(mem, Number)') /\ (Given(mem, at) = Given(mem, at - 1)')
    <3>1. Given(mem, Number)' = Given(mem, Number)
      BY <2>1, Zenon DEF Given, Outermost, Number
    <3>2. Given(mem, at - 1)' = Given(mem, at)
      BY <2>1, <2>12, Zenon DEF Given, Outermost
    <3> QED
      BY <3>1, <3>2
  <2> QED
    BY <2>1, <2>9, <2>10, <2>11, <2>13, <1>0 DEF BackInv
<1>8. CASE ReturnBack
  <2>1. /\ UNCHANGED <<node, mem, broken, attrs, fr>> /\ pc = "copyBack" /\ at > Number /\ pc' = "done"
    BY <1>8 DEF ReturnBack, request, args
  <2>2. at - 1 = Number
    BY <1>0, <2>1
  <2>3. Given(mem, Number)' = Given(mem, Number)
    BY <2>1, Zenon DEF Given, Outermost, Number
  <2> QED
    BY <2>1, <2>2, <2>3, <1>0 DEF BackInv
<1>9. CASE NextNode
  <2>1. mem' = {} /\ broken' = FALSE /\ attrs' = {} /\ pc' = "init" /\ fr' = Clean
    BY <1>9 DEF NextNode
  <2>2. broken' \in BOOLEAN /\ Recorder(fr')
    BY <2>1, Zenon DEF Recorder, Clean
  <2>3. mem' \in Memory
    BY <2>1, MemoryIs
  <2> QED
    BY <2>1, <2>2, <2>3, <1>a
<1>10. CASE UNCHANGED vars
  <2>1. UNCHANGED <<node, pc, at, mem, broken, attrs, fr>>
    BY <1>10 DEF vars, request, args, results
  <2>2. Given(mem, Number)' = Given(mem, Number) /\ Given(mem, at - 1)' = Given(mem, at - 1)
    BY <2>1, Zenon DEF Given, Outermost, Number
  <2> QED
    BY <2>1, <2>2 DEF BackInv
<1> QED
  BY <1>1, <1>2, <1>3, <1>4, <1>5, <1>6, <1>7, <1>8, <1>9, <1>10 DEF CallNext

\* so it is always.
LEMMA BackAlways == CallSpec => []BackInv
<1>1. StateInv /\ MemoryInv /\ BackInv /\ [CallNext]_vars => BackInv'
  BY BackStep
<1> QED
  BY <1>1, BackBegins, StateAlways, MemoryAlways, PTL DEF CallSpec

(***************************************************************************)
(* Whatever the parameters are: what copyBack gives is what the program    *)
(* has left at the place of each value that is not input only, and it      *)
(* gives all of it if the node ends without an error.                      *)
(***************************************************************************)
THEOREM OutputsGetBack == CallSpec => []OutputsComeBack
<1>1. BackInv => OutputsComeBack
  <2> DEFINE outputs == {<<l.path, What(mem, l.block, l.at)>> :
                           l \in {x \in AllLeaves : "in" \notin x.ios}}
  <2>1. outputs = Given(mem, Number)
    <3>1. \A z : z \in outputs <=>
                   \E l \in AllLeaves : "in" \notin l.ios /\ z = <<l.path, What(mem, l.block, l.at)>>
      OBVIOUS
    <3>2. \A z, i : z \in GivenOf(mem, Outermost(i)) <=>
                   \E l \in Leaves[Outermost(i)] :
                     "in" \notin l.ios /\ z = <<l.path, What(mem, l.block, l.at)>>
      BY DEF GivenOf
    <3>3. \A l : l \in AllLeaves <=> \E i \in 1 .. Number : l \in Leaves[Outermost(i)]
      BY DEF AllLeaves
    <3>4. \A z : z \in Given(mem, Number) <=> \E i \in 1 .. Number : z \in GivenOf(mem, Outermost(i))
      BY DEF Given
    <3>5. \A z : z \in outputs <=> z \in Given(mem, Number)
      <4> HIDE DEF outputs
      <4> QED
        BY <3>1, <3>2, <3>3, <3>4, Zenon
    <3> HIDE DEF outputs
    <3> QED
      BY <3>5
  <2>2. BackInv => attrs \subseteq Given(mem, Number)
                   /\ (pc = "done" /\ fr.code = OK => attrs = Given(mem, Number))
    BY DEF BackInv
  <2> QED
    BY <2>1, <2>2, Zenon DEF OutputsComeBack
<1> QED
  BY <1>1, BackAlways, PTL
=============================================================================
