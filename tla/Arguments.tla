----------------------------- MODULE Arguments -----------------------------
(***************************************************************************)
(* The parameters of a program call (Argument.c): how they are taken from  *)
(* the tree, put in memory, laid out for the callee, and copied back.      *)
(*                                                                         *)
(* A parameter is known by its path: <<2>> is the second one, <<2, 1>> the *)
(* first entry of that data structure (DS).  Each has a block of memory    *)
(* named by its path, and a memory is a set of cells <<block, offset,      *)
(* content>>; where there is no cell the memory has not been written.  A   *)
(* value is only known by whose it is and who wrote it: "in" the client,   *)
(* "new" the callee, "ptr" is a pointer to a block.  Texts fit in their    *)
(* parameters: the code does not check that.                               *)
(***************************************************************************)
EXTENDS Integers, Sequences

CONSTANTS
  PtrSize, \* sizeof(char*), sizeof(ILEpointer)
  MaxDepth \* how deep data structures are in each other (bound)

ASSUME ArgumentsAssumption == PtrSize \in Nat \ {0} /\ MaxDepth \in Nat \ {0}

\* "hex" is a CHAR with "hex":"on".
Scalars == {"char", "hex", "int", "uint", "float", "double", "packed", "zoned"}
\* What a value's text does when it is converted: it is right; it overflows; it
\* does not fit the digits or bytes; it is no hexadecimal number.
Values == {"good", "range", "misfit", "nothex"}
NoErrno == "0"
Errnos == {NoErrno, "ERANGE", "EINVAL"}

\* A value of an attribute that is "none" is not there, "other" is a wrong one.
Ways == {"in", "out", "both", "other"}

\* A parameter whose entries are of S.
ParamOf(S) ==
  [type : Scalars \cup {"ds"}, n : Int, by : {"none", "ref", "val", "other"},
   io : Ways \cup {"none"}, value : Values, entries : Seq(S)]

Nested[d \in 0 .. MaxDepth] == IF d = 0 THEN {} ELSE ParamOf(Nested[d - 1])

Params == Nested[MaxDepth]

Cell(block, at, what, path) == <<block, at, [what |-> what, path |-> path]>>
Paths == Seq(Nat)
Memory == SUBSET (Paths \X Int \X [what : {"in", "blank", "ptr", "new"}, path : Paths])

-----------------------------------------------------------------------------
(* Argument::init.  Outside of a DS the default is by reference, in and    *)
(* out; in a DS it is by value and as the DS is.                           *)

ByValue(a, inDS) == IF a.type = "ds" \/ a.by = "none" THEN inDS ELSE a.by = "val"
Io(a, outer) == IF a.io = "none" THEN outer ELSE a.io

\* Argument::type.
ScalarBytes(a) ==
  CASE a.type = "float" -> 4
    [] a.type = "double" -> 8
    [] a.type = "packed" -> IF a.n % 2 # 0 THEN (a.n + 1) \div 2 ELSE a.n \div 2 + 1
    [] OTHER -> a.n

\* The offsets of the entries of a DS, one after the other, and its length.
Offsets(offset, a) ==
  LET Width(e) ==
        IF ~ ByValue(e, TRUE) THEN PtrSize
        ELSE IF e.type = "ds" THEN offset[e][Len(e.entries)] ELSE ScalarBytes(e)
      Upto[i \in 0 .. Len(a.entries)] ==
        IF i = 0 THEN 0 ELSE Upto[i - 1] + Width(a.entries[i])
  IN  Upto

Offset[a \in Params] == Offsets(Offset, a)

Bytes(a) == IF a.type = "ds" THEN Offset[a][Len(a.entries)] ELSE ScalarBytes(a)

\* What entry e takes in its DS.
Size(e) == IF ByValue(e, TRUE) THEN Bytes(e) ELSE PtrSize

\* Argument::init of a parameter, and of the entries it has.
Taken(a) ==
  /\ a.io # "other"
  /\ CASE a.type = "ds" -> a.entries # <<>>
       [] a.type \in {"int", "uint"} -> a.n \in {2, 4, 8} /\ a.by \in {"none", "ref", "val"}
       [] OTHER -> a.type \in Scalars /\ a.n > 0 /\ a.by \in {"none", "ref", "val"}

EntriesTaken[a \in Params] ==
  \A i \in DOMAIN a.entries : Taken(a.entries[i]) /\ EntriesTaken[a.entries[i]]

Accepted(a) == Taken(a) /\ EntriesTaken[a]

-----------------------------------------------------------------------------
(* Argument::copyIn.  errno is set to 0 before an "int" and the digits of  *)
(* a "hex" are converted; for the others it is whatever it was, and looked *)
(* at all the same.                                                        *)

Resets(a) == a.type = "int" \/ (a.type = "hex" /\ a.value # "misfit")
Looks(a, io) == a.type = "int" \/ (io # "out" /\ a.type # "char")

\* Variant: errno is cleared for "int" only.
Errno_Stale(a, io, errno) ==
  IF ~ Looks(a, io) THEN errno
  ELSE IF a.value = "range" /\ a.type # "hex" THEN "ERANGE"
  ELSE IF a.value = "nothex" /\ a.type = "hex" THEN "EINVAL"
  ELSE IF a.type = "int" THEN NoErrno
  ELSE errno

Errno(a, io, errno) ==
  IF ~ Looks(a, io) THEN errno
  ELSE IF a.value = "range" /\ a.type # "hex" THEN "ERANGE"
  ELSE IF a.value = "nothex" /\ a.type = "hex" THEN "EINVAL"
  ELSE IF Resets(a) THEN NoErrno
  ELSE errno

Converts(a, io, errno) ==
  \/ ~ Looks(a, io)
  \/ /\ CASE a.type = "hex" /\ a.value = "misfit" -> TRUE  \* blanks
          [] a.type = "uint" -> Errno(a, io, errno) \notin {"ERANGE", "EINVAL"}
          [] OTHER -> IF Resets(a) THEN Errno(a, io, errno) = NoErrno
                      ELSE Errno(a, io, errno) # "ERANGE"
     /\ ~ (a.type \in {"packed", "zoned"} /\ a.value = "misfit")

\* A cell of the block is moved by memcpy.
Moved(cells, block, where) ==
  {<<block, c[2] + where, c[3]>> : c \in cells}

Cells(mem, block, from, size) ==
  {c \in mem : c[1] = block /\ from <= c[2] /\ c[2] < from + size}

\* What there is to do: a parameter, its place in the tree, and the way (io) of
\* what is around it.  The result: whether it went well, errno, and the memory.
CopyIns == [arg : Params, path : Paths, outer : Ways, errno : Errnos]
ToCopyIn(a, path, outer, errno) == [arg |-> a, path |-> path, outer |-> outer, errno |-> errno]

CopyScalar(a, path, io, errno) ==
  [ok |-> Converts(a, io, errno), errno |-> Errno(a, io, errno),
   mem |-> IF io = "out" THEN {}
           ELSE IF a.type = "hex" /\ a.value = "misfit" THEN {Cell(path, 0, "blank", path)}
           ELSE {Cell(path, 0, "in", path)}]

\* Variant: a pointer takes as much of the DS as what it points to.
CopyEntry_Inline(e, this, path, io, done, one) ==
  LET moved == IF ByValue(e, TRUE)
                 THEN IF io = "out" THEN {}
                      ELSE Moved(Cells(one.mem, this, 0, Bytes(e)), path, done.where)
                 ELSE {Cell(path, done.where, "ptr", this)}
  IN  [ok |-> one.ok, errno |-> one.errno, where |-> done.where + Bytes(e),
       mem |-> done.mem \cup one.mem \cup (IF one.ok THEN moved ELSE {})]

\* Entry e has been made, which is one, and goes into its DS.
CopyEntry(e, this, path, io, done, one) ==
  LET moved == IF ByValue(e, TRUE)
                 THEN IF io = "out" THEN {}
                      ELSE Moved(Cells(one.mem, this, 0, Bytes(e)), path, done.where)
                 ELSE {Cell(path, done.where, "ptr", this)}
  IN  [ok |-> one.ok, errno |-> one.errno, where |-> done.where + Size(e),
       mem |-> done.mem \cup one.mem \cup (IF one.ok THEN moved ELSE {})]

\* The entries, one after the other, until one fails; copy is copyIn of each.
CopyEntries(copy, t) ==
  LET a == t.arg
      io == Io(a, t.outer)
      Upto[i \in 0 .. Len(a.entries)] ==
        IF i = 0 THEN [ok |-> TRUE, errno |-> t.errno, where |-> 0, mem |-> {}]
        ELSE LET done == Upto[i - 1]
                 this == Append(t.path, i)
             IN  IF ~ done.ok THEN done
                 ELSE CopyEntry(a.entries[i], this, t.path, io, done,
                                copy[ToCopyIn(a.entries[i], this, io, done.errno)])
      last == Upto[Len(a.entries)]
  IN  [ok |-> last.ok, errno |-> last.errno, mem |-> last.mem]

CopyIn[t \in CopyIns] ==
  IF t.arg.type = "ds" THEN CopyEntries(CopyIn, t)
                       ELSE CopyScalar(t.arg, t.path, Io(t.arg, t.outer), t.errno)

-----------------------------------------------------------------------------
(* Argument::copyBack.  The result: whether it went well, and the          *)
(* attributes' new values as a set of <<path, what>>.  broken: the decimal *)
(* numbers in memory are none.                                             *)

CopyBacks ==
  [arg : Params, path : Paths, outer : Ways, mem : Memory, broken : BOOLEAN, ok : BOOLEAN]
ToCopyBack(a, path, outer, mem, broken, ok) ==
  [arg |-> a, path |-> path, outer |-> outer, mem |-> mem, broken |-> broken, ok |-> ok]

There(mem, block, at) == {c[3].what : c \in {x \in mem : x[1] = block /\ x[2] = at}}
What(mem, block, at) ==
  LET there == There(mem, block, at)
  IN  IF there = {} THEN "junk" ELSE CHOOSE what \in there : TRUE

BackScalar(a, path, mem, broken, ok) ==
  IF a.type \in {"packed", "zoned"} /\ broken
    THEN [ok |-> FALSE, attrs |-> {}]
    ELSE [ok |-> ok, attrs |-> {<<path, What(mem, path, 0)>>}]

\* Variant: what the callee has left in the DS stays there.
TakeEntry_InPlace(e, this, path, where, mem) == mem

\* By value, the entry's block gets what is in the DS now.
TakeEntry(e, this, path, where, mem) ==
  IF ByValue(e, TRUE)
    THEN {c \in mem : c[1] # this} \cup Moved(Cells(mem, path, where, Bytes(e)), this, 0 - where)
    ELSE mem

\* The entries, one after the other, until one fails; copy is copyBack of each.
EntriesBack(copy, t) ==
  LET a == t.arg
      Upto[i \in 0 .. Len(a.entries)] ==
        IF i = 0 THEN [ok |-> t.ok, attrs |-> {}, mem |-> t.mem]
        ELSE LET done == Upto[i - 1]
                 this == Append(t.path, i)
                 taken == TakeEntry(a.entries[i], this, t.path, Offset[a][i - 1], done.mem)
                 one == copy[ToCopyBack(a.entries[i], this, Io(a, t.outer), taken, t.broken, TRUE)]
             IN  IF ~ done.ok THEN done
                 ELSE [ok |-> one.ok, attrs |-> done.attrs \cup one.attrs, mem |-> taken]
      last == Upto[Len(a.entries)]
  IN  [ok |-> last.ok, attrs |-> last.attrs]

CopyBack[t \in CopyBacks] ==
  IF Io(t.arg, t.outer) = "in" THEN [ok |-> t.ok, attrs |-> {}]
  ELSE IF t.arg.type = "ds" THEN EntriesBack(CopyBack, t)
  ELSE BackScalar(t.arg, t.path, t.mem, t.broken, t.ok)

-----------------------------------------------------------------------------
(* The list of arguments and the signatures of a call by _ILECALL.         *)

\* ILE::alignPadding: where the next size bytes go.
Boundary(size) ==
  CASE size <= 1 -> 1 [] size = 2 -> 2 [] size \in 3 .. 4 -> 4 [] size \in 5 .. 8 -> 8
    [] OTHER -> 16

AlignPadding_Always4(at, size) == IF at % 4 = 0 THEN at ELSE at + 4 - (at % 4)

AlignPadding(at, size) ==
  LET b == Boundary(size) IN IF at % b = 0 THEN at ELSE at + b - (at % b)

ARG_END == "ARG_END"
Signature(a) ==
  IF a.type = "uint" /\ Io(a, "both") = "out" THEN ARG_END
  ELSE IF ~ ByValue(a, FALSE) \/ a.type = "ds" THEN "ARG_SPCPTR"
  ELSE IF a.type \in {"char", "hex", "packed", "zoned"} THEN "bytes"
  ELSE a.type

\* Where argument a goes if the list is at bytes long.
Place(a, at) ==
  IF ByValue(a, FALSE)
    THEN IF Signature(a) = "bytes" THEN at ELSE AlignPadding(at, Bytes(a))
    ELSE AlignPadding(at, PtrSize)

Width(a) == IF ByValue(a, FALSE) THEN Bytes(a) ELSE PtrSize
=============================================================================
