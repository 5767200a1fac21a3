---------------------------- MODULE ProgramCall ----------------------------
(***************************************************************************)
(* The "pgm" nodes of a job, one after the other (Program.c): a program or *)
(* a function of a service program is called directly (ILE.c) or, if that  *)
(* is asked for or the parameters need it, by _PGMCALL or _ILECALL in the  *)
(* job's PASE environment (Pase.c), which is started for the first such    *)
(* call and there for the next.                                            *)
(*                                                                         *)
(* What a program is, what it returns and what the system's interfaces do  *)
(* is external.  A program puts new values in all the memory that it can   *)
(* reach.  Messages of the job log are in NodeRun, memory that cannot be   *)
(* had and PASE memory that is not freed are left out.                     *)
(***************************************************************************)
EXTENDS Arguments, FlightRec

CONSTANTS
  Nodes,           \* the nodes that may come
  Sequels,         \* those that may come after another (bound)
  MaxCalls,        \* how many do (bound)
  MaxArgs,         \* ILE::maxNumOfArgs(), 30
  Misread,         \* with how many arguments a function gets characters, 15
  ProgramsEndPase  \* a program may end the job's PASE

ASSUME CallAssumption ==
  /\ \A n \in Nodes : /\ n.pase \in {"none", "on", "off"} /\ n.func \in BOOLEAN
                      /\ n.parms \in Seq(Params)
                      /\ n.return \in {"none", "integer", "decimal", "invalid"}
  /\ Sequels \subseteq Nodes /\ MaxCalls \in Nat \ {0} /\ MaxArgs \in Nat \ {0} /\ Misread \in Nat
  /\ ProgramsEndPase \in BOOLEAN

VARIABLES
  node,     \* the node at work
  pc,       \* where Program::init or Program::run is
  at,       \* the argument to be made or copied back
  isPase,   \* the call is made in PASE
  mem,      \* the memory of the arguments
  list,     \* the list of arguments of _ILECALL: for each its place and signature
  seen,     \* the memory as the program found it; what it wrote is in mem
  broken,   \* the decimal numbers in memory are none
  attrs,    \* the attributes that have new values
  return,   \* attribute "value" of "return"
  errno,    \* the job's errno
  pase,     \* the PASE that is there: its number, 0 if there is none
  starts,   \* how many there have been
  id,       \* _id: the PASE it was opened in, or 0
  syms,     \* pgmCallSym and ILECALLSym: the PASE they were found in, or 0
  calls     \* how many nodes there have been

request == <<node, isPase>>
args == <<mem, list, seen, broken>>
results == <<attrs, return>>
job == <<errno, pase, starts, id, syms>>
vars == <<request, pc, at, args, results, job, calls, fr>>

Author == <<1, 1>>
Number == Len(node.parms)
Interface == IF node.func THEN "_ILECALL" ELSE "_PGMCALL"
Base == 32 \* sizeof(ILEarglist_base)

CallInit ==
  /\ node \in Nodes /\ pc = "init" /\ at = 1
  /\ isPase = FALSE
  /\ mem = {} /\ list = <<>> /\ seen = {} /\ broken = FALSE
  /\ attrs = {} /\ return = "given"
  /\ errno = NoErrno
  /\ pase = 0 /\ starts = 0 /\ id = 0 /\ syms = [s \in {"_PGMCALL", "_ILECALL"} |-> 0]
  /\ calls = 1
  /\ fr = Clean

\* The node ends with an error.
Fail(code) == pc' = "done" /\ fr' = Report(fr, code, Author)

-----------------------------------------------------------------------------
(* Program::init *)

\* Variant: only the number of arguments matters.
NeedsPase_Number ==
  \/ node.pase = "on"
  \/ Number > MaxArgs

\* "pase", or: more arguments than ILE takes, one by value, or a result.
NeedsPase ==
  \/ node.pase = "on"
  \/ Number > MaxArgs
  \/ \E i \in 1 .. Number : ByValue(node.parms[i], FALSE)
  \/ node.func /\ node.return # "none"

InitProgram ==
  /\ pc = "init"
  /\ LET accepted == \A i \in 1 .. Number : Accepted(node.parms[i]) IN
     \/ ~ accepted /\ Fail("ARGUMENT_INIT") /\ UNCHANGED isPase
     \/ accepted /\ node.return = "invalid" /\ Fail("RETURN_INIT") /\ UNCHANGED isPase
     \/ /\ accepted /\ node.return # "invalid"
        /\ isPase' = NeedsPase
        /\ pc' = "create"
        /\ UNCHANGED fr
  /\ UNCHANGED <<node, at, args, results, job, calls>>

-----------------------------------------------------------------------------
(* Pase::start.  If there is none, what is left is closed and PASE or the  *)
(* JVM is started; the name space is opened if it has not been.            *)

\* Variant: the name space is not opened.
PaseStarts_Unopened ==
  /\ IF pase # 0 THEN UNCHANGED <<pase, starts>>
                 ELSE pase' = starts + 1 /\ starts' = starts + 1
  /\ UNCHANGED id

PaseStarts ==
  /\ IF pase # 0 THEN UNCHANGED <<pase, starts>>
                 ELSE pase' = starts + 1 /\ starts' = starts + 1
  /\ id' = IF id = 0 THEN pase' ELSE id

PaseStartFails ==
  \/ pase = 0 /\ UNCHANGED <<pase, starts, id>>
  \/ /\ id = 0
     /\ IF pase # 0 THEN UNCHANGED <<pase, starts>>
                    ELSE pase' = starts + 1 /\ starts' = starts + 1
     /\ UNCHANGED id

-----------------------------------------------------------------------------
(* Arguments::create.  In PASE the first allocation starts it; without     *)
(* arguments there is none.  An error does not keep run() from the call.   *)

Create ==
  /\ pc = "create"
  /\ \/ /\ ~ isPase \/ Number = 0
        /\ pc' = "copyIn"
        /\ UNCHANGED <<job, fr>>
     \/ /\ isPase /\ Number > 0
        /\ \/ PaseStarts /\ pc' = "copyIn" /\ UNCHANGED fr
           \/ /\ PaseStartFails
              /\ pc' = "start"
              /\ fr' = Report(Report(fr, "PASE_START", Author), "ARGUMENT_INIT", Author)
        /\ UNCHANGED <<errno, syms>>
  /\ UNCHANGED <<request, at, args, results, calls>>

End == IF list = <<>> THEN 0 ELSE list[Len(list)].at + list[Len(list)].width

CopyInArg ==
  /\ pc = "copyIn" /\ at <= Number
  /\ LET a == node.parms[at]
         done == CopyIn[ToCopyIn(a, <<at>>, "both", errno)]
     IN  /\ mem' = mem \cup done.mem
         /\ errno' = done.errno
         /\ IF done.ok
              THEN /\ list' = IF isPase /\ node.func
                                THEN Append(list, [at |-> Place(a, End), width |-> Width(a),
                                                   sig |-> Signature(a)])
                                ELSE list
                   /\ at' = at + 1
                   /\ UNCHANGED <<pc, fr>>
              ELSE /\ fr' = Report(fr, "ARGUMENT_INIT", Author)
                   /\ pc' = "start"
                   /\ UNCHANGED <<list, at>>
  /\ UNCHANGED <<request, seen, broken, results, pase, starts, id, syms, calls>>

AllCopied ==
  /\ pc = "copyIn" /\ at > Number
  /\ pc' = "start"
  /\ UNCHANGED <<request, at, args, results, job, calls, fr>>

-----------------------------------------------------------------------------
(* Pase::runPgm, Pase::runSrvgm, ILE::runPgm, ILE::runSrvgm *)

StartCall ==
  /\ pc = "start"
  /\ \/ ~ isPase /\ pc' = "resolve" /\ UNCHANGED <<job, fr>>
     \/ /\ isPase
        /\ \/ PaseStarts /\ pc' = "symbol" /\ UNCHANGED fr
           \/ PaseStartFails /\ Fail("PASE_START")
        /\ UNCHANGED <<errno, syms>>
  /\ UNCHANGED <<request, at, args, results, calls>>

\* Pase::findSymbol, unless it has been found before.
FindSymbol ==
  /\ pc = "symbol"
  /\ \/ /\ syms' = IF syms[Interface] = 0 THEN [syms EXCEPT ![Interface] = id] ELSE syms
        /\ pc' = "resolve"
        /\ UNCHANGED fr
     \/ syms[Interface] = 0 /\ Fail("PGM_RUN") /\ UNCHANGED syms
  /\ UNCHANGED <<request, at, args, results, errno, pase, starts, id, calls>>

\* Variant: only the program is looked at.
Resolve_Anyway ==
  /\ pc = "resolve"
  /\ \/ pc' = "call" /\ UNCHANGED fr
     \/ Fail("PASE_RUN")
  /\ UNCHANGED <<request, at, args, results, job, calls>>

\* ILE::ileRslv, and then the code, which is not OK either if the arguments
\* could not be made.
Resolve ==
  /\ pc = "resolve"
  /\ \/ fr.code = OK /\ pc' = "call" /\ UNCHANGED fr
     \/ fr.code # OK /\ pc' = "done" /\ UNCHANGED fr
     \/ Fail("PASE_RUN")
  /\ UNCHANGED <<request, at, args, results, job, calls>>

\* Where a parameter is: at an offset of a block; the way (io) of what is
\* around it, all these ways, those of what it is in in its block, and the
\* pointers that lead to it, with the ways of what is around the structure a
\* pointer is in.
Context ==
  [arg : Params, path : Paths, block : Paths, at : Int, io : Ways, ios : SUBSET Ways,
   within : SUBSET Ways,
   via : SUBSET [cell : Paths \X Int \X [what : {"ptr"}, path : Paths], around : SUBSET Ways]]

Inside(c) ==
  LET io == Io(c.arg, c.io)
  IN  [c EXCEPT !.io = io, !.ios = @ \cup {io}, !.within = @ \cup {io}]

EntryContext(c, i) ==
  LET off == c.at + Offset[c.arg][i - 1]
      this == Append(c.path, i)
      here == [Inside(c) EXCEPT !.arg = c.arg.entries[i], !.path = this]
  IN  IF ByValue(c.arg.entries[i], TRUE) THEN [here EXCEPT !.at = off]
      ELSE [here EXCEPT !.block = this, !.at = 0, !.within = {},
              !.via = @ \cup {[cell |-> Cell(c.block, off, "ptr", this), around |-> c.within]}]

\* What the arguments are as their types say: the leaves, each where it is.
Leaves[c \in Context] ==
  IF c.arg.type # "ds" THEN {Inside(c)}
  ELSE UNION {Leaves[EntryContext(c, i)] : i \in DOMAIN c.arg.entries}

Outermost(i) ==
  [arg |-> node.parms[i], path |-> <<i>>, block |-> <<i>>, at |-> 0, io |-> "both", ios |-> {},
   within |-> {}, via |-> {}]

AllLeaves == UNION {Leaves[Outermost(i)] : i \in 1 .. Number}

\* A copy, which the program may change and nobody looks at.
Copied(l) == node.func /\ Len(l.path) = 1 /\ ByValue(l.arg, FALSE)

\* A pointer of a structure in one that is output only has never been set.
Reached(l, memory) == \A p \in l.via : p.cell \in memory

Written ==
  LET out == {l \in AllLeaves : ~ Copied(l) /\ Reached(l, mem)}
      gone == {c \in mem : \E l \in out : c[1] = l.block /\ c[2] = l.at}
  IN  (mem \ gone) \cup {Cell(l.block, l.at, "new", l.path) : l \in out}

\* The program gets what the interface has made of the arguments.
CanRead == ~ (node.func /\ ~ isPase /\ Number = Misread)

\* It runs and returns a number, or ends with an exception.  The PASE
\* interfaces are left with an undefined return code then, which may say that
\* all is well, and so may a symbol of a PASE that is no longer there.
Call ==
  /\ pc = "call"
  /\ seen' = mem
  /\ \E ran \in BOOLEAN :
       /\ ran => CanRead /\ (isPase => id = pase /\ syms[Interface] = pase)
       /\ mem' = IF ran THEN Written ELSE mem
       /\ broken' \in BOOLEAN
       /\ \/ (ran \/ isPase \/ ~ CanRead) /\ pc' = "copyBack" /\ UNCHANGED fr
          \/ Fail("PGM_RUN")
          \/ \* a result that is not 0 has no message
             isPase /\ ~ node.func /\ pc' = "done" /\ fr' = SetCode(fr, "PGM_RUN")
  /\ errno' \in Errnos
  /\ pase' \in IF ProgramsEndPase THEN {0, pase} ELSE {pase}
  /\ at' = 1
  /\ UNCHANGED <<request, list, results, starts, id, syms, calls>>

-----------------------------------------------------------------------------
(* Arguments::copyBack goes on after an error; so does run(), which gives  *)
(* a failed function the value of a program, 0.  Without arguments there   *)
(* is no list with a result in it, and a decimal result is dropped.        *)

CopyBackArg ==
  /\ pc = "copyBack" /\ at <= Number
  /\ LET done == CopyBack[ToCopyBack(node.parms[at], <<at>>, "both", mem, broken,
                                      fr.code = OK)] IN
       /\ attrs' = attrs \cup done.attrs
       /\ fr' = IF done.ok \/ fr.code # OK THEN fr ELSE Report(fr, "PGM_RUN", Author)
  /\ at' = at + 1
  /\ UNCHANGED <<request, pc, args, return, job, calls>>

ReturnBack ==
  /\ pc = "copyBack" /\ at > Number
  /\ return' = CASE node.return = "none" -> return
                 [] fr.code = OK /\ node.func ->
                      IF isPase /\ Number > 0 /\ node.return = "integer" THEN "result" ELSE return
                 [] OTHER -> "pgm"
  /\ pc' = "done"
  /\ UNCHANGED <<request, at, args, attrs, job, calls, fr>>

NextNode ==
  /\ pc = "done" /\ calls < MaxCalls
  /\ node' \in Sequels
  /\ calls' = calls + 1
  /\ pc' = "init" /\ at' = 1 /\ isPase' = FALSE
  /\ mem' = {} /\ list' = <<>> /\ seen' = {} /\ broken' = FALSE
  /\ attrs' = {} /\ return' = "given"
  /\ fr' = Clean
  /\ UNCHANGED job

CallNext ==
  \/ InitProgram \/ Create \/ CopyInArg \/ AllCopied \/ StartCall \/ FindSymbol
  \/ Resolve \/ Call \/ CopyBackArg \/ ReturnBack \/ NextNode

CallSpec == CallInit /\ [][CallNext]_vars

-----------------------------------------------------------------------------
(* Properties *)

CallTypeOK ==
  /\ isPase \in BOOLEAN /\ broken \in BOOLEAN
  /\ pc \in {"init", "create", "copyIn", "start", "symbol", "resolve", "call", "copyBack", "done"}
  /\ at \in 1 .. Number + 1
  /\ Len(list) <= Number
  /\ return \in {"given", "result", "pgm"}
  /\ errno \in Errnos
  /\ starts \in 0 .. 2 * MaxCalls /\ pase \in {0, starts}
  /\ id \in 0 .. starts /\ \A s \in DOMAIN syms : syms[s] \in 0 .. id
  /\ calls \in 1 .. MaxCalls

\* Every one of the arguments has been made without an error, though run() does
\* not look.
CalledOnlyIfMade == pc = "call" => fr = Clean /\ at > Number

\* The interface that was chosen can pass what there is to pass: the direct
\* call has a limit, knows pointers only, and has no result of a function.
InterfaceCanPass ==
  pc = "call" /\ ~ isPase =>
    /\ Number <= MaxArgs
    /\ \A i \in 1 .. Number : ~ ByValue(node.parms[i], FALSE)
    /\ node.func => node.return = "none"

\* In PASE the call goes by a symbol of the PASE that is there, as long as there
\* has been no other one in this job.
SymbolIsLive ==
  pc = "call" /\ isPase /\ starts = 1 => pase = 1 /\ id = 1 /\ syms[Interface] = 1

\* The program finds each value where its type says it is, at any depth of data
\* structures, unless it or a structure it is part of is output only, and finds
\* the pointers to it, unless the structure a pointer is in is part of one that
\* is output only.
InputsReachTheProgram ==
  pc = "copyBack" /\ CanRead =>
    \A l \in AllLeaves :
      /\ Reached(l, seen) <=> \A p \in l.via : "out" \notin p.around
      /\ What(seen, l.block, l.at) \in IF "out" \in l.within THEN {"junk"} ELSE {"in", "blank"}

\* What the program has left where a value's type says it is gets into the
\* value's attribute, unless it or a structure around it is input only; nothing
\* else does, and all of it if all goes well.
OutputsComeBack ==
  LET outputs == {<<l.path, What(mem, l.block, l.at)>> :
                    l \in {x \in AllLeaves : "in" \notin x.ios}}
  IN  /\ attrs \subseteq outputs
      /\ pc = "done" /\ fr.code = OK => attrs = outputs

\* A program is called only with arguments that have been made, by an interface
\* that can pass them, and in PASE by a symbol that is good there.
CallIsGood == CalledOnlyIfMade /\ InterfaceCanPass /\ SymbolIsLive

\* The arguments are in order, each at a multiple of its size (16 for a
\* pointer), without more padding than needed; and each has a signature, but for
\* an output-only "uint".
ListInOrder ==
  pc = "call" /\ isPase /\ node.func =>
    /\ Len(list) = Number
    /\ \A i \in 1 .. Number :
         LET a == node.parms[i]
             last == IF i = 1 THEN 0 ELSE list[i - 1].at + list[i - 1].width
             unit == IF ~ ByValue(a, FALSE) THEN PtrSize
                     ELSE IF a.type \in {"int", "uint", "float", "double"} THEN Bytes(a) ELSE 1
         IN  /\ list[i].at % unit = 0
             /\ last <= list[i].at /\ list[i].at < last + unit
             /\ list[i].sig = ARG_END => a.type = "uint" /\ a.io = "out"

\* The memory create() allocates for the list, with what is added to align it.
Room ==
  LET Needed[i \in 0 .. Number] ==
        IF i = 0 THEN 16
        ELSE Needed[i - 1] + 16
               + (IF ByValue(node.parms[i], FALSE) THEN Bytes(node.parms[i]) ELSE 0)
  IN  Needed[Number]

\* The list, which begins after its base, fits in the memory made for it: "make
\* enough space for alignment" (Argument.c:1271).  TLC finds this violated.
ListFits == isPase /\ node.func /\ list # <<>> => Base + End <= Room

\* How far it runs over: by no more than the base, 16 bytes.
ListOverrun == isPase /\ node.func /\ list # <<>> => Base + End <= Room + 16

\* Whatever went wrong before, a parameter whose values are right is taken, if
\* it is made of "char", "hex" and "int".
GoodIsTaken ==
  [][CopyInArg /\ fr' # fr =>
       \E l \in AllLeaves :
         /\ l.path[1] = at
         /\ l.arg.value # "good" \/ (l.arg.type \notin {"char", "hex", "int"} /\ errno # NoErrno)]_vars
=============================================================================
