------------------------------ MODULE SqlFetch ------------------------------
(***************************************************************************)
(* One "exec" or "execdirect" operation of an SQL node: Operation::run and *)
(* Operation::fetch (SqlUtil.c) as a sequence of CLI calls, each of which  *)
(* may fail, on a connection that is there (SqlPool has the connections).  *)
(*                                                                         *)
(* The rows of the result set are numbered 1, 2, ... and do not change     *)
(* while they are fetched.  "block" says how many are wanted, 0 for all,   *)
(* "rec" which is the first one.  Both are read as long long and kept as   *)
(* int, of which there are IntSize values.  Column types and the values of *)
(* rows and parameters are left out; a value that cannot be converted is a *)
(* choice.                                                                 *)
(***************************************************************************)
EXTENDS Integers, Sequences, FlightRec

CONSTANTS
  IntSize,  \* how many values an int has
  Given,    \* the numbers that may be given for block and rec
  MaxRows,  \* the rows a result set may have (bound)
  MaxParms  \* the parameters an operation may have (bound)

ASSUME FetchAssumption ==
  /\ IntSize \in Nat /\ IntSize > 1 /\ IntSize % 2 = 0
  /\ Given \subseteq Int
  /\ MaxRows \in Nat /\ MaxParms \in Nat

VARIABLES
  op,       \* the operation: its attributes, and the statement it has
  pc,       \* the CLI call to be made next
  block,    \* _block
  rec,      \* _rec
  parm,     \* the parameter to be described or bound next
  hstmt,    \* the statement handle: what was done with it
  rowNum,   \* rowNum in fetch()
  cursor,   \* the row of the result set the cursor is on
  data,     \* the rows in "DATA"
  rowCount, \* _row_count
  attr      \* the value of attribute "rowcount", NotSet if it has none yet

counts == <<rowCount, attr>>
fetched == <<rowNum, cursor, data>>
vars == <<op, pc, block, rec, parm, hstmt, fetched, counts, fr>>

\* rows: the result set of a SELECT, of any other statement the rows it
\* changes.  markers: the parameter markers in the statement.
Operations ==
  [type : {"EXEC", "EXECD"}, select : BOOLEAN, rows : 0 .. MaxRows,
   markers : 0 .. MaxParms, parms : 0 .. MaxParms,
   fetch : BOOLEAN, block : Given, rec : Given]

NotSet == -2
Author == <<1, 1>>

\* The conversion of a long long to int keeps its low bits.
ToInt(n) == LET low == n % IntSize IN IF low < IntSize \div 2 THEN low ELSE low - IntSize

-----------------------------------------------------------------------------
FetchInit ==
  /\ op \in Operations
  /\ pc = "init"
  /\ block = 0 /\ rec = 1
  /\ parm = 1
  /\ hstmt = "null"
  /\ rowNum = 1 /\ cursor = 0 /\ data = <<>>
  /\ rowCount = 0 /\ attr = NotSet
  /\ fr = Clean

\* A call that succeeds goes on to another one, a call that fails ends run();
\* the statement handle is kept then.
Continue(next) == pc' = next /\ UNCHANGED fr
Fail(code) == pc' = "failed" /\ fr' = Report(fr, code, Author)
MayFail == Fail("SQL_RUN") /\ UNCHANGED <<op, block, rec, parm, hstmt, fetched, counts>>

\* Operation::init: the numbers for block and rec.
InitFetch ==
  /\ pc = "init"
  /\ block' = IF op.fetch THEN ToInt(op.block) ELSE block
  /\ rec' = IF op.fetch THEN ToInt(op.rec) ELSE rec
  /\ IF block' < 0 \/ rec' <= 0 THEN Fail("INIT") ELSE Continue("allocStmt")
  /\ UNCHANGED <<op, parm, hstmt, fetched, counts>>

AllocStmt ==
  /\ pc = "allocStmt"
  /\ \/ /\ hstmt' = "allocated"
        /\ Continue("setScrollable")
        /\ UNCHANGED <<op, block, rec, parm, fetched, counts>>
     \/ MayFail

SetScrollable ==
  /\ pc = "setScrollable"
  /\ \/ /\ hstmt' = "scrollable"
        /\ Continue(IF op.type = "EXEC" THEN "prepare" ELSE "execute")
        /\ UNCHANGED <<op, block, rec, parm, fetched, counts>>
     \/ MayFail

\* SQLPrepare, then the parameters given are counted.
Prepare ==
  /\ pc = "prepare"
  /\ \/ /\ op.markers = op.parms
        /\ hstmt' = "prepared"
        /\ Continue("describeParam")
        /\ UNCHANGED <<op, block, rec, parm, fetched, counts>>
     \/ MayFail

\* SQLDescribeParam and Parm::prepare4Bind of every parameter, and then
\* SQLBindParameter of every one.  Variant: after the last one the first.
NextParm_Stays(this, next) ==
  \/ /\ parm <= op.parms
     /\ parm' = (parm % MaxParms) + 1
     /\ Continue(this)
     /\ UNCHANGED <<op, block, rec, hstmt, fetched, counts>>
  \/ /\ parm > op.parms
     /\ parm' = 1
     /\ Continue(next)
     /\ UNCHANGED <<op, block, rec, hstmt, fetched, counts>>

NextParm(this, next) ==
  \/ /\ parm <= op.parms
     /\ parm' = parm + 1
     /\ Continue(this)
     /\ UNCHANGED <<op, block, rec, hstmt, fetched, counts>>
  \/ parm <= op.parms /\ MayFail
  \/ /\ parm > op.parms
     /\ parm' = 1
     /\ Continue(next)
     /\ UNCHANGED <<op, block, rec, hstmt, fetched, counts>>

DescribeParam == pc = "describeParam" /\ NextParm("describeParam", "bindParam")
BindParam == pc = "bindParam" /\ NextParm("bindParam", "execute")

\* SQLExecute or SQLExecDirect: the database has a result set or changes
\* rows.  No data found is no failure.
Execute ==
  /\ pc = "execute"
  /\ \/ /\ hstmt' = "executed"
        /\ Continue("rowCount")
        /\ UNCHANGED <<op, block, rec, parm, fetched, counts>>
     \/ MayFail

\* SQLRowCount is -1 for a SELECT.  SQLNumResultCols follows.
RowCount ==
  /\ pc = "rowCount"
  /\ \/ /\ rowCount' = IF op.select THEN -1 ELSE op.rows
        /\ Continue(IF op.fetch THEN "bindCol" ELSE "setCount")
        /\ UNCHANGED <<op, block, rec, parm, hstmt, fetched, attr>>
     \/ MayFail

\* SQLDescribeCol and SQLBindCol of every column.  If one fails, the loop is
\* not entered but the count is set.
CountFetched == IF rowCount < 0 THEN rowNum ELSE rowCount

BindCol ==
  /\ pc = "bindCol"
  /\ \/ /\ Continue("fetch")
        /\ UNCHANGED <<op, block, rec, parm, hstmt, fetched, counts>>
     \/ /\ rowCount' = CountFetched
        /\ Fail("SQL_RUN")
        /\ UNCHANGED <<op, block, rec, parm, hstmt, fetched, attr>>

\* SQLFetchScroll: to row rec the first time, then to the next one.  Only a
\* SELECT has a cursor.  Variants: rec is ignored; it is how far to go every time.
Target_FromFirst == cursor + 1
Target_Relative == cursor + rec

Target == IF cursor = 0 THEN rec ELSE cursor + 1

FetchRow ==
  /\ pc = "fetch" /\ op.select /\ Target <= op.rows
  /\ cursor' = Target
  /\ data' = Append(data, Target)
  /\ \/ \* the block is complete
        /\ block > 0 /\ rowNum = block
        /\ rowCount' = CountFetched
        /\ Continue("setCount")
        /\ UNCHANGED <<op, block, rec, parm, hstmt, rowNum, attr>>
     \/ /\ block = 0 \/ rowNum # block
        /\ rowNum' = rowNum + 1
        /\ Continue("fetch")
        /\ UNCHANGED <<op, block, rec, parm, hstmt, counts>>
     \/ \* a column of the row cannot be converted
        /\ rowNum' = IF block > 0 /\ rowNum = block THEN rowNum ELSE rowNum + 1
        /\ rowCount' = IF rowCount < 0 THEN rowNum' ELSE rowCount
        /\ Fail("SQL_RUN")
        /\ UNCHANGED <<op, block, rec, parm, hstmt, attr>>

NoMoreRows ==
  /\ pc = "fetch" /\ op.select /\ Target > op.rows
  /\ rowCount' = CountFetched
  /\ Continue("setCount")
  /\ UNCHANGED <<op, block, rec, parm, hstmt, fetched, attr>>

FetchFails ==
  /\ pc = "fetch"
  /\ rowCount' = CountFetched
  /\ Fail("SQL_RUN")
  /\ UNCHANGED <<op, block, rec, parm, hstmt, fetched, attr>>

\* "rowcount" is set, and the statement is freed.
SetCount ==
  /\ pc = "setCount"
  /\ attr' = rowCount
  /\ hstmt' = "null"
  /\ Continue("done")
  /\ UNCHANGED <<op, block, rec, parm, fetched, rowCount>>

FetchNext ==
  \/ InitFetch \/ AllocStmt \/ SetScrollable \/ Prepare \/ DescribeParam \/ BindParam
  \/ Execute \/ RowCount \/ BindCol \/ FetchRow \/ NoMoreRows \/ FetchFails \/ SetCount

-----------------------------------------------------------------------------
(* Properties *)

FetchTypeOK ==
  /\ op \in Operations
  /\ pc \in {"init", "allocStmt", "setScrollable", "prepare", "describeParam", "bindParam",
             "execute", "rowCount", "bindCol", "fetch", "setCount", "done", "failed"}
  /\ block \in Int /\ rec \in Int
  /\ parm \in 1 .. MaxParms + 1
  /\ hstmt \in {"null", "allocated", "scrollable", "prepared", "executed"}
  /\ rowNum \in Nat \ {0} /\ cursor \in Nat
  /\ data \in Seq(Nat)
  /\ rowCount \in Int /\ attr \in Int

\* The rows asked for: the result set's from rec on, as many as block says.
\* Numbers that an int cannot hold ask for something else than they say.
Sane == ToInt(op.block) = op.block /\ ToInt(op.rec) = op.rec

Wanted ==
  LET rest == IF op.rows < op.rec THEN 0 ELSE op.rows - op.rec + 1
  IN  IF op.block > 0 /\ op.block < rest THEN op.block ELSE rest

\* Rows are given to the caller from rec on, in their order, none twice and
\* none left out, and never more than were asked for.
RowsInOrder ==
  data # <<>> /\ Sane =>
    /\ Len(data) <= Wanted
    /\ \A i \in 1 .. Len(data) : data[i] = op.rec + i - 1

\* When the operation succeeds it is all the rows that were asked for.
AllRows ==
  pc = "done" /\ op.fetch /\ op.select /\ Sane => Len(data) = Wanted

\* The caller is given the rows it asked for.
RowsAsAsked == RowsInOrder /\ AllRows

\* SqlUtil.c:1248: 'update with how many fetch() got'.  TLC finds this
\* violated: at the end of the result set rowNum is the number of a row that
\* is not there.
CountIsFetched ==
  pc = "done" /\ op.select /\ op.fetch => attr = Len(data)

\* How far off it is: not at all if the block was filled, else by one.  Of
\* other statements "rowcount" is what the database says.
CountIsNear ==
  pc = "done" =>
    attr = IF ~ op.select THEN op.rows
           ELSE IF ~ op.fetch THEN -1
           ELSE IF block > 0 /\ Len(data) = block THEN Len(data)
           ELSE Len(data) + 1

\* An operation that has a statement ends, and the loop over the rows does.
OperationEnds == (hstmt = "allocated") ~> (pc \in {"done", "failed"})
=============================================================================
