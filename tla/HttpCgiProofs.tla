---------------------------- MODULE HttpCgiProofs ----------------------------
(***************************************************************************)
(* Proofs about HttpCgi: what the CGI program answers and what it leaves,  *)
(* and that it runs what it was sent, but for the last value of a text     *)
(* with escapes, for any requests, answers of the service and size of the  *)
(* buffer.                                                                 *)
(***************************************************************************)
EXTENDS HttpCgi, SequenceLemmas, SequenceTheorems, FiniteSetTheorems, TLAPS

\* What atoi returns is an int.
IsInt(n) == n \in Int /\ -2147483648 <= n /\ n <= 2147483647
AtoiIsInt == \A value : IsInt(OutSize(value))

\* It looks at a value up to the first NUL.
AtoiStops == \A value : OutSize(value \o Stale) = OutSize(value)

-----------------------------------------------------------------------------
(* The invariant *)

Reported(f) == f.code # OK /\ f.msgs # <<>>

\* The recorder is clean until something fails, in main() or in the call.
RecorderInv ==
  /\ status \in {"RTV_URL", "CHOP_PARMS", "LOGON"} => fr = Clean /\ pc # "failed"
  /\ status = "RUN" => IF pc = "failed" THEN Reported(fr) ELSE fr = Clean
  /\ status = "ERROR_FR" => Reported(fr)

\* What is put out is the output of the call or the messages.
GoodOut ==
  /\ out.kind \in {"output", "messages"}
  /\ out.kind = "output" =>
       /\ fr = Clean /\ pc = "done"
       /\ out.of = parms["in"] /\ out.size <= out_size
       /\ out.cut /\ out.size < out_size => Nearly(out.size, out_size)
  /\ out.kind = "messages" => Reported(fr)

\* When it is put out, and when main() ends.
OutInv ==
  /\ status \in {"NODE", "RTV_URL", "CHOP_PARMS", "LOGON", "RUN", "ERROR_FR"} =>
       response = NoOut /\ ended = "no"
  /\ status = "RESPONSE" => GoodOut /\ response = NoOut /\ ended = "no"
  /\ status = "DONE" => GoodOut /\ response = out /\ ended = "no"
  /\ status = "END" =>
       \/ ended = "returned" /\ GoodOut /\ response = out
       \/ ended = "exception" /\ response = NoOut

Statuses == {"NODE", "RTV_URL", "CHOP_PARMS", "LOGON", "RUN", "RESPONSE", "ERROR_FR", "DONE",
             "END"}

CgiInv == status \in Statuses /\ RecorderInv /\ OutInv /\ NothingLeft

-----------------------------------------------------------------------------
(* The steps *)

\* A first error leaves its code and a message.
LEMMA FirstReport ==
  ASSUME NEW c, c # OK, NEW f, f = Clean
  PROVE  Reported(Report(f, c, Author))
<1> DEFINE g == SetCode(f, c)
<1>a. g = [code |-> c, msgs |-> <<>>]
  BY DEF SetCode, Clean
<1> HIDE DEF g
<1>b. [g EXCEPT !.msgs = g.msgs \o <<Author>>] = [code |-> c, msgs |-> <<>> \o <<Author>>]
  BY <1>a
<1>1. Report(f, c, Author) = [code |-> c, msgs |-> <<>> \o <<Author>>]
  BY <1>b DEF Report, AddMessages, g
<1>2. <<>> \o <<Author>> # <<>>
  BY DEF Author
<1>3. QED
  BY <1>1, <1>2 DEF Reported

\* A call to the database fails with a report or leaves the recorder alone.
LEMMA FetchReports ==
  ASSUME FetchNext, fr = Clean
  PROVE  IF pc' = "failed" THEN Reported(fr') ELSE fr' = Clean
<1>1. CASE \E c \in {"INIT", "SQL_RUN"} : Fail(c)
  BY <1>1, FirstReport DEF Fail, OK
<1>2. CASE \E next \in {"allocStmt", "setScrollable", "prepare", "execute", "describeParam",
                        "bindParam", "rowCount", "bindCol", "setCount", "fetch", "done"} :
             Continue(next)
  BY <1>2 DEF Continue
<1>3. QED
  BY <1>1, <1>2
  DEF FetchNext, InitFetch, AllocStmt, SetScrollable, Prepare, DescribeParam, BindParam, NextParm,
      Execute, RowCount, BindCol, FetchRow, NoMoreRows, FetchFails, SetCount, MayFail

\* The procedure that is chosen has room for what is asked for, or nearly.
LEMMA ChosenHasRoom ==
  ASSUME NEW n, IsInt(n), n >= 0
  PROVE  /\ Chosen(n).buffer \in Nat
         /\ Chosen(n).buffer < n => Nearly(Chosen(n).buffer, n)
<1>1. \E p \in Procedures : p.above < n /\ n <= p.upTo
  <2>1. CASE n <= 4096
    <3>1. Procedure(-2147483647, 4096, 4000) \in Procedures
      BY SMT DEF Procedures
    <3>2. -2147483647 < n /\ n <= 4096
      BY <2>1, SMT DEF IsInt
    <3>3. QED
      BY <3>1, <3>2, SMT DEF Procedure
  <2>2. CASE 4096 < n /\ n <= 32768
    <3>1. Procedure(4096, 32768, 32000) \in Procedures
      BY SMT DEF Procedures
    <3>2. 4096 < n /\ n <= 32768
      BY <2>2, SMT DEF IsInt
    <3>3. QED
      BY <3>1, <3>2, SMT DEF Procedure
  <2>3. CASE 32768 < n /\ n <= 65536
    <3>1. Procedure(32768, 65536, 65000) \in Procedures
      BY SMT DEF Procedures
    <3>2. 32768 < n /\ n <= 65536
      BY <2>3, SMT DEF IsInt
    <3>3. QED
      BY <3>1, <3>2, SMT DEF Procedure
  <2>4. CASE 65536 < n /\ n <= 524288
    <3>1. Procedure(65536, 524288, 512000) \in Procedures
      BY SMT DEF Procedures
    <3>2. 65536 < n /\ n <= 524288
      BY <2>4, SMT DEF IsInt
    <3>3. QED
      BY <3>1, <3>2, SMT DEF Procedure
  <2>5. CASE 524288 < n /\ n <= 1048576
    <3>1. Procedure(524288, 1048576, 1000000) \in Procedures
      BY SMT DEF Procedures
    <3>2. 524288 < n /\ n <= 1048576
      BY <2>5, SMT DEF IsInt
    <3>3. QED
      BY <3>1, <3>2, SMT DEF Procedure
  <2>6. CASE 1048576 < n /\ n <= 5242880
    <3>1. Procedure(1048576, 5242880, 5000000) \in Procedures
      BY SMT DEF Procedures
    <3>2. 1048576 < n /\ n <= 5242880
      BY <2>6, SMT DEF IsInt
    <3>3. QED
      BY <3>1, <3>2, SMT DEF Procedure
  <2>7. CASE 5242880 < n /\ n <= 10485760
    <3>1. Procedure(5242880, 10485760, 10000000) \in Procedures
      BY SMT DEF Procedures
    <3>2. 5242880 < n /\ n <= 10485760
      BY <2>7, SMT DEF IsInt
    <3>3. QED
      BY <3>1, <3>2, SMT DEF Procedure
  <2>8. CASE 10485760 < n /\ n <= 2147483647
    <3>1. Procedure(10485760, 2147483647, 15000000) \in Procedures
      BY SMT DEF Procedures
    <3>2. 10485760 < n /\ n <= 2147483647
      BY <2>8, SMT DEF IsInt
    <3>3. QED
      BY <3>1, <3>2, SMT DEF Procedure
  <2>9. QED
    BY <2>1, <2>2, <2>3, <2>4, <2>5, <2>6, <2>7, <2>8, SMT DEF IsInt
<1>2. Chosen(n) \in Procedures /\ Chosen(n).above < n /\ n <= Chosen(n).upTo
  BY <1>1, Zenon DEF Chosen
<1>3. ASSUME NEW p \in Procedures, p.above < n, n <= p.upTo
      PROVE  /\ p.buffer \in Nat
             /\ p.buffer < n => Nearly(p.buffer, n)
  <2>1. CASE p = Procedure(-2147483647, 4096, 4000)
    <3>1. p.upTo = 4096 /\ p.buffer = 4000
      BY <2>1, SMT DEF Procedure
    <3>2. QED
      BY <1>3, <3>1, SMT DEF Nearly, IsInt
  <2>2. CASE p = Procedure(4096, 32768, 32000)
    <3>1. p.upTo = 32768 /\ p.buffer = 32000
      BY <2>2, SMT DEF Procedure
    <3>2. QED
      BY <1>3, <3>1, SMT DEF Nearly, IsInt
  <2>3. CASE p = Procedure(32768, 65536, 65000)
    <3>1. p.upTo = 65536 /\ p.buffer = 65000
      BY <2>3, SMT DEF Procedure
    <3>2. QED
      BY <1>3, <3>1, SMT DEF Nearly, IsInt
  <2>4. CASE p = Procedure(65536, 524288, 512000)
    <3>1. p.upTo = 524288 /\ p.buffer = 512000
      BY <2>4, SMT DEF Procedure
    <3>2. QED
      BY <1>3, <3>1, SMT DEF Nearly, IsInt
  <2>5. CASE p = Procedure(524288, 1048576, 1000000)
    <3>1. p.upTo = 1048576 /\ p.buffer = 1000000
      BY <2>5, SMT DEF Procedure
    <3>2. QED
      BY <1>3, <3>1, SMT DEF Nearly, IsInt
  <2>6. CASE p = Procedure(1048576, 5242880, 5000000)
    <3>1. p.upTo = 5242880 /\ p.buffer = 5000000
      BY <2>6, SMT DEF Procedure
    <3>2. QED
      BY <1>3, <3>1, SMT DEF Nearly, IsInt
  <2>7. CASE p = Procedure(5242880, 10485760, 10000000)
    <3>1. p.upTo = 10485760 /\ p.buffer = 10000000
      BY <2>7, SMT DEF Procedure
    <3>2. QED
      BY <1>3, <3>1, SMT DEF Nearly, IsInt
  <2>8. CASE p = Procedure(10485760, 2147483647, 15000000)
    <3>1. p.upTo = 2147483647 /\ p.buffer = 15000000
      BY <2>8, SMT DEF Procedure
    <3>2. QED
      BY <1>3, <3>1, SMT DEF Nearly, IsInt
  <2>9. QED
    BY <1>3, <2>1, <2>2, <2>3, <2>4, <2>5, <2>6, <2>7, <2>8, SMT DEF Procedures
<1>4. \A p \in Procedures : p.above < n /\ n <= p.upTo =>
        p.buffer \in Nat /\ (p.buffer < n => Nearly(p.buffer, n))
  BY <1>3, Zenon
<1>5. QED
  BY <1>2, <1>4, Zenon

\* Every error of main() itself is the first one.
LEMMA ErrorReports ==
  ASSUME NEW c, c # OK, Error(c), fr = Clean
  PROVE  status' = "ERROR_FR" /\ Reported(fr')
BY FirstReport DEF Error

\* What is taken from the service fits what was asked for.
LEMMA TakenIsGood ==
  ASSUME AtoiIsInt, CgiInv, TakeOutput
  PROVE  GoodOut'
<1>1. fr = Clean /\ pc = "done" /\ UNCHANGED <<fr, pc, parms>>
  BY DEF CgiInv, RecorderInv, TakeOutput, call
<1> DEFINE n == out_size
<1>2. IsInt(n) /\ n >= 0 /\ n' = n
  BY <1>1 DEF AtoiIsInt, TakeOutput, out_size
<1> DEFINE buffer == Chosen(n).buffer
<1>3. buffer \in Nat /\ (buffer < n => Nearly(buffer, n))
  BY <1>2, ChosenHasRoom
<1>4. PICK answer \in Answers :
        LET given == IF answer > buffer THEN buffer ELSE answer
            size == IF n > given THEN given ELSE n
        IN  out' = [kind |-> "output", of |-> parms["in"], size |-> size, cut |-> size < answer]
  BY DEF TakeOutput
<1>5. answer \in Nat
  BY CgiAssumption
<1> HIDE DEF n, buffer
<1>6. /\ out'.kind = "output" /\ out'.of = parms["in"]
      /\ out'.size <= n
      /\ out'.cut /\ out'.size < n => out'.size = buffer
  <2> DEFINE given == IF answer > buffer THEN buffer ELSE answer
             size == IF n > given THEN given ELSE n
  <2>1. out' = [kind |-> "output", of |-> parms["in"], size |-> size, cut |-> size < answer]
    BY <1>4
  <2>2. n \in Int
    BY <1>2 DEF IsInt
  <2>3. size <= n /\ (size < answer /\ size < n => size = buffer)
    BY <1>3, <1>5, <2>2
  <2> HIDE DEF size
  <2>4. QED
    BY <2>1, <2>3
<1>7. out'.cut /\ out'.size < n => Nearly(out'.size, n)
  BY <1>3, <1>6
<1>8. QED
  BY <1>1, <1>2, <1>6, <1>7 DEF GoodOut, n

\* Every step of main(), and of an SQL node, keeps the invariant.
LEMMA CgiStep ==
  ASSUME AtoiIsInt, CgiInv, [SqlNext]_CgiVars
  PROVE  CgiInv'
<1> USE DEF CgiInv, Statuses, RecorderInv, OutInv, NothingLeft
<1>g. ASSUME UNCHANGED <<out, fr, pc, parms>>, GoodOut PROVE GoodOut'
  BY <1>g DEF GoodOut, out_size
<1>1. CASE BadRequest
  <2>1. status' = "ERROR_FR" /\ Reported(fr')
    BY <1>1, ErrorReports DEF BadRequest, OK
  <2>2. QED
    BY <1>1, <2>1 DEF BadRequest
<1>2. CASE NoLength
  BY <1>2 DEF NoLength, Exception, Clear, call
<1>3. CASE GetQuery
  BY <1>3 DEF GetQuery, call
<1>4. CASE ReadContent
  BY <1>4 DEF ReadContent, call
<1>5. CASE ReadFails
  <2>1. status' = "ERROR_FR" /\ Reported(fr')
    BY <1>5, ErrorReports DEF ReadFails, OK
  <2>2. QED
    BY <1>5, <2>1 DEF ReadFails
<1>6. CASE ChopParms
  <2>1. CASE Error("CGI_CHOP_PARMS")
    <3>1. status' = "ERROR_FR" /\ Reported(fr')
      BY <1>6, <2>1, ErrorReports DEF ChopParms, OK
    <3>2. QED
      BY <1>6, <3>1 DEF ChopParms
  <2>2. CASE status' = "LOGON" /\ UNCHANGED fr
    BY <1>6, <2>2 DEF ChopParms, call
  <2>3. QED
    BY <1>6, <2>1, <2>2 DEF ChopParms
<1>7. CASE UnescapeFails
  <2>1. status' = "ERROR_FR" /\ Reported(fr')
    BY <1>7, ErrorReports DEF UnescapeFails, OK
  <2>2. QED
    BY <1>7, <2>1 DEF UnescapeFails
<1>8. CASE Logon
  <2>1. ASSUME NEW c \in {"SQL_INIT", "SQL_RUN"}, Error(c) PROVE CgiInv'
    <3>1. status' = "ERROR_FR" /\ Reported(fr')
      BY <1>8, <2>1, ErrorReports DEF Logon, OK
    <3>2. QED
      BY <1>8, <3>1 DEF Logon
  <2>2. CASE henv' = TRUE /\ conn' = "open" /\ status' = "RUN" /\ UNCHANGED fr
    <3>1. status = "LOGON" /\ fr = Clean /\ pc # "failed"
      BY <1>8 DEF Logon
    <3>2. UNCHANGED <<pc, out, response, ended, parms>>
      BY <1>8 DEF Logon, call
    <3>3. QED
      BY <2>2, <3>1, <3>2
  <2>3. QED
    BY <1>8, <2>1, <2>2 DEF Logon
<1>9. CASE RunCall
  <2>1. IF pc' = "failed" THEN Reported(fr') ELSE fr' = Clean
    BY <1>9, FetchReports DEF RunCall
  <2>2. QED
    BY <1>9, <2>1 DEF RunCall, cgi
<1>10. CASE CallFailed
  BY <1>10 DEF CallFailed
<1>11. CASE TakeOutput
  <2>1. GoodOut'
    BY <1>11, TakenIsGood
  <2>2. QED
    BY <1>11, <2>1 DEF TakeOutput
<1>12. CASE NegativeSize
  BY <1>12 DEF NegativeSize, Exception, Clear, call
<1>13. CASE Respond
  BY <1>13, <1>g DEF Respond, call
<1>14. CASE ErrorFr
  <2>1. GoodOut'
    BY <1>14 DEF ErrorFr, GoodOut, NoOut
  <2>2. QED
    BY <1>14, <2>1 DEF ErrorFr
<1>15. CASE Done
  BY <1>15, <1>g DEF Done, Clear, call
<1>16. CASE NodeNext
  BY <1>16 DEF NodeNext, cgi
<1>17. CASE UNCHANGED CgiVars
  BY <1>17, <1>g DEF CgiVars, cgi, vars
<1>18. QED
  BY <1>1, <1>2, <1>3, <1>4, <1>5, <1>6, <1>7, <1>8, <1>9, <1>10, <1>11, <1>12, <1>13, <1>14,
     <1>15, <1>16, <1>17
  DEF SqlNext, CgiNext

\* main() begins, and so does an SQL node, with nothing done.
LEMMA CgiBegins == SqlInit => CgiInv
BY DEF SqlInit, NodeInit, CgiInit, CgiInv, Statuses, RecorderInv, OutInv, NothingLeft

\* The invariant holds in every behaviour.
LEMMA Inductive == AtoiIsInt => (SqlSpec => []CgiInv)
<1> SUFFICES ASSUME AtoiIsInt PROVE SqlSpec => []CgiInv
  OBVIOUS
<1>1. CgiInv /\ [SqlNext]_CgiVars => CgiInv'
  BY CgiStep
<1>2. QED
  BY <1>1, CgiBegins, PTL DEF SqlSpec

-----------------------------------------------------------------------------
(* The theorems *)

\* main() that returns has written a response, and it is the output of the
\* call for this request's input, of the size that was asked for or nearly so,
\* only if nothing failed; the messages of the flight recorder otherwise.
THEOREM AnswersAreGood == AtoiIsInt => (SqlSpec => []AnswersTheRequest)
<1>1. CgiInv => AnswersTheRequest
  <2> SUFFICES ASSUME CgiInv PROVE AnswersTheRequest
    OBVIOUS
  <2>1. response.kind # "none" => GoodOut /\ response = out
    BY DEF CgiInv, Statuses, OutInv, NoOut
  <2>2. ended = "returned" => GoodOut /\ response = out
    BY DEF CgiInv, Statuses, OutInv
  <2>3. ended = "returned" => response.kind # "none"
    BY <2>2 DEF GoodOut
  <2>4. response.kind = "output" =>
          /\ fr = Clean /\ pc = "done"
          /\ response.of = parms["in"] /\ response.size <= out_size
    BY <2>1 DEF GoodOut
  <2>5. RoomForOutput
    BY <2>1 DEF GoodOut, RoomForOutput
  <2>6. response.kind = "messages" => fr.code # OK /\ fr.msgs # <<>>
    BY <2>1 DEF GoodOut, Reported
  <2>7. QED
    BY <2>3, <2>4, <2>5, <2>6 DEF AnswersTheRequest
<1>2. QED
  BY <1>1, Inductive, PTL

\* However main() ends, by return or by an exception, SqlUtil::clear has been
\* called; and the procedure is called only on a connection.
THEOREM NothingIsLeft == AtoiIsInt => (SqlSpec => []NothingLeft)
<1>1. CgiInv => NothingLeft
  BY DEF CgiInv
<1>2. QED
  BY <1>1, Inductive, PTL

-----------------------------------------------------------------------------
(* The text of a list of parameters *)

\* A parameter is a tag with a value; a text has both, piece by piece.
Symbols == Chars \cup Tags \cup {Nul, Rest}
Parm == Tags \X Seq(Symbols)
Piece(p) == <<p[1]>> \o p[2]

\* No parameters, no text.
LEMMA TextOfNone == Text(<<>>) = <<>>
BY FlattenNone DEF Text

\* A piece is its tag and then its value.
LEMMA PieceType ==
  ASSUME NEW p \in Parm
  PROVE  /\ Piece(p) \in Seq(Symbols)
         /\ Len(Piece(p)) = 1 + Len(p[2])
         /\ Piece(p)[1] = p[1]
         /\ \A j \in 1 .. Len(p[2]) : Piece(p)[1 + j] = p[2][j]
<1>1. <<p[1]>> \in Seq(Symbols) /\ p[2] \in Seq(Symbols)
  BY DEF Parm, Symbols
<1>2. Len(<<p[1]>>) = 1 /\ <<p[1]>>[1] = p[1]
  OBVIOUS
<1>3. QED
  BY <1>1, <1>2, Concat DEF Piece

\* The text of one more parameter has its piece at the end.
LEMMA TextAppend ==
  ASSUME NEW l \in Seq(Parm), NEW p \in Parm
  PROVE  Text(l) \in Seq(Symbols) /\ Text(Append(l, p)) = Text(l) \o Piece(p)
<1> DEFINE pieces == [i \in DOMAIN l |-> Piece(l[i])]
           more == [i \in DOMAIN Append(l, p) |-> Piece(Append(l, p)[i])]
<1>1. pieces \in Seq(Seq(Symbols))
  <2>1. \A i \in 1 .. Len(l) : Piece(l[i]) \in Seq(Symbols)
    BY PieceType
  <2>2. pieces = [i \in 1 .. Len(l) |-> Piece(l[i])]
    OBVIOUS
  <2>3. Len(l) \in Nat
    OBVIOUS
  <2>4. pieces \in [1 .. Len(l) -> Seq(Symbols)]
    BY <2>1, <2>2
  <2> HIDE DEF pieces
  <2>5. QED
    BY <2>3, <2>4
<1>2. Piece(p) \in Seq(Symbols)
  BY PieceType
<1>3. more = Append(pieces, Piece(p))
  OBVIOUS
<1>4. Text(l) = FlattenSeq(pieces) /\ Text(Append(l, p)) = FlattenSeq(more)
  BY DEF Text, Piece
<1> HIDE DEF pieces, more
<1>5. QED
  BY <1>1, <1>2, <1>3, <1>4, FlattenAppend, FlattenType

\* Where the parameters of a text are: s[i] is the place of the i-th one's tag.
LaidOut(l, T, s) ==
  LET n == Len(l) IN
  /\ s \in [1 .. n + 1 -> Nat \ {0}]
  /\ s[n + 1] = Len(T) + 1
  /\ \A i \in 1 .. n :
       /\ s[i + 1] = s[i] + 1 + Len(l[i][2])
       /\ T[s[i]] = l[i][1]
       /\ \A j \in 1 .. Len(l[i][2]) : T[s[i] + j] = l[i][2][j]
  /\ \A i, j \in 1 .. n + 1 : i < j => s[i] < s[j]
  /\ \A q \in 1 .. Len(T) :
       \E i \in 1 .. n : q = s[i] \/ \E j \in 1 .. Len(l[i][2]) : q = s[i] + j

\* One more parameter has its place behind the others.
LEMMA LayoutStep ==
  ASSUME NEW l \in Seq(Parm), NEW p \in Parm, NEW s, LaidOut(l, Text(l), s)
  PROVE  \E u : LaidOut(Append(l, p), Text(Append(l, p)), u)
<1> DEFINE n == Len(l)
           m == n + 1
           T == Text(l)
           more == Append(l, p)
           U == T \o Piece(p)
           w == Len(p[2])
           u == [i \in 1 .. m + 1 |-> IF i = m + 1 THEN s[m] + 1 + w ELSE s[i]]
<1>1. Text(more) = U /\ T \in Seq(Symbols)
  BY TextAppend
<1>2. /\ Piece(p) \in Seq(Symbols) /\ Len(Piece(p)) = 1 + w
      /\ Piece(p)[1] = p[1] /\ \A j \in 1 .. w : Piece(p)[1 + j] = p[2][j]
  BY PieceType
<1>3. n \in Nat /\ m \in Nat /\ w \in Nat /\ Len(more) = m
  BY DEF Parm
<1>4. \A i \in 1 .. n : more[i] = l[i] /\ l[i] \in Parm /\ Len(l[i][2]) \in Nat
  BY DEF Parm
<1>5. more[m] = p
  OBVIOUS
<1>6. /\ Len(U) = Len(T) + 1 + w /\ Len(T) \in Nat
      /\ \A q \in 1 .. Len(T) : U[q] = T[q]
      /\ U[Len(T) + 1] = p[1]
      /\ \A j \in 1 .. w : U[Len(T) + 1 + j] = p[2][j]
  <2>1. /\ Len(U) = Len(T) + Len(Piece(p))
        /\ \A q \in 1 .. Len(T) : U[q] = T[q]
        /\ \A q \in 1 .. Len(Piece(p)) : U[Len(T) + q] = Piece(p)[q]
    <3> HIDE DEF T
    <3>1. T \in Seq(Symbols) /\ Piece(p) \in Seq(Symbols)
      BY <1>1, <1>2
    <3>2. QED
      BY <3>1, Concat
  <2>2. Len(T) \in Nat
    BY <1>1
  <2> HIDE DEF U, T, w
  <2>3. U[Len(T) + 1] = p[1]
    BY <2>1, <1>2, <1>3
  <2>4. ASSUME NEW j \in 1 .. w PROVE U[Len(T) + 1 + j] = p[2][j]
    <3>1. U[Len(T) + (1 + j)] = Piece(p)[1 + j]
      BY <2>1, <1>2, <1>3
    <3>2. Len(T) + (1 + j) = Len(T) + 1 + j
      BY <2>2
    <3>3. QED
      BY <3>1, <3>2, <1>2
  <2>5. QED
    BY <2>1, <2>2, <2>3, <2>4, <1>2, <1>3
<1>7. /\ s \in [1 .. m -> Nat \ {0}] /\ s[m] = Len(T) + 1
      /\ \A i \in 1 .. n :
           /\ s[i + 1] = s[i] + 1 + Len(l[i][2])
           /\ T[s[i]] = l[i][1]
           /\ \A j \in 1 .. Len(l[i][2]) : T[s[i] + j] = l[i][2][j]
      /\ \A i, j \in 1 .. m : i < j => s[i] < s[j]
      /\ \A q \in 1 .. Len(T) :
           \E i \in 1 .. n : q = s[i] \/ \E j \in 1 .. Len(l[i][2]) : q = s[i] + j
  BY DEF LaidOut
<1> HIDE DEF n, m, T, U, w, more
<1>8. /\ u \in [1 .. m + 1 -> Nat \ {0}] /\ u[m + 1] = s[m] + 1 + w
      /\ \A i \in 1 .. m : u[i] = s[i] /\ s[i] \in Nat \ {0}
  BY <1>3, <1>7
<1> HIDE DEF u
<1>9. u[m + 1] = Len(U) + 1
  BY <1>6, <1>7, <1>8, <1>3
<1>10. ASSUME NEW i \in 1 .. m
       PROVE  /\ u[i + 1] = u[i] + 1 + Len(more[i][2])
              /\ U[u[i]] = more[i][1]
              /\ \A j \in 1 .. Len(more[i][2]) : U[u[i] + j] = more[i][2][j]
  <2>1. CASE i = m
    <3>1. m \in 1 .. m /\ u[m] = s[m] /\ s[m] \in Nat
      BY <1>3, <1>8 DEF m
    <3>2. u[m + 1] = u[m] + 1 + Len(more[m][2])
      BY <3>1, <1>5, <1>8 DEF w
    <3>3. U[u[m]] = more[m][1]
      BY <3>1, <1>5, <1>6, <1>7
    <3>4. \A j \in 1 .. Len(more[m][2]) : U[u[m] + j] = more[m][2][j]
      BY <3>1, <1>5, <1>6, <1>7 DEF w
    <3>5. QED
      BY <2>1, <3>2, <3>3, <3>4
  <2>2. CASE i \in 1 .. n
    <3>a. i \in 1 .. m /\ i + 1 \in 1 .. m /\ m \in 1 .. m
      BY <2>2, <1>3 DEF m
    <3>1. /\ u[i] = s[i] /\ u[i + 1] = s[i + 1] /\ more[i] = l[i]
          /\ s[i] \in Nat \ {0} /\ s[i + 1] \in Nat /\ s[m] \in Nat /\ Len(l[i][2]) \in Nat
      BY <2>2, <3>a, <1>4, <1>8
    <3>2. s[i + 1] = s[i] + 1 + Len(l[i][2])
      BY <2>2, <1>7
    <3>3. s[i + 1] <= s[m]
      <4>1. CASE i + 1 = m
        BY <4>1, <3>1
      <4>2. CASE i + 1 < m
        BY <4>2, <3>1, <3>a, <1>7
      <4>3. QED
        BY <4>1, <4>2, <3>a, <1>3
    <3>4. s[i] \in 1 .. Len(T) /\ \A j \in 1 .. Len(l[i][2]) : s[i] + j \in 1 .. Len(T)
      <4>1. s[m] = Len(T) + 1 /\ Len(T) \in Nat
        BY <1>6, <1>7
      <4> DEFINE x == s[i] y == s[i + 1] z == s[m] t == Len(T) k == Len(l[i][2])
      <4>2. x \in Nat /\ x # 0 /\ y \in Nat /\ z \in Nat /\ t \in Nat /\ k \in Nat
        BY <3>1, <4>1
      <4>3. y = x + 1 + k /\ y <= z /\ z = t + 1
        BY <3>2, <3>3, <4>1
      <4> SUFFICES x \in 1 .. t /\ \A j \in 1 .. k : x + j \in 1 .. t
        OBVIOUS
      <4> HIDE DEF x, y, z, t, k
      <4>4. QED
        BY <4>2, <4>3
    <3>5. U[u[i]] = more[i][1]
      BY <2>2, <3>1, <3>4, <1>6, <1>7
    <3>6. ASSUME NEW j \in 1 .. Len(l[i][2]) PROVE U[s[i] + j] = l[i][2][j]
      BY <2>2, <3>4, <1>6, <1>7
    <3>7. QED
      BY <3>1, <3>2, <3>5, <3>6
  <2>3. QED
    BY <2>1, <2>2, <1>3 DEF m
<1>11. ASSUME NEW i \in 1 .. m + 1, NEW j \in 1 .. m + 1, i < j PROVE u[i] < u[j]
  <2>1. i \in 1 .. m /\ u[i] = s[i] /\ s[i] \in Nat /\ s[m] \in Nat
    BY <1>11, <1>3, <1>8, <1>7
  <2>2. CASE j = m + 1
    <3>1. s[i] <= s[m]
      BY <2>1, <1>7, <1>3
    <3>2. QED
      BY <2>2, <2>1, <3>1, <1>3, <1>8
  <2>3. CASE j \in 1 .. m
    BY <2>3, <2>1, <1>11, <1>7, <1>8
  <2>4. QED
    BY <2>2, <2>3, <1>3
<1>12. ASSUME NEW q \in 1 .. Len(U)
       PROVE  \E i \in 1 .. m : q = u[i] \/ \E j \in 1 .. Len(more[i][2]) : q = u[i] + j
  <2>1. CASE q \in 1 .. Len(T)
    <3>1. PICK i \in 1 .. n : q = s[i] \/ \E j \in 1 .. Len(l[i][2]) : q = s[i] + j
      BY <2>1, <1>7
    <3>2. i \in 1 .. m /\ u[i] = s[i] /\ more[i] = l[i]
      BY <1>3, <1>4, <1>8 DEF m
    <3>3. QED
      BY <3>1, <3>2
  <2>2. CASE q = Len(T) + 1
    <3>1. m \in 1 .. m /\ q = u[m]
      BY <2>2, <1>3, <1>7, <1>8 DEF m
    <3>2. QED
      BY <3>1
  <2>3. CASE q > Len(T) + 1
    <3> DEFINE j == q - (Len(T) + 1)
    <3>1. m \in 1 .. m /\ u[m] = Len(T) + 1 /\ more[m] = p
      BY <1>3, <1>5, <1>7, <1>8 DEF m
    <3>2. j \in 1 .. w /\ q = (Len(T) + 1) + j
      BY <2>3, <1>3, <1>6
    <3>3. QED
      BY <3>1, <3>2 DEF w
  <2>4. q \in Nat \ {0} /\ Len(T) \in Nat
    BY <1>6, <1>3
  <2>5. q \in 1 .. Len(T) \/ q = Len(T) + 1 \/ q > Len(T) + 1
    BY <2>4
  <2>6. QED
    BY <2>1, <2>2, <2>3, <2>5
<1>13. LaidOut(more, U, u)
  BY <1>3, <1>8, <1>9, <1>10, <1>11, <1>12 DEF LaidOut
<1>14. QED
  BY <1>1, <1>13 DEF more

\* Every text has such a layout.
LEMMA Layout ==
  ASSUME NEW l \in Seq(Parm)
  PROVE  Text(l) \in Seq(Symbols) /\ \E s : LaidOut(l, Text(l), s)
<1> DEFINE n == Len(l)
           Pre(k) == SubSeq(l, 1, k)
           Good(k) == Text(Pre(k)) \in Seq(Symbols) /\ \E s : LaidOut(Pre(k), Text(Pre(k)), s)
           S == {k \in Nat : k <= n => Good(k)}
<1>0. n \in Nat
  OBVIOUS
<1>1. 0 \in S
  <2>1. Pre(0) = <<>>
    OBVIOUS
  <2>2. LaidOut(<<>>, <<>>, <<1>>)
    <3>1. Len(<<>>) = 0 /\ <<1>> \in [1 .. 1 -> Nat \ {0}] /\ <<1>>[1] = 1
      OBVIOUS
    <3>2. 0 + 1 = 1 /\ 1 .. 0 = {} /\ \A i, j \in 1 .. 1 : ~ (i < j)
      OBVIOUS
    <3>3. QED
      BY <3>1, <3>2 DEF LaidOut
  <2>3. <<>> \in Seq(Symbols)
    OBVIOUS
  <2>4. Good(0)
    BY <2>1, <2>2, <2>3, TextOfNone
  <2>5. QED
    BY <2>4
<1>2. ASSUME NEW k \in Nat, k \in S PROVE k + 1 \in S
  <2> SUFFICES ASSUME k + 1 <= n PROVE Good(k + 1)
    OBVIOUS
  <2>1. Good(k)
    BY <1>2, <1>0
  <2>2. /\ k + 1 \in 1 .. n /\ l[k + 1] \in Parm /\ Pre(k) \in Seq(Parm)
        /\ Pre(k + 1) = Append(Pre(k), l[k + 1])
    BY <1>0
  <2> DEFINE p == l[k + 1] r == Pre(k)
  <2> HIDE DEF p, r
  <2>3. PICK s : LaidOut(r, Text(r), s)
    BY <2>1 DEF r
  <2>4. r \in Seq(Parm) /\ p \in Parm
    BY <2>2 DEF p, r
  <2>5. \E u : LaidOut(Append(r, p), Text(Append(r, p)), u)
    BY <2>3, <2>4, LayoutStep
  <2>6. Append(r, p) \in Seq(Parm)
    BY <2>4
  <2>7. Text(Append(r, p)) \in Seq(Symbols)
    BY <2>6, <2>4, TextAppend
  <2>8. QED
    BY <2>2, <2>5, <2>7 DEF p, r
<1> HIDE DEF S
<1>3. Nat \subseteq S
  BY <1>1, <1>2, Induction
<1>4. Pre(n) = l
  OBVIOUS
<1>5. Good(n)
  BY <1>3, <1>0 DEF S
<1>6. QED
  BY <1>4, <1>5

\* A tag that occurs once is found there.
LEMMA PositionIs ==
  ASSUME NEW text \in Seq(Symbols), NEW tag, NEW p \in 1 .. Len(text), text[p] = tag,
         \A q \in 1 .. Len(text) : text[q] = tag => q = p
  PROVE  Position(text, tag) = p
<1>1. {i \in 1 .. Len(text) : text[i] = tag} = {p}
  OBVIOUS
<1>2. Min({p}) = p
  BY DEF Min
<1>3. QED
  BY <1>1, <1>2 DEF Position, SelectInSeq

\* Every tag names one parameter of a list and is in no value.
OnceEach(l) ==
  \A t \in Tags :
    /\ \E i \in 1 .. Len(l) : l[i][1] = t /\ \A j \in 1 .. Len(l) : l[j][1] = t => j = i
    /\ \A i \in 1 .. Len(l) : \A j \in 1 .. Len(l[i][2]) : l[i][2][j] # t

\* Every value is found between its tag and the next, and the last one goes
\* on to the end of what is behind the text.
LEMMA ValuesAreFound ==
  ASSUME NEW l \in Seq(Parm), OnceEach(l), NEW i \in 1 .. Len(l),
         NEW e \in Seq(Symbols), \A j \in 1 .. Len(e) : e[j] \notin Tags
  PROVE  /\ i < Len(l) \/ e = <<>> => ValueIn(Text(l) \o e, l[i][1]) = l[i][2]
         /\ i = Len(l) => ValueIn(Text(l) \o e, l[i][1]) = l[i][2] \o e
         /\ Position(Text(l) \o e, l[i][1]) # 0
<1> DEFINE n == Len(l)
           U == Text(l)
           T == U \o e
<1>0. U \in Seq(Symbols) /\ n \in Nat /\ Len(U) \in Nat /\ Len(e) \in Nat
  BY Layout
<1>1. /\ T \in Seq(Symbols) /\ n \in Nat /\ Len(U) \in Nat /\ Len(e) \in Nat
      /\ Len(T) = Len(U) + Len(e) /\ Len(T) \in Nat
      /\ \A q \in 1 .. Len(U) : T[q] = U[q]
      /\ \A j \in 1 .. Len(e) : T[Len(U) + j] = e[j]
  <2> HIDE DEF U
  <2> QED
    BY <1>0, Concat
<1>2. PICK s : LaidOut(l, U, s)
  BY Layout
<1> HIDE DEF T, U
<1>3. /\ s \in [1 .. n + 1 -> Nat \ {0}] /\ s[n + 1] = Len(U) + 1
      /\ \A k \in 1 .. n :
           /\ s[k + 1] = s[k] + 1 + Len(l[k][2])
           /\ U[s[k]] = l[k][1]
           /\ \A j \in 1 .. Len(l[k][2]) : U[s[k] + j] = l[k][2][j]
      /\ \A k, j \in 1 .. n + 1 : k < j => s[k] < s[j]
      /\ \A q \in 1 .. Len(U) :
           \E k \in 1 .. n : q = s[k] \/ \E j \in 1 .. Len(l[k][2]) : q = s[k] + j
  BY <1>2 DEF LaidOut
<1>4. \A k \in 1 .. n : l[k] \in Parm /\ l[k][1] \in Tags /\ l[k][2] \in Seq(Symbols)
                         /\ Len(l[k][2]) \in Nat
  BY DEF Parm, Symbols
<1> HIDE DEF n
<1>5. ASSUME NEW k \in 1 .. n PROVE Position(T, l[k][1]) = s[k] /\ s[k] \in 1 .. Len(U)
  <2>1. /\ k \in 1 .. n + 1 /\ n + 1 \in 1 .. n + 1 /\ k < n + 1
        /\ s[k] \in Nat \ {0} /\ s[n + 1] \in Nat
    BY <1>1, <1>3
  <2>2. s[k] < s[n + 1]
    BY <2>1, <1>3
  <2>3. s[k] \in 1 .. Len(U) /\ s[k] \in 1 .. Len(T)
    <3> DEFINE x == s[k] y == s[n + 1] t == Len(U) d == Len(e) z == Len(T)
    <3>1. x \in Nat \ {0} /\ y \in Nat /\ t \in Nat /\ d \in Nat /\ x < y /\ y = t + 1 /\ z = t + d
      BY <2>1, <2>2, <1>1, <1>3
    <3> SUFFICES x \in 1 .. t /\ x \in 1 .. z
      OBVIOUS
    <3> HIDE DEF x, y, t, d, z
    <3> QED
      BY <3>1
  <2>4. ASSUME NEW q \in 1 .. Len(T), T[q] = l[k][1] PROVE q = s[k]
    <3>1. l[k][1] \in Tags
      BY <1>4
    <3>2. q \in 1 .. Len(U)
      <4> SUFFICES ASSUME q > Len(U) PROVE FALSE
        BY <1>1
      <4>1. q - Len(U) \in 1 .. Len(e) /\ q = Len(U) + (q - Len(U))
        BY <1>1
      <4>2. T[q] = e[q - Len(U)]
        BY <1>1, <4>1
      <4> QED
        BY <2>4, <3>1, <4>1, <4>2
    <3>3. U[q] = l[k][1]
      BY <1>1, <2>4, <3>2
    <3>4. PICK m \in 1 .. n : q = s[m] \/ \E j \in 1 .. Len(l[m][2]) : q = s[m] + j
      BY <1>3, <3>2
    <3>5. CASE q = s[m]
      <4>1. l[m][1] = l[k][1]
        BY <3>3, <3>5, <1>3
      <4>2. m = k
        BY <4>1, <3>1 DEF OnceEach, n
      <4>3. QED
        BY <4>2, <3>5
    <3>6. ASSUME NEW j \in 1 .. Len(l[m][2]), q = s[m] + j PROVE FALSE
      <4>1. l[m][2][j] = l[k][1]
        BY <3>3, <3>6, <1>3
      <4>2. QED
        BY <4>1, <3>1 DEF OnceEach, n
    <3>7. QED
      BY <3>4, <3>5, <3>6
  <2>5. k \in 1 .. n /\ T[s[k]] = l[k][1]
    BY <1>1, <1>3, <2>3
  <2> DEFINE p == s[k] tag == l[k][1]
  <2>6. p \in 1 .. Len(T) /\ T[p] = tag /\ \A q \in 1 .. Len(T) : T[q] = tag => q = p
    BY <2>3, <2>4, <2>5
  <2> HIDE DEF p, tag
  <2>7. Position(T, tag) = p
    BY <1>1, <2>6, PositionIs
  <2>8. QED
    BY <2>3, <2>7 DEF p, tag
<1> DEFINE places == {Position(T, t) : t \in Tags}
           ends == {k \in places : k > s[i]}
<1>6. places = {s[k] : k \in 1 .. n}
  <2>1. ASSUME NEW t \in Tags PROVE \E k \in 1 .. n : Position(T, t) = s[k]
    <3>1. PICK k \in 1 .. n : l[k][1] = t
      BY DEF OnceEach, n
    <3>2. QED
      BY <3>1, <1>5
  <2>2. ASSUME NEW k \in 1 .. n PROVE \E t \in Tags : Position(T, t) = s[k]
    BY <1>4, <1>5
  <2>3. QED
    BY <2>1, <2>2
<1>7. i \in 1 .. n /\ i \in 1 .. n + 1 /\ i + 1 \in 1 .. n + 1 /\ s[i] \in Nat \ {0} /\ s[i + 1] \in Nat
  <2>1. i \in 1 .. n
    BY DEF n
  <2>2. i \in 1 .. n + 1 /\ i + 1 \in 1 .. n + 1
    BY <2>1, <1>1
  <2>3. QED
    BY <2>1, <2>2, <1>3
<1> HIDE DEF places
<1>8. ValueIn(T, l[i][1]) = SubSeq(T, s[i] + 1, IF i = n THEN Len(T) ELSE s[i + 1] - 1)
  <2>1. Position(T, l[i][1]) = s[i]
    BY <1>5, <1>7
  <2>2. ValueIn(T, l[i][1]) = SubSeq(T, s[i] + 1, IF ends = {} THEN Len(T) ELSE Min(ends) - 1)
    BY <2>1 DEF ValueIn, places
  <2>3. CASE i = n
    <3>1. ends = {}
      <4> SUFFICES ASSUME NEW k \in 1 .. n, s[k] > s[n] PROVE FALSE
        BY <1>6, <2>3
      <4>1. s[k] \in Nat /\ s[n] \in Nat /\ k \in 1 .. n + 1 /\ n \in 1 .. n + 1
        BY <1>1, <1>3
      <4>2. k = n \/ k < n
        BY <1>1
      <4>3. QED
        BY <4>1, <4>2, <1>3
    <3>2. QED
      BY <2>2, <2>3, <3>1
  <2>4. CASE i # n
    <3>1. i + 1 \in 1 .. n /\ i < i + 1
      BY <2>4, <1>7, <1>1
    <3>2. s[i + 1] \in ends
      BY <3>1, <1>3, <1>6, <1>7
    <3>3. ASSUME NEW x \in ends PROVE s[i + 1] <= x
      <4>1. PICK k \in 1 .. n : x = s[k]
        BY <1>6
      <4>2. s[k] \in Nat /\ k \in 1 .. n + 1 /\ s[k] > s[i]
        <5>1. x > s[i]
          OBVIOUS
        <5>2. k \in 1 .. n + 1
          BY <1>1
        <5> QED
          BY <4>1, <5>1, <5>2, <1>3
      <4>3. ~ (k <= i)
        BY <4>2, <1>3, <1>7
      <4>4. k = i + 1 \/ i + 1 < k
        BY <4>3, <1>7, <1>1
      <4>5. QED
        BY <4>1, <4>2, <4>4, <1>3, <1>7
    <3>4. Min(ends) = s[i + 1]
      <4>1. ends \subseteq Nat
        BY <1>6, <1>3, <1>1
      <4> HIDE DEF ends
      <4>2. \A x \in ends : s[i + 1] <= x
        BY <3>3
      <4>3. \A x \in ends : (\A y \in ends : x <= y) => x = s[i + 1]
        <5> SUFFICES ASSUME NEW x \in ends, \A y \in ends : x <= y PROVE x = s[i + 1]
          OBVIOUS
        <5>1. x <= s[i + 1] /\ s[i + 1] <= x /\ x \in Nat
          BY <3>2, <4>1, <4>2
        <5>2. QED
          BY <5>1, <1>7
      <4>4. Min(ends) \in ends /\ \A y \in ends : Min(ends) <= y
        BY <3>2, <4>2 DEF Min
      <4>5. QED
        BY <4>3, <4>4
    <3>5. QED
      BY <2>2, <2>4, <3>2, <3>4
  <2>5. QED
    BY <2>3, <2>4
<1> DEFINE v == l[i][2]
           a == s[i]
<1>9. /\ v \in Seq(Symbols) /\ Len(v) \in Nat /\ a \in Nat \ {0}
      /\ s[i + 1] - 1 = a + Len(v) /\ a + Len(v) <= Len(U)
      /\ i = n => a + Len(v) = Len(U)
      /\ \A j \in 1 .. Len(v) : T[a + j] = v[j]
  <2>1. v \in Seq(Symbols) /\ Len(v) \in Nat /\ a \in Nat \ {0}
    BY <1>4, <1>7
  <2>2. s[i + 1] = a + 1 + Len(v)
    BY <1>3, <1>7
  <2>3. n + 1 \in 1 .. n + 1 /\ s[n + 1] \in Nat /\ (i + 1 = n + 1 \/ i + 1 < n + 1)
    BY <1>1, <1>3, <1>7
  <2>4. s[i + 1] <= s[n + 1]
    BY <2>3, <1>3, <1>7
  <2>5. s[n + 1] = Len(U) + 1 /\ s[i + 1] \in Nat
    BY <1>3, <1>7
  <2>6. \A j \in 1 .. Len(v) : U[a + j] = v[j]
    BY <1>3, <1>7
  <2> DEFINE y == s[i + 1] z == s[n + 1] t == Len(U) k == Len(v)
  <2>7. y \in Nat /\ z \in Nat /\ t \in Nat /\ k \in Nat /\ a \in Nat
        /\ y = a + 1 + k /\ y <= z /\ z = t + 1 /\ (i = n => y = z)
    BY <2>1, <2>2, <2>3, <2>4, <2>5, <1>1
  <2> HIDE DEF y, z, t, k, a, v
  <2>8. y - 1 = a + k /\ a + k <= t /\ (i = n => a + k = t)
    BY <2>7
  <2>9. \A j \in 1 .. k : a + j \in 1 .. t
    BY <2>7, <2>8
  <2>10. \A j \in 1 .. Len(v) : T[a + j] = v[j]
    BY <1>1, <2>6, <2>9 DEF k, t
  <2>11. s[i + 1] - 1 = a + Len(v) /\ a + Len(v) <= Len(U) /\ (i = n => a + Len(v) = Len(U))
    BY <2>8 DEF y, k, t
  <2> QED
    BY <2>1, <2>10, <2>11 DEF v, a
<1> HIDE DEF v, a
<1>10. SubSeq(T, a + 1, s[i + 1] - 1) = v
  <2>1. a + Len(v) <= Len(T)
    BY <1>1, <1>9
  <2>2. SubSeq(T, a + 1, a + Len(v)) = v
    BY <1>1, <1>9, <2>1, Stretch
  <2> QED
    BY <1>9, <2>2
<1>11. ASSUME i = n PROVE SubSeq(T, a + 1, Len(T)) = v \o e
  <2> DEFINE w == v \o e
  <2>1. /\ w \in Seq(Symbols) /\ Len(w) = Len(v) + Len(e)
        /\ \A j \in 1 .. Len(v) : w[j] = v[j]
        /\ \A j \in 1 .. Len(e) : w[Len(v) + j] = e[j]
    BY <1>9, Concat
  <2> HIDE DEF w
  <2>2. Len(T) = a + Len(w) /\ a + Len(w) <= Len(T) /\ a \in Nat /\ Len(w) \in Nat
    <3> DEFINE z == Len(T) y == Len(w) x == Len(v) d == Len(e) t == Len(U)
    <3>1. /\ t \in Nat /\ d \in Nat /\ x \in Nat /\ a \in Nat
          /\ z = t + d /\ y = x + d /\ a + x = t
      BY <1>1, <1>9, <1>11, <2>1
    <3> SUFFICES z = a + y /\ a + y <= z /\ a \in Nat /\ y \in Nat
      OBVIOUS
    <3> HIDE DEF z, y, x, d, t
    <3> QED
      BY <3>1
  <2>3. ASSUME NEW j \in 1 .. Len(w) PROVE T[a + j] = w[j]
    <3>1. CASE j \in 1 .. Len(v)
      BY <1>9, <2>1, <3>1
    <3>2. CASE j > Len(v)
      <4>1. j - Len(v) \in 1 .. Len(e) /\ j = Len(v) + (j - Len(v)) /\ a + j = Len(U) + (j - Len(v))
        <5> DEFINE y == Len(w) x == Len(v) d == Len(e) t == Len(U)
        <5>1. /\ t \in Nat /\ d \in Nat /\ x \in Nat /\ a \in Nat
              /\ y = x + d /\ a + x = t /\ j \in 1 .. y /\ j > x
          BY <1>1, <1>9, <1>11, <2>1, <3>2
        <5> SUFFICES j - x \in 1 .. d /\ j = x + (j - x) /\ a + j = t + (j - x)
          OBVIOUS
        <5> HIDE DEF y, x, d, t
        <5> QED
          BY <5>1
      <4>2. w[j] = e[j - Len(v)]
        BY <2>1, <4>1
      <4>3. T[a + j] = e[j - Len(v)]
        BY <1>1, <4>1
      <4> QED
        BY <4>2, <4>3
    <3> QED
      BY <1>9, <2>1, <3>1, <3>2
  <2>4. SubSeq(T, a + 1, a + Len(w)) = w
    BY <1>1, <2>1, <2>2, <2>3, Stretch
  <2> QED
    BY <2>2, <2>4 DEF w
<1>12. i < n => ValueIn(T, l[i][1]) = v
  BY <1>1, <1>7, <1>8, <1>10 DEF a
<1>13. i = n => ValueIn(T, l[i][1]) = v \o e
  BY <1>8, <1>11 DEF a
<1>14. e = <<>> => v \o e = v
  BY <1>9
<1>15. i = n \/ i < n
  BY <1>1, <1>7
<1>16. Position(T, l[i][1]) # 0
  BY <1>1, <1>5, <1>7
<1>17. QED
  BY <1>12, <1>13, <1>14, <1>15, <1>16 DEF T, U, v, n

-----------------------------------------------------------------------------
(* What is run is what was sent *)

\* What was written for the request that is served.
SentList == IF request.parms = NoQuery THEN <<>> ELSE request.parms

\* The text that is chopped.
Chopped == Unescaped(url)

\* What was read and what is left to read are the text that was sent; the
\* parameters are chopped once and from what was read.
TextInv ==
  /\ request \in Requests
  /\ url \in Seq(Symbols) /\ unread \in Seq(Symbols)
  /\ status # "NODE" => url \o unread = Text(SentList)
  /\ request.method = "GET" /\ status = "RTV_URL" => url = <<>>
  /\ status \in {"NODE", "RTV_URL", "CHOP_PARMS"} => parms = <<>>
  /\ parms # <<>> =>
       (\A t \in Tags : Position(Chopped, t) # 0) /\ parms = [t \in Tags |-> ValueIn(Chopped, t)]

\* The list of a request that has a query, and of one that has none.
LEMMA SentIsList ==
  ASSUME request \in Requests
  PROVE  SentList \in Seq(Parm) /\ Text(SentList) \in Seq(Symbols)
<1>1. SentList \in Seq(Parm)
  <2>1. request.parms = NoQuery \/ request.parms \in Seq(Parm)
    <3>1. request.parms = NoQuery \/ request.parms \in Seq(Tags \X Seq(Chars \cup Tags))
      BY CgiAssumption
    <3> DEFINE C == Chars \cup Tags
    <3>2. C \subseteq Symbols
      BY DEF Symbols
    <3> HIDE DEF C
    <3>3. Seq(C) \subseteq Seq(Symbols)
      BY <3>2
    <3> DEFINE P == Tags \X Seq(C)
    <3>4. P \subseteq Parm
      BY <3>3 DEF Parm
    <3> HIDE DEF P
    <3>5. Seq(P) \subseteq Seq(Parm)
      BY <3>4
    <3> QED
      BY <3>1, <3>5 DEF P, C
  <2>2. <<>> \in Seq(Parm)
    OBVIOUS
  <2>3. QED
    BY <2>1, <2>2 DEF SentList
<1>2. QED
  BY <1>1, Layout

\* At the start the whole text is to be read.
LEMMA TextBegins == SqlInit => TextInv
<1> SUFFICES ASSUME SqlInit PROVE TextInv
  OBVIOUS
<1>1. request \in Requests /\ url = <<>> /\ parms = <<>> /\ status \in {"NODE", "RTV_URL"}
  BY DEF SqlInit, NodeInit, CgiInit
<1>2. <<>> \in Seq(Symbols)
  OBVIOUS
<1>3. CASE NodeInit
  <2>1. unread = <<>> /\ status = "NODE"
    BY <1>3 DEF NodeInit
  <2>2. QED
    BY <1>1, <1>2, <2>1 DEF TextInv
<1>4. CASE CgiInit
  <2>1. unread = Text(SentList)
    BY <1>4, TextOfNone DEF CgiInit, SentList
  <2>2. unread \in Seq(Symbols)
    BY <2>1, <1>1, SentIsList
  <2>3. url \o unread = unread
    BY <2>2, <1>1
  <2>4. QED
    BY <1>1, <1>2, <2>1, <2>2, <2>3 DEF TextInv
<1>5. QED
  BY <1>3, <1>4 DEF SqlInit

\* No step loses or adds any of it, and nothing is chopped twice.
LEMMA TextStep ==
  ASSUME TextInv, [SqlNext]_CgiVars
  PROVE  TextInv'
<1>0. ASSUME UNCHANGED request PROVE SentList' = SentList
  BY <1>0 DEF SentList
<1>b. ASSUME UNCHANGED <<request, url>> PROVE Chopped' = Chopped
  BY <1>b DEF Chopped, Unescaped
<1>a. ASSUME UNCHANGED <<request, url, unread, parms>>,
             status' = "NODE" => status = "NODE",
             status = "NODE" => status' = "NODE",
             status' \in {"RTV_URL", "CHOP_PARMS"} => status' = status
      PROVE  TextInv'
  <2>1. SentList' = SentList
    BY <1>a, <1>0
  <2>2. /\ request' \in Requests
        /\ url' \in Seq(Symbols) /\ unread' \in Seq(Symbols)
    BY <1>a DEF TextInv
  <2>3. ASSUME status' # "NODE" PROVE url' \o unread' = Text(SentList')
    <3>1. url \o unread = Text(SentList)
      BY <1>a, <2>3 DEF TextInv
    <3>2. QED
      BY <3>1, <2>1, <1>a, Zenon
  <2>4. request'.method = "GET" /\ status' = "RTV_URL" => url' = <<>>
    BY <1>a DEF TextInv
  <2>5. status' \in {"NODE", "RTV_URL", "CHOP_PARMS"} => parms' = <<>>
    BY <1>a DEF TextInv
  <2>6. parms' # <<>> =>
          /\ \A t \in Tags : Position(Chopped', t) # 0
          /\ parms' = [t \in Tags |-> ValueIn(Chopped', t)]
    BY <1>a, <1>b DEF TextInv
  <2>7. QED
    BY <2>2, <2>3, <2>4, <2>5, <2>6 DEF TextInv
<1>1. CASE BadRequest \/ NoLength \/ ReadFails \/ UnescapeFails \/ Logon
  BY <1>1, <1>a DEF BadRequest, NoLength, ReadFails, UnescapeFails, Logon, Error, Exception
<1>2. CASE RunCall \/ CallFailed \/ TakeOutput \/ NegativeSize \/ Respond \/ ErrorFr \/ Done
  BY <1>2, <1>a DEF RunCall, CallFailed, TakeOutput, NegativeSize, Respond, ErrorFr, Done, Exception, cgi
<1>3. CASE GetQuery
  <2>1. /\ status = "RTV_URL" /\ url = <<>> /\ url' = unread /\ unread' = <<>>
        /\ status' = "CHOP_PARMS" /\ UNCHANGED <<request, parms>> /\ parms = <<>>
    BY <1>3 DEF GetQuery, TextInv
  <2>2. unread \in Seq(Symbols) /\ url \o unread = Text(SentList)
    BY <2>1 DEF TextInv
  <2>3. <<>> \o unread = unread /\ unread \o <<>> = unread /\ <<>> \in Seq(Symbols)
    BY <2>2
  <2>4. QED
    BY <2>1, <2>2, <2>3, <1>0 DEF TextInv
<1>4. CASE ReadContent
  <2>1. PICK n \in 0 .. BuffSize :
          /\ n <= Len(unread)
          /\ url' = url \o SubSeq(unread, 1, n)
          /\ unread' = SubSeq(unread, n + 1, Len(unread))
          /\ status' = IF n < BuffSize THEN "CHOP_PARMS" ELSE status
    BY <1>4 DEF ReadContent
  <2>2. n \in Nat /\ status = "RTV_URL" /\ request.method = "POST" /\ UNCHANGED <<request, parms>>
    BY <1>4, CgiAssumption DEF ReadContent
  <2>3. url \in Seq(Symbols) /\ unread \in Seq(Symbols) /\ parms = <<>>
        /\ url \o unread = Text(SentList)
    BY <2>2 DEF TextInv
  <2>4. url' \in Seq(Symbols) /\ unread' \in Seq(Symbols) /\ url' \o unread' = url \o unread
    <3> DEFINE u == url r == unread
    <3>1. u \in Seq(Symbols) /\ r \in Seq(Symbols) /\ n <= Len(r)
      BY <2>1, <2>3
    <3>2. url' = u \o SubSeq(r, 1, n) /\ unread' = SubSeq(r, n + 1, Len(r))
      BY <2>1
    <3> HIDE DEF u, r
    <3>3. /\ u \o SubSeq(r, 1, n) \in Seq(Symbols) /\ SubSeq(r, n + 1, Len(r)) \in Seq(Symbols)
          /\ (u \o SubSeq(r, 1, n)) \o SubSeq(r, n + 1, Len(r)) = u \o r
      <4>1. Cut(Symbols, u, r, n)
        BY <2>2, <3>1, CutOff
      <4>2. QED
        BY <4>1, Zenon DEF Cut
    <3>4. url' \in Seq(Symbols) /\ unread' \in Seq(Symbols) /\ url' \o unread' = u \o r
      BY <3>2, <3>3, Zenon
    <3>5. QED
      BY <3>4, Zenon DEF u, r
  <2>5. status' \in {"RTV_URL", "CHOP_PARMS"}
    BY <2>1, <2>2
  <2>6. QED
    BY <2>2, <2>3, <2>4, <2>5, <1>0 DEF TextInv
<1>5. CASE ChopParms
  <2>1. UNCHANGED <<request, url, unread>> /\ status = "CHOP_PARMS" /\ parms = <<>>
    BY <1>5 DEF ChopParms, TextInv
  <2>2. CASE \A t \in Tags : Position(Chopped, t) # 0
    <3>1. parms' = [t \in Tags |-> ValueIn(Chopped, t)] /\ status' = "LOGON"
      BY <1>5, <2>2 DEF ChopParms, Chopped
    <3>2. \A t \in Tags : Position(Chopped', t) # 0
      BY <1>b, <2>1, <2>2
    <3>3. parms' = [t \in Tags |-> ValueIn(Chopped', t)]
      BY <1>b, <2>1, <3>1
    <3>4. QED
      BY <2>1, <3>1, <3>2, <3>3, <1>0 DEF TextInv
  <2>3. CASE ~ \A t \in Tags : Position(Chopped, t) # 0
    <3>1. parms' = parms /\ status' = "ERROR_FR"
      BY <1>5, <2>3 DEF ChopParms, Error, Chopped
    <3>2. QED
      BY <2>1, <3>1, <1>a
  <2>4. QED
    BY <2>2, <2>3
<1>6. CASE NodeNext \/ UNCHANGED CgiVars
  BY <1>6, <1>a DEF NodeNext, CgiVars, cgi
<1>7. QED
  BY <1>1, <1>2, <1>3, <1>4, <1>5, <1>6 DEF SqlNext, CgiNext

\* A set with one element, as a statement without its size.
LEMMA OneElement ==
  ASSUME NEW n \in Nat, NEW S, S \subseteq 1 .. n, Cardinality(S) = 1
  PROVE  \E i \in S : S = {i}
<1>1. IsFiniteSet(1 .. n)
  BY FS_Interval
<1>2. IsFiniteSet(S)
  BY <1>1, FS_Subset
<1>3. QED
  BY <1>2, FS_Singleton

\* Plain says that of the list of a request.
LEMMA PlainIsOnce ==
  ASSUME request.parms \in Seq(Parm), Plain
  PROVE  OnceEach(request.parms)
<1> DEFINE l == request.parms
           n == Len(l)
<1>1. DOMAIN l = 1 .. n /\ n \in Nat
  OBVIOUS
<1> SUFFICES ASSUME NEW t \in Tags
             PROVE  /\ \E i \in 1 .. n : l[i][1] = t /\ \A j \in 1 .. n : l[j][1] = t => j = i
                    /\ \A i \in 1 .. n : \A j \in 1 .. Len(l[i][2]) : l[i][2][j] # t
  BY DEF OnceEach
<1> DEFINE S == {i \in 1 .. n : l[i][1] = t}
<1>2. Cardinality(S) = 1 /\ \A i \in 1 .. n : t \notin Range(l[i][2])
  BY <1>1 DEF Plain
<1>3. PICK i \in S : S = {i}
  BY <1>1, <1>2, OneElement
<1>4. \A k \in 1 .. n : \A j \in 1 .. Len(l[k][2]) : l[k][2][j] # t
  <2> SUFFICES ASSUME NEW k \in 1 .. n, NEW j \in 1 .. Len(l[k][2]) PROVE l[k][2][j] # t
    OBVIOUS
  <2>1. j \in DOMAIN l[k][2]
    BY <1>1 DEF Parm
  <2>2. l[k][2][j] \in Range(l[k][2])
    BY <2>1 DEF Range
  <2>3. QED
    BY <2>2, <1>2
<1>5. QED
  BY <1>3, <1>4

\* There is no tag in what is behind a decoded text, whatever was escaped.
LEMMA BehindTheText ==
  ASSUME NEW text, NEW e, e = IF request.escapes \cap DOMAIN text = {} THEN <<>> ELSE Stale
  PROVE  /\ e \in Seq(Symbols) /\ \A j \in 1 .. Len(e) : e[j] \notin Tags
         /\ request.escapes = {} => e = <<>>
         /\ e = <<>> \/ e = Stale
         /\ Unescaped(text) = text \o e
<1>1. <<>> \in Seq(Symbols) /\ Len(<<>>) = 0
  OBVIOUS
<1>2. /\ Stale \in Seq(Symbols) /\ Len(Stale) = 2 /\ Stale[1] = Nul /\ Stale[2] = Rest
      /\ Nul \notin Tags /\ Rest \notin Tags
  BY CgiAssumption DEF Stale, Symbols
<1>3. \A j \in 1 .. Len(Stale) : Stale[j] \notin Tags
  BY <1>2
<1>4. \A j \in 1 .. Len(<<>>) : <<>>[j] \notin Tags
  OBVIOUS
<1> HIDE DEF Stale
<1>5. request.escapes = {} => request.escapes \cap DOMAIN text = {}
  OBVIOUS
<1>6. Unescaped(text) = text \o e
  BY Zenon DEF Unescaped
<1> QED
  BY <1>1, <1>2, <1>3, <1>4, <1>5, <1>6

\* There is no tag in what came without a query.
LEMMA NoTag ==
  ASSUME NEW e \in Seq(Symbols), \A j \in 1 .. Len(e) : e[j] \notin Tags, NEW t \in Tags
  PROVE  Position(e, t) = 0
<1>1. ~ \E j \in 1 .. Len(e) : e[j] = t
  OBVIOUS
<1> QED
  BY <1>1 DEF Position, SelectInSeq

\* The procedure is called with the values the client wrote, if every tag is
\* there once and in no value and the content was read to its end (chopParms):
\* all of them but the last one of a text with escapes, and even then with the
\* size of the output that was asked for.
THEOREM SentIsRun == AtoiStops => (SqlSpec => []RunsWhatWasSent)
<1> SUFFICES ASSUME AtoiStops PROVE SqlSpec => []RunsWhatWasSent
  OBVIOUS
<1>1. TextInv => RunsWhatWasSent
  <2> SUFFICES ASSUME TextInv, parms # <<>>, Plain, unread = <<>>, NEW i \in DOMAIN request.parms
               PROVE  /\ i < Len(request.parms) \/ request.escapes = {} =>
                           parms[request.parms[i][1]] = request.parms[i][2]
                      /\ request.parms[i][1] = "out" => out_size = OutSize(request.parms[i][2])
    BY DEF RunsWhatWasSent
  <2>1. /\ status # "NODE" /\ url \in Seq(Symbols) /\ request \in Requests
        /\ \A t \in Tags : Position(Chopped, t) # 0
        /\ parms = [t \in Tags |-> ValueIn(Chopped, t)]
    BY DEF TextInv
  <2>2. url = Text(SentList)
    <3>1. url \o unread = Text(SentList)
      BY <2>1 DEF TextInv
    <3>2. url \o <<>> = url
      BY <2>1
    <3>3. QED
      BY <3>1, <3>2
  <2> DEFINE e == IF request.escapes \cap DOMAIN url = {} THEN <<>> ELSE Stale
  <2>3. /\ e \in Seq(Symbols) /\ \A j \in 1 .. Len(e) : e[j] \notin Tags
        /\ request.escapes = {} => e = <<>>
        /\ e = <<>> \/ e = Stale
        /\ Unescaped(url) = url \o e
    BY BehindTheText
  <2> HIDE DEF e
  <2>4. request.parms # NoQuery
    <3> SUFFICES ASSUME request.parms = NoQuery PROVE FALSE
      OBVIOUS
    <3>1. url = <<>>
      BY <2>2, TextOfNone DEF SentList
    <3>2. Chopped = e
      BY <2>3, <3>1 DEF Chopped
    <3>3. "db2" \in Tags
      BY DEF Tags
    <3>4. QED
      BY <2>1, <2>3, <3>2, <3>3, NoTag
  <2>5. SentList = request.parms /\ request.parms \in Seq(Parm)
    BY <2>1, <2>4, SentIsList DEF SentList
  <2>6. OnceEach(request.parms)
    BY <2>5, PlainIsOnce
  <2> DEFINE l == request.parms tag == l[i][1] sent == l[i][2]
  <2>7. i \in 1 .. Len(l) /\ Chopped = Text(l) \o e
    BY <2>2, <2>3, <2>5 DEF Chopped
  <2>8. tag \in Tags /\ sent \in Seq(Symbols) /\ Len(l) \in Nat
    BY <2>5, <2>7 DEF Parm
  <2>9. /\ i < Len(l) \/ e = <<>> => ValueIn(Chopped, tag) = sent
        /\ i = Len(l) => ValueIn(Chopped, tag) = sent \o e
    BY <2>3, <2>5, <2>6, <2>7, ValuesAreFound
  <2>10. parms[tag] = ValueIn(Chopped, tag)
    BY <2>1, <2>8
  <2>11. OutSize(ValueIn(Chopped, tag)) = OutSize(sent)
    <3>1. OutSize(sent \o Stale) = OutSize(sent)
      BY DEF AtoiStops
    <3>2. i < Len(l) \/ i = Len(l)
      BY <2>7, <2>8
    <3>3. QED
      BY <2>3, <2>9, <3>1, <3>2
  <2>12. tag = "out" => out_size = OutSize(sent)
    BY <2>10, <2>11 DEF out_size
  <2>13. i < Len(l) \/ request.escapes = {} => parms[tag] = sent
    BY <2>3, <2>9, <2>10
  <2>14. QED
    BY <2>12, <2>13
<1>2. TextInv /\ [SqlNext]_CgiVars => TextInv'
  BY TextStep
<1>3. QED
  BY <1>1, <1>2, TextBegins, PTL DEF SqlSpec

-----------------------------------------------------------------------------
(* SqlFetch: for a result set of any size and any block and rec, the rows  *)
(* an operation returns and the number it gives for them.                  *)

Asked ==
  IF pc # "init" /\ op.fetch THEN block = ToInt(op.block) /\ rec = ToInt(op.rec)
                            ELSE block = 0 /\ rec = 1

Valid == pc \notin {"init", "failed"} => block >= 0 /\ rec > 0

\* The rows that were fetched are the ones from rec to the cursor.
Rows ==
  /\ cursor = 0 => Len(data) = 0
  /\ cursor # 0 =>
       /\ pc # "init" /\ op.fetch /\ op.select
       /\ block >= 0 /\ rec > 0 /\ rec <= cursor /\ cursor <= op.rows
       /\ Len(data) = cursor - rec + 1
       /\ block > 0 => Len(data) <= block
  /\ \A i \in 1 .. Len(data) : data[i] = rec + i - 1

\* The loop is not entered before the statement has been executed.
NotYet ==
  pc \in {"init", "allocStmt", "setScrollable", "prepare", "describeParam", "bindParam",
          "execute", "rowCount", "bindCol"} => cursor = 0 /\ rowNum = 1

FromDatabase == IF op.select THEN -1 ELSE op.rows

\* In the loop rowNum is the number of the next row, and the block not full.
InLoop ==
  pc \in {"bindCol", "fetch"} =>
    /\ op.fetch /\ rowCount = FromDatabase
    /\ rowNum = Len(data) + 1
    /\ block > 0 => Len(data) < block

\* The loop was left with a full block, or the end was found.
AfterLoop ==
  pc \in {"setCount", "done"} =>
    /\ pc = "done" => attr = rowCount
    /\ ~ op.fetch => rowCount = FromDatabase
    /\ op.fetch =>
         /\ op.select
         /\ \/ block > 0 /\ Len(data) = block /\ rowCount = block
            \/ Target > op.rows /\ rowCount = Len(data) + 1 /\ (block > 0 => Len(data) < block)

IInv == FetchTypeOK /\ Asked /\ Valid /\ Rows /\ NotYet /\ InLoop /\ AfterLoop

-----------------------------------------------------------------------------
LEMMA IntSizes == \A n \in Int : ToInt(n) \in Int
  BY FetchAssumption DEF ToInt

LEMMA OpTyped ==
  op \in Operations =>
    /\ op.select \in BOOLEAN /\ op.fetch \in BOOLEAN
    /\ op.rows \in Nat /\ op.markers \in Nat /\ op.parms \in 0 .. MaxParms
    /\ op.block \in Int /\ op.rec \in Int /\ op.type \in {"EXEC", "EXECD"}
<1> SUFFICES ASSUME op \in Operations
             PROVE  /\ op.select \in BOOLEAN /\ op.fetch \in BOOLEAN
                    /\ op.rows \in Nat /\ op.markers \in Nat /\ op.parms \in 0 .. MaxParms
                    /\ op.block \in Int /\ op.rec \in Int /\ op.type \in {"EXEC", "EXECD"}
  OBVIOUS
<1>1. op.select \in BOOLEAN /\ op.fetch \in BOOLEAN /\ op.type \in {"EXEC", "EXECD"}
  BY Zenon DEF Operations
<1>2. /\ op.rows \in 0 .. MaxRows /\ op.markers \in 0 .. MaxParms /\ op.parms \in 0 .. MaxParms
      /\ op.block \in Given /\ op.rec \in Given
  BY Zenon DEF Operations
<1>3. op.rows \in Nat /\ op.markers \in Nat /\ op.block \in Int /\ op.rec \in Int
  <2>1. MaxRows \in Nat /\ MaxParms \in Nat /\ Given \subseteq Int
    BY FetchAssumption, Zenon
  <2>2. op.rows \in Nat /\ op.markers \in Nat
    BY <1>2, <2>1
  <2>3. op.block \in Int /\ op.rec \in Int
    BY <1>2, <2>1
  <2> QED
    BY <2>2, <2>3
<1> QED
  BY <1>1, <1>2, <1>3, Zenon

\* A step before the loop that leaves the rows and their count alone.
Early == {"init", "allocStmt", "setScrollable", "prepare", "describeParam", "bindParam",
          "execute", "rowCount", "bindCol"}

LEMMA InitIsGood == FetchInit => IInv
<1> SUFFICES ASSUME FetchInit PROVE IInv
  OBVIOUS
<1>1. Len(data) = 0 /\ data \in Seq(Nat)
  BY DEF FetchInit
<1>2. /\ op \in Operations /\ pc = "init" /\ block = 0 /\ rec = 1 /\ parm = 1 /\ hstmt = "null"
      /\ rowNum = 1 /\ cursor = 0 /\ rowCount = 0 /\ attr \in Int
  BY DEF FetchInit, NotSet
<1>3. FetchTypeOK
  BY <1>1, <1>2, FetchAssumption DEF FetchTypeOK
<1> QED
  BY <1>1, <1>2, <1>3 DEF IInv, Asked, Valid, Rows, NotYet, InLoop, AfterLoop

\* Nothing but where run() is, the parameter and the statement change.
LEMMA Quiet ==
  ASSUME IInv, UNCHANGED <<op, block, rec, fetched, counts>>,
         parm' \in 1 .. MaxParms + 1,
         hstmt' \in {"null", "allocated", "scrollable", "prepared", "executed"},
         \/ pc' = "failed" /\ pc # "init"
         \/ pc \in Early \ {"init", "rowCount", "bindCol"}
              /\ pc' \in Early \ {"init", "bindCol"}
  PROVE  IInv'
<1> USE DEF fetched, counts
<1>1. FetchTypeOK'
  BY DEF IInv, FetchTypeOK, Early
<1>2. Asked' /\ Valid'
  BY DEF IInv, Asked, Valid, ToInt, Early
<1>3. Rows' /\ NotYet'
  BY DEF IInv, Rows, NotYet, Early
<1>4. InLoop' /\ AfterLoop'
  BY DEF InLoop, AfterLoop, Early
<1> QED
  BY <1>1, <1>2, <1>3, <1>4 DEF IInv

LEMMA FailIsQuiet == IInv /\ pc # "init" /\ MayFail => IInv'
<1> SUFFICES ASSUME IInv, pc # "init", MayFail PROVE IInv'
  OBVIOUS
<1>1. /\ UNCHANGED <<op, block, rec, fetched, counts>> /\ parm' = parm /\ hstmt' = hstmt
      /\ pc' = "failed"
  BY DEF MayFail, Fail
<1>2. /\ parm \in 1 .. MaxParms + 1
      /\ hstmt \in {"null", "allocated", "scrollable", "prepared", "executed"}
  BY DEF IInv, FetchTypeOK
<1> QED
  BY <1>1, <1>2, Quiet

LEMMA InitFetchKeeps == IInv /\ InitFetch => IInv'
<1> SUFFICES ASSUME IInv, InitFetch PROVE IInv'
  OBVIOUS
<1>1. /\ op' = op /\ parm' = parm /\ hstmt' = hstmt /\ rowNum' = rowNum /\ cursor' = cursor
      /\ data' = data /\ rowCount' = rowCount /\ attr' = attr /\ pc = "init"
      /\ block' = IF op.fetch THEN ToInt(op.block) ELSE block
      /\ rec' = IF op.fetch THEN ToInt(op.rec) ELSE rec
      /\ pc' \in {"failed", "allocStmt"}
      /\ pc' = "allocStmt" => ~ (block' < 0 \/ rec' <= 0)
  BY DEF InitFetch, fetched, counts, Fail, Continue
<1>2. ToInt(op.block) \in Int /\ ToInt(op.rec) \in Int
  BY IntSizes, OpTyped DEF IInv, FetchTypeOK
<1>3. block' \in Int /\ rec' \in Int
  BY <1>1, <1>2 DEF IInv, FetchTypeOK
<1>4. FetchTypeOK'
  BY <1>1, <1>3 DEF IInv, FetchTypeOK
<1>5. cursor = 0 /\ rowNum = 1 /\ Len(data) = 0
  BY <1>1 DEF IInv, NotYet, Rows
<1>6. Rows' /\ NotYet' /\ InLoop' /\ AfterLoop'
  BY <1>1, <1>5 DEF Rows, NotYet, InLoop, AfterLoop
<1>7. Valid'
  BY <1>1, <1>3 DEF Valid
<1>8. Asked'
  BY <1>1 DEF IInv, Asked
<1> QED
  BY <1>4, <1>6, <1>7, <1>8 DEF IInv

\* The steps before the loop.
LEMMA EarlyKeeps ==
  ASSUME IInv,
         \/ AllocStmt \/ SetScrollable \/ Prepare \/ DescribeParam \/ BindParam \/ Execute
  PROVE  IInv'
<1>1. CASE MayFail
  BY <1>1, FailIsQuiet
     DEF AllocStmt, SetScrollable, Prepare, DescribeParam, BindParam, Execute, NextParm
<1>2. parm \in 1 .. MaxParms + 1 /\ op.parms \in 0 .. MaxParms /\ MaxParms \in Nat
      /\ hstmt \in {"null", "allocated", "scrollable", "prepared", "executed"}
  BY OpTyped, FetchAssumption DEF IInv, FetchTypeOK
<1>3. CASE AllocStmt /\ ~ MayFail
  BY <1>2, <1>3, Quiet DEF AllocStmt, Continue, Early
<1>4. CASE SetScrollable /\ ~ MayFail
  BY <1>2, <1>4, Quiet DEF SetScrollable, Continue, Early
<1>5. CASE Prepare /\ ~ MayFail
  BY <1>2, <1>5, Quiet DEF Prepare, Continue, Early
<1>6. CASE DescribeParam /\ ~ MayFail
  BY <1>2, <1>6, Quiet DEF DescribeParam, NextParm, Continue, Early
<1>7. CASE BindParam /\ ~ MayFail
  BY <1>2, <1>7, Quiet DEF BindParam, NextParm, Continue, Early
<1>8. CASE Execute /\ ~ MayFail
  BY <1>2, <1>8, Quiet DEF Execute, Continue, Early
<1> QED
  BY <1>1, <1>3, <1>4, <1>5, <1>6, <1>7, <1>8

\* Facts for the steps that follow.
Past == pc \in {"rowCount", "bindCol", "fetch", "setCount", "done"}

LEMMA PastFacts ==
  IInv /\ Past =>
    /\ op \in Operations /\ op.rows \in Nat /\ block \in Int /\ rec \in Int
    /\ block >= 0 /\ rec > 0 /\ cursor \in Nat /\ rowNum \in Nat \ {0} /\ Len(data) \in Nat
    /\ data \in Seq(Nat) /\ FromDatabase \in Int /\ rowCount \in Int /\ attr \in Int
<1> SUFFICES ASSUME IInv, Past
             PROVE  /\ op \in Operations /\ op.rows \in Nat /\ block \in Int /\ rec \in Int
                    /\ block >= 0 /\ rec > 0 /\ cursor \in Nat /\ rowNum \in Nat \ {0}
                    /\ Len(data) \in Nat
                    /\ data \in Seq(Nat) /\ FromDatabase \in Int /\ rowCount \in Int
                    /\ attr \in Int
  OBVIOUS
<1>1. op \in Operations /\ op.rows \in Nat
  BY OpTyped DEF IInv, FetchTypeOK
<1>2. FromDatabase \in Int
  BY <1>1 DEF FromDatabase
<1>3. block >= 0 /\ rec > 0
  BY DEF IInv, Valid, Past
<1> QED
  BY <1>1, <1>2, <1>3 DEF IInv, FetchTypeOK

\* The parts of the invariant that a step from here on keeps.
LEMMA Late ==
  ASSUME IInv, Past, UNCHANGED <<op, block, rec, parm>>,
         pc' \in {"bindCol", "fetch", "setCount", "done", "failed"},
         hstmt' \in {"null", "allocated", "scrollable", "prepared", "executed"},
         rowNum' \in Nat \ {0}, cursor' \in Nat, data' \in Seq(Nat),
         rowCount' \in Int, attr' \in Int, Rows', NotYet', InLoop', AfterLoop'
  PROVE  IInv'
<1>1. FetchTypeOK'
  BY DEF IInv, FetchTypeOK
<1>2. Asked' /\ Valid'
  BY DEF IInv, Asked, Valid, Past, ToInt
<1> QED
  BY <1>1, <1>2 DEF IInv

LEMMA RowCountKeeps == IInv /\ RowCount => IInv'
<1> SUFFICES ASSUME IInv, RowCount PROVE IInv'
  OBVIOUS
<1>1. CASE MayFail
  BY <1>1, FailIsQuiet DEF RowCount
<1>2. CASE ~ MayFail
  <2>1. /\ pc = "rowCount" /\ rowCount' = FromDatabase
        /\ pc' = (IF op.fetch THEN "bindCol" ELSE "setCount")
        /\ UNCHANGED <<op, block, rec, parm, hstmt, rowNum, cursor, data, attr>>
    BY <1>2 DEF RowCount, Continue, fetched, FromDatabase
  <2>2. cursor = 0 /\ rowNum = 1 /\ Len(data) = 0
    BY <2>1 DEF IInv, NotYet, Rows
  <2>3. Past /\ rowCount' \in Int
    BY <2>1, PastFacts DEF Past
  <2>4. Rows' /\ NotYet' /\ InLoop' /\ AfterLoop'
    BY <2>1, <2>2 DEF Rows, NotYet, InLoop, AfterLoop, FromDatabase
  <2> QED
    BY <2>1, <2>3, <2>4, PastFacts, Late DEF IInv, FetchTypeOK
<1> QED
  BY <1>1, <1>2

LEMMA BindColKeeps == IInv /\ BindCol => IInv'
<1> SUFFICES ASSUME IInv, BindCol PROVE IInv'
  OBVIOUS
<1>1. /\ pc = "bindCol" /\ pc' \in {"fetch", "failed"} /\ Past
      /\ UNCHANGED <<op, block, rec, parm, hstmt, rowNum, cursor, data, attr>>
      /\ rowCount' \in {rowCount, rowNum}
      /\ pc' = "fetch" => rowCount' = rowCount
  BY DEF BindCol, Continue, Fail, fetched, counts, CountFetched, Past
<1>2. rowCount' \in Int
  BY <1>1, PastFacts
<1>3. Rows' /\ NotYet' /\ InLoop' /\ AfterLoop'
  BY <1>1 DEF IInv, Rows, NotYet, InLoop, AfterLoop, FromDatabase
<1> QED
  BY <1>1, <1>2, <1>3, PastFacts, Late DEF IInv, FetchTypeOK

LEMMA FetchRowKeeps == IInv /\ FetchRow => IInv'
<1> SUFFICES ASSUME IInv, FetchRow PROVE IInv'
  OBVIOUS
<1>1. /\ pc = "fetch" /\ Past /\ op.select /\ Target <= op.rows
      /\ cursor' = Target /\ data' = Append(data, Target)
      /\ UNCHANGED <<op, block, rec, parm, hstmt, attr>>
      /\ pc' \in {"setCount", "fetch", "failed"}
  BY DEF FetchRow, Continue, Fail, counts, Past
<1>2. /\ op.rows \in Nat /\ block \in Int /\ rec \in Int /\ block >= 0 /\ rec > 0
      /\ cursor \in Nat /\ rowNum \in Nat \ {0} /\ Len(data) \in Nat
      /\ data \in Seq(Nat) /\ rowCount \in Int /\ attr \in Int
  BY <1>1, PastFacts
<1>3. Target \in Nat /\ rec <= Target
      /\ Target = rec + Len(data)
  BY <1>2 DEF IInv, Rows, Target
<1>4. /\ data' \in Seq(Nat) /\ Len(data') = Len(data) + 1
      /\ \A i \in 1 .. Len(data) : data'[i] = data[i]
      /\ data'[Len(data) + 1] = Target
  BY <1>1, <1>2, <1>3
<1>5. /\ op.fetch /\ rowCount = -1 /\ rowNum = Len(data) + 1
      /\ block > 0 => Len(data) < block
  BY <1>1 DEF IInv, InLoop, FromDatabase
<1>6. \/ pc' = "setCount" /\ block > 0 /\ rowNum = block /\ rowCount' = rowNum /\ rowNum' = rowNum
      \/ /\ pc' = "fetch" /\ (block = 0 \/ rowNum # block)
         /\ rowNum' = rowNum + 1 /\ rowCount' = rowCount
      \/ pc' = "failed" /\ rowNum' \in {rowNum, rowNum + 1} /\ rowCount' \in {rowCount, rowNum'}
  <2>1. rowCount < 0
    BY <1>5
  <2> QED
    BY <2>1 DEF FetchRow, Continue, Fail, counts, CountFetched
<1>7. \A i \in 1 .. Len(data') : data'[i] = rec + i - 1
  <2> SUFFICES ASSUME NEW i \in 1 .. Len(data') PROVE data'[i] = rec + i - 1
    OBVIOUS
  <2>1. CASE i \in 1 .. Len(data)
    BY <1>4, <2>1 DEF IInv, Rows
  <2>2. CASE i = Len(data) + 1
    BY <1>2, <1>3, <1>4, <2>2
  <2> QED
    BY <1>2, <1>4, <2>1, <2>2
<1>8. Rows'
  BY <1>1, <1>2, <1>3, <1>4, <1>5, <1>7 DEF Rows
<1>9. NotYet'
  BY <1>1 DEF NotYet
<1>10. InLoop' /\ AfterLoop'
  <2>1. CASE pc' = "setCount" /\ block > 0 /\ rowNum = block /\ rowCount' = rowNum
    BY <1>1, <1>2, <1>4, <1>5, <2>1 DEF InLoop, AfterLoop
  <2>2. CASE /\ pc' = "fetch" /\ (block = 0 \/ rowNum # block)
             /\ rowNum' = rowNum + 1 /\ rowCount' = rowCount
    BY <1>1, <1>2, <1>4, <1>5, <2>2 DEF InLoop, AfterLoop, FromDatabase
  <2>3. CASE pc' = "failed"
    BY <2>3 DEF InLoop, AfterLoop
  <2> QED
    BY <1>6, <2>1, <2>2, <2>3
<1>11. rowNum' \in Nat \ {0} /\ rowCount' \in Int
  BY <1>2, <1>6
<1> QED
  BY <1>1, <1>2, <1>3, <1>4, <1>8, <1>9, <1>10, <1>11, Late DEF IInv, FetchTypeOK

\* The loop is left without a row.
LEMMA LeaveKeeps == IInv /\ (NoMoreRows \/ FetchFails) => IInv'
<1> SUFFICES ASSUME IInv, NoMoreRows \/ FetchFails PROVE IInv'
  OBVIOUS
<1>1. /\ pc = "fetch" /\ Past /\ rowCount' = (IF rowCount < 0 THEN rowNum ELSE rowCount)
      /\ UNCHANGED <<op, block, rec, parm, hstmt, rowNum, cursor, data, attr>>
      /\ \/ pc' = "failed"
         \/ pc' = "setCount" /\ op.select /\ Target > op.rows
  BY DEF NoMoreRows, FetchFails, Continue, Fail, fetched, CountFetched, Past
<1>2. rowCount' \in Int
  BY <1>1, PastFacts
<1>3. Rows' /\ NotYet' /\ InLoop'
  BY <1>1 DEF IInv, Rows, NotYet, InLoop
<1>4. AfterLoop'
  <2>1. CASE pc' = "setCount" /\ op.select /\ Target > op.rows
    <3>1. Target' = Target
      BY <1>1 DEF Target
    <3>2. /\ op.fetch /\ rowCount = -1 /\ rowNum = Len(data) + 1
          /\ block > 0 => Len(data) < block
      BY <1>1, <2>1 DEF IInv, InLoop, FromDatabase
    <3> QED
      BY <1>1, <2>1, <3>1, <3>2 DEF AfterLoop
  <2>2. CASE pc' = "failed"
    BY <2>2 DEF AfterLoop
  <2> QED
    BY <1>1, <2>1, <2>2
<1> QED
  BY <1>1, <1>2, <1>3, <1>4, PastFacts, Late DEF IInv, FetchTypeOK

LEMMA SetCountKeeps == IInv /\ SetCount => IInv'
<1> SUFFICES ASSUME IInv, SetCount PROVE IInv'
  OBVIOUS
<1>1. /\ pc = "setCount" /\ Past /\ pc' = "done" /\ attr' = rowCount /\ hstmt' = "null"
      /\ UNCHANGED <<op, block, rec, parm, rowNum, cursor, data, rowCount>>
  BY DEF SetCount, Continue, fetched, Past
<1>2. Rows' /\ NotYet' /\ InLoop' /\ AfterLoop'
  BY <1>1 DEF IInv, Rows, NotYet, InLoop, AfterLoop, FromDatabase, Target
<1> QED
  BY <1>1, <1>2, PastFacts, Late DEF IInv, FetchTypeOK

LEMMA FetchStep == IInv /\ FetchNext => IInv'
  BY InitFetchKeeps, EarlyKeeps, RowCountKeeps, BindColKeeps, FetchRowKeeps, LeaveKeeps,
     SetCountKeeps DEF FetchNext

-----------------------------------------------------------------------------
(* What it says of the rows and of their number *)

LEMMA RestOf ==
  ASSUME IInv, Past, op.fetch, Sane
  PROVE  /\ block = op.block /\ rec = op.rec
         /\ op.rows \in Nat /\ op.block \in Int /\ op.rec \in Int /\ op.block >= 0 /\ op.rec > 0
  BY PastFacts DEF IInv, Asked, Sane, Past

LEMMA InOrder == IInv => RowsInOrder
<1> SUFFICES ASSUME IInv, data # <<>>, Sane
             PROVE  /\ Len(data) <= Wanted
                    /\ \A i \in 1 .. Len(data) : data[i] = op.rec + i - 1
  BY DEF RowsInOrder
<1>1. data \in Seq(Nat) /\ Len(data) > 0
  BY EmptySeq DEF IInv, FetchTypeOK
<1>2. /\ cursor # 0 /\ pc # "init" /\ op.fetch /\ op.select
      /\ block >= 0 /\ rec > 0 /\ rec <= cursor /\ cursor <= op.rows
      /\ Len(data) = cursor - rec + 1
      /\ block > 0 => Len(data) <= block
      /\ \A i \in 1 .. Len(data) : data[i] = rec + i - 1
  BY <1>1 DEF IInv, Rows
<1>3. block = op.block /\ rec = op.rec
  BY <1>2 DEF IInv, Asked, Sane
<1>4. op.rows \in Nat /\ op.block \in Int /\ op.rec \in Int /\ cursor \in Nat
  BY OpTyped DEF IInv, FetchTypeOK
<1> QED
  BY <1>2, <1>3, <1>4 DEF Wanted

LEMMA Complete == IInv => AllRows
<1> SUFFICES ASSUME IInv, pc = "done", op.fetch, op.select, Sane PROVE Len(data) = Wanted
  BY DEF AllRows
<1>1. Past
  BY DEF Past
<1>2. /\ block = op.block /\ rec = op.rec
      /\ op.rows \in Nat /\ op.block \in Int /\ op.rec \in Int /\ op.block >= 0 /\ op.rec > 0
  BY <1>1, RestOf
<1>3. \/ block > 0 /\ Len(data) = block
      \/ Target > op.rows /\ (block > 0 => Len(data) < block)
  BY DEF IInv, AfterLoop
<1>4. cursor \in Nat /\ Len(data) \in Nat
  BY <1>1, PastFacts
<1>5. CASE cursor = 0
  BY <1>2, <1>3, <1>4, <1>5 DEF IInv, Rows, Target, Wanted
<1>6. CASE cursor # 0
  <2>1. rec <= cursor /\ cursor <= op.rows /\ Len(data) = cursor - rec + 1
    BY <1>6 DEF IInv, Rows
  <2> DEFINE rest == op.rows - op.rec + 1
  <2>2. rest \in Int /\ rest >= Len(data)
        /\ Wanted = IF op.block > 0 /\ op.block < rest THEN op.block ELSE rest
    BY <1>2, <1>4, <2>1 DEF Wanted
  <2>3. CASE block > 0 /\ Len(data) = block
    BY <1>2, <1>4, <2>2, <2>3
  <2>4. CASE Target > op.rows /\ (block > 0 => Len(data) < block)
    <3>1. cursor = op.rows /\ Len(data) = rest
      BY <1>2, <1>4, <1>6, <2>1, <2>4 DEF Target
    <3> QED
      BY <1>2, <1>4, <2>2, <2>4, <3>1
  <2> QED
    BY <1>3, <2>3, <2>4
<1> QED
  BY <1>5, <1>6

LEMMA CountIsRight == IInv => CountIsNear
<1> SUFFICES ASSUME IInv, pc = "done"
             PROVE  attr = IF ~ op.select THEN op.rows
                           ELSE IF ~ op.fetch THEN -1
                           ELSE IF block > 0 /\ Len(data) = block THEN Len(data)
                           ELSE Len(data) + 1
  BY DEF CountIsNear
<1>1. block \in Int /\ Len(data) \in Nat /\ block >= 0
  BY PastFacts DEF Past
<1>2. /\ attr = rowCount
      /\ ~ op.fetch => rowCount = FromDatabase
      /\ op.fetch =>
           /\ op.select
           /\ \/ block > 0 /\ Len(data) = block /\ rowCount = block
              \/ rowCount = Len(data) + 1 /\ (block > 0 => Len(data) < block)
  BY DEF IInv, AfterLoop
<1>3. CASE op.fetch
  BY <1>1, <1>2, <1>3
<1>4. CASE ~ op.fetch
  BY <1>2, <1>4 DEF FromDatabase
<1> QED
  BY <1>3, <1>4

-----------------------------------------------------------------------------
(* An operation is the same in main() as on its own.                       *)

LEMMA CallBegins == CgiInit => IInv
<1> SUFFICES ASSUME CgiInit PROVE IInv
  OBVIOUS
<1>1. Len(data) = 0 /\ data \in Seq(Nat)
  BY DEF CgiInit
<1>2. /\ op \in Operations /\ ~ op.fetch
      /\ pc = "allocStmt" /\ block = 0 /\ rec = 1 /\ parm = 1 /\ hstmt = "null"
      /\ rowNum = 1 /\ cursor = 0 /\ rowCount = 0 /\ attr \in Int
  BY CgiCallAssumption DEF CgiInit, NotSet, CallOp
<1>3. FetchTypeOK
  BY <1>1, <1>2, FetchAssumption DEF FetchTypeOK
<1> QED
  BY <1>1, <1>2, <1>3 DEF IInv, Asked, Valid, Rows, NotYet, InLoop, AfterLoop

\* main() leaves the operation alone but for running it.
LEMMA OperationStep == IInv /\ [SqlNext]_CgiVars => IInv'
<1> SUFFICES ASSUME IInv, [SqlNext]_CgiVars PROVE IInv'
  OBVIOUS
<1>1. ASSUME UNCHANGED call PROVE IInv'
  BY <1>1 DEF call, fetched, counts, IInv, FetchTypeOK, Asked, Valid, Rows, NotYet, InLoop,
              AfterLoop, FromDatabase, Target, ToInt
<1>2. ASSUME FetchNext PROVE IInv'
  BY <1>2, FetchStep
<1>3. CASE NodeNext \/ RunCall
  BY <1>2, <1>3 DEF NodeNext, RunCall
<1>4. CASE BadRequest \/ NoLength \/ GetQuery \/ ReadContent \/ ReadFails
  BY <1>1, <1>4 DEF BadRequest, NoLength, GetQuery, ReadContent, ReadFails, Exception
<1>5. CASE ChopParms \/ UnescapeFails \/ Logon
  BY <1>1, <1>5 DEF ChopParms, UnescapeFails, Logon
<1>6. CASE CallFailed \/ TakeOutput \/ NegativeSize
  BY <1>1, <1>6 DEF CallFailed, TakeOutput, NegativeSize, Exception
<1>7. CASE Respond \/ ErrorFr \/ Done
  BY <1>1, <1>7 DEF Respond, ErrorFr, Done
<1>8. CASE UNCHANGED CgiVars
  BY <1>1, <1>8 DEF CgiVars, vars, call
<1> QED
  BY <1>3, <1>4, <1>5, <1>6, <1>7, <1>8 DEF SqlNext, CgiNext

LEMMA OperationInductive == SqlSpec => []IInv
  BY InitIsGood, CallBegins, OperationStep, PTL DEF SqlSpec, SqlInit, NodeInit

\* Every variable of an operation has its type, whatever block and rec are given.
THEOREM TypeCorrect == SqlSpec => []FetchTypeOK
  BY OperationInductive, PTL DEF IInv

\* Whether a node or main() runs it, the result of an operation is the rows
\* that were asked for, in the order of the result set: none before rec, none
\* twice, none left out, at most block.
THEOREM RowsAreAsAsked == SqlSpec => []RowsAsAsked
  BY OperationInductive, InOrder, Complete, PTL DEF RowsAsAsked

\* "rowcount" is the number of rows if the block was filled, else one more.
THEOREM CountIsOfRows == SqlSpec => []CountIsNear
  BY OperationInductive, CountIsRight, PTL
=============================================================================
