------------------------------ MODULE HttpCgi ------------------------------
(***************************************************************************)
(* The CGI program (HttpCgi.c): main() as a state machine that reads an    *)
(* HTTP request, chops its parameters, logs on to the database, calls one  *)
(* of the stored procedures and writes the response.  The call is an       *)
(* Operation of SqlFetch with three parameters.                            *)
(*                                                                         *)
(* A URL is a sequence of tags ("&db2=", ...) and other characters.  The   *)
(* client wrote it as a sequence of parameters, any character of which may *)
(* be escaped: "%" and two digits count as the one character they stand    *)
(* for until the URL is unescaped.  A tag within a value is one whose "&"  *)
(* was escaped.  Blanks, case and the CCSIDs put in front of ctl are left  *)
(* out.                                                                    *)
(***************************************************************************)
EXTENDS SqlFetch, FiniteSets, SequencesExt

CONSTANTS
  Chars,    \* what values are made of
  Nul,      \* the end of a text in C
  Rest,     \* what is left of an escaped text behind the end of its decoded form
  Requests, \* the requests that may come
  OutSize(_),  \* the number atoi finds at the start of a value
  Answers,  \* how long the service's answers are
  BuffSize  \* how much one read() takes at most

Tags == {"db2", "uid", "pwd", "ctl", "in", "out"}
Methods == {"unset", "POST", "GET", "HEAD"} \* POST is also PUT and DELETE
NoQuery == <<"no query string">>

ASSUME CgiAssumption ==
  /\ Chars \cap Tags = {} /\ {Nul, Rest} \cap (Chars \cup Tags) = {}
  /\ \A r \in Requests :
       /\ r.method \in Methods /\ r.mixed \in BOOLEAN /\ r.escapes \subseteq Nat
       /\ r.length \in {"unset", "none", "some"}
       /\ r.parms = NoQuery \/ r.parms \in Seq(Tags \X Seq(Chars \cup Tags))
  /\ Answers \subseteq Nat
  /\ BuffSize \in Nat \ {0}

VARIABLES
  request,  \* what the client sent
  status,   \* the state of main()
  unread,   \* the content that has not been read
  url,      \* url
  parms,    \* db2, uid, pwd, ctl, in and out once they are chopped
  conn,     \* the connection: "none", "open"
  henv,     \* the environment is there
  out,      \* out
  response, \* what was written
  ended     \* the program's end: "no", "returned", "exception"

cgi == <<request, status, unread, url, parms, conn, henv, out, response, ended>>
call == <<op, pc, block, rec, parm, hstmt, fetched, counts>>

NoOut == [kind |-> "none", of |-> <<>>, size |-> 0, cut |-> FALSE]

\* "CALL IPLUGn(?,?,?)", an operation that was not given by a node.
CallOp == [type |-> "EXEC", select |-> FALSE, rows |-> 0, markers |-> 3, parms |-> 3,
           fetch |-> FALSE, block |-> 0, rec |-> 1]

\* The bounds of the operations leave room for this one.
ASSUME CgiCallAssumption == CallOp \in Operations

\* The text of a request: the first tag gets its "&" from chopParms.  Some of
\* its characters, request.escapes, are escaped.
Text(list) == FlattenSeq([i \in DOMAIN list |-> <<list[i][1]>> \o list[i][2]])

CgiInit ==
  /\ request \in Requests
  /\ status = "RTV_URL"
  /\ unread = IF request.parms = NoQuery THEN <<>> ELSE Text(request.parms)
  /\ url = <<>> /\ parms = <<>>
  /\ conn = "none" /\ henv = FALSE
  /\ out = NoOut /\ response = NoOut /\ ended = "no"
  /\ op = CallOp /\ pc = "allocStmt"
  /\ block = 0 /\ rec = 1 /\ parm = 1 /\ hstmt = "null"
  /\ rowNum = 1 /\ cursor = 0 /\ data = <<>> /\ rowCount = 0 /\ attr = NotSet
  /\ fr = Clean

-----------------------------------------------------------------------------
Error(code) == status' = "ERROR_FR" /\ fr' = Report(fr, code, Author)

\* SqlUtil::clear
Clear == conn' = "none" /\ henv' = FALSE

\* The handler of main().
Exception ==
  /\ status' = "END" /\ ended' = "exception"
  /\ Clear
  /\ UNCHANGED <<request, unread, url, parms, out, response, call, fr>>

\* No method, or none that is known; no length of the content; no query.
BadRequest ==
  /\ status = "RTV_URL" /\ url = <<>>
  /\ \/ request.method \in {"unset", "HEAD"}
     \/ request.method = "POST" /\ request.length = "none"
     \/ request.method = "GET" /\ request.parms = NoQuery
  /\ Error("CGI_RTV_URL")
  /\ UNCHANGED <<request, unread, url, parms, conn, henv, out, response, ended, call>>

\* atoi(getenv("CONTENT_LENGTH")) of a variable that is not there.
NoLength ==
  /\ status = "RTV_URL"
  /\ request.method = "POST" /\ request.length = "unset"
  /\ Exception

GetQuery ==
  /\ status = "RTV_URL"
  /\ request.method = "GET" /\ request.parms # NoQuery
  /\ url' = unread /\ unread' = <<>>
  /\ status' = "CHOP_PARMS"
  /\ UNCHANGED <<request, parms, conn, henv, out, response, ended, call, fr>>

\* read() gives as much as there is, or less, and what is less than the buffer
\* is taken for the end of the content, whatever its length is said to be.
ReadContent ==
  /\ status = "RTV_URL"
  /\ request.method = "POST" /\ request.length = "some"
  /\ \E n \in 0 .. BuffSize :
       /\ n <= Len(unread)
       /\ n = 0 => unread = <<>>
       /\ url' = url \o SubSeq(unread, 1, n)
       /\ unread' = SubSeq(unread, n + 1, Len(unread))
       /\ status' = IF n < BuffSize THEN "CHOP_PARMS" ELSE status
  /\ UNCHANGED <<request, parms, conn, henv, out, response, ended, call, fr>>

ReadFails ==
  /\ status = "RTV_URL"
  /\ request.method = "POST" /\ request.length = "some"
  /\ Error("CGI_RTV_URL")
  /\ UNCHANGED <<request, unread, url, parms, conn, henv, out, response, ended, call>>

-----------------------------------------------------------------------------
\* unescapeUrl decodes the text in its place.  The string keeps its length: if
\* anything was escaped it goes on behind the decoded text with a NUL and the
\* end of the text as it came.  There is no tag in that which is not found
\* further in front.
Stale == <<Nul, Rest>>
Unescaped(text) == text \o (IF request.escapes \cap DOMAIN text = {} THEN <<>> ELSE Stale)

\* chopParms: the first place of each tag, and the value from there to the
\* next of these places, or to the end.
Position(text, tag) == SelectInSeq(text, LAMBDA c : c = tag)

\* Variant: the tags are where the documentation has them.
ValueIn_Unsorted(text, tag) ==
  LET order == <<"db2", "uid", "pwd", "ctl", "in", "out">>
      i == Position(order, tag)
  IN  SubSeq(text, Position(text, tag) + 1,
             IF tag = "out" THEN Len(text) ELSE Position(text, order[i + 1]) - 1)

ValueIn(text, tag) ==
  LET from == Position(text, tag)
      places == {Position(text, t) : t \in Tags}
      ends == {i \in places : i > from}
  IN  SubSeq(text, from + 1, IF ends = {} THEN Len(text) ELSE Min(ends) - 1)

\* The URL is unescaped and chopped; nothing looks at it later.
ChopParms ==
  /\ status = "CHOP_PARMS"
  /\ ~ request.mixed
  /\ LET text == Unescaped(url)
     IN  IF \A t \in Tags : Position(text, t) # 0
           THEN /\ parms' = [t \in Tags |-> ValueIn(text, t)]
                /\ status' = "LOGON"
                /\ UNCHANGED fr
           ELSE Error("CGI_CHOP_PARMS") /\ UNCHANGED parms
  /\ UNCHANGED <<request, unread, url, conn, henv, out, response, ended, call>>

\* The URL cannot be unescaped, or CGI_MODE says MIXED.
UnescapeFails ==
  /\ status = "CHOP_PARMS"
  /\ Error("CGI_CHOP_PARMS")
  /\ UNCHANGED <<request, unread, url, parms, conn, henv, out, response, ended, call>>

\* SqlUtil::connect in server mode; what it made is kept if it fails.
Logon ==
  /\ status = "LOGON"
  /\ \/ /\ henv' = TRUE /\ conn' = "open"
        /\ status' = "RUN"
        /\ UNCHANGED fr
     \/ /\ henv' \in BOOLEAN
        /\ Error("SQL_INIT")
        /\ UNCHANGED conn
     \/ /\ henv' = TRUE
        /\ Error("SQL_RUN")
        /\ UNCHANGED conn
  /\ UNCHANGED <<request, unread, url, parms, out, response, ended, call>>

-----------------------------------------------------------------------------
\* The procedures, what each is chosen for, and the size of the buffer that it
\* gives to runService (Storedp.sqlcpp).
Procedure(above, upTo, buffer) == [above |-> above, upTo |-> upTo, buffer |-> buffer]
\* Variant: one procedure is left out of the choice.
Procedures_Gap ==
  { Procedure(-2147483647, 4096, 4000), Procedure(4096, 32768, 32000),
    Procedure(32768, 65536, 65000), Procedure(65536, 1048576, 512000),
    Procedure(1048576, 5242880, 5000000), Procedure(5242880, 10485760, 10000000),
    Procedure(10485760, 2147483647, 15000000) }

Procedures ==
  { Procedure(-2147483647, 4096, 4000), Procedure(4096, 32768, 32000),
    Procedure(32768, 65536, 65000), Procedure(65536, 524288, 512000),
    Procedure(524288, 1048576, 1000000), Procedure(1048576, 5242880, 5000000),
    Procedure(5242880, 10485760, 10000000), Procedure(10485760, 2147483647, 15000000) }

Chosen(size) == CHOOSE p \in Procedures : p.above < size /\ size <= p.upTo

out_size == OutSize(parms["out"])

\* Operation::run
RunCall ==
  /\ status = "RUN" /\ pc \notin {"done", "failed"}
  /\ FetchNext
  /\ UNCHANGED cgi

\* Variant: the call is made again.
CallFailed_Retry ==
  /\ status = "RUN" /\ pc = "failed"
  /\ pc' = "allocStmt" /\ hstmt' = "null" /\ rowCount' = 0 /\ fr' = Clean
  /\ UNCHANGED <<cgi, op, block, rec, parm, fetched, attr>>

CallFailed ==
  /\ status = "RUN" /\ pc = "failed"
  /\ status' = "ERROR_FR"
  /\ UNCHANGED <<request, unread, url, parms, conn, henv, out, response, ended, call, fr>>

\* Variant: the whole of the parameter's buffer.
TakeOutput_All ==
  /\ status = "RUN" /\ pc = "done" /\ out_size >= 0
  /\ \E answer \in Answers :
       LET given == IF answer > Chosen(out_size).buffer THEN Chosen(out_size).buffer ELSE answer
       IN  out' = [kind |-> "output", of |-> parms["in"], size |-> given, cut |-> given < answer]
  /\ status' = "RESPONSE"
  /\ UNCHANGED <<request, unread, url, parms, conn, henv, response, ended, call, fr>>

\* The service cuts its answer at the end of the buffer it is given, and of
\* that no more is taken than was asked for.
TakeOutput ==
  /\ status = "RUN" /\ pc = "done" /\ out_size >= 0
  /\ \E answer \in Answers :
       LET given == IF answer > Chosen(out_size).buffer THEN Chosen(out_size).buffer ELSE answer
           size == IF out_size > given THEN given ELSE out_size
       IN  out' = [kind |-> "output", of |-> parms["in"], size |-> size, cut |-> size < answer]
  /\ status' = "RESPONSE"
  /\ UNCHANGED <<request, unread, url, parms, conn, henv, response, ended, call, fr>>

\* A negative size is an impossible one for append().
NegativeSize ==
  /\ status = "RUN" /\ pc = "done" /\ out_size < 0
  /\ Exception

Respond ==
  /\ status = "RESPONSE"
  /\ response' = out
  /\ status' = "DONE"
  /\ UNCHANGED <<request, unread, url, parms, conn, henv, out, ended, call, fr>>

\* The flight recorder's messages are the output.
ErrorFr ==
  /\ status = "ERROR_FR"
  /\ out' = [NoOut EXCEPT !.kind = "messages"]
  /\ status' = "RESPONSE"
  /\ UNCHANGED <<request, unread, url, parms, conn, henv, response, ended, call, fr>>

Done ==
  /\ status = "DONE"
  /\ Clear
  /\ status' = "END" /\ ended' = "returned"
  /\ UNCHANGED <<request, unread, url, parms, out, response, call, fr>>

CgiNext ==
  \/ BadRequest \/ NoLength \/ GetQuery \/ ReadContent \/ ReadFails
  \/ ChopParms \/ UnescapeFails \/ Logon
  \/ RunCall \/ CallFailed \/ TakeOutput \/ NegativeSize
  \/ Respond \/ ErrorFr \/ Done

CgiVars == <<cgi, vars>>

\* The operation of an SQL node, which is run without any of this.
NodeInit ==
  /\ FetchInit
  /\ request \in Requests
  /\ status = "NODE" /\ unread = <<>> /\ url = <<>> /\ parms = <<>>
  /\ conn = "none" /\ henv = FALSE
  /\ out = NoOut /\ response = NoOut /\ ended = "no"

NodeNext == status = "NODE" /\ FetchNext /\ UNCHANGED cgi

SqlInit == NodeInit \/ CgiInit
SqlNext == NodeNext \/ CgiNext
SqlSpec == SqlInit /\ [][SqlNext]_CgiVars /\ WF_CgiVars(SqlNext)

-----------------------------------------------------------------------------
(* Properties *)

CgiTypeOK ==
  /\ request \in Requests
  /\ status \in {"NODE", "RTV_URL", "CHOP_PARMS", "LOGON", "RUN", "RESPONSE", "ERROR_FR",
                 "DONE", "END"}
  /\ unread \in Seq(Chars \cup Tags) /\ url \in Seq(Chars \cup Tags)
  /\ parms = <<>> \/ parms \in [Tags -> Seq(Chars \cup Tags \cup {Nul, Rest})]
  /\ conn \in {"none", "open"} /\ henv \in BOOLEAN
  /\ out.kind \in {"none", "output", "messages"}
  /\ response \in {NoOut, out}
  /\ ended \in {"no", "returned", "exception"}

\* Every parameter is sent once, and no value has a tag in it.
Plain ==
  \A t \in Tags :
    /\ Cardinality({i \in DOMAIN request.parms : request.parms[i][1] = t}) = 1
    /\ \A i \in DOMAIN request.parms : t \notin Range(request.parms[i][2])

\* The procedure is called with the values the client wrote, in whatever order
\* it wrote them, provided no read() is short before the end of the content.
\* It is not said of the last one if anything is escaped.  In the order of
\* src/README.md:33 that one is the size of the output, which is right even so.
RunsWhatWasSent ==
  parms # <<>> /\ Plain /\ unread = <<>> =>
    \A i \in DOMAIN request.parms :
      LET tag == request.parms[i][1]
          sent == request.parms[i][2]
      IN  /\ i < Len(request.parms) \/ request.escapes = {} => parms[tag] = sent
          /\ tag = "out" => out_size = OutSize(sent)

\* HttpCgi.c:131 gives "in" as the input.  TLC finds this violated when it
\* comes last and something is escaped: it is bound by its length
\* (SqlUtil.c:558), with a NUL and what is left of the text behind it.
InputIsAsSent ==
  parms # <<>> /\ Plain /\ unread = <<>> =>
    \A i \in DOMAIN request.parms :
      request.parms[i][1] = "in" => parms["in"] = request.parms[i][2]

\* The procedure that is chosen has room for what was asked for, but for less
\* than a twentieth of it, up to the largest procedure's 15000000.
Nearly(size, asked) == size = 15000000 \/ asked - size < asked \div 20

RoomForOutput ==
  response.kind = "output" /\ response.cut /\ response.size < out_size =>
    Nearly(response.size, out_size)

\* main() that returns has answered: with the output of the call for this
\* request's input if every step has succeeded, and no more of it than was asked
\* for, nor much less; or with messages, and there are some.
AnswersTheRequest ==
  /\ ended = "returned" => response.kind # "none"
  /\ response.kind = "output" =>
       /\ fr = Clean /\ pc = "done"
       /\ response.of = parms["in"] /\ response.size <= out_size
  /\ RoomForOutput
  /\ response.kind = "messages" => fr.code # OK /\ fr.msgs # <<>>

\* No way out leaves a connection or the environment behind, nor is anything
\* asked of the database without them.
NothingLeft ==
  /\ status = "END" => conn = "none" /\ ~ henv
  /\ status = "RUN" => conn = "open" /\ henv

\* The program ends, whatever it is sent and whatever fails, and so does an
\* operation of an SQL node with its loops over parameters and rows.
EverythingEnds ==
  /\ (status = "RTV_URL") ~> (ended # "no")
  /\ OperationEnds
=============================================================================
