------------------------------ MODULE SqlPool ------------------------------
(***************************************************************************)
(* The pool of SQL connections of a job (SqlUtil.c) over its requests.     *)
(*                                                                         *)
(* A request is a sequence of "sql" nodes.  Parsing it initialises an      *)
(* SqlUtil for each node, which enters the connections of the node in the  *)
(* pool and looks the connections of its operations up by their labels.    *)
(* When all is parsed the nodes are run one by one: connect everything in  *)
(* the pool, then run the operations.  At the end of the request all       *)
(* SqlUtil objects are deleted in order, and each frees all connections,   *)
(* the ones it lists, or none.  What is not freed is there for the next    *)
(* request of the job, which may be that of another client if the job is   *)
(* an IPC server.                                                          *)
(*                                                                         *)
(* The list _conns_p is a set of connections numbered in the order they    *)
(* were made, which is their order in the list.  Statement texts, result   *)
(* sets and the attributes of a connection other than autocommit are left  *)
(* out; the database answers in any way.                                   *)
(***************************************************************************)
EXTENDS Naturals, Sequences

CONSTANTS
  Labels,    \* the texts a label may be
  Empty,     \* the empty label
  Local,     \* "*LOCAL", which is a label and the name of a database
  Unlabeled, \* attribute "conn" of an operation not given
  Upper,     \* cvt2Upper on labels
  Gen,       \* Gen[db]: db + user + pwd of a connection that has them
  Requests,  \* the requests that may come
  MaxReq     \* how many do (bound)

Dbs == DOMAIN Gen
Modes == {"unset", "on", "off", "invalid"}

\* The attributes of a node: servermode, connect, operation and free.  An
\* element is valid if nothing else that it needs is missing or wrong.
ConnSpecs ==
  [conn : Labels, db : Dbs, cred : BOOLEAN, autocommit : BOOLEAN, valid : BOOLEAN]
OpSpecs ==
  [type : {"EXEC", "COMMIT"}, conn : Labels \cup {Unlabeled}, valid : BOOLEAN]
FreeSpecs ==
  [kind : {"unset", "all", "none", "invalid"}, labels : {{}}]
    \cup [kind : {"array"}, labels : SUBSET Labels]
Nodes == [servermode : Modes, connect : Seq(ConnSpecs), operation : Seq(OpSpecs),
          free : FreeSpecs]

ASSUME PoolAssumption ==
  /\ Empty \in Labels /\ Local \in Labels \ {Empty} /\ Unlabeled \notin Labels
  /\ Upper \in [Labels -> Labels]
  /\ Gen \in [Dbs -> Labels \ {Empty}]
  /\ Dbs \subseteq Labels \ {Empty} /\ Local \in Dbs
  /\ Requests \subseteq Seq(Nodes) /\ <<>> \notin Requests
  /\ MaxReq \in Nat

VARIABLES
  pool,       \* the connections in _conns_p
  listed,     \* _conns_p is not NULL
  henv,       \* _henv is not null
  serverMode, \* _server_mode
  made,       \* how many connections have been made
  hdbc,       \* the connections that have a handle of the database
  live,       \* those of the pool that the database has connected
  hstmt,      \* the statement handles that exist: <<connection, request, node, op>>
  req,        \* the request at work
  reqNo,      \* its number
  pc,         \* the place in parseNode, runNode or the destructors
  ni,         \* the node there
  at,         \* the connection or operation of the node there
  utils,      \* the SqlUtil objects of the request
  code,       \* fr.code()
  refused,    \* history: those in hdbc that were deleted, but not freed
  ran         \* history: the operations that were carried out

env == <<listed, henv>>
handles == <<hdbc, live, hstmt, refused>>
place == <<pc, ni, at>>
vars == <<pool, env, serverMode, made, handles, req, reqNo, place, utils, code, ran>>

Conns == [no : Nat \ {0}, label : Labels, gen : Labels, auto : BOOLEAN]
Utils == [ops : Seq([type : {"EXEC", "COMMIT"}, conn : Nat]),
          free_all : BOOLEAN, conns2free : SUBSET Labels]
Parsing == {"INIT", "CONNECT", "OPERATION", "PARSED"}
Running == {"RUN", "POOL", "EXEC"}

TypeOK ==
  /\ pool \subseteq Conns
  /\ listed \in BOOLEAN /\ henv \in BOOLEAN /\ serverMode \in BOOLEAN
  /\ made \in Nat
  /\ hdbc \subseteq 1 .. made /\ live \subseteq hdbc /\ refused \subseteq hdbc
  /\ hstmt \subseteq hdbc \X Nat \X Nat \X Nat
  /\ req \in Requests \cup {<<>>} /\ reqNo \in 0 .. MaxReq
  /\ pc \in {"IDLE", "DELETE"} \cup Parsing \cup Running
  /\ ni \in Nat /\ at \in Nat
  /\ utils \in Seq(Utils)
  /\ code \in {"OK", "INIT", "RUN", "PARSE"}
  /\ ran \subseteq Nat \X Nat

Init ==
  /\ pool = {} /\ listed = FALSE /\ henv = FALSE /\ serverMode = TRUE
  /\ made = 0 /\ hdbc = {} /\ live = {} /\ hstmt = {} /\ refused = {}
  /\ req = <<>> /\ reqNo = 0
  /\ pc = "IDLE" /\ ni = 1 /\ at = 1
  /\ utils = <<>> /\ code = "OK" /\ ran = {}

-----------------------------------------------------------------------------
(* The pool                                                                *)

Numbers == {x.no : x \in pool}

\* A label finds a connection by the label it was given, or by its database,
\* user and password put together.
Matches(x, label) == label # Empty /\ (x.label = label \/ x.gen = label)
Found(label) == \E x \in pool : Matches(x, label)

\* The first one in the list, if there is one.
GetConnection(label) ==
  CHOOSE x \in pool :
    Matches(x, label) /\ \A y \in pool : Matches(y, label) => x.no <= y.no

\* A new connection at the end of the list.
AddConnection(label, gen, auto) ==
  /\ made' = made + 1
  /\ pool' = pool \cup {[no |-> made + 1, label |-> label, gen |-> gen, auto |-> auto]}

\* Variant: the handle is left to the database.
Release_NotHandle(gone) ==
  /\ pool' = pool \ gone
  /\ UNCHANGED handles

\* Connections are deleted: disconnected, and their handles freed.  The
\* database may refuse either, as it does with a transaction that is not ended;
\* ~SqlConn does not look, and its _hdbc is gone.
Release(gone) ==
  LET nos == {x.no : x \in gone} IN
  \E kept \in SUBSET (nos \cap hdbc) :
    /\ pool' = pool \ gone
    /\ hdbc' = hdbc \ (nos \ kept)
    /\ live' = live \ nos
    /\ hstmt' = {s \in hstmt : s[1] \notin nos \ kept}
    /\ refused' = refused \cup kept

-----------------------------------------------------------------------------
(* Parsing: SqlUtil::init, SqlConn::init, Operation::init                  *)

Node == req[ni]

StartRequest ==
  /\ pc = "IDLE"
  /\ reqNo < MaxReq
  /\ req' \in Requests
  /\ reqNo' = reqNo + 1
  /\ pc' = "INIT" /\ ni' = 1 /\ at' = 1
  /\ utils' = <<>> /\ code' = "OK" /\ ran' = {}
  /\ UNCHANGED <<pool, env, serverMode, made, handles>>

\* The request is given up: parseNode deletes what it has built.
Abort(why) ==
  /\ code' = why
  /\ pc' = "DELETE" /\ ni' = 1 /\ at' = 1

\* On to the next node; the request is parsed after the last.
NextInit ==
  /\ IF ni < Len(req) THEN pc' = "INIT" /\ ni' = ni + 1 ELSE pc' = "PARSED" /\ ni' = 1
  /\ at' = 1
  /\ UNCHANGED code

\* The input is not well formed, before a node or after the last.
ParseFails ==
  /\ pc \in {"INIT", "PARSED"}
  /\ Abort("PARSE")
  /\ UNCHANGED <<pool, env, serverMode, made, handles, req, reqNo, utils, ran>>

\* The constructor, the list, and "servermode".
InitNode ==
  /\ pc = "INIT"
  /\ utils' = Append(utils, [ops |-> <<>>, free_all |-> TRUE, conns2free |-> {}])
  /\ listed' = TRUE
  /\ \/ /\ Node.servermode = "invalid"
        /\ Abort("INIT")
        /\ UNCHANGED serverMode
     \/ /\ Node.servermode # "invalid"
        /\ serverMode' = IF Node.servermode = "unset" THEN serverMode
                         ELSE Node.servermode = "on"
        /\ pc' = "CONNECT"
        /\ UNCHANGED <<ni, at, code>>
  /\ UNCHANGED <<pool, henv, made, handles, req, reqNo, ran>>

\* User and password are read, and asked for, in server mode only.
Complete(c) == c.valid /\ (serverMode => c.cred)

\* Variant: a label may be given twice.
InitConn_Twice ==
  /\ pc = "CONNECT"
  /\ at <= Len(Node.connect)
  /\ LET c == Node.connect[at] IN
       /\ Complete(c)
       /\ AddConnection(c.conn, IF serverMode THEN Gen[c.db] ELSE c.db, c.autocommit)
       /\ at' = at + 1
       /\ UNCHANGED <<pc, ni, code>>
  /\ UNCHANGED <<env, serverMode, handles, req, reqNo, utils, ran>>

\* One element of "connect".  A label that is taken ends the initialisation of
\* the node without an error.
InitConn ==
  /\ pc = "CONNECT"
  /\ at <= Len(Node.connect)
  /\ LET c == Node.connect[at] IN
       \/ /\ ~ Complete(c)
          /\ Abort("INIT")
          /\ UNCHANGED <<pool, made>>
       \/ /\ Complete(c)
          /\ Found(c.conn)
          /\ NextInit
          /\ UNCHANGED <<pool, made>>
       \/ /\ Complete(c)
          /\ ~ Found(c.conn)
          /\ AddConnection(c.conn, IF serverMode THEN Gen[c.db] ELSE c.db, c.autocommit)
          /\ at' = at + 1
          /\ UNCHANGED <<pc, ni, code>>
  /\ UNCHANGED <<env, serverMode, handles, req, reqNo, utils, ran>>

ConnsDone ==
  /\ pc = "CONNECT"
  /\ at > Len(Node.connect)
  /\ pc' = "OPERATION" /\ at' = 1
  /\ UNCHANGED <<pool, env, serverMode, made, handles, req, reqNo, ni, utils, code, ran>>

\* Operation o is ready to be run on connection no.
AddOp(o, no) ==
  /\ utils' = [utils EXCEPT ![ni].ops = Append(@, [type |-> o.type, conn |-> no])]
  /\ at' = at + 1
  /\ UNCHANGED <<pc, ni, code>>

\* One element of "operation" that names a connection, or should.
InitOp ==
  /\ pc = "OPERATION"
  /\ at <= Len(Node.operation)
  /\ LET o == Node.operation[at]
         named == o.conn # Unlabeled /\ Found(o.conn)
         usable == /\ named /\ o.valid
                   /\ o.type = "COMMIT" => ~ GetConnection(o.conn).auto
     IN /\ ~ (o.type = "EXEC" /\ o.conn = Unlabeled)
        /\ \/ usable /\ AddOp(o, GetConnection(o.conn).no)
           \/ ~ usable /\ Abort("INIT") /\ UNCHANGED utils
  /\ UNCHANGED <<pool, env, serverMode, made, handles, req, reqNo, ran>>

\* Variant: the new connection does not get into the pool.
InitOpLocal_NotAdded ==
  /\ pc = "OPERATION"
  /\ at <= Len(Node.operation)
  /\ LET o == Node.operation[at] IN
       /\ o.type = "EXEC" /\ o.conn = Unlabeled /\ o.valid
       /\ AddOp(o, IF Found(Local) THEN GetConnection(Local).no ELSE made + 1)
       /\ made' = IF Found(Local) THEN made ELSE made + 1
  /\ UNCHANGED <<pool, env, serverMode, handles, req, reqNo, ran>>

\* One that names none: the connection *LOCAL, made if there is none yet.
InitOpLocal ==
  /\ pc = "OPERATION"
  /\ at <= Len(Node.operation)
  /\ LET o == Node.operation[at] IN
       /\ o.type = "EXEC" /\ o.conn = Unlabeled
       /\ \/ Found(Local) /\ UNCHANGED <<pool, made>>
          \/ ~ Found(Local) /\ AddConnection(Local, Local, TRUE)
       /\ \/ o.valid /\ AddOp(o, IF Found(Local) THEN GetConnection(Local).no ELSE made + 1)
          \/ ~ o.valid /\ Abort("INIT") /\ UNCHANGED utils
  /\ UNCHANGED <<env, serverMode, handles, req, reqNo, ran>>

\* "free": labels are put in upper case.
InitFree ==
  /\ pc = "OPERATION"
  /\ at > Len(Node.operation)
  /\ LET f == Node.free IN
       \/ f.kind = "invalid" /\ Abort("INIT") /\ UNCHANGED utils
       \/ f.kind \in {"unset", "all"} /\ NextInit /\ UNCHANGED utils
       \/ /\ f.kind \in {"none", "array"}
          /\ utils' = [utils EXCEPT
               ![ni].free_all = (f.kind = "array" /\ f.labels = {}),
               ![ni].conns2free = {Upper[l] : l \in f.labels}]
          /\ NextInit
  /\ UNCHANGED <<pool, env, serverMode, made, handles, req, reqNo, ran>>

\* All nodes are parsed; run the first.
Parsed ==
  /\ pc = "PARSED"
  /\ pc' = "RUN"
  /\ UNCHANGED <<pool, env, serverMode, made, handles, req, reqNo, ni, at, utils, code, ran>>

-----------------------------------------------------------------------------
(* Running: SqlUtil::run, SqlConn::connect, Operation::run                 *)

Util == utils[ni]

\* The node is over; the next one is run unless there was an error.
EndNode ==
  /\ IF code' = "OK" /\ ni < Len(req) THEN pc' = "RUN" /\ ni' = ni + 1
                                      ELSE pc' = "DELETE" /\ ni' = 1
  /\ at' = 1

\* SqlUtil::initEnv.  The environment may be there though making it failed.
InitEnv ==
  /\ pc = "RUN"
  /\ \/ /\ henv' = TRUE
        /\ pc' = "POOL" /\ at' = 1
        /\ UNCHANGED <<ni, code>>
     \/ /\ ~ henv
        /\ henv' \in BOOLEAN
        /\ code' = "INIT"
        /\ EndNode
  /\ UNCHANGED <<pool, listed, serverMode, made, handles, req, reqNo, utils, ran>>

\* Connect the pool in order; at is the first number not seen yet.
ToConnect == {x \in pool : x.no >= at}
First == CHOOSE x \in ToConnect : \A y \in ToConnect : x.no <= y.no

\* A connection with a handle counts as active ...
ConnActive ==
  /\ pc = "POOL"
  /\ ToConnect # {}
  /\ First.no \in hdbc
  /\ at' = First.no + 1
  /\ UNCHANGED <<pool, env, serverMode, made, handles, req, reqNo, pc, ni, utils, code, ran>>

\* ... another gets one and is connected.
Connect ==
  /\ pc = "POOL"
  /\ ToConnect # {}
  /\ First.no \notin hdbc
  /\ hdbc' = hdbc \cup {First.no}
  /\ live' = live \cup {First.no}
  /\ at' = First.no + 1
  /\ UNCHANGED <<pool, env, serverMode, made, hstmt, refused, req, reqNo, pc, ni, utils,
                 code, ran>>

\* No handle can be had, or there is one when an attribute or the connect fails.
ConnectFails ==
  /\ pc = "POOL"
  /\ ToConnect # {}
  /\ First.no \notin hdbc
  /\ \/ UNCHANGED hdbc
     \/ hdbc' = hdbc \cup {First.no}
  /\ code' = "RUN"
  /\ EndNode
  /\ UNCHANGED <<pool, env, serverMode, made, live, hstmt, refused, req, reqNo, utils,
                 ran>>

PoolDone ==
  /\ pc = "POOL"
  /\ ToConnect = {}
  /\ pc' = "EXEC" /\ at' = 1
  /\ UNCHANGED <<pool, env, serverMode, made, handles, req, reqNo, ni, utils, code, ran>>

AtOp(type) ==
  pc = "EXEC" /\ at <= Len(Util.ops) /\ code = "OK" /\ Util.ops[at].type = type

NextOp ==
  /\ ran' = ran \cup {<<ni, at>>}
  /\ at' = at + 1
  /\ UNCHANGED <<pc, ni>>

\* A statement; its handle is allocated, used and freed.
Exec ==
  /\ AtOp("EXEC")
  /\ Util.ops[at].conn \in live
  /\ NextOp
  /\ UNCHANGED <<pool, env, serverMode, made, handles, req, reqNo, utils, code>>

\* It fails, before it has a handle or later.
ExecFails ==
  /\ AtOp("EXEC")
  /\ \/ UNCHANGED hstmt
     \/ hstmt' = hstmt \cup {<<Util.ops[at].conn, reqNo, ni, at>>}
  /\ code' = "RUN"
  /\ EndNode
  /\ UNCHANGED <<pool, env, serverMode, made, hdbc, live, refused, req, reqNo, utils,
                 ran>>

\* A commit or rollback that succeeds makes Operation::run return false ...
CommitTranct ==
  /\ AtOp("COMMIT")
  /\ Util.ops[at].conn \in live
  /\ ran' = ran \cup {<<ni, at>>}
  /\ UNCHANGED code
  /\ EndNode
  /\ UNCHANGED <<pool, env, serverMode, made, handles, req, reqNo, utils>>

\* ... and one that fails makes it return true; the error is met by the next
\* operation.
CommitFails ==
  /\ AtOp("COMMIT")
  /\ code' = "RUN"
  /\ at' = at + 1
  /\ UNCHANGED <<pool, env, serverMode, made, handles, req, reqNo, pc, ni, utils, ran>>

OpsDone ==
  /\ pc = "EXEC"
  /\ at > Len(Util.ops) \/ code # "OK"
  /\ UNCHANGED code
  /\ EndNode
  /\ UNCHANGED <<pool, env, serverMode, made, handles, req, reqNo, utils, ran>>

-----------------------------------------------------------------------------
(* The end of the request: ~SqlUtil, SqlUtil::clear                        *)

\* The environment is given up too, whether or not SQLFreeEnv frees it.
Clear ==
  /\ Release(pool)
  /\ listed' = FALSE /\ henv' = FALSE /\ serverMode' = FALSE

\* There may be several connections with an empty label.
FirstOfLabel(x) == \A y \in pool : y.label = x.label => x.no <= y.no

\* Variant: connections are only freed by the last node.
DeleteUtil_Last ==
  /\ pc = "DELETE"
  /\ ni <= Len(utils)
  /\ ni' = ni + 1
  /\ \/ /\ ni < Len(utils) \/ ~ listed \/ ~ Util.free_all
        /\ UNCHANGED <<pool, env, serverMode, handles>>
     \/ /\ ni = Len(utils) /\ listed /\ Util.free_all
        /\ Clear
  /\ UNCHANGED <<made, req, reqNo, pc, at, utils, code, ran>>

DeleteUtil ==
  /\ pc = "DELETE"
  /\ ni <= Len(utils)
  /\ ni' = ni + 1
  /\ \/ /\ ~ listed
        /\ UNCHANGED <<pool, env, serverMode, handles>>
     \/ /\ listed /\ Util.free_all
        /\ Clear
     \/ /\ listed /\ ~ Util.free_all
        /\ Release({x \in pool : x.label \in Util.conns2free /\ FirstOfLabel(x)})
        /\ UNCHANGED <<env, serverMode>>
  /\ UNCHANGED <<made, req, reqNo, pc, at, utils, code, ran>>

EndRequest ==
  /\ pc = "DELETE"
  /\ ni > Len(utils)
  /\ pc' = "IDLE" /\ ni' = 1
  /\ UNCHANGED <<pool, env, serverMode, made, handles, req, reqNo, at, utils, code, ran>>

\* All requests are over.
Quiescent == pc = "IDLE" /\ reqNo = MaxReq /\ UNCHANGED vars

Next ==
  \/ StartRequest \/ ParseFails \/ InitNode \/ InitConn \/ ConnsDone
  \/ InitOp \/ InitOpLocal \/ InitFree \/ Parsed
  \/ InitEnv \/ ConnActive \/ Connect \/ ConnectFails \/ PoolDone
  \/ Exec \/ ExecFails \/ CommitTranct \/ CommitFails \/ OpsDone
  \/ DeleteUtil \/ EndRequest \/ Quiescent

Spec == Init /\ [][Next]_vars

-----------------------------------------------------------------------------
(* Properties                                                              *)

\* No label is ambiguous: the lookup by label, or by database, user and
\* password, finds each connection that has a label by it, whatever was added
\* and freed in between and by which node (addConnection and getConnection).
LabelResolves == \A x \in pool : x.label # Empty => GetConnection(x.label) = x

\* An operation keeps a pointer to its connection from parsing until it is
\* run.  It is in the pool all the time, and has a handle when it is used.
NoDanglingConn ==
  pc \in Parsing \cup Running =>
    \A i \in DOMAIN utils : \A j \in DOMAIN utils[i].ops :
      /\ utils[i].ops[j].conn \in Numbers
      /\ pc = "EXEC" => utils[i].ops[j].conn \in hdbc

\* The job never loses a handle of the database that it has not tried to free,
\* by whatever request was given up at whatever place: the handles without a
\* connection are those that the database has refused to free.
NoHandleLeak == hdbc \subseteq Numbers \cup refused

\* The environment outlives the handles that were allocated with it, but for
\* those the database has refused to free.
HandlesHaveEnv == hdbc # refused => henv

\* "free" : "all" of any node holds for the whole request: nothing is left for
\* the next one, though the other nodes are deleted before and after it; no
\* handle either, but those the database has refused to free.
FreeAllLeavesNothing ==
  pc = "IDLE" /\ (\E i \in DOMAIN utils : utils[i].free_all) =>
    pool = {} /\ hdbc \subseteq refused /\ ~ listed /\ ~ henv

\* The inductive invariant behind them.  Connections are numbered as they come,
\* so that no new one is taken for one that was refused to be freed;
\* a label that finds an earlier connection is not given to a later one.
NumbersInv ==
  /\ \A x \in pool : x.no <= made /\ x.no \notin refused
  /\ \A x, y \in pool : x.no = y.no => x = y
LabelsInv == \A x, y \in pool : x.no < y.no => ~ Matches(x, y.label)

\* Where the request is, and how many nodes have their SqlUtil by then.
PlaceInv ==
  /\ ni >= 1 /\ at >= 1
  /\ pc # "IDLE" => req # <<>>
  /\ pc = "INIT" => ni <= Len(req) /\ Len(utils) = ni - 1
  /\ pc \in {"CONNECT", "OPERATION"} => ni <= Len(req) /\ Len(utils) = ni
  /\ pc \in {"PARSED"} \cup Running => ni <= Len(req) /\ Len(utils) = Len(req)

\* The list is there while nodes are parsed and run, and an environment or a
\* connection only while the list is.
EnvInv ==
  /\ pc \in Parsing \cup Running /\ utils # <<>> => listed
  /\ ~ listed => pool = {} /\ ~ henv
  /\ pc \in {"POOL", "EXEC"} => henv

\* Operations point into the pool, which is connected up to at, then all of it.
OpsInv ==
  pc \in Parsing \cup Running =>
    \A i \in DOMAIN utils : \A j \in DOMAIN utils[i].ops :
      utils[i].ops[j].conn \in Numbers
ConnectedInv ==
  /\ pc = "POOL" => \A x \in pool : x.no < at => x.no \in hdbc
  /\ pc = "EXEC" => Numbers \subseteq hdbc

\* An SqlUtil that frees all has done it once it is deleted.
FreeInv ==
  /\ pc = "DELETE" =>
       \A i \in DOMAIN utils : i < ni /\ utils[i].free_all => ~ listed
  /\ pc = "IDLE" => \A i \in DOMAIN utils : utils[i].free_all => ~ listed

IInv ==
  /\ TypeOK /\ NumbersInv /\ LabelsInv /\ PlaceInv /\ EnvInv /\ OpsInv
  /\ ConnectedInv /\ FreeInv /\ NoHandleLeak /\ HandlesHaveEnv

\* What SqlUtil.c:263 says of a connection with a handle, "connection is
\* active".  A connect that failed leaves its handle.
ActiveIsConnected == pc = "EXEC" => hdbc \cap Numbers \subseteq live

\* What README.md:272 says of "operation", "Run SQL statements.": a request
\* without an error has run all of them.  A commit that succeeds ends the node.
OkMeansAllRun ==
  pc = "DELETE" /\ code = "OK" =>
    \A i \in DOMAIN req : \A j \in DOMAIN req[i].operation : <<i, j>> \in ran

\* What README.md:275 says of an array for "free": the connections with these
\* labels are freed.  They are looked for in upper case only.
FreedLabelsGone ==
  pc = "IDLE" /\ utils # <<>> /\ code = "OK" =>
    \A i \in DOMAIN req : \A x \in pool : x.label \notin req[i].free.labels

\* What README.md:267 says of "servermode" : "on", "Default.": a job that never
\* asks for another mode has it.  SqlUtil::clear turns it off.
DefaultIsOn ==
  (\A r \in Requests : \A i \in DOMAIN r : r[i].servermode = "unset") => serverMode

\* What README.md:274 says of "free" : "none", "Keep all open connections.": a
\* job that never asks for anything else has all connections it has made.  A
\* node that is given up before "free" is read frees them.
KeepsIfNone ==
  (\A r \in Requests : \A i \in DOMAIN r : r[i].free.kind = "none") =>
    Numbers = 1 .. made

\* What the destructor of an operation says it does, "free stmt"
\* (SqlUtil.c:715): between requests there is no statement left.  Its test
\* is for a null handle.
StatementsFreed == pc = "IDLE" => hstmt = {}

\* What README.md:284 says of the password, "Not used in SQL server mode.": a
\* node that lacks it is not refused.  It is needed there, and only there.
Faultless(n) ==
  /\ n.servermode # "invalid" /\ n.operation = <<>> /\ n.free.kind # "invalid"
  /\ \A i \in DOMAIN n.connect : n.connect[i].valid
PasswordUnused ==
  pc = "DELETE" /\ code = "INIT" /\ Len(utils) < Len(req) =>
    \E i \in DOMAIN utils : ~ Faultless(req[i])
=============================================================================
