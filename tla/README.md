# TLA+ verification of iService

iService lets a caller run IBM i system functions (CL commands, programs, SQL,
shells) described in JSON.  `runService` works either in the caller's own
job or, with the control flag `*ipc(path)`, as a client of a *server job* that
works on behalf of many client jobs.  This directory holds TLA+ models of the
system's parts, TLC runs that check them on small instances, and proofs,
checked by TLAPS, that hold for every instance.

Paths are relative to the repository; `Ipc.c` means `src/Ipc.c`.

## 1. The system's parts

| Part | State | Operations | What makes it correct |
|---|---|---|---|
| IPC channel (`Ipc.c`, `IService.c`) | three semaphores (QCLNT, SVR_WAIT, CLNT_WAIT), a shared segment, per job: state of the engine, attached segment, flags | lock/unlock the queue, send, listen, receive, respond, timers, SIGTERM handler | one job in the segment at a time; a client gets its own answer; at most once; nobody sleeps for ever; recovery from dead clients |
| IPC start-up (`Ipc.c`, `IService.c`) | a directory at an agreed path, keys made from it, generations of server jobs; per client: keys, ids, `_server_submitted`, poll time | submit a server, set up, connect by polling, restart after EIDRM, destroy | one server at a time; nothing left behind; set and segment of the same server; connects end |
| State engines (`IService.c`) | status, output string, flight recorder | parse flags, local run, copy to the caller's buffer | every error path reaches STS_DONE; output cut at the buffer |
| Control flags (`Control.c`) | a singleton of values, kept over the requests of a job | parse a flag string, in the client and again in the server | what a request names applies to it; a server accepts what its clients let through; nobody ends another one's server |
| SQL (`SqlUtil.c`) | environment, server mode, pool of labelled connections, statement handles, kept over the requests of a job | initialise nodes, connect, execute, fetch, commit, free | a label names one connection; no operation on a freed one; every handle can be freed; `free` frees |
| Input tree (`INode.c`, `JNode.c`, `IAttribute.c`, `JAttribute.c`, `Runnable.c`) | a tree of nodes with attributes | parse, initialise runnable nodes, run in order, build output | the tree is the text; what is no request is refused; nodes are run in order, none after one that failed; the reply is the tree |
| Parsing and running (`Utility.c`) | none | `parseNode`, `runNode`, `doCommand`, the job log | every text is replied to |
| Programs (`Program.c`, `ILE.c`, `Argument.c`) | memory of the arguments, the list and the signatures of a call | make arguments, resolve, call, copy back | a value is where the callee and the caller look for it; called by an interface that can pass it |
| Commands and shells (`Command.c`, `Shell.c`, `Qshell.c`) | static variables, a REXX source in QTEMP, a file in /TMP, environment variables | run, collect output | data and messages of a node are its own; an error says why |
| PASE (`Pase.c`, `pase/`) | PASE started or not, its name space, symbols found in it | start, find a symbol, call a program or a function, run a shell | what is kept is good for the PASE that is there |
| CGI (`HttpCgi.c`) | request buffer, state of the engine, a connection | read, take apart, log on, call, respond | runs what was sent; responds once; leaves no connection |
| Flight recorder (`FlightRec.c`) | a code and messages, shared by all nodes of a request | code, messages, reset | what it is cleared for |
| Job information, entries (`JobInfo.c`, `JobUtil.c`, `Main.c`, `Storedp.*`) | none | | |

Client jobs and server jobs share the directory, the semaphore set and the
segment and nothing else.  Inside a job everything is sequential, except that
signal handlers (SIGTERM in both, SIGALRM in the server) run `destroy` and
exit.  The hard behaviours are therefore in the IPC parts: interleavings of
jobs, jobs that die, timers, and server generations that overlap.  They are
modelled first.  Next come the two pieces of state that outlive a request and
that in a server job pass from one client to another: the control flags and the SQL
connections.  Third come the parts that are sequential and still hard to test, because
their state outlives the step that made it or because several places have to
agree: the parser with what lies behind its input, the recorder and the static
variables that nodes share, the fetch loop, the layout of arguments, and the
state engine of the CGI program.

## 2. Modules

| Module | What it is |
|---|---|
| `RequestReply` | the abstract promise of the service to the callers of `runService` |
| `IpcChannel` | clients and one server over semaphores and segment, after `runService`, `runServer` and `Ipc.c` |
| `IpcChannelInvariant` | its inductive invariant, for TLC and for the proofs |
| `IpcChannelProofs` | type correctness, the invariant, five safety theorems, the refinement of `RequestReply` |
| `MCIpcChannel` | TLC instances of IpcChannel |
| `IpcStartup` | generations of servers, the path and its keys, connecting clients |
| `IpcStartupInvariant`, `IpcStartupProofs`, `MCIpcStartup` | the same for IpcStartup |
| `ControlFlags` | the Control object of each job over its requests, and the routing of requests by it |
| `ControlFlagsProofs`, `MCControlFlags` | its proofs and TLC instances |
| `SqlPool` | environment, connections and handles of a job over its requests |
| `SqlPoolProofs`, `MCSqlPool` | its proofs and TLC instances |
| `FlightRec` | the flight recorder: code and messages |
| `NodeTree` | from the text of a request to the tree: parser, initialisation, order of running, output |
| `JsonGrammar` | the grammar of requests as a set of texts, against which the parser is checked |
| `NodeRun` | running the nodes of one request after the other, with all that outlives a node |
| `Batch` | the abstract promise of `NodeRun`: answers in order, none after a failure |
| `Document`, `MCDocument` | `NodeTree` and `NodeRun` put together as in `runService`; TLC instance |
| `DocumentProofs` | the inductive invariant of `NodeRun`, four properties, the refinement of `Batch`; the parser's invariants, `ParserFollowsGrammar` and `HoldsTheText` |
| `SqlFetch` | one SQL operation with its parameters, fetch and row count |
| `HttpCgi`, `HttpCgiProofs`, `MCHttpCgi` | the CGI program; proofs of it and of `SqlFetch`; TLC instance of both |
| `Arguments` | the parameters of a program call as operators: length, copy in and out, layout |
| `ProgramCall`, `ProgramCallProofs`, `MCProgramCall` | program calls of a job, direct and in PASE; its proofs; TLC instance |
| `SequenceLemmas` | lemmas that know nothing of this program: induction, iteration, recursion over layers, parts of sequences |

Operators whose name has an underscore (`LockClientQ_NoWait`) are variants of
the definition that follows them, each with a plausible mistake in it.  No
action uses them; with a variant in place of its definition the property named
in `PROJECT.json` fails, which shows that the property depends on that piece of
the code.  Seven more variants (`AddChild_First`, `Find_Short`, `Target_FromFirst`,
`NextParm_Stays`, `Procedures_Gap`, `NeedsPase_Number`, `PaseStarts_Unopened`) break
the other parts of the properties that are conjunctions.

### 2.1 IpcChannel

A client's `cpc` is the place it has reached in `runService` and the
operations of `Ipc.c`; a server's `spc` likewise in `runServer`.  An action is
one semaphore operation or one access to the segment, because those are the
points at which jobs see each other.

| Code | Model |
|---|---|
| `clientConnect` (set and segment found, shmat) | `Shmget`, `Shmat`, `ConnectTimeout` |
| `lockClientQ` | `LockClientQ`, `LockFails` (EIDRM restarts, other errors give up) |
| `sendRequest` | `CopyControl`, `CopyInput`, `NotifyServer`, `AwaitServer` |
| `receiveResponse` | `CopyResponse`, `AckServer` |
| the exception handlers and failing semops of both | `SegmentFault`, `SemopFails` |
| `clientClose`, `unlockClientQ` | `Detach`, `UnlockClientQ` |
| `sigHandler` and `destroy` in a client | `Terminate`; `Crash` is a job end without it |
| `setupIpcServer` | `SetupIpcServer` |
| STS_IPC_SVR_LISTEN: `beingEnded`, `setTimeout`, `serverListen` | `Listen`, `ServerListen`, `DisarmTimer` |
| `receiveRequest`, `Control::parse` | `ParseControl` |
| `Pase::start` fails | `JavaStartFails` |
| `parseNode`, `runNode` | `RunNode` |
| `sendResponse`, `serverWaitClient2Receive` | `SendResponse`, `WakeClient`, `WaitClient2Receive` |
| `sigHandler` and `destroy` in the server | `Alarm`, `TerminateServer`, `RemoveShm`, `RemoveSem` |

The segment is two cells, `head` and `body`: a request is written in two steps
(flags, input) and read in two (parsed flags, parsed input), while a response
is one write.  A cell's value is the request or response it belongs to, since
the properties only tell apart whose data is where.  A client that copies while
the cells do not belong together gets `Garbled`.

A few things are deliberate:

- a failed `shmat` is (void*)-1, which the code compares with NULL: it counts as
  attached (`att = "bad"`), so the queue is unlocked at close, and using it
  faults;
- `EndRequests` name the requests that carry `*endipc`.  `endipc` and `patient`
  are never reset, as `Control` is a singleton;
- the server's timer may go off from `setTimeout(true)` until
  `setTimeout(false)` has run, also after the semop has returned (`Timed`);
- a removed segment stays usable for who has it attached, or faults: both are
  possible (`CopyControl` and `SegmentFault` are both enabled);
- in this module there is one server.  A client that is told to start over
  after it is gone finds nothing and times out.

### 2.2 IpcStartup

`dir` is the directory at the path, named by the server that made it; `key[s]`
is what `ftok` makes of it.  Both keys are made with the same project id (`SEMKEY_ID`
and `SHDMKEY_ID` are both 1), so a directory has one key.  With `ReuseKeys` a new
directory may get the key of a former one, as inode numbers are used again.
`clientConnect` is modelled call by call (`FtokSem`, `FtokShm`, `Semget`,
`Shmget`), since everything may change between two of its calls.  `elapsed` counts
polling intervals up to `MaxPolls`; time is otherwise not modelled, so a server
may take arbitrarily long between two steps.  A conversation is one step,
`Converse`.  `tried` and `result` record for the properties what a request has
seen.

`Semget` of the server leaves QCLNT with an arbitrary value until `SetAll`:
POSIX does not promise that a new set is zero.

### 2.3 ControlFlags

`ctl[j]` is the Control object of job j, `flags[j]` its `_flags`, `at[j]` the flag
the loop of `parse` is at, `ret[j]` its result so far.  A job's `pc` is the state
of its engine in `runService` or `runServer`.

| Code | Model |
|---|---|
| `Control::Control`, `Control::me` | `Constructed`, `Init`, `StartServer` |
| `Control::parse`, start | `BeginParse` (in `StartRequest`, `SendRequest`) |
| one round of its loop | `ParseFlag`: `Store` what the flag gives, `Accepts` or not, `Breaks` or go on |
| STS_CONTROL_INIT | `Route`, `ServerParsed` |
| STS_IPC_CLNT_* | `SendRequest`, `ConnectFails`, `AwaitFails` |
| STS_CONTROL_SETUP, STS_NODE_INIT | `SetupLocal`, `SetupServer` |
| STS_NODE_RUN and the output | `RunLocal`, `RunServer` |
| STS_ERROR_FR | `ReportError`, `ReplyError` |
| `beingEnded`, `*waitclient` in listen | `Reply`, `Expire` |

- A control string is a sequence of flags with values.  The values of `*AFTER` and
  `*BEFORE` are integers or too large for `strtoll`, and `ToInt` cuts them to an int
  of `IntSize` values as `(int)lli` does; those of `*IPC` are a key or blank;
  of `*SBMJOB` up to three names.  A parenthesis that is never closed gives no
  value; for `*IPC`, `*IPCSVR` and `*SBMJOB` the loop then meets the rest as an
  unknown flag, so such a string is a sequence of two flags.
- Values of `*IPC` and of the timers are stored before they are checked, those
  of the CCSIDs after.
- A wrong flag ends the loop, an unknown one is skipped; both make `parse` false.
- The server has a Control object of its own, which starts as constructed
  and then lives through all its clients.
- How a request travels is the subject of IpcChannel: here handing it over is one
  step, and so is the answer.

### 2.4 SqlPool

The state is that of one job.  `pool` is `_conns_p` as a set of connections
numbered in list order, `hdbc` the numbers of those the database has a handle for, `live`
those of the pool that are connected, `refused` those whose handle the database did not free, `hstmt` the statement handles that exist, `utils` the SqlUtil
objects of the request.

| Code | Model |
|---|---|
| `parseNode`, `INode::initRunnable` | `StartRequest`, `ParseFails`, `NextInit`, `Abort` |
| `SqlUtil::init` | `InitNode`, `InitConn`, `ConnsDone`, `InitFree` |
| `SqlConn::init` | `Complete` in `InitConn` |
| `Operation::init` | `InitOp`, `InitOpLocal` |
| `getConnection`, `addConnection` | `GetConnection`, `AddConnection` |
| `runNode`, `SqlUtil::initEnv` | `Parsed`, `InitEnv` |
| `SqlUtil::run`, `SqlConn::connect` | `ConnActive`, `Connect`, `ConnectFails`, `PoolDone` |
| `Operation::run` | `Exec`, `ExecFails`, `CommitTranct`, `CommitFails`, `OpsDone` |
| `~SqlUtil`, `SqlUtil::clear`, `~SqlConn` | `DeleteUtil`, `Clear`, `Release`, `EndRequest` |

- The database answers in any way: every call to it may fail at every point, and a
  connect may fail with or without a handle left.  `~SqlConn` ignores what SQLDisconnect and
  SQLFreeConnect return and clears `_hdbc` (`SqlUtil.c:45-47`): any of the connections that
  `Release` deletes may keep its handle in the database, where nobody can free it any more.
  `NoHandleLeak`, `HandlesHaveEnv` and `FreeAllLeavesNothing` except these handles and no others.
- `Gen[db]` stands for db, user and password put together, which is what
  a connection can be found by besides its label.  Out of server mode user and
  password are not read, and it is the database name alone.
- Labels may be empty, and several connections may have the empty label; the
  destructor frees the first one only (`FirstOfLabel`).
- `valid` is FALSE for an element with anything else missing or wrong.
- `free : []` leaves `_free_all` on, as only a first element turns it off.
  A label that is repeated in `free` is taken once.
- A server job deletes the tree of a request before the next one, so requests are
  sequential for an SqlUtil, whoever sends them.
- `SqlUtil::connect`, which only `HttpCgi.c` calls, is in HttpCgi.
- Parameters and result sets are in SqlFetch.

### 2.5 NodeTree, NodeRun, Document

A text is a sequence of tokens: brackets, comma, colon, strings, numbers.  The mutual
recursion of `JNode::parse` and `JAttribute::parse` is the variable `stack`;
a frame says which node it builds and where in its function it is.  Behind the
text, `Beyond` says what is in memory, since several checks of the code look at
one character more than there is.

| Code | Model |
|---|---|
| `parseNode` | `TreeInit`, `ParseNode`, `ParseError` |
| `JNode::parse`, brackets | `Open`, `Members`, `AfterAttr`, `Elements`, `AfterChild` |
| its arrays of strings and of numbers | `StringElement`, `NumberElement` |
| `JAttribute::parse` | `Name`, `Colon`, `AttrValue` |
| `initRunnable`, the `init` functions | `InitOutcomes` in `Close` |
| `JNode::run`, `JAttribute::runNode` | `Plan` (who is run, in which order), `Answer` (STATUS) |
| `JNode::output`, `JAttribute::output` | `Output` |
| `Command::run` | `RunCommand`, `RunRexx` with `MakeTemplate` and `RexxOutcome` |
| `Shell::run`, `Qshell::run` | `RunShell`, `RunQshell` with `SetEnvVars`, `QshFailure`, `QshSuccess` |
| `Program::run`, `SqlUtil::run`, `JobInfo::run` | `RunProgram`, `RunSql`, `RunJobInfo`: their results only |
| `doCommand`, `doSystem` | `Done`, `Failed` |
| `getMsgKey`, `getMessages`, the error attribute | `EffectiveErrors`, `WithJobLog`, `AfterFailure` |
| `runNode` | `Load`, `RunStep`, `FinishRequest` |
| `runService` from STS_NODE_INIT on | `Parse`, `Run`, `CopyOut`, `ErrorOut`, `NextText` |

- Messages are known by their author and data by their owner, a request and a
  position in it: what the properties are about is whose they are.
- `Program::run` fails with `PASE_START`, `ARGUMENT_INIT`, `PASE_RUN` or `PGM_RUN`.  A program called by `_PGMCALL`
  with a result other than 0 sets `PGM_RUN` without a message (`Pase.c:371-375`, `Pase.c:444-448`), as in
  ProgramCall; a failure in `copyBack` has its own message and none of the job log.
- `"error"` may be turned off in a run if the job log cannot be read (`EffectiveErrors`).
- The commands, shells and programs are external: they succeed, fail or
  leave output as they like, but do not touch what the service itself keeps in QTEMP, /TMP
  and the environment.
- `JsonGrammar` has a strict and a lenient reading.  Every text of the strict one is
  accepted (or its node is refused by `init`), and every text that is accepted is, or begins
  with, one of the lenient reading, which has what the parser lets through besides: text behind the
  root, `[1,]`, what stands between a number and the next comma.  All recursion of the grammar is in
  one function, `ListEnds`, so that it can be proved about.
- `JAttribute::parse` keeps a number as its text and leaves the attribute's type STRING (`IAttribute.c:12`,
  `JAttribute.c:319-323`), so the branch for NUMBER in `output` (`JAttribute.c:132-136`) is never taken and the number
  comes back in quotes.  Elements of an array of numbers are written as they were read.  `Output` is therefore a
  sequence of tokens of which each is quoted or not.
- `TreeIsTheText` has three parts: `HoldsTheText`, the tokens of `Output` are those of the text;
  `NumbersAreStrings`, what is quoted are the strings and the numbers that are values of attributes; and
  `PlanIsTheText`, `Plan` is what the text says should be run, found from the text's brackets and
  not from the tree.

### 2.6 SqlFetch and HttpCgi

`SqlFetch` is `Operation::init` (block and rec), `Operation::run` and `Operation::fetch` of one "exec" or
"execdirect", a CLI call an action: `InitFetch`, `AllocStmt`, `SetScrollable`, `Prepare`,
`DescribeParam`, `BindParam`, `Execute`, `RowCount`, `BindCol`, `FetchRow`, `NoMoreRows`, `FetchFails`,
`SetCount`.  Rows are their numbers.  An int has `IntSize` values, so that a block
or rec that does not fit in it occurs.  `Wanted` is how many rows the caller
should get, from the numbers he gave, and `RowsAsAsked` compares the data with it.
That "rowcount" is the number of rows fetched is `CountIsFetched`, which is false; `CountIsNear` says how far off it
is.  See the disagreements below.

| `HttpCgi.c` | Model |
|---|---|
| STS_CGI_INIT .. reading the request | `GetQuery`, `ReadContent`, `ReadFails`, `BadRequest`, `NoLength` |
| `chopParms`, `unescapeUrl` | `ChopParms` (`Unescaped`, `Position`, `ValueIn`), `UnescapeFails` |
| `SqlUtil::connect` | `Logon` |
| choice of the stored procedure | `Procedures`, `Chosen`, `NegativeSize` |
| the call by SQL, its result | `RunCall`, `CallFailed`, `TakeOutput` |
| response, messages, end | `Respond`, `ErrorFr`, `Done`, `Exception` |
| `SqlUtil::clear` | `Clear` |

A request is a set of parameters in any order, some missing.  The call goes through `INode` and
`SqlUtil` in the same job: `CallOp` is the operation the program composes for it, with
three parameters.  Any character of the text may be escaped (`escapes`).  `unescapeUrl` decodes in the memory of the string
(`HttpCgi.c:95-104`), whose length stays: behind the decoded text the string has a NUL and the end of the text as it
came, `Stale`, and that is part of the parameter that comes last.  As `db2`, `uid` and `pwd` are used up to the NUL and `out` is read by atoi,
only `in` and `ctl`, which are bound with their length (`SqlUtil.c:558`), suffer from it.

### 2.7 Arguments and ProgramCall

A parameter is known by its path, `<<2, 1>>` being the first entry of the structure
that is the second parameter.  A block of memory is named by the path
it is for, and memory is a set of cells: block, offset, and what is there and whose it is.

| Code | Model |
|---|---|
| `Argument::init`, `Argument::type` | `Accepted`, `ByValue`, `Io`, `Bytes` |
| `Argument::copyIn` | `CopyIn`, `CopyEntries`, `Converts`, `Errno`, `Signature` |
| `Argument::copyBack` | `CopyBack`, `EntriesBack` |
| `Arguments::create`, `ILE::alignPadding` | `Create`, `CopyInArg`, `Place`, `AlignPadding`, `Room` |
| `Program::init`, `Return::init` | `InitProgram`, `NeedsPase` |
| `Pase::start`, `startPase`, `startJVM` | `PaseStarts`, `PaseStartFails` |
| `Pase::findSymbol` | `FindSymbol` |
| `ILE::ileRslv` | `Resolve` |
| `Pase::runPgm`, `runSrvgm`, `ILE::runPgm`, `runSrvgm` | `StartCall`, `Call` |
| `Program::run`, `Return::copyBack` | `CopyBackArg`, `ReturnBack` |

- `Leaves` computes from the types where each value should be and which pointers lead to it,
  independently of `CopyIn`; `InputsReachTheProgram` compares the memory
  with it when the program is called, and `OutputsComeBack` the attributes when it has
  returned.
- A program writes a new value in everything it can reach (`Written`).  `Misread` is
  the number of arguments, 15, for which `ILE::runSrvgm` passes characters instead
  of pointers.
- After an exception in `_PGMCALL` or `_ILECALL` the return code is undefined: `Call` has both
  outcomes.
- Structures nest.  `Params` is built in `MaxDepth` layers (`Nested`): a parameter of one layer has
  entries of the layer below.  `Offset`, `EntriesTaken`, `CopyIn`, `CopyBack` and `Leaves` are
  recursive functions on records of such parameters, so that they can be proved about.  `MaxDepth` is
  any number; the code has no limit but its memory.

## 3. Runs

| Run | Instance | Shows |
|---|---|---|
| `ipc_forever` | 2 clients x 2 requests, timers 0, one `*endipc`, SIGTERM to the server and failing Pase::start at any time, clients terminated at any step but `lock`, `await`, `copy`, `ack`, `unlock` | `NoLostWakeup`, and `EveryRequestEnds` without help of timers |
| `ipc_safety` | the same with finite timers; clients crash at any step and are terminated at any step but `lock` and `await` | `SegmentExclusive`, `AnswersOwnRequest`, `ExecutedOnce`, refinement of `RequestReply` (`KeepsPromise`) |
| `ipc_recovery` | clients crash and are terminated at any step | `QueueRecovers`, `EveryRequestEnds` |
| `ipc_kill_awaiting` | a client is terminated while it awaits its response | a violation, see the disagreements |
| `startup_keys` | 2 clients x 2 requests, 2 servers, whose directories get the same key or different ones | `OneServer`, `LeavesNothing`, `SameServer`, `InitializedBeforeUse` |
| `startup_liveness` | 2 clients, 2 servers, one key | `EveryConnectEnds`, `PathIsFreed` |
| `control_shared` | 2 clients x 2 requests, 1 server, 9 strings with wrong, repeated, missing and unknown flags | `ServerAccepts`, `ServerTimersValid`, `EndsOnlyWhenAsked` |
| `control_keys` | 1 client x 2 requests, 2 servers, every flag alone, all pairs of 8 that set key, CCSIDs (one of them no int) or end, `*endipc` with `*java` and without | `NamedFlagsApply`, `EndsWhenAsked` |
| `sql_pool` | 3 requests of one node (11 kinds) or two (44 pairs), the database free to refuse any call, also to free a handle | `LabelResolves`, `NoDanglingConn`, `NoHandleLeak`, `FreeAllLeavesNothing` |
| `document` | 2 texts: all up to 4 tokens and 2 requests with each token dropped, put in and changed, and what may lie behind them; then one that uses what the first has left | `ParserFollowsGrammar`, `TreeIsTheText`, `ErrorsAreExplained`, `DataIsOwn`, refinement of `Batch` (`AnswersInOrder`), `EveryTextIsReplied` |
| `cgi_sql` | an HTTP request with its parameters in every order or missing, with escapes or without, and an SQL operation with up to 3 parameters, 4 rows and a block and a rec from -1 to 9, in an int of 8 values | `RowsAsAsked`, `RunsWhatWasSent`, `AnswersTheRequest`, `EverythingEnds` |
| `calls` | 3 calls of a job: one parameter of every type, way and direction; structures in structures; lists of two and three; every way to fail | `CallIsGood`, `InputsReachTheProgram`, `OutputsComeBack`, `ListInOrder`, `GoodIsTaken` |

The type invariants and the inductive invariants (`TypeOK`, `IInv` and the like of each module) are
not listed: they are proved, and hold in the same instances when they are
added to the INVARIANTS of a config; so do `DocTypeOK`, `CgiTypeOK`, `CallTypeOK`, `NothingLeft`,
`QueueHasOneOwner`, `HandlesHaveEnv`, `StaticsTrue`, `MessagesHaveReason`, `CountIsNear` and `ListOverrun`.  `startup_fresh_keys.cfg`
has three generations of servers with different keys, where `SameServer` and `InitializedBeforeUse`
hold as well, which is the case the theorems are about.

Bounds.  Two clients are enough for one to disturb another, and two requests
for an earlier request to disturb a later one; the third client that an
unlock by a non-owner needs is in `ipc_kill_locking`, and the theorems
are for any number.  Two polls are enough to find nothing, then something, then
time out.  Three servers are one leaving, one up and one coming up.  `MaxReq`,
`MaxPolls`, `Servers` and `Keys` are the only bounds of the IPC models.  For
the flags, one request leaves something behind and a second finds it, in the same job
or in the server's.  For the pool, three requests are one that leaves connections,
one that adds to them or frees some, and one that meets the result; two nodes
are enough for one to share or free what the other has made, and the five labels that are not empty
contain one in lower case, its upper case, and those that equal another connection's
database, user and password.  In `document` four tokens are enough to open a node,
begin an attribute and end in the middle, and the requests with one token wrong
reach every place of the parser with a stack of up to three; the second text is
there for what the first one leaves (recorder, static variables, files).  In `cgi_sql`
there are more rows than a block and fewer, a rec behind the end, and numbers
that overflow to negative, zero and positive values; the buffer of a response is smaller than an output and
larger than another.  In `calls` the third call is the one that finds
a PASE started, ended or half started by the two before it; `MaxArgs` is 2 and
`Misread` 2 in place of 30 and 15, so that both limits are crossed.

`document`, `cgi_sql` and `calls` have CHECK_DEADLOCK FALSE: a job that has done
its requests, and a CGI program, stop.  Deadlock is checked in every other run: `Quiescent` is the only state in which a
system may stop, with all requests over and the server asleep in listen or
ended.  In SqlPool it is the job with no request at work and none to come.

### Disagreements between code and comments

Each of these properties states what a comment or the README says, and TLC finds
it violated by what the code does.  `ipc_kill_awaiting` is a run of `PROJECT.json`.
The others are shown in the same way, by
`tlc -config <name>.cfg` with the MC module of the component.  `sql_claims` and `cgi_claims` have several
properties: `-continue` reports each of them.

| Config | Property | What happens |
|---|---|---|
| `ipc_kill_awaiting` | `AnswersOwnRequest` | `Ipc.c:519-524` says that a client may be interrupted after it woke the server, as the next client has a clean start.  It has not: the handler unlocks the queue while the server works in the segment, and leaves CLNT_WAIT to be incremented for nobody.  The next client can get a response that is not its own |
| `ipc_kill_locking` | `SegmentExclusive` | `clientClose` unlocks the queue if a segment is attached, and it is attached before the queue is locked (`Ipc.c:436-449`) |
| `startup_submits_once` | `SubmitsIfNoServer` | `README.md:107` promises that a server job is submitted if there is none; `_server_submitted` stays set when the server has ended or SBMJOB failed |
| `startup_mixed_keys` | `OneTalksPerSegment` | between the two `ftok` calls (`Ipc.c:315`, `Ipc.c:348`) the directory may be replaced |
| `startup_stale_segment` | `ReleasesOwnLock` | after the EIDRM restart `_shdm_p` still holds the old segment; a time-out in the second connect unlocks the new server's queue |
| `control_defaults` | `NoFlagsIsLocal` | "no control flags specified. all go default" (`Control.c:120`): nothing is reset, so a request without flags after one with `*ipc` goes to that server |
| `control_ccsids` | `CcsidsAreNamed` | `README.md:98-99`, "CCSID of input data", "CCSID of output data": a value that is a long long and no int is cut by `(int)lli` (`Control.c:150`, `Control.c:185`) and not refused: `*AFTER(4294967333)` is run with 37 |
| `control_wait` | `WaitServerPositive` | `README.md:109`: `*waitserver` "must greater than 0"; it is stored before it is checked (`Control.c:377`), and the next request connects with it |
| `sql_claims` | `ActiveIsConnected` | "connection is active" (`SqlUtil.c:263`): a failed connect leaves the handle, and the next request takes the connection for active |
| `sql_claims` | `OkMeansAllRun` | `README.md:272`, "Run SQL statements": `Operation::run` returns false after a successful commit (`SqlUtil.c:1263`), which ends the node without an error |
| `sql_claims` | `FreedLabelsGone` | `README.md:275`: the labels to free are put in upper case (`SqlUtil.c:2085`), those of connections are not |
| `sql_claims` | `DefaultIsOn` | `README.md:267`: `servermode` "on" is the default; `SqlUtil::clear` turns it off (`SqlUtil.c:1688`) |
| `sql_keep` | `KeepsIfNone` | `README.md:274`, "Keep all open connections": a label that is taken ends the node's initialisation before `free` is read (`SqlUtil.c:2005`), and the destructor frees all |
| `sql_claims` | `StatementsFreed` | "free stmt" (`SqlUtil.c:715`): the test is for a null handle |
| `sql_claims` | `PasswordUnused` | `README.md:284`: pwd is "not used in SQL server mode"; it is asked for there, and only there (`SqlUtil.c:238`) |
| `document_messages` | `MessagesAreOwn` | `README.md:149-151`, `README.md:161-162` describe messages as the node's own: those of a command whose error is ignored stay in the recorder, and a later SH, QSH, PGM or SQL node answers with them; CMD nodes clear the recorder first |
| `cgi_claims` | `CountIsFetched` | "update with how many fetch() got" (`SqlUtil.c:1248`): when a fetch ends with the end of the result set, "rowcount" is one more than the rows (`SqlUtil.c:1580`) |
| `cgi_claims` | `InputIsAsSent` | "in - (output) input" (`HttpCgi.c:131`): if anything is escaped and `in` comes last, it is bound with a NUL and the stale end of the text (`HttpCgi.c:95-104`, `SqlUtil.c:558`).  In the order of `README.md:33` the last one is `out`, which is right even so |
| `calls_fits` | `ListFits` | "make enough space for alignment" (`Argument.c:1271`): the list of `_ILECALL` begins 32 bytes into memory whose size does not count them and has only 16 to spare, so that it may run over by up to 16 bytes |

A further one has no config of its own: if keys are used again, a client that polls
while three servers follow each other can combine the set of the third, before its
SETALL, with the segment of the second.  The theorems that depend on it therefore
assume that keys are not used again, and `startup_keys` has two servers.

The following were met while modelling.  The models have them as they are, and
the properties are stated so that they hold with them; there is no config of their own.

Parsing and nodes:

- Text behind the root's last bracket is ignored, as long as the last character of all is the right
  bracket (`Utility.c:141`).  A comma that is missing after a number swallows
  what follows up to the next comma, a command included (`JAttribute.c:311`).  `[1,]` is an
  array up to a later bracket (`JNode.c:430`); a first number that is negative is refused (`JNode.c:423`).
- A text whose last bracket is missing may be completed by characters that happen to be
  behind it in memory (`while ( pWhere <= end`, `JNode.c:346`, with `pWhere` past the end).
- A number that is the value of an attribute comes back as a string (`JAttribute.c:319-323`, `JAttribute.c:137-141`).
- A program called by `_PGMCALL` whose result is not 0 ends its node with `PGM_RUN` and no message (`Pase.c:371-375`).
- A REXX procedure that fails may have no message, and `"error":"ignore"` does nothing for it (`Command.c:363-444`).
- A QSH node that fails with `"error":"off"` leaves its file in /TMP (`Qshell.c:126-163`), and
  it is there until the next one overwrites it.
- If a user's command deletes QTEMP/JSONREXX, the static variable still says it is there.
- A text that begins with `<` and does not end with `>` uses a null pointer (`Utility.c:130`), and so does
  the branch after it (`Utility.c:162`), which both models treat as an error node.

SQL and CGI:

- A handle that the database refuses to free is dropped (`SqlUtil.c:45-47`).
- Block and rec are cut from long long to int after the check for errors (`SqlUtil.c:925`, `SqlUtil.c:959`).
- OUT parameters of SQL are bound but never put back into the tree.
- A read that returns less than the request's length truncates it (`HttpCgi.c:329`); the value of
  CONTENT_LENGTH is not used.
- A parameter value that contains the name of another parameter with `=` is cut there (`HttpCgi.c:148`).
- A negative size of output, and a missing CONTENT_LENGTH, end without a response.
- The buffer of the procedure that is chosen may be smaller than what was asked for: 4096 gets
  4000.

Program calls:

- `Argument.c:1298` and `Argument.c:1313` clear the memory of signatures and list from its unaligned start,
  and the pointer for ILE of `Pase.c:766` lies before the block if the memory is not at a multiple of 16.  The models have
  memory that is.
- `README.md:245` has a program called through PASE if it has more than 32 parameters, the code if it has more than 30 (`MaxArgs`).
- A structure by value in one that is output only has none of its pointers set (`Argument.c:569`).
- An output-only "uint" gets no signature (`Argument.c:734-799`).
- "uint", "float", "double", "packed" and "zoned" look at an `errno` that
  they have not set to 0 (`Argument.c:739`, `Argument.c:813`): a correct value is refused after an
  earlier error.
- A hexadecimal text that fills its field exactly is replaced by blanks (`iLen/2 < _bytes`, `Argument.c:636`); a CHAR text longer
  than its field is copied all the same (`Argument.c:631`).
- `"by":"value"` is what `README.md:192` documents and only `"val"` is accepted (`Argument.c:166`).
- A function without parameters never gets its result; a decimal result is dropped.
- A program that ends PASE leaves its name space and symbols stale; `SymbolIsLive` is therefore stated for the first
  PASE of a job only.
- `ILE::runSrvgm` with 15 arguments passes characters for pointers.

### Fairness

`FairSpec` assumes weak fairness of each client's and of the server's own steps: jobs that can run do
run, a semaphore operation that stays possible is
performed, an armed timer goes off (`Alarm` is a step of the server), and a server
at work on a request finishes it.  Starting a request, signals and crashes are
not fair.  The lock needs no strong fairness because the number of
requests is bounded and every owner gives it up.  In IpcStartup a server that is
up ends eventually, which its finite `*waitclient` timer brings about.  In ControlFlags
a client that has begun a request and a server that works on one go on; no request
need come, no server need start, and no server need be idle for long enough to expire.
SqlPool states no liveness: each of its steps goes on in a finite list.  A job that
has a text, the CGI program and an SQL operation are single sequential threads: weak fairness of `DocStep`
and of `SqlNext` says that they go on, and that calls to the system return.  A next
text need not come.

## 4. Proofs

All theorems are for arbitrary constants.

**IpcChannel.**  `TypeCorrect` has no assumption.  The others assume `SafeKills`:
SIGTERM does not reach a client in `lock` or `await`; `ipc_kill_awaiting` and `ipc_kill_locking` show
that they are false otherwise.  Clients may crash anywhere.  The argument is the
inductive invariant `IInv`:

- `KernelInv`: which of set and segment exist follows from the server's step;
- `AttachInv`: who is attached, and that a client which comes back to connect
  with a segment does so because the set is gone;
- `OwnerInv`: one client at a time between lock and receipt, also once the
  set is gone; the queue counts it;
- `TurnInv`: the heart of it.  SVR_WAIT is used for both "a request is there" and
  "the response has been read".  Which of the two a pending unit means follows
  from the server's step, and that there is exactly one client it can have
  come from follows from `Pending`, which also covers a client that
  crashed: then the queue stays locked, so its request or response stays alone
  in the segment;
- `SegmentInv`, `AnswerInv`, `RunsInv`: what the cells, the clients' copies and the
  history hold at each step.

`NoWakeupIsLost` needs a second assumption, `SafeReceipts`: no SIGTERM in `copy` or `ack`.
A client that is terminated there has its response and releases the queue in its
handler without a receipt; the server, still waiting for one, takes the
notification of the next client's request for it (`Ipc.c:720`) and that client waits for a
timer.  TLC finds the property violated without the assumption.  `WakeInv` is what
`IInv` lacks: while a client awaits, SVR_WAIT has its unit wherever the server
still has to take it, and a server that waits for a receipt in vain waits for the owner of
the queue (`ReceiptIsOwed`).  `ipc_forever` leaves out `unlock` too: a client that is
terminated between `shmdt` and `unlockClientQ` (`Ipc.c:436-449`) leaves the queue locked until a
timer ends the server, and there the timers never do.

From `IInv` follow `MutualExclusion`, `OwnAnswers`, `AtMostOnce`, `OneOwner`, and in
`Refinement` the step simulation of `RequestReply`: `StartRequest` is
Ask, `RunNode` is Execute, `AckServer` is Reply, every way to give up before the
outcome is known is Fail, everything else stutters.

**IpcStartup.**  `ServerInvariance` (who has the path, what exists) and with it
`OneServerAtATime` and `ServersLeaveNothing` have no assumption.  `Invariance`,
`SetAndSegmentMatch` and `NoUseBeforeSetAll` assume `~ReuseKeys`; the invariant
`LookupInv` says of the two servers whose directories a client saw that they are
the same or the first is past its rmdir.

**ControlFlags.**  No assumption but `ControlAssumption`, which says what the constants
are.  `IInv` relates a client's parse to a server's: `ClientInv` says that a client
which is past its own parse has only flags that `Accepts` lets through, and a key;
`ServerInv` that a server at work has the very flags of the client it serves,
who waits for it, and that `endipc` can only be on if they contain `*ENDIPC`.  The
argument needs both jobs: `ServerTimersValid` holds in a server although `Store`
may store any number, because the string has been accepted as a whole somewhere
else, by an object with a different past.  `Accepts` depends on the flag alone, which is why
that is sound.  `NoServerRefusal`, `TimersStayValid` and `NoForeignEnd` follow.
`NamedApplies` is about the last of several flags with a value, which `CHOOSE` finds; that there is a
last place is proved from the well-foundedness of the naturals.  Its invariant
`ReflectInv` says of a parse at place `at` that for each kind of flag with a value among those before
`at`, the field holds the last one's (`Kept`: a CCSID as the int that is made of it).  Of a kind that does not occur it says nothing: `parse` does
not reset the object, and the field keeps what an earlier request of the job left.

**SqlPool.**  No assumption but `PoolAssumption`.  `IInv` is: connections are numbered
as they come (`NumbersInv`); a label that finds an earlier connection is never
given to a later one (`LabelsInv`), which the lookup before each addition keeps up and
deletion cannot disturb; where parsing and running are (`PlaceInv`); list,
environment and pool exist in that order (`EnvInv`); operations point into the
pool and the pool is connected up to `at` (`OpsInv`, `ConnectedInv`); an SqlUtil that frees all has
left nothing (`FreeInv`).  That `CHOOSE` in `GetConnection` and `First` picks a
least element is proved from the well-foundedness of the naturals.  `LabelsUnambiguous`,
`PointersGood`, `HandlesOwned`, `HandlesInEnv` and `FreeAllFrees` follow; that a new connection is not taken for one whose
handle was refused needs that numbers are not used again.

**NodeRun.**  No assumption but `RunAssumption` (a request is a finite sequence of nodes).
`IInv` is: types; `StaticsTrue` (`fileCreated` only with a complete REXX member, `isQshRdy` only with
both variables set); `EarlierAreOK` and `RecorderIsLast` (all answers but the last have code 0, and
the recorder's code is that of the last); `DataIsOwn`; `MessagesHaveReason` with `OwnAreIgnored`
(what is in the recorder is from a command whose error was ignored and after which no
command has cleared it); `ErrorsAreExplained`, which excepts the results of REXX procedures and of programs in PASE
(`ByResult`).  `MessagesHaveReason` says how far messages can be from the node they belong to, not that they are its own.  One lemma per kind of node says what it makes of the
recorder it finds (`Answered`); the invariant and the step simulation of `Batch` (a node's run is
Answer, `FinishRequest` is Finish, `Load` is Ask) use only that.

**Document.**  No assumption but those on the constants.  `FollowsGrammar` is for any text with anything behind it.  Where the grammar says
what the ends of a node are, the parser has a stack of functions that have done part of their work: `EndsOf` gives, for
each state of a frame and each place, the ends that the node of this frame can still have.  `ParserInv` is:
types (`TreeInv`, with where the parser may be when it looks at one character more than there is); `Viable` (of a request,
each frame has an end, and it is one from which the frame below can go on, down to the end
of the text); `Leads` (each end a frame can still have is, by the lenient reading, an end of the node
that begins where the frame began, down to the first place).  A step in a frame keeps the set of its ends, a step into
a child splits it, and a step out of one reduces it to the place behind the bracket.
A frame of a request is never refused, as a frame with an end has something the parser goes on with
(`NotRefused`), nor does it run over the end (`NoOverrun`): then only `init` can fail.  That `ListEnds` is
what its recursive definition says needs a list to end behind the place where it begins (`NodesBehind`); it is the fixed point that
`Recursion` in `SequenceLemmas` gives.

`TreeHoldsTheText` is for any text with nothing like JSON behind it, and for any request whatever is behind it: once it is
parsed, `Output`, what is written of the tree, has the tokens of the text up to the place the parser has reached.  `TextInv` says where that comes from while
nodes are half made.  `Forest`: nodes refer to later ones only, each frame of the stack waits for the node of the next frame, and nothing else
refers to a node that is not finished.  `Spells`: there are a text for each finished node, which is what it writes with the texts
of those it refers to (`Written`), and a text for each frame, which is that of the frame below with what its node has so far (`Part`, by the
frame's state); the last one is what was read.  A step in a frame adds a token to the part and to the text (`SpellsOnward`); a step into a child adds a
node nobody refers to but the frame below (`SpellsInward`); a step out makes the part of the node its whole text (`Fills`, `Finished`, `SpellsOutward`),
and the first node's is the text (`SpellsLast`).  The parser may take a character that is behind the text for a part of it, and then the tree is not that
of the text: `NoOverrun` of `ParserInv` excludes it for requests, and `NothingBehind` for other texts.  `OutputOf` is recursive over the tree;
it is the only function that writes each node with the texts of those it refers to, because these are later ones (`OneOutput`), and
so it is the `w` of `Spells`.

**SqlFetch.**  No assumption but `FetchAssumption`; rows, blocks and recs may be any
numbers.  `IInv` is: types; `Asked` (block and rec are what was given, cut to an int); `Valid` (not negative once past the
checks); `Rows` (the data are the rows from rec to the cursor); `NotYet`, `InLoop` and `AfterLoop`
(`rowNum` against the length of the data before, in and after the loop, and how the loop was
left).  `RowsAreAsAsked` and `CountIsOfRows` (that `CountIsNear`) follow.

**HttpCgi.**  The assumption is `CgiAssumption` and `AtoiIsInt`, that what atoi returns is an
int.  `CgiInv` is: the recorder is clean until the first error and then has a code and a message
(`RecorderInv`, for which each step of the call either fails with a report or leaves the recorder
alone); what is put out is the output of a call that succeeded or those messages, and it is
the response once it is written (`OutInv`); `NothingLeft`.  `AnswersAreGood` needs `ChosenHasRoom`: for
every size an int can have there is a procedure, and its buffer is large enough or nearly so.

`SentIsRun` (every plain parameter of a request has the value it was sent with, in whatever order and
number they come, but for the last one if anything is escaped; the size of the output is right there too) needs the texts and, for
that size, `AtoiStops`: atoi does not look behind the NUL.  `TextInv` says that what was read and what is still unread are
together the text of the request, and that the parameters were chopped from all of it, unescaped.  The rest is about
that text: `FlattenSteps` and `FlattenAppend` make it a sequence of pieces, an induction over the pieces shows where a tag's first
occurrence is (`Position`), and that the value ends where the next `&` is (`ValueIn`), because a plain parameter
contains neither a tag nor a `&`.

**ProgramCall.**  The assumptions are `ArgumentsAssumption` and `CallAssumption`, and for the list of
`_ILECALL` that a pointer has 16 bytes (`PointersAre16`; `sizeof(char*)` is that in ILE, and `Arguments::create` counts
with 16).  `StateInv` (nothing has failed while there is more to make; the interface is the one
`NeedsPase` chose; a call in PASE has a PASE, name space and symbol; starts are counted by calls) gives
`CallsAreGood`.  `ListInv` adds what the padding of all arguments together can be: `Up16`, the next multiple of 16,
is never before that of another boundary, so each argument costs no more than `Room` has added for it, and the
list runs over by the last padding only (`ListsAreLaidOut`: `ListInOrder`, and `ListOverrun` for how far `ListFits` is missed).

The other theorems are about values at any depth.  That `CopyIn`, `CopyBack`, `Leaves`, `Offset` and `EntriesTaken` are what their
recursive definitions say is `Recursion` in `SequenceLemmas`: a function that on layer k + 1 asks for values of layer k
only has a fixed point, and so `CHOOSE` finds one.  A fact about every parameter is shown for one
whose entries have it, and `OfAll` carries it through the layers.

- `InputsGetThere`.  `IsAt` says that a made parameter is in memory M where a context (block, offset, the ways around
  it, the pointers to it) says: all cells of its block from its offset on are those it made, shifted; all below its path are its own; and
  the pointers are there unless what they are in is output only.  A structure's entries are then at the contexts of the
  entries (`EntryIsAt`), down to the leaves (`LeavesFound`).  It needs that entries do not overlap (`OffsetsGrow`), that
  paths of different entries are different (`PathsAre`) and that a parameter writes in its own size only (`MadeInShape`).
  `MemoryInv` says of each step of a node that memory is that of the arguments made so far.
- `OutputsGetBack`.  The same downwards: `GoesBack` relates the memory copyBack works on, in which the blocks of entries
  by value are overwritten with parts of the structure, to the memory the program has left, and is
  kept from a structure to its entries (`EntryGoesBack`).  `BackInv` says that after each argument the attributes are those its leaves give, and
  all of them as long as the recorder is clean.
- `GoodGetsIn`: a refused parameter has a leaf with a wrong value, or one that is no character and no "int" while errno was set.
  errno is what earlier conversions and programs left: of the conversions only "int" and the digits of a "hex" reset it
  (`Argument.c`, lines 675 and 645), so the theorem is the most that can be said.

Only model-checked: everything about liveness (`EveryRequestEnds`, `QueueRecovers`,
`EveryConnectEnds`, `PathIsFreed`, `EndsWhenAsked`, `EveryTextIsReplied`, `EverythingEnds`), which
tlapm cannot do; `SameServer` and `InitializedBeforeUse` with reused keys, where they are about
the runs' keys; and of `TreeIsTheText` the parts `NumbersAreStrings` and `PlanIsTheText` (the nodes that are run are the outermost ones of the text, in
their order), which counts brackets and runnable nodes by the cardinality of sets of places.  The other part is `TreeHoldsTheText`.

## 5. Not modelled, and why

- A server job that is killed without its handler: `Ipc.h:19-24` documents manual
  cleanup; the code does nothing about it.
- Failures of `setTimeout`, `setSignals` and of the server's own semops other
  than by removal: they lead to `destroy`, like SIGTERM, which is modelled.
- Sizes: the segment has 16 MB, and nothing checks that data fits.
- Durations, other than as polls.
- How a flag is cut out of the control string and the limit of 1024 characters, and
  the `int` arithmetic on `*waitserver` (2148 seconds and more overflow it).
- In SQL: the values and types of parameters and columns, the attributes of a connection
  other than autocommit, the texts of errors.
- Bytes of the caller's buffer, of the segment and of texts: `Document` has the copy as a step.
- Letter case, digits and conversions of values and between CCSIDs, other than whether they succeed and that
  a CCSID is cut to an int; escapes in JSON strings; of escapes in a URL which character they stand for.
- `popen`, `fgets` and `pclose` in PASE (`Pase.c:775-1151`), of which NodeRun has the result; the helper
  programs in `pase/`, which run behind a system interface.
- `JobInfo.c` and `JobUtil.c` beyond the node that runs them: they copy fields of system
  structures.
- `Main.c` and the SQL of the stored procedures: they pass parameters on.
- The tests and samples.

## 6. Plan

1. done: `RequestReply`, `IpcChannel`, `IpcStartup`, their invariants and proofs.
2. done: `ControlFlags` and `SqlPool` with their proofs.
3. done: `NodeTree`, `NodeRun`, `Document`, `JsonGrammar`, `Batch`; proofs of `NodeRun` and of the parser.
4. done: `SqlFetch`, `HttpCgi`, `Arguments`, `ProgramCall` with their proofs.
5. Compositions: `IpcChannel` with `ControlFlags` (the parse in the segment, the timers
   and the end of the server as the flags give them), `NodeRun` with `SqlPool`.
6. done: `NoWakeupIsLost`, `NamedApplies`, the safety of `HttpCgi`.
7. The shells in PASE (`popen`, `fgets`, `pclose`) and the values of SQL parameters.
8. A theorem for `PlanIsTheText`.
