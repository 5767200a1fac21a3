---------------------------- MODULE ControlFlags ----------------------------
(***************************************************************************)
(* The control flags of Control.c and how far they reach.                  *)
(*                                                                         *)
(* A job has one Control object.  Control::parse goes through the flags of *)
(* a request one by one and stores their values there; what a request does *)
(* not name keeps the value it has.  A client that has an IPC key sends    *)
(* the flags of its request on, and the server job parses them again into  *)
(* its own Control object, which serves one client after the other.        *)
(*                                                                         *)
(* A control string is a sequence of flags [flag, val].  A flag without    *)
(* "(...)", or with a parenthesis that is never closed, has val NoValue;   *)
(* for *IPC, *IPCSVR and *SBMJOB an unclosed parenthesis is skipped and    *)
(* then met as an unknown flag, so it is the sequence of two.              *)
(*                                                                         *)
(* Queue, segment and failures of IPC are the subject of IpcChannel; here  *)
(* a conversation is two steps, and a server job is named by its key.      *)
(***************************************************************************)
EXTENDS Integers, Sequences

CONSTANTS
  Clients,   \* the client jobs
  Keys,      \* the IPC keys, each with the server job that listens there
  Strings,   \* the control strings the callers give
  Names,     \* job, job description and user names, and program names
  Defaults,  \* the names of the constructor: [svr, job], job a triple
  NoValue,   \* no value given
  Overflow,  \* a number strtoll cannot represent (ERANGE)
  Blank,     \* "()" or blanks only
  NoKey,     \* the empty _ipcKey
  NoJob,
  IntSize,   \* how many values an int has
  MaxReq     \* how many requests a client makes (bound)

CcsidFlags == {"AFTER", "BEFORE"}
TimerFlags == {"WAITCLIENT", "WAITDATA", "WAITSERVER"}
Switches == {"ENDIPC", "IPCLOG", "JAVA", "PERFORMANCE"}

\* A flag as Control::parse meets it: a CCSID as strtoll reads it, a timer as
\* atoi does.
Flag ==
  [flag : CcsidFlags, val : Int \cup {NoValue, Overflow}]
    \cup [flag : TimerFlags, val : Int \cup {NoValue}]
    \cup [flag : {"IPC"}, val : Keys \cup {Blank, NoValue}]
    \cup [flag : {"IPCSVR"}, val : Names \cup {NoValue}]
    \cup [flag : {"SBMJOB"}, val : Seq(Names) \cup {NoValue}]
    \cup [flag : Switches \cup {"UNKNOWN"}, val : {NoValue}]

ASSUME ControlAssumption ==
  /\ Clients \cap Keys = {}
  /\ NoKey \notin Keys /\ NoJob \notin Clients
  /\ {"none", "local", "error"} \cap Keys = {}
  /\ NoValue \notin Int /\ NoValue \notin Seq(Names)
  /\ NoValue \notin Keys \cup Names
  /\ Overflow \notin Int
  /\ Blank \notin Keys
  /\ NoValue # Overflow /\ NoValue # Blank
  /\ Strings \subseteq Seq(Flag)
  /\ IntSize \in Nat /\ IntSize > 1 /\ IntSize % 2 = 0
  /\ Defaults.svr \in Names /\ Defaults.job \in [1 .. 3 -> Names]
  /\ MaxReq \in Nat

Jobs == Clients \cup Keys

VARIABLES
  ctl,     \* the Control object of each job
  flags,   \* its _flags
  at,      \* the flag that the loop of parse is at
  ret,     \* the result parse has so far
  pc,      \* the state of runService or runServer each job is in
  serving, \* the client each server job is serving, or NoJob
  reqNo,   \* how many requests each client has begun
  given,   \* history: the control string of each client's request
  answer   \* history: where each client's request was run, and its CCSIDs

parsing == <<flags, at, ret>>
vars == <<ctl, parsing, pc, serving, reqNo, given, answer>>

Control ==
  [ipcKey : Keys \cup {NoKey}, after : Int, before : Int,
   endipc : BOOLEAN, ipc_log : BOOLEAN, java : BOOLEAN, performance : BOOLEAN,
   ipc_svr : Names, sbmjob : [1 .. 3 -> Names],
   wait_client : Int, wait_data : Int, wait_server : Int]

ClientStates == {"IDLE", "PARSE", "CONNECT", "AWAIT", "SETUP", "RUN", "ERROR_FR"}
ServerStates == {"DOWN", "LISTEN", "PARSE", "SETUP", "RUN", "ERROR_FR"}

Unanswered == [where |-> "none", before |-> 0, after |-> 0]
Answers == [where : Keys \cup {"none", "local", "error"}, before : Int, after : Int]

TypeOK ==
  /\ ctl \in [Jobs -> Control]
  /\ flags \in [Jobs -> Strings \cup {<<>>}]
  /\ at \in [Jobs -> Nat \ {0}]
  /\ ret \in [Jobs -> BOOLEAN]
  /\ pc \in [Jobs -> ClientStates \cup ServerStates]
  /\ \A c \in Clients : pc[c] \in ClientStates
  /\ \A k \in Keys : pc[k] \in ServerStates
  /\ serving \in [Keys -> Clients \cup {NoJob}]
  /\ reqNo \in [Clients -> 0 .. MaxReq]
  /\ given \in [Clients -> Strings \cup {<<>>}]
  /\ answer \in [Clients -> Answers]

\* Control::Control().
Constructed ==
  [ipcKey |-> NoKey, after |-> 0, before |-> 0,
   endipc |-> FALSE, ipc_log |-> FALSE, java |-> FALSE, performance |-> FALSE,
   ipc_svr |-> Defaults.svr, sbmjob |-> Defaults.job,
   wait_client |-> 300, wait_data |-> 5, wait_server |-> 5]

Init ==
  /\ ctl = [j \in Jobs |-> Constructed]
  /\ flags = [j \in Jobs |-> <<>>]
  /\ at = [j \in Jobs |-> 1]
  /\ ret = [j \in Jobs |-> TRUE]
  /\ pc = [j \in Jobs |-> IF j \in Clients THEN "IDLE" ELSE "DOWN"]
  /\ serving = [k \in Keys |-> NoJob]
  /\ reqNo = [c \in Clients |-> 0]
  /\ given = [c \in Clients |-> <<>>]
  /\ answer = [c \in Clients |-> Unanswered]

-----------------------------------------------------------------------------
(* Control::parse                                                          *)

\* Variant: the sign of a timer is not checked.
Accepts_AnyTimer(t) ==
  CASE t.flag \in CcsidFlags -> t.val \in Int
    [] t.flag \in TimerFlags -> t.val \in Int
    [] t.flag = "IPC" -> t.val # Blank
    [] OTHER -> t.flag # "UNKNOWN"

\* Whether parse goes on to return true after this flag.
Accepts(t) ==
  CASE t.flag \in CcsidFlags -> t.val \in Int
    [] t.flag \in {"WAITCLIENT", "WAITDATA"} -> t.val \in Int /\ t.val >= 0
    [] t.flag = "WAITSERVER" -> t.val \in Int /\ t.val > 0
    [] t.flag = "IPC" -> t.val # Blank
    [] OTHER -> t.flag # "UNKNOWN"

\* A flag that is known but wrong breaks the loop; an unknown one is skipped.
Breaks(t) == ~ Accepts(t) /\ t.flag # "UNKNOWN"

\* The conversion of a long long to int keeps its low bits.
ToInt(n) == LET low == n % IntSize IN IF low < IntSize \div 2 THEN low ELSE low - IntSize

\* What parse stores for a flag with a value.  A CCSID is cut to an int, and
\* only one too large for a long long is refused.  Values of *IPC and of the
\* timers are stored before they are checked; *SBMJOB stores as many of its
\* three names as there are.
StoreValue(t, o) ==
  CASE t.flag = "AFTER" ->
         IF t.val = Overflow THEN o ELSE [o EXCEPT !.after = ToInt(t.val)]
    [] t.flag = "BEFORE" ->
         IF t.val = Overflow THEN o ELSE [o EXCEPT !.before = ToInt(t.val)]
    [] t.flag = "WAITCLIENT" -> [o EXCEPT !.wait_client = t.val]
    [] t.flag = "WAITDATA" -> [o EXCEPT !.wait_data = t.val]
    [] t.flag = "WAITSERVER" -> [o EXCEPT !.wait_server = t.val]
    [] t.flag = "IPC" -> [o EXCEPT !.ipcKey = IF t.val = Blank THEN NoKey ELSE t.val]
    [] t.flag = "IPCSVR" -> [o EXCEPT !.ipc_svr = t.val]
    [] t.flag = "SBMJOB" ->
         [o EXCEPT !.sbmjob =
            [i \in 1 .. 3 |-> IF i <= Len(t.val) THEN t.val[i] ELSE @[i]]]
    [] OTHER -> o

\* What parse stores for a flag that takes no value.
StoreSwitch(t, o) ==
  CASE t.flag = "ENDIPC" -> [o EXCEPT !.endipc = TRUE]
    [] t.flag = "IPCLOG" -> [o EXCEPT !.ipc_log = TRUE]
    [] t.flag = "JAVA" -> [o EXCEPT !.java = TRUE]
    [] t.flag = "PERFORMANCE" -> [o EXCEPT !.performance = TRUE]
    [] OTHER -> o

\* Variants: *ENDIPC is dropped; *BEFORE is stored where *AFTER belongs.
Store_NoEnd(t, o) ==
  IF t.flag = "ENDIPC" THEN o
  ELSE IF t.val = NoValue THEN StoreSwitch(t, o) ELSE StoreValue(t, o)

Store_OneCcsid(t, o) ==
  IF t.val = NoValue THEN StoreSwitch(t, o)
  ELSE StoreValue(IF t.flag = "BEFORE" THEN [t EXCEPT !.flag = "AFTER"] ELSE t, o)

\* What parse stores for a flag in the Control object o.
Store(t, o) == IF t.val = NoValue THEN StoreSwitch(t, o) ELSE StoreValue(t, o)

\* One round of the loop.
ParseFlag(j) ==
  /\ pc[j] = "PARSE"
  /\ at[j] <= Len(flags[j])
  /\ LET t == flags[j][at[j]] IN
       /\ ctl' = [ctl EXCEPT ![j] = Store(t, @)]
       /\ ret' = [ret EXCEPT ![j] = @ /\ Accepts(t)]
       /\ at' = [at EXCEPT ![j] = IF Breaks(t) THEN Len(flags[j]) + 1 ELSE @ + 1]
  /\ UNCHANGED <<flags, pc, serving, reqNo, given, answer>>

Parsed(j) == pc[j] = "PARSE" /\ at[j] > Len(flags[j])

Goto(j, state) == pc' = [pc EXCEPT ![j] = state]

\* The start of parse: _flags is cleared and filled with the new string, in
\* upper case and without blanks; nothing else is reset.
BeginParse(j, fs) ==
  /\ flags' = [flags EXCEPT ![j] = fs]
  /\ at' = [at EXCEPT ![j] = 1]
  /\ ret' = [ret EXCEPT ![j] = TRUE]

-----------------------------------------------------------------------------
(* The client: runService                                                  *)

\* Variant: the flags of the former request are not cleared.
StartRequest_KeepsFlags(c) ==
  /\ pc[c] = "IDLE"
  /\ reqNo[c] < MaxReq
  /\ \E fs \in Strings :
       /\ given' = [given EXCEPT ![c] = fs]
       /\ BeginParse(c, flags[c] \o fs)
  /\ reqNo' = [reqNo EXCEPT ![c] = @ + 1]
  /\ answer' = [answer EXCEPT ![c] = Unanswered]
  /\ Goto(c, "PARSE")
  /\ UNCHANGED <<ctl, serving>>

StartRequest(c) ==
  /\ pc[c] = "IDLE"
  /\ reqNo[c] < MaxReq
  /\ \E fs \in Strings :
       /\ given' = [given EXCEPT ![c] = fs]
       /\ BeginParse(c, fs)
  /\ reqNo' = [reqNo EXCEPT ![c] = @ + 1]
  /\ answer' = [answer EXCEPT ![c] = Unanswered]
  /\ Goto(c, "PARSE")
  /\ UNCHANGED <<ctl, serving>>

\* Variant: the result of parse is not looked at.
Route_Anyway(c) ==
  /\ Parsed(c)
  /\ Goto(c, IF ctl[c].ipcKey # NoKey THEN "CONNECT" ELSE "SETUP")
  /\ UNCHANGED <<ctl, parsing, serving, reqNo, given, answer>>

\* STS_CONTROL_INIT: an error, or a client of a server, or on our own.
Route(c) ==
  /\ Parsed(c)
  /\ Goto(c, IF ~ ret[c] THEN "ERROR_FR"
             ELSE IF ctl[c].ipcKey # NoKey THEN "CONNECT" ELSE "SETUP")
  /\ UNCHANGED <<ctl, parsing, serving, reqNo, given, answer>>

\* The loop of clientConnect runs while time is left, and the server takes up
\* the flags that the client wrote.
SendRequest(c) ==
  LET k == ctl[c].ipcKey IN
  /\ pc[c] = "CONNECT"
  /\ ctl[c].wait_server > 0
  /\ pc[k] = "LISTEN"
  /\ serving' = [serving EXCEPT ![k] = c]
  /\ BeginParse(k, flags[c])
  /\ pc' = [pc EXCEPT ![c] = "AWAIT", ![k] = "PARSE"]
  /\ UNCHANGED <<ctl, reqNo, given, answer>>

\* No server within the time, or a failure on the way.
ConnectFails(c) ==
  /\ pc[c] = "CONNECT"
  /\ Goto(c, "ERROR_FR")
  /\ UNCHANGED <<ctl, parsing, serving, reqNo, given, answer>>

\* The server ended without an answer.
AwaitFails(c) ==
  /\ pc[c] = "AWAIT"
  /\ serving[ctl[c].ipcKey] # c
  /\ Goto(c, "ERROR_FR")
  /\ UNCHANGED <<ctl, parsing, serving, reqNo, given, answer>>

\* STS_CONTROL_SETUP and STS_NODE_INIT: Pase::start if *java is on, which may
\* fail, and parseNode, which may refuse the input.
SetupLocal(c) ==
  /\ pc[c] = "SETUP"
  /\ Goto(c, "RUN") \/ Goto(c, "ERROR_FR")
  /\ UNCHANGED <<ctl, parsing, serving, reqNo, given, answer>>

\* The input was read in before, the output is written in after.
RunLocal(c) ==
  /\ pc[c] = "RUN"
  /\ answer' = [answer EXCEPT ![c] =
       [where |-> "local", before |-> ctl[c].before, after |-> ctl[c].after]]
  /\ Goto(c, "IDLE")
  /\ UNCHANGED <<ctl, parsing, serving, reqNo, given>>

\* STS_ERROR_FR: the messages, in after.
ReportError(c) ==
  /\ pc[c] = "ERROR_FR"
  /\ answer' = [answer EXCEPT ![c] =
       [where |-> "error", before |-> 0, after |-> ctl[c].after]]
  /\ Goto(c, "IDLE")
  /\ UNCHANGED <<ctl, parsing, serving, reqNo, given>>

-----------------------------------------------------------------------------
(* The server: runServer                                                   *)

\* A new job, with a Control object of its own.
StartServer(k) ==
  /\ pc[k] = "DOWN"
  /\ ctl' = [ctl EXCEPT ![k] = Constructed]
  /\ Goto(k, "LISTEN")
  /\ UNCHANGED <<parsing, serving, reqNo, given, answer>>

\* *WAITCLIENT is over; 0 is for ever.
Expire(k) ==
  /\ pc[k] = "LISTEN"
  /\ ctl[k].wait_client > 0
  /\ Goto(k, "DOWN")
  /\ UNCHANGED <<ctl, parsing, serving, reqNo, given, answer>>

ServerParsed(k) ==
  /\ Parsed(k)
  /\ Goto(k, IF ret[k] THEN "SETUP" ELSE "ERROR_FR")
  /\ UNCHANGED <<ctl, parsing, serving, reqNo, given, answer>>

\* The same in a server, except that one whose Pase::start fails ends without
\* an answer.
SetupServer(k) ==
  /\ pc[k] = "SETUP"
  /\ \/ (Goto(k, "RUN") \/ Goto(k, "ERROR_FR")) /\ UNCHANGED serving
     \/ /\ ctl[k].java
        /\ Goto(k, "DOWN")
        /\ serving' = [serving EXCEPT ![k] = NoJob]
  /\ UNCHANGED <<ctl, parsing, reqNo, given, answer>>

\* The answer is out; back in STS_IPC_SVR_LISTEN, beingEnded() is asked.
Reply(k, a) ==
  LET c == serving[k] IN
  /\ answer' = [answer EXCEPT ![c] = a]
  /\ serving' = [serving EXCEPT ![k] = NoJob]
  /\ pc' = [pc EXCEPT ![c] = "IDLE",
                      ![k] = IF ctl[k].endipc THEN "DOWN" ELSE "LISTEN"]
  /\ UNCHANGED <<ctl, parsing, reqNo, given>>

RunServer(k) ==
  /\ pc[k] = "RUN"
  /\ Reply(k, [where |-> k, before |-> ctl[k].before, after |-> ctl[k].after])

ReplyError(k) ==
  /\ pc[k] = "ERROR_FR"
  /\ Reply(k, [where |-> "error", before |-> 0, after |-> ctl[k].after])

ClientStep(c) ==
  \/ ParseFlag(c) \/ Route(c) \/ SendRequest(c) \/ ConnectFails(c)
  \/ AwaitFails(c) \/ SetupLocal(c) \/ RunLocal(c) \/ ReportError(c)

ServerStep(k) ==
  \/ ParseFlag(k) \/ ServerParsed(k) \/ SetupServer(k) \/ RunServer(k)
  \/ ReplyError(k)

\* All requests are over; a server that waits for ever may be left.
Quiescent ==
  /\ \A c \in Clients : pc[c] = "IDLE" /\ reqNo[c] = MaxReq
  /\ UNCHANGED vars

Next ==
  \/ \E c \in Clients : StartRequest(c) \/ ClientStep(c)
  \/ \E k \in Keys : StartServer(k) \/ Expire(k) \/ ServerStep(k)
  \/ Quiescent

Spec == Init /\ [][Next]_vars

\* Jobs that can go on do; nobody has to start a request or a server, and a
\* server need not be idle for long enough.
FairSpec ==
  /\ Spec
  /\ \A c \in Clients : WF_vars(ClientStep(c))
  /\ \A k \in Keys : WF_vars(ServerStep(k))

-----------------------------------------------------------------------------
(* Properties                                                              *)

AllAccepted(fs) == \A i \in 1 .. Len(fs) : Accepts(fs[i])

HasFlag(fs, f) == \E i \in DOMAIN fs : fs[i].flag = f

\* The server never refuses flags that a client has sent: both parse the same
\* string, and the client lets through only what its own parse accepts.  The
\* error path of STS_CONTROL_INIT in runServer is never taken.
ServerAccepts == \A k \in Keys : ret[k]

\* The timers of a server job stay usable for setTimeout, though parse stores
\* a timer before it checks it and the client's own object may hold a negative
\* one: clients never pass such flags on.
ServerTimersValid == \A k \in Keys : ctl[k].wait_client >= 0 /\ ctl[k].wait_data >= 0

\* A server comes to its end by beingEnded() only through the request it is
\* serving: no flag of a former request of this or of another client does it.
EndsOnlyWhenAsked ==
  \A k \in Keys :
    pc[k] \in {"SETUP", "RUN", "ERROR_FR"} /\ ctl[k].endipc =>
      HasFlag(given[serving[k]], "ENDIPC")

\* The places where a string gives flag f a value, and the value given last.
Valued(fs, f) == {i \in DOMAIN fs : fs[i].flag = f /\ fs[i].val # NoValue}
LastValue(fs, f) == fs[CHOOSE i \in Valued(fs, f) : \A h \in Valued(fs, f) : h <= i].val

NamedApply(c) ==
  answer[c].where \in Keys \cup {"local"} =>
    /\ Valued(given[c], "AFTER") # {} =>
         answer[c].after = ToInt(LastValue(given[c], "AFTER"))
    /\ Valued(given[c], "BEFORE") # {} =>
         answer[c].before = ToInt(LastValue(given[c], "BEFORE"))
    /\ Valued(given[c], "IPC") # {} =>
         answer[c].where = LastValue(given[c], "IPC")

\* A request that is run is run where its *IPC says and with the CCSIDs its
\* *BEFORE and *AFTER say, the last of each, whatever earlier requests of this
\* job, or of other clients of the server, have left in the Control objects.
\* A CCSID that is no int counts as the int that (int)lli makes of it, see
\* CcsidsAreNamed.
NamedFlagsApply == \A c \in Clients : NamedApply(c)

\* src/README.md:98-99: *before and *after are the CCSIDs of input and output.
\* TLC finds this violated: one that is no int, but a long long, is cut, and
\* the request is run with another CCSID than it names; nothing says so.
CcsidsAreNamed ==
  \A c \in Clients :
    answer[c].where \in Keys \cup {"local"} =>
      /\ Valued(given[c], "AFTER") # {} => answer[c].after = LastValue(given[c], "AFTER")
      /\ Valued(given[c], "BEFORE") # {} => answer[c].before = LastValue(given[c], "BEFORE")

\* A server that takes a request with *ENDIPC ends.
EndsWhenAsked ==
  \A k \in Keys, c \in Clients :
    (pc[k] = "PARSE" /\ serving[k] = c /\ HasFlag(given[c], "ENDIPC"))
      ~> pc[k] = "DOWN"

\* The inductive invariant behind the first three: what a client has let
\* through, and that a server works on just that.
ClientInv ==
  \A c \in Clients :
    /\ flags[c] = given[c]
    /\ pc[c] = "PARSE" /\ ret[c] =>
         \A i \in 1 .. Len(flags[c]) : i < at[c] => Accepts(flags[c][i])
    /\ pc[c] \in {"CONNECT", "AWAIT"} =>
         AllAccepted(flags[c]) /\ ctl[c].ipcKey \in Keys

ServerInv ==
  \A k \in Keys :
    /\ AllAccepted(flags[k])
    /\ pc[k] \in {"DOWN", "LISTEN"} => serving[k] = NoJob
    /\ pc[k] \in {"PARSE", "SETUP", "RUN", "ERROR_FR"} =>
         /\ serving[k] \in Clients
         /\ pc[serving[k]] = "AWAIT"
         /\ ctl[serving[k]].ipcKey = k
         /\ flags[k] = given[serving[k]]
         /\ ctl[k].endipc => HasFlag(flags[k], "ENDIPC")
    /\ pc[k] = "LISTEN" => ~ ctl[k].endipc

IInv == TypeOK /\ ClientInv /\ ServerInv /\ ServerAccepts /\ ServerTimersValid

\* The invariant behind NamedFlagsApply: the first n - 1 flags of a string show
\* in a Control object, each but those of the same name that are followed by
\* another one.
Kept(f, v) == IF f \in CcsidFlags THEN ToInt(v) ELSE v

Field(o, f) ==
  CASE f = "AFTER" -> o.after [] f = "BEFORE" -> o.before [] f = "IPC" -> o.ipcKey

Shows(o, fs, n) ==
  \A f \in CcsidFlags \cup {"IPC"} : \A i \in Valued(fs, f) :
    i < n /\ (\A h \in Valued(fs, f) : h < n => h <= i) =>
      Field(o, f) = Kept(f, fs[i].val)

ShowsAll(j) == Shows(ctl[j], flags[j], Len(flags[j]) + 1)

ReflectInv ==
  /\ \A j \in Jobs :
       /\ pc[j] = "PARSE" /\ ret[j] => Shows(ctl[j], flags[j], at[j])
       /\ pc[j] \in {"CONNECT", "AWAIT", "SETUP", "RUN"} => ShowsAll(j)
  /\ \A c \in Clients :
       /\ pc[c] \in {"SETUP", "RUN"} => AllAccepted(flags[c]) /\ ctl[c].ipcKey = NoKey
       /\ pc[c] # "IDLE" => answer[c] = Unanswered

\* What Control.c:120 says of a request without flags, "all go default": it is
\* run in the caller's job.  It is not: the key of an earlier request is kept.
NoFlagsIsLocal ==
  \A c \in Clients : given[c] = <<>> => answer[c].where \notin Keys

\* What README.md:109 says of *WAITSERVER, "Value must greater than 0": no
\* client connects with another one.  It does in the request after a refused one.
WaitServerPositive == \A c \in Clients : pc[c] = "CONNECT" => ctl[c].wait_server > 0
=============================================================================
