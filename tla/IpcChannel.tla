----------------------------- MODULE IpcChannel -----------------------------
(***************************************************************************)
(* The conversation between IPC client jobs and ONE IPC server job.        *)
(*                                                                         *)
(* A server job owns one set of three System V semaphores and one shared   *)
(* memory segment.  Client jobs take turns: a client locks the client      *)
(* queue (QCLNT), copies its control flags and its input into the segment, *)
(* wakes the server (SVR_WAIT), sleeps (CLNT_WAIT), copies the response    *)
(* out, tells the server so (SVR_WAIT again), detaches and unlocks.  The   *)
(* server parses the request in place and overwrites it with the response. *)
(* The model is the two state engines runService and runServer of          *)
(* IService.c over the operations of Ipc.c, one action per semaphore       *)
(* operation or access to the segment.                                     *)
(*                                                                         *)
(* Several generations of servers, the key directory and the submission    *)
(* of server jobs are the subject of module IpcStartup: here a client that *)
(* is told to reconnect after the server is gone can only time out.        *)
(***************************************************************************)
EXTENDS Naturals

CONSTANTS
  Clients,       \* the client jobs
  MaxReq,        \* how many requests a client job makes (bound)
  EndRequests,   \* requests whose control flags hold *ENDIPC
  WaitForever,   \* requests carry *WAITCLIENT(0)*WAITDATA(0)
  KillAt,        \* steps at which SIGTERM may reach a client
  CrashAt,       \* steps at which a client may end without its handler
  ServerMayTerm, \* SIGTERM may reach the server
  JavaMayFail    \* Pase::start may fail in the server

Requests == Clients \X (1 .. MaxReq)

\* The steps of a client from the moment it owns the queue until it has
\* told the server that it copied the response.
Talking == {"control", "input", "notify", "await", "copy", "ack"}

ClientSteps == Talking \cup {"idle", "shmget", "shmat", "lock", "close",
                             "unlock", "dead"}

ServerSteps == {"setup", "listen", "wait", "took", "parse", "run", "copyout",
                "wake", "waitrcv", "rcvd", "rmshm", "rmsem", "ended"}

\* Variants: no timer while waiting for the receipt, or for a request.
Timed_NotForReceipt == {"wait", "took"}
Timed_NotForRequest == {"wake", "waitrcv", "rcvd"}

\* The server's timer runs from setTimeout(true) to setTimeout(false), so
\* also just before and just after the semop it guards.
Timed == {"wait", "took", "wake", "waitrcv", "rcvd"}

ASSUME ChannelAssumption ==
  /\ MaxReq \in Nat
  /\ EndRequests \subseteq Requests
  /\ WaitForever \in BOOLEAN
  /\ ServerMayTerm \in BOOLEAN
  /\ JavaMayFail \in BOOLEAN
  \* the client's handler is installed once it is attached, IService.c:96
  /\ KillAt \subseteq ClientSteps \ {"idle", "dead"}
  /\ CrashAt \subseteq ClientSteps \ {"idle", "dead"}

VARIABLES
  semid,    \* the semaphore set: "none", "live" or "removed"
  qclnt,    \* semaphore QCLNT
  svrWait,  \* semaphore SVR_WAIT
  clntWait, \* semaphore CLNT_WAIT
  shmid,    \* the segment: "none", "live" or "removed"
  head,     \* the segment's first part: sizes and control flags, or response
  body,     \* the segment's second part: input data, or rest of response
  cpc,      \* the step each client is at
  reqNo,    \* the number of the request each client is making
  att,      \* _shdm_p of each client: "null", "ok" or "bad" (a failed shmat)
  rcv,      \* what each client copied out of the segment
  answer,   \* what runService returned for each client's request
  spc,      \* the step the server is at
  patient,  \* the server's timers are set to 0: forever
  endipc,   \* Control::_endipc of the server
  flags,    \* the control flags the server parsed last
  out,      \* outputStr of the server
  runs      \* history: how often the server executed each request

kernel == <<semid, qclnt, svrWait, clntWait, shmid>>
segment == <<head, body>>
client == <<cpc, reqNo, att, rcv, answer>>
server == <<spc, patient, endipc, flags, out, runs>>
vars == <<kernel, segment, client, server>>

-----------------------------------------------------------------------------
(* Contents of the segment.  A request and its answer are told apart only  *)
(* by the request they belong to.                                          *)

Blank == <<"blank">>
Req(r) == <<"req", r>>
Res(r) == <<"res", r>>
Fault == <<"fault">>      \* error output: FlightRec::toString
Garbled == <<"garbled">>  \* the parts do not belong together

Cells == {Blank, Fault, Garbled} \cup {Req(r) : r \in Requests}
                                 \cup {Res(r) : r \in Requests}

Current(c) == <<c, reqNo[c]>>

TypeOK ==
  /\ semid \in {"none", "live", "removed"}
  /\ shmid \in {"none", "live", "removed"}
  /\ qclnt \in Nat /\ svrWait \in Nat /\ clntWait \in Nat
  /\ head \in Cells /\ body \in Cells
  /\ cpc \in [Clients -> ClientSteps]
  /\ reqNo \in [Clients -> 0 .. MaxReq]
  /\ att \in [Clients -> {"null", "ok", "bad"}]
  /\ rcv \in [Clients -> Cells]
  /\ answer \in [Clients -> Cells]
  /\ spc \in ServerSteps
  /\ patient \in BOOLEAN /\ endipc \in BOOLEAN
  /\ flags \in Cells /\ out \in Cells
  /\ runs \in [Requests -> Nat]
  \* a client that is past "idle" is making a request
  /\ \A c \in Clients : cpc[c] # "idle" => reqNo[c] \in 1 .. MaxReq

Init ==
  /\ semid = "none" /\ shmid = "none"
  /\ qclnt = 0 /\ svrWait = 0 /\ clntWait = 0
  /\ head = Blank /\ body = Blank
  /\ cpc = [c \in Clients |-> "idle"]
  /\ reqNo = [c \in Clients |-> 0]
  /\ att = [c \in Clients |-> "null"]
  /\ rcv = [c \in Clients |-> Blank]
  /\ answer = [c \in Clients |-> Blank]
  /\ spc = "setup"
  /\ patient = FALSE /\ endipc = FALSE
  /\ flags = Blank /\ out = Blank
  /\ runs = [r \in Requests |-> 0]

-----------------------------------------------------------------------------
(* The client: runService and the client operations of Ipc.c.              *)

Goto(c, step) == cpc' = [cpc EXCEPT ![c] = step]

\* STS_ERROR_FR: the error text becomes the output, then STS_DONE closes.
GiveUp(c) ==
  /\ Goto(c, "close")
  /\ answer' = [answer EXCEPT ![c] = Fault]

\* runService is called with a request whose flags name this server.
StartRequest(c) ==
  /\ cpc[c] = "idle"
  /\ reqNo[c] < MaxReq
  /\ Goto(c, "shmget")
  /\ reqNo' = [reqNo EXCEPT ![c] = @ + 1]
  /\ answer' = [answer EXCEPT ![c] = Blank]
  /\ rcv' = [rcv EXCEPT ![c] = Blank]
  /\ UNCHANGED <<kernel, segment, att, server>>

\* clientConnect finds the set and, created after it, the segment.
Shmget(c) ==
  /\ cpc[c] = "shmget"
  /\ shmid = "live"
  /\ Goto(c, "shmat")
  /\ UNCHANGED <<kernel, segment, reqNo, att, rcv, answer, server>>

\* clientConnect polled in vain for *WAITSERVER seconds.
ConnectTimeout(c) ==
  /\ cpc[c] = "shmget"
  /\ shmid # "live"
  /\ GiveUp(c)
  /\ UNCHANGED <<kernel, segment, reqNo, att, rcv, server>>

\* shmat reports failure as -1, which the code does not tell from success.
Shmat(c) ==
  /\ cpc[c] = "shmat"
  /\ Goto(c, "lock")
  /\ att' = [att EXCEPT ![c] = IF shmid = "live" THEN "ok" ELSE "bad"]
  /\ UNCHANGED <<kernel, segment, reqNo, rcv, answer, server>>

\* Variant: without the operation that waits for QCLNT = 0.
LockClientQ_NoWait(c) ==
  /\ cpc[c] = "lock"
  /\ semid = "live"
  /\ qclnt' = qclnt + 1
  /\ Goto(c, "control")
  /\ UNCHANGED <<semid, svrWait, clntWait, shmid, segment, reqNo, att, rcv,
                 answer, server>>

\* lockClientQ: wait for QCLNT = 0 and add 1, in one semop.
LockClientQ(c) ==
  /\ cpc[c] = "lock"
  /\ semid = "live"
  /\ qclnt = 0
  /\ qclnt' = 1
  /\ Goto(c, "control")
  /\ UNCHANGED <<semid, svrWait, clntWait, shmid, segment, reqNo, att, rcv,
                 answer, server>>

\* The set is removed while or before the client waits for it.  EIDRM lets
\* the client reconnect, keeping _shdm_p; any other errno fails the request.
LockFails(c) ==
  /\ cpc[c] = "lock"
  /\ semid = "removed"
  /\ \/ Goto(c, "shmget") /\ UNCHANGED answer
     \/ GiveUp(c)
  /\ UNCHANGED <<kernel, segment, reqNo, att, rcv, server>>

\* sendRequest copies sizes and control flags into the segment ...
CopyControl(c) ==
  /\ cpc[c] = "control"
  /\ att[c] = "ok"
  /\ head' = Req(Current(c))
  /\ Goto(c, "input")
  /\ UNCHANGED <<kernel, body, reqNo, att, rcv, answer, server>>

\* ... then the input.
CopyInput(c) ==
  /\ cpc[c] = "input"
  /\ att[c] = "ok"
  /\ body' = Req(Current(c))
  /\ Goto(c, "notify")
  /\ UNCHANGED <<kernel, head, reqNo, att, rcv, answer, server>>

\* sndreq_ex and sndres_ex: touching a segment that is gone may fault.
SegmentFault(c) ==
  /\ cpc[c] \in {"control", "input", "copy"}
  /\ att[c] = "bad" \/ shmid = "removed"
  /\ GiveUp(c)
  /\ UNCHANGED <<kernel, segment, reqNo, att, rcv, server>>

\* sendRequest wakes the server.
NotifyServer(c) ==
  /\ cpc[c] = "notify"
  /\ semid = "live"
  /\ svrWait' = svrWait + 1
  /\ Goto(c, "await")
  /\ UNCHANGED <<semid, qclnt, clntWait, shmid, segment, reqNo, att, rcv,
                 answer, server>>

\* sendRequest sleeps until the server has written the response.
AwaitServer(c) ==
  /\ cpc[c] = "await"
  /\ semid = "live"
  /\ clntWait > 0
  /\ clntWait' = clntWait - 1
  /\ Goto(c, "copy")
  /\ UNCHANGED <<semid, qclnt, svrWait, shmid, segment, reqNo, att, rcv,
                 answer, server>>

\* receiveResponse copies the response out of the segment.
CopyResponse(c) ==
  /\ cpc[c] = "copy"
  /\ att[c] = "ok"
  /\ rcv' = [rcv EXCEPT ![c] = IF head = body THEN head ELSE Garbled]
  /\ Goto(c, "ack")
  /\ UNCHANGED <<kernel, segment, reqNo, att, answer, server>>

\* receiveResponse tells the server it is done; the copy is the output.
AckServer(c) ==
  /\ cpc[c] = "ack"
  /\ semid = "live"
  /\ svrWait' = svrWait + 1
  /\ Goto(c, "close")
  /\ answer' = [answer EXCEPT ![c] = rcv[c]]
  /\ UNCHANGED <<semid, qclnt, clntWait, shmid, segment, reqNo, att, rcv,
                 server>>

\* Variant: a client may give up before the set is gone.
SemopFails_Early(c) ==
  /\ cpc[c] \in {"notify", "await", "ack"}
  /\ GiveUp(c)
  /\ UNCHANGED <<kernel, segment, reqNo, att, rcv, server>>

\* A semop of sendRequest or receiveResponse fails: the set is gone.
SemopFails(c) ==
  /\ cpc[c] \in {"notify", "await", "ack"}
  /\ semid = "removed"
  /\ GiveUp(c)
  /\ UNCHANGED <<kernel, segment, reqNo, att, rcv, server>>

\* clientClose: detach; the queue is unlocked whenever _shdm_p was set.
Detach(c) ==
  /\ cpc[c] = "close"
  /\ att' = [att EXCEPT ![c] = "null"]
  /\ Goto(c, IF att[c] = "null" THEN "idle" ELSE "unlock")
  /\ UNCHANGED <<kernel, segment, reqNo, rcv, answer, server>>

\* unlockClientQ never waits (IPC_NOWAIT) and its failure changes nothing.
Released == IF semid = "live" /\ qclnt > 0 THEN qclnt - 1 ELSE qclnt

UnlockClientQ(c) ==
  /\ cpc[c] = "unlock"
  /\ qclnt' = Released
  /\ Goto(c, "idle")
  /\ UNCHANGED <<semid, svrWait, clntWait, shmid, segment, reqNo, att, rcv,
                 answer, server>>

\* sigHandler in a client: destroy, that is clientClose, then exit.
Terminate(c) ==
  /\ cpc[c] \in KillAt
  /\ Goto(c, "dead")
  /\ att' = [att EXCEPT ![c] = "null"]
  /\ qclnt' = IF att[c] # "null" THEN Released ELSE qclnt
  /\ UNCHANGED <<semid, svrWait, clntWait, shmid, segment, reqNo, rcv, answer,
                 server>>

\* The job ends without the handler (no SEM_UNDO on any operation).
Crash(c) ==
  /\ cpc[c] \in CrashAt
  /\ Goto(c, "dead")
  /\ att' = [att EXCEPT ![c] = "null"]
  /\ UNCHANGED <<kernel, segment, reqNo, rcv, answer, server>>

ClientStep(c) ==
  \/ Shmget(c) \/ ConnectTimeout(c) \/ Shmat(c)
  \/ LockClientQ(c) \/ LockFails(c)
  \/ CopyControl(c) \/ CopyInput(c) \/ SegmentFault(c)
  \/ NotifyServer(c) \/ AwaitServer(c) \/ SemopFails(c)
  \/ CopyResponse(c) \/ AckServer(c)
  \/ Detach(c) \/ UnlockClientQ(c)

-----------------------------------------------------------------------------
(* The server: runServer and the server operations of Ipc.c.               *)

\* setupIpcServer creates the set, zeroed, then the segment.
SetupIpcServer ==
  /\ spc = "setup"
  /\ semid' = "live" /\ shmid' = "live"
  /\ spc' = "listen"
  /\ UNCHANGED <<qclnt, svrWait, clntWait, segment, client, patient, endipc,
                 flags, out, runs>>

\* STS_IPC_SVR_LISTEN: leave if told to, else arm the timer and wait.
Listen ==
  /\ spc = "listen"
  /\ spc' = IF endipc THEN "rmshm" ELSE "wait"
  /\ UNCHANGED <<kernel, segment, client, patient, endipc, flags, out, runs>>

\* serverListen takes a client's notification.
ServerListen ==
  /\ spc = "wait"
  /\ svrWait > 0
  /\ svrWait' = svrWait - 1
  /\ spc' = "took"
  /\ UNCHANGED <<semid, qclnt, clntWait, shmid, segment, client, patient,
                 endipc, flags, out, runs>>

\* setTimeout(false) after the wait for a request, or for the receipt.
DisarmTimer ==
  /\ spc \in {"took", "rcvd"}
  /\ spc' = IF spc = "took" THEN "parse" ELSE "listen"
  /\ UNCHANGED <<kernel, segment, client, patient, endipc, flags, out, runs>>

\* receiveRequest and Control::parse read the control flags in place.
\* What is not a request does not parse, and the error becomes the output.
ParseControl ==
  /\ spc = "parse"
  /\ flags' = head
  /\ IF \E r \in Requests : head = Req(r)
       THEN /\ spc' = "run"
            /\ patient' = (patient \/ WaitForever)
            /\ endipc' = (endipc \/ \E r \in EndRequests : head = Req(r))
            /\ UNCHANGED out
       ELSE /\ spc' = "copyout"
            /\ out' = Fault
            /\ UNCHANGED <<patient, endipc>>
  /\ UNCHANGED <<kernel, segment, client, runs>>

\* Pase::start fails: the server ends without answering.
JavaStartFails ==
  /\ spc = "run"
  /\ JavaMayFail
  /\ spc' = "rmshm"
  /\ UNCHANGED <<kernel, segment, client, patient, endipc, flags, out, runs>>

\* Variant: the node may be run again.
RunNode_Again ==
  /\ spc = "run"
  /\ spc' \in {"run", "copyout"}
  /\ \E r \in Requests :
       /\ body = Req(r)
       /\ out' = Res(r)
       /\ runs' = [runs EXCEPT ![r] = @ + 1]
  /\ UNCHANGED <<kernel, segment, client, patient, endipc, flags>>

\* parseNode reads the input in place, runNode executes it.
RunNode ==
  /\ spc = "run"
  /\ spc' = "copyout"
  /\ \/ \E r \in Requests :
          /\ body = Req(r)
          /\ out' = IF flags = body THEN Res(r) ELSE Garbled
          /\ runs' = [runs EXCEPT ![r] = @ + 1]
     \/ /\ \A r \in Requests : body # Req(r)
        /\ out' = Fault
        /\ UNCHANGED runs
  /\ UNCHANGED <<kernel, segment, client, patient, endipc, flags>>

\* sendResponse overwrites the request.
SendResponse ==
  /\ spc = "copyout"
  /\ head' = out /\ body' = out
  /\ spc' = "wake"
  /\ UNCHANGED <<kernel, client, patient, endipc, flags, out, runs>>

\* Variant: the client is not woken.
WakeClient_Not ==
  /\ spc = "wake"
  /\ spc' = "waitrcv"
  /\ UNCHANGED <<kernel, segment, client, patient, endipc, flags, out, runs>>

\* serverWaitClient2Receive wakes the client ...
WakeClient ==
  /\ spc = "wake"
  /\ clntWait' = clntWait + 1
  /\ spc' = "waitrcv"
  /\ UNCHANGED <<semid, qclnt, svrWait, shmid, segment, client, patient,
                 endipc, flags, out, runs>>

\* Variants: the server does not wait for the receipt; or takes all there is.
WaitClient2Receive_Not ==
  /\ spc = "waitrcv"
  /\ spc' = "rcvd"
  /\ UNCHANGED <<kernel, segment, client, patient, endipc, flags, out, runs>>

WaitClient2Receive_All ==
  /\ spc = "waitrcv"
  /\ svrWait > 0
  /\ svrWait' = 0
  /\ spc' = "rcvd"
  /\ UNCHANGED <<semid, qclnt, clntWait, shmid, segment, client, patient,
                 endipc, flags, out, runs>>

\* ... and waits until the client has copied the response.
WaitClient2Receive ==
  /\ spc = "waitrcv"
  /\ svrWait > 0
  /\ svrWait' = svrWait - 1
  /\ spc' = "rcvd"
  /\ UNCHANGED <<semid, qclnt, clntWait, shmid, segment, client, patient,
                 endipc, flags, out, runs>>

\* sigHandler in the server on SIGALRM: the armed timer goes off.
Alarm ==
  /\ spc \in Timed
  /\ ~ patient
  /\ spc' = "rmshm"
  /\ UNCHANGED <<kernel, segment, client, patient, endipc, flags, out, runs>>

\* sigHandler in the server on SIGTERM.
TerminateServer ==
  /\ ServerMayTerm
  /\ spc \notin {"setup", "rmshm", "rmsem", "ended"}
  /\ spc' = "rmshm"
  /\ UNCHANGED <<kernel, segment, client, patient, endipc, flags, out, runs>>

\* destroy removes the segment, then the set.
RemoveShm ==
  /\ spc = "rmshm"
  /\ shmid' = "removed"
  /\ spc' = "rmsem"
  /\ UNCHANGED <<semid, qclnt, svrWait, clntWait, segment, client, patient,
                 endipc, flags, out, runs>>

RemoveSem ==
  /\ spc = "rmsem"
  /\ semid' = "removed"
  /\ spc' = "ended"
  /\ UNCHANGED <<qclnt, svrWait, clntWait, shmid, segment, client, patient,
                 endipc, flags, out, runs>>

ServerStep ==
  \/ SetupIpcServer \/ Listen \/ ServerListen \/ DisarmTimer \/ ParseControl
  \/ JavaStartFails \/ RunNode \/ SendResponse \/ WakeClient
  \/ WaitClient2Receive \/ Alarm \/ RemoveShm \/ RemoveSem

-----------------------------------------------------------------------------

\* All requests are over: only the server may still be waiting.
Finished(c) ==
  \/ cpc[c] = "dead"
  \/ cpc[c] = "idle" /\ reqNo[c] = MaxReq

Quiescent ==
  /\ \A c \in Clients : Finished(c)
  /\ spc \in {"wait", "ended"}
  /\ UNCHANGED vars

Next ==
  \/ \E c \in Clients :
       StartRequest(c) \/ ClientStep(c) \/ Terminate(c) \/ Crash(c)
  \/ ServerStep \/ TerminateServer
  \/ Quiescent

Spec == Init /\ [][Next]_vars

\* A job that can run does run, and a timer that is armed goes off.  Calling
\* runService, signals and crashes are up to the users.
Fairness ==
  /\ \A c \in Clients : WF_vars(ClientStep(c))
  /\ WF_vars(ServerStep)

FairSpec == Spec /\ Fairness

-----------------------------------------------------------------------------
(* Properties.                                                             *)

\* At most one job at a time is touching the segment: no client copies into
\* it or out of it while another client does or while the server parses a
\* request in place or writes a response.  (The queue QCLNT and the turns
\* SVR_WAIT and CLNT_WAIT together, Ipc.h workflow.)
Touching == {c \in Clients : cpc[c] \in {"control", "input", "copy"}}
ServerTouches == spc \in {"parse", "run", "copyout"}

SegmentExclusive ==
  /\ \A c, d \in Touching : c = d
  /\ ServerTouches => Touching = {}

\* A client that gets an answer gets the answer to the request it is making,
\* or an error: never another client's response, an earlier one of its own,
\* or one pieced together.
AnswersOwnRequest ==
  \A c \in Clients : answer[c] \in {Blank, Fault, Res(Current(c))}

\* The server executes a request at most once, and a client is answered only
\* if its request was executed: no lost and no repeated work.
ExecutedOnce ==
  /\ \A r \in Requests : runs[r] <= 1
  /\ \A c \in Clients :
       answer[c] = Res(Current(c)) => runs[Current(c)] = 1

\* While the set exists at most one client is between lockClientQ and
\* unlockClientQ, and then the queue is locked.
HoldsQueue(c) ==
  \/ cpc[c] \in Talking \cup {"unlock"}
  \/ cpc[c] = "close" /\ att[c] # "null"

QueueHasOneOwner ==
  semid = "live" =>
    /\ \A c, d \in Clients : HoldsQueue(c) /\ HoldsQueue(d) => c = d
    /\ \A c \in Clients : HoldsQueue(c) => qclnt = 1
    /\ qclnt <= 1

\* The server never leaves a client waiting on a response it took no notice
\* of: once the server sleeps again for a request, nobody awaits an answer
\* unless the wake-up for the server is still pending.
NoLostWakeup ==
  spc = "wait" /\ svrWait = 0 => \A c \in Clients : cpc[c] # "await"

\* The channel keeps the promise of RequestReply, whose variables it has too.
Promise == INSTANCE RequestReply WITH reqNo <- reqNo, answer <- answer, runs <- runs

KeepsPromise == Promise!Spec

\* Every call of runService returns, with an answer or an error.
EveryRequestEnds ==
  \A c \in Clients : (cpc[c] = "shmget") ~> (cpc[c] \in {"idle", "dead"})

\* A queue whose owner is dead does not stay locked: either it is unlocked or
\* the server's timer removes the whole set.
DeadOwner == qclnt = 1 /\ \A c \in Clients : ~ HoldsQueue(c)

QueueRecovers == DeadOwner ~> (semid = "removed" \/ ~ DeadOwner)
=============================================================================
