----------------------------- MODULE IpcStartup -----------------------------
(***************************************************************************)
(* How IPC clients find a server, and how servers come and go.             *)
(*                                                                         *)
(* All jobs agree on a path.  A server job owns the path by creating it as *)
(* a directory; the keys of its semaphore set and of its segment are made  *)
(* from the directory by ftok.  A client that finds no directory submits a *)
(* server job; a client that finds one looks the set and the segment up by *)
(* their keys and polls until both are there.  A server that ends removes  *)
(* the directory, the segment and the set, in that order, so another       *)
(* server may already be coming up while it does.                          *)
(*                                                                         *)
(* What client and server say to each other once they are connected is the *)
(* subject of IpcChannel; here a conversation is one step.                 *)
(***************************************************************************)
EXTENDS Naturals

CONSTANTS
  Clients,   \* the client jobs
  Servers,   \* the server jobs that can be submitted (bound)
  Keys,      \* the keys ftok may return
  ReuseKeys, \* the inode, and so the key, of a former directory may come again
  None,
  MaxReq,    \* how many requests a client job makes (bound)
  MaxPolls   \* *WAITSERVER in units of the polling interval

ASSUME StartupAssumption ==
  /\ None \notin Servers \cup Keys
  /\ ReuseKeys \in BOOLEAN
  /\ MaxReq \in Nat
  /\ MaxPolls \in Nat \ {0}

VARIABLES
  dir,       \* whose directory is at the path, or None
  key,       \* the key of each server's directory
  sem,       \* the servers whose semaphore set exists
  shm,       \* the servers whose segment exists
  qclnt,     \* semaphore QCLNT of each server's set
  spc,       \* the step each server is at
  cpc,       \* the step each client is at
  reqNo,     \* how many requests each client has begun
  elapsed,   \* how often each client has polled in this connect
  submitted, \* _server_submitted of each client job
  semkey,    \* _semkey, _shmkey, _semid and _shdm_p of each client; a set or
  shmkey,    \*   a segment is named by its server, and a pointer into one
  semid,     \*   that is gone, or a shmat that failed, faults when used
  shdm_p,
  result,    \* how the connect of each client's request went
  tried      \* history: found the path, or submitted a job, in this request

server == <<dir, key, sem, shm, spc>>
ids == <<semkey, shmkey, semid, shdm_p>>
vars == <<server, qclnt, cpc, reqNo, elapsed, submitted, ids, result, tried>>

\* A server's life.  The directory is its own from "semget" to "rmdir".
Owning == {"semget", "setall", "shmget", "up", "rmdir"}
ServerSteps == Owning \cup {"unborn", "queued", "rmshm", "rmsem", "ended"}
ClientSteps == {"idle", "ftok", "ftok2", "semget", "shmget", "lock", "talk",
                "close", "unlock"}

TypeOK ==
  /\ dir \in Servers \cup {None}
  /\ key \in [Servers -> Keys \cup {None}]
  /\ sem \subseteq Servers /\ shm \subseteq Servers
  /\ qclnt \in [Servers -> 0 .. 1]
  /\ spc \in [Servers -> ServerSteps]
  /\ cpc \in [Clients -> ClientSteps]
  /\ reqNo \in [Clients -> 0 .. MaxReq]
  /\ elapsed \in [Clients -> 0 .. MaxPolls]
  /\ submitted \in [Clients -> BOOLEAN]
  /\ semkey \in [Clients -> Keys \cup {None}]
  /\ shmkey \in [Clients -> Keys \cup {None}]
  /\ semid \in [Clients -> Servers \cup {None}]
  /\ shdm_p \in [Clients -> Servers \cup {None}]
  /\ result \in [Clients -> {"none", "connected", "timeout", "error"}]
  /\ tried \in [Clients -> BOOLEAN]

Init ==
  /\ dir = None
  /\ key = [s \in Servers |-> None]
  /\ sem = {} /\ shm = {}
  /\ qclnt = [s \in Servers |-> 0]
  /\ spc = [s \in Servers |-> "unborn"]
  /\ cpc = [c \in Clients |-> "idle"]
  /\ reqNo = [c \in Clients |-> 0]
  /\ elapsed = [c \in Clients |-> 0]
  /\ submitted = [c \in Clients |-> FALSE]
  /\ semkey = [c \in Clients |-> None]
  /\ shmkey = [c \in Clients |-> None]
  /\ semid = [c \in Clients |-> None]
  /\ shdm_p = [c \in Clients |-> None]
  /\ result = [c \in Clients |-> "none"]
  /\ tried = [c \in Clients |-> FALSE]

-----------------------------------------------------------------------------
(* The client: clientConnect, lockClientQ, clientClose, and the states of  *)
(* runService that call them.                                              *)

Goto(c, step) == cpc' = [cpc EXCEPT ![c] = step]

\* The connect is over without a server: STS_ERROR_FR, then STS_DONE.
GiveUp(c, why) ==
  /\ Goto(c, "close")
  /\ result' = [result EXCEPT ![c] = why]

\* Variant: a loop that does not count.
Poll_Uncounted(c) == Goto(c, "ftok") /\ UNCHANGED <<elapsed, result>>

\* Sleep one interval and look again, unless the time is over.
Poll(c) ==
  /\ elapsed' = [elapsed EXCEPT ![c] = @ + 1]
  /\ IF elapsed[c] + 1 < MaxPolls
       THEN Goto(c, "ftok") /\ UNCHANGED result
       ELSE GiveUp(c, "timeout")

StartRequest(c) ==
  /\ cpc[c] = "idle"
  /\ reqNo[c] < MaxReq
  /\ Goto(c, "ftok")
  /\ reqNo' = [reqNo EXCEPT ![c] = @ + 1]
  /\ elapsed' = [elapsed EXCEPT ![c] = 0]
  /\ result' = [result EXCEPT ![c] = "none"]
  /\ tried' = [tried EXCEPT ![c] = FALSE]
  /\ UNCHANGED <<server, qclnt, submitted, ids>>

\* The first ftok finds the directory ...
FtokSem(c) ==
  /\ cpc[c] = "ftok"
  /\ dir # None
  /\ semkey' = [semkey EXCEPT ![c] = key[dir]]
  /\ tried' = [tried EXCEPT ![c] = TRUE]
  /\ Goto(c, "ftok2")
  /\ UNCHANGED <<server, qclnt, reqNo, elapsed, submitted, shmkey, semid,
                 shdm_p, result>>

\* ... or does not, and startIpcServerOnce submits a server job and waits,
StartIpcServer(c) ==
  /\ cpc[c] = "ftok"
  /\ dir = None
  /\ ~ submitted[c]
  /\ submitted' = [submitted EXCEPT ![c] = TRUE]
  /\ tried' = [tried EXCEPT ![c] = TRUE]
  /\ \E s \in Servers :
       spc[s] = "unborn" /\ spc' = [spc EXCEPT ![s] = "queued"]
  /\ Poll(c)
  /\ UNCHANGED <<dir, key, sem, shm, qclnt, reqNo, ids>>

\* or fails to, which it does not try again either,
SubmitFails(c) ==
  /\ cpc[c] = "ftok"
  /\ dir = None
  /\ ~ submitted[c]
  /\ submitted' = [submitted EXCEPT ![c] = TRUE]
  /\ tried' = [tried EXCEPT ![c] = TRUE]
  /\ GiveUp(c, "error")
  /\ UNCHANGED <<server, qclnt, reqNo, elapsed, ids>>

\* or has submitted one already.
WaitDirectory(c) ==
  /\ cpc[c] = "ftok"
  /\ dir = None
  /\ submitted[c]
  /\ Poll(c)
  /\ UNCHANGED <<server, qclnt, reqNo, submitted, ids, tried>>

\* The second ftok.  That the directory is gone by now is an error.
FtokShm(c) ==
  /\ cpc[c] = "ftok2"
  /\ IF dir # None
       THEN /\ shmkey' = [shmkey EXCEPT ![c] = key[dir]]
            /\ Goto(c, "semget")
            /\ UNCHANGED result
       ELSE GiveUp(c, "error") /\ UNCHANGED shmkey
  /\ UNCHANGED <<server, qclnt, reqNo, elapsed, submitted, semkey, semid,
                 shdm_p, tried>>

Semget(c) ==
  /\ cpc[c] = "semget"
  /\ \/ \E s \in sem :
          /\ key[s] = semkey[c]
          /\ semid' = [semid EXCEPT ![c] = s]
          /\ Goto(c, "shmget")
          /\ UNCHANGED <<elapsed, result>>
     \/ /\ \A s \in sem : key[s] # semkey[c]
        /\ semid' = [semid EXCEPT ![c] = None]
        /\ Poll(c)
  /\ UNCHANGED <<server, qclnt, reqNo, submitted, semkey, shmkey, shdm_p,
                 tried>>

\* shmget and shmat.
Shmget(c) ==
  /\ cpc[c] = "shmget"
  /\ \/ \E s \in shm :
          /\ key[s] = shmkey[c]
          /\ shdm_p' = [shdm_p EXCEPT ![c] = s]
          /\ result' = [result EXCEPT ![c] = "connected"]
          /\ Goto(c, "lock")
          /\ UNCHANGED elapsed
     \/ /\ \A s \in shm : key[s] # shmkey[c]
        /\ Poll(c)
        /\ UNCHANGED shdm_p
  /\ UNCHANGED <<server, qclnt, reqNo, submitted, semkey, shmkey, semid,
                 tried>>

LockClientQ(c) ==
  /\ cpc[c] = "lock"
  /\ semid[c] \in sem
  /\ qclnt[semid[c]] = 0
  /\ qclnt' = [qclnt EXCEPT ![semid[c]] = 1]
  /\ Goto(c, "talk")
  /\ UNCHANGED <<server, reqNo, elapsed, submitted, ids, result, tried>>

\* The set is gone.  EIDRM starts over, with what _shdm_p held kept; any
\* other errno is an error.
LockFails(c) ==
  /\ cpc[c] = "lock"
  /\ semid[c] \notin sem
  /\ \/ /\ submitted' = [submitted EXCEPT ![c] = FALSE]
        /\ elapsed' = [elapsed EXCEPT ![c] = 0]
        /\ Goto(c, "ftok")
        /\ result' = [result EXCEPT ![c] = "none"]
     \/ /\ GiveUp(c, "error")
        /\ UNCHANGED <<submitted, elapsed>>
  /\ UNCHANGED <<server, qclnt, reqNo, ids, tried>>

\* sendRequest and receiveResponse, until the server has answered or the
\* segment or the set is gone.
Converse(c) ==
  /\ cpc[c] = "talk"
  /\ \/ semid[c] \in sem /\ spc[semid[c]] = "up"
     \/ semid[c] \notin sem
     \/ shdm_p[c] \notin shm
  /\ Goto(c, "close")
  /\ UNCHANGED <<server, qclnt, reqNo, elapsed, submitted, ids, result,
                 tried>>

Detach(c) ==
  /\ cpc[c] = "close"
  /\ shdm_p' = [shdm_p EXCEPT ![c] = None]
  /\ Goto(c, IF shdm_p[c] = None THEN "idle" ELSE "unlock")
  /\ UNCHANGED <<server, qclnt, reqNo, elapsed, submitted, semkey, shmkey,
                 semid, result, tried>>

\* unlockClientQ never waits, and its failure changes nothing.
UnlockClientQ(c) ==
  /\ cpc[c] = "unlock"
  /\ qclnt' = [s \in Servers |->
                 IF s = semid[c] /\ s \in sem THEN 0 ELSE qclnt[s]]
  /\ Goto(c, "idle")
  /\ UNCHANGED <<server, reqNo, elapsed, submitted, ids, result, tried>>

ClientStep(c) ==
  \/ FtokSem(c) \/ StartIpcServer(c) \/ SubmitFails(c) \/ WaitDirectory(c)
  \/ FtokShm(c) \/ Semget(c) \/ Shmget(c)
  \/ LockClientQ(c) \/ LockFails(c) \/ Converse(c)
  \/ Detach(c) \/ UnlockClientQ(c)

-----------------------------------------------------------------------------
(* The server: setupIpcServer and destroy.                                 *)

client == <<cpc, reqNo, elapsed, submitted, ids, result, tried>>

ServerGoto(s, step) == spc' = [spc EXCEPT ![s] = step]

\* Variant: a directory that exists already is taken for granted.
Mkdir_Anyway(s) ==
  /\ spc[s] = "queued"
  /\ dir' = s
  /\ \E k \in Keys :
       /\ ReuseKeys \/ \A t \in Servers : key[t] # k
       /\ key' = [key EXCEPT ![s] = k]
  /\ ServerGoto(s, "semget")
  /\ UNCHANGED <<sem, shm, qclnt, client>>

Mkdir(s) ==
  /\ spc[s] = "queued"
  /\ dir = None
  /\ dir' = s
  /\ \E k \in Keys :
       /\ ReuseKeys \/ \A t \in Servers : key[t] # k
       /\ key' = [key EXCEPT ![s] = k]
  /\ ServerGoto(s, "semget")
  /\ UNCHANGED <<sem, shm, qclnt, client>>

\* Variant: the path is not cleared.
MkdirFails_KeepsPath(s) ==
  /\ spc[s] = "queued"
  /\ dir # None
  /\ ServerGoto(s, "rmdir")
  /\ UNCHANGED <<dir, key, sem, shm, qclnt, client>>

\* Another server was faster: this one forgets the path, so that destroy
\* does not remove what is not its own, and ends.
MkdirFails(s) ==
  /\ spc[s] = "queued"
  /\ dir # None
  /\ ServerGoto(s, "ended")
  /\ UNCHANGED <<dir, key, sem, shm, qclnt, client>>

\* Variant: the segment is created before SETALL.
ServerSemget_SegmentToo(s) ==
  /\ spc[s] = "semget"
  /\ \A t \in sem : key[t] # key[s]
  /\ sem' = sem \cup {s}
  /\ shm' = shm \cup {s}
  /\ ServerGoto(s, "setall")
  /\ UNCHANGED <<dir, key, qclnt, client>>

\* semget creates the set, which no other set may have the key of.  Its
\* semaphores have any value.
ServerSemget(s) ==
  /\ spc[s] = "semget"
  /\ \A t \in sem : key[t] # key[s]
  /\ sem' = sem \cup {s}
  /\ \E v \in 0 .. 1 : qclnt' = [qclnt EXCEPT ![s] = v]
  /\ ServerGoto(s, "setall")
  /\ UNCHANGED <<dir, key, shm, client>>

\* semctl SETALL
SetAll(s) ==
  /\ spc[s] = "setall"
  /\ qclnt' = [qclnt EXCEPT ![s] = 0]
  /\ ServerGoto(s, "shmget")
  /\ UNCHANGED <<dir, key, sem, shm, client>>

\* shmget creates the segment, shmat attaches it.
ServerShmget(s) ==
  /\ spc[s] = "shmget"
  /\ \A t \in shm : key[t] # key[s]
  /\ shm' = shm \cup {s}
  /\ ServerGoto(s, "up")
  /\ UNCHANGED <<dir, key, sem, qclnt, client>>

\* Variant: ends without destroy.
SetupFails_Leaves(s) ==
  /\ spc[s] \in {"semget", "setall", "shmget"}
  /\ ServerGoto(s, "ended")
  /\ UNCHANGED <<dir, key, sem, shm, qclnt, client>>

\* CHGAUT, ftok, semget, semctl, shmget or shmat fails.
SetupFails(s) ==
  /\ spc[s] \in {"semget", "setall", "shmget"}
  /\ ServerGoto(s, "rmdir")
  /\ UNCHANGED <<dir, key, sem, shm, qclnt, client>>

\* Variant: the directory is not removed.
EndServer_KeepsDir(s) ==
  /\ spc[s] = "up"
  /\ ServerGoto(s, "rmshm")
  /\ UNCHANGED <<dir, key, sem, shm, qclnt, client>>

\* *ENDIPC, a timer, SIGTERM or an error ends the server.
EndServer(s) ==
  /\ spc[s] = "up"
  /\ ServerGoto(s, "rmdir")
  /\ UNCHANGED <<dir, key, sem, shm, qclnt, client>>

\* destroy removes whatever directory is at the path ...
RemoveDir(s) ==
  /\ spc[s] = "rmdir"
  /\ dir' = None
  /\ ServerGoto(s, "rmshm")
  /\ UNCHANGED <<key, sem, shm, qclnt, client>>

\* Variant: the set is removed before the segment.
RemoveShm_SetFirst(s) ==
  /\ spc[s] = "rmshm"
  /\ sem' = sem \ {s}
  /\ ServerGoto(s, "rmsem")
  /\ UNCHANGED <<dir, key, shm, qclnt, client>>

\* ... its segment, if it got that far ...
RemoveShm(s) ==
  /\ spc[s] = "rmshm"
  /\ shm' = shm \ {s}
  /\ ServerGoto(s, "rmsem")
  /\ UNCHANGED <<dir, key, sem, qclnt, client>>

\* ... and its set.
RemoveSem(s) ==
  /\ spc[s] = "rmsem"
  /\ sem' = sem \ {s}
  /\ ServerGoto(s, "ended")
  /\ UNCHANGED <<dir, key, shm, qclnt, client>>

ServerStep(s) ==
  \/ Mkdir(s) \/ MkdirFails(s) \/ ServerSemget(s) \/ SetAll(s)
  \/ ServerShmget(s) \/ SetupFails(s) \/ EndServer(s)
  \/ RemoveDir(s) \/ RemoveShm(s) \/ RemoveSem(s)

Quiescent ==
  /\ \A c \in Clients : cpc[c] = "idle" /\ reqNo[c] = MaxReq
  /\ \A s \in Servers : spc[s] \in {"unborn", "ended"}
  /\ UNCHANGED vars

Next ==
  \/ \E c \in Clients : StartRequest(c) \/ ClientStep(c)
  \/ \E s \in Servers : ServerStep(s)
  \/ Quiescent

Spec == Init /\ [][Next]_vars

\* A job that can run does run, and the timers of a server that is up are
\* finite.  Calling runService is up to the users.
Fairness ==
  /\ \A c \in Clients : WF_vars(ClientStep(c))
  /\ \A s \in Servers : WF_vars(ServerStep(s))

FairSpec == Spec /\ Fairness

-----------------------------------------------------------------------------
(* Properties.                                                             *)

\* One server at a time: a server that is coming up, up, or about to leave
\* has the path, whatever other jobs were submitted, failed or ended.  In
\* particular a server that lost the race does not remove the winner's path.
OneServer == \A s \in Servers : spc[s] \in Owning => dir = s

\* A server leaves nothing behind, however far its set-up had come: no
\* directory, set or segment that keeps the next one from coming up.
LeavesNothing ==
  \A s \in Servers : spc[s] \in {"queued", "ended"} =>
    dir # s /\ s \notin sem /\ s \notin shm

\* A client that is connected has the set and the segment of one server, or
\* the server whose set it has is past removing its directory.
SameServer ==
  \A c \in Clients :
    cpc[c] \in {"lock", "talk"} /\ semid[c] # shdm_p[c] =>
      spc[semid[c]] \in {"rmshm", "rmsem", "ended"}

\* No client is at the queue of a set before the set is initialized: SETALL
\* neither takes a lock away nor leaves a client behind a lock of nobody.
InitializedBeforeUse ==
  \A c \in Clients :
    cpc[c] \in {"lock", "talk"} =>
      spc[semid[c]] \notin {"semget", "setall", "shmget"}

\* Every call gets through connect, lock and close in the end.
EveryConnectEnds == \A c \in Clients : (cpc[c] = "ftok") ~> (cpc[c] = "idle")

\* The path does not stay taken: whoever has it gives it up, also if its
\* set-up fails half-way.
PathIsFreed == \A s \in Servers : (dir = s) ~> (dir # s)

\* "If IPC server not exist then submit server job": a request that timed
\* out has at least seen a directory or submitted a job.
SubmitsIfNoServer ==
  \A c \in Clients : result[c] = "timeout" => tried[c]

\* "Wait and block other clients": no two clients talk in one segment.
OneTalksPerSegment ==
  \A c, d \in Clients :
    /\ cpc[c] = "talk" /\ cpc[d] = "talk"
    /\ shdm_p[c] = shdm_p[d] /\ shdm_p[c] \in shm
    => c = d

\* No client is about to release a queue that another one has locked.
ReleasesOwnLock ==
  \A c, d \in Clients :
    c # d /\ cpc[c] = "unlock" /\ cpc[d] = "talk" /\ semid[c] = semid[d] =>
      semid[c] \notin sem
=============================================================================
