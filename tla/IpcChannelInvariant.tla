------------------------- MODULE IpcChannelInvariant -------------------------
(***************************************************************************)
(* The inductive invariant behind the safety properties of IpcChannel.     *)
(*                                                                         *)
(* It needs one assumption, SafeKills: SIGTERM reaches no client while it  *)
(* waits for the queue (its handler would release a lock it does not own)  *)
(* or for a response (its handler would release the queue while the server *)
(* is still working in the segment).  Clients may crash at any step.       *)
(***************************************************************************)
EXTENDS IpcChannel

SafeKills == KillAt \cap {"lock", "await"} = {}

\* What exists is decided by how far the server is.
KernelInv ==
  /\ semid = CASE spc = "setup" -> "none"
               [] spc = "ended" -> "removed"
               [] OTHER -> "live"
  /\ shmid = CASE spc = "setup" -> "none"
               [] spc \in {"rmsem", "ended"} -> "removed"
               [] OTHER -> "live"

\* Where a client is attached.  One that comes back to clientConnect with a
\* segment still attached does so because the set is gone.
AttachInv ==
  \A c \in Clients :
    /\ cpc[c] \in {"idle", "dead", "unlock"} => att[c] = "null"
    /\ cpc[c] \in Talking \cup {"lock"} => att[c] # "null"
    /\ cpc[c] \in {"shmget", "shmat"} /\ att[c] # "null" => semid = "removed"
    /\ cpc[c] \in Talking \cup {"shmat", "lock", "unlock"} => semid # "none"
    /\ att[c] # "null" => semid # "none"

\* Even when the set is gone no two clients are between lock and receipt.
OwnerInv ==
  /\ \A c, d \in Clients : cpc[c] \in Talking /\ cpc[d] \in Talking => c = d
  /\ QueueHasOneOwner

\* How often requests ran: those not yet sent, never; the others once.
RunsInv ==
  /\ \A r \in Requests : runs[r] <= 1
  /\ \A c \in Clients : \A n \in 1 .. MaxReq :
       n > reqNo[c] => runs[<<c, n>>] = 0
  /\ \A c \in Clients :
       cpc[c] \in {"shmget", "shmat", "lock", "control", "input", "notify"}
         => runs[Current(c)] = 0

\* What a client has received so far.
AnswerInv ==
  \A c \in Clients :
    /\ cpc[c] \in Talking \cup {"shmget", "shmat", "lock"} => answer[c] = Blank
    /\ cpc[c] \in {"close", "unlock"} => answer[c] # Blank
    /\ cpc[c] = "idle" /\ reqNo[c] > 0 => answer[c] # Blank
    /\ answer[c] \in {Blank, Fault, Res(Current(c))}
    /\ answer[c] = Res(Current(c)) => runs[Current(c)] = 1
    /\ cpc[c] = "ack" => rcv[c] = Res(Current(c)) /\ runs[Current(c)] = 1

Holds(x) == head = x /\ body = x

\* What the segment holds, seen from the clients.
SegmentInv ==
  \A c \in Clients :
    /\ cpc[c] = "input" => head = Req(Current(c))
    /\ cpc[c] = "notify" => Holds(Req(Current(c)))
    /\ cpc[c] = "copy" => Holds(Res(Current(c))) /\ runs[Current(c)] = 1
    /\ cpc[c] = "await" /\ clntWait > 0 =>
         Holds(Res(Current(c))) /\ runs[Current(c)] = 1

\* The request in progress is d's, who waits for the answer or crashed while
\* it waited; either way the queue is locked and nobody else has it.
Pending(d) ==
  /\ cpc[d] \in {"await", "dead"}
  /\ answer[d] = Blank
  /\ qclnt = 1
  /\ \A c \in Clients : HoldsQueue(c) => c = d

Asked ==
  \E d \in Clients :
    Pending(d) /\ Holds(Req(Current(d))) /\ runs[Current(d)] = 0

Answered ==
  \E d \in Clients :
    Pending(d) /\ Holds(Res(Current(d))) /\ runs[Current(d)] = 1

\* Whose turn it is: a pending wake-up of the server is either the receipt of
\* the last response or a request, and the server at work has a request.
TurnInv ==
  /\ spc = "setup" => qclnt = 0 /\ svrWait = 0 /\ clntWait = 0
  /\ clntWait <= 1
  /\ semid = "live" /\ clntWait = 1 => Answered
  /\ spc \in {"listen", "wait", "rcvd"} =>
       /\ clntWait = 0 /\ svrWait <= 1
       /\ svrWait = 1 => Asked
  /\ spc \in {"took", "parse", "run", "copyout", "wake"} =>
       clntWait = 0 /\ svrWait = 0
  /\ spc \in {"took", "parse", "run"} => Asked
  /\ spc = "run" => flags = head
  /\ spc = "copyout" =>
       \E d \in Clients :
         Pending(d) /\ out = Res(Current(d)) /\ runs[Current(d)] = 1
  /\ spc = "wake" => Answered
  /\ spc = "waitrcv" =>
       /\ svrWait <= 2
       /\ svrWait = 2 => Asked
       /\ clntWait = 1 => svrWait = 0
  /\ \A c \in Clients : cpc[c] \in {"copy", "ack"} =>
       /\ spc \in {"waitrcv", "rmshm", "rmsem", "ended"}
       /\ spc = "waitrcv" => svrWait = 0 /\ clntWait = 0

IInv ==
  /\ TypeOK /\ KernelInv /\ AttachInv /\ OwnerInv
  /\ RunsInv /\ AnswerInv /\ SegmentInv /\ TurnInv

-----------------------------------------------------------------------------
(* For NoLostWakeup no client may be terminated either while it has the    *)
(* response and has not told the server: its handler releases the queue,   *)
(* and the server takes the next request for the missing receipt.          *)

SafeReceipts == KillAt \cap {"copy", "ack"} = {}

\* While the server waits for a receipt it has not got, the client that owes
\* it owns the queue, alive or crashed, and nobody is about to send.
ReceiptIsOwed ==
  /\ qclnt = 1
  /\ \A c \in Clients :
       /\ ~ (cpc[c] = "close" /\ att[c] # "null")
       /\ cpc[c] \notin {"control", "input", "notify", "unlock"}
       /\ cpc[c] = "await" => clntWait = 1

\* The wake-up of a client that awaits its response is not lost: it is on its
\* way to the client, or the one to the server is still to be taken.
WakeInv ==
  /\ \A c \in Clients : att[c] = "bad" => shmid = "removed"
  /\ \A c \in Clients : cpc[c] = "await" =>
       /\ spc \in {"rcvd", "listen", "wait"} => svrWait = 1
       /\ spc = "waitrcv" => svrWait # 1
  /\ spc = "waitrcv" /\ svrWait = 0 => ReceiptIsOwed
=============================================================================
