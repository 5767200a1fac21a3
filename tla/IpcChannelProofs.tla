-------------------------- MODULE IpcChannelProofs --------------------------
(***************************************************************************)
(* Machine-checked proofs about IpcChannel, for any number of clients and  *)
(* of requests, any of the options, and crashes of clients at any step.    *)
(* The last part shows that it implements RequestReply: the semaphores,    *)
(* the segment and the steps of clients and server can be forgotten, and   *)
(* what is left of every step is asking, executing, replying, failing, or  *)
(* nothing.                                                                *)
(***************************************************************************)
EXTENDS IpcChannelInvariant, TLAPS

-----------------------------------------------------------------------------
(* Facts about the contents of the segment.                                *)

\* The kinds of content are distinct and determine the request they name.
LEMMA CellFacts ==
  ASSUME NEW r, NEW s
  PROVE  /\ Req(r) = Req(s) => r = s
         /\ Res(r) = Res(s) => r = s
         /\ Req(r) # Res(s)
         /\ Blank # Fault /\ Blank # Garbled /\ Fault # Garbled
         /\ Req(r) \notin {Blank, Fault, Garbled}
         /\ Res(r) \notin {Blank, Fault, Garbled}
  BY DEF Req, Res, Blank, Fault, Garbled

\* A request's name tells its client and its number.
LEMMA CurrentFacts ==
  ASSUME NEW c, NEW d
  PROVE  /\ Current(c)[1] = c /\ Current(c)[2] = reqNo[c]
         /\ Current(c) = Current(d) => c = d
  BY DEF Current

-----------------------------------------------------------------------------
(* Type correctness.                                                       *)

\* The initial state is well typed.
LEMMA InitTypeOK == Init => TypeOK
<1>1. Init => patient \in BOOLEAN /\ endipc \in BOOLEAN
  BY Zenon DEF Init
<1>2. QED
  BY <1>1, ChannelAssumption
  DEF Init, TypeOK, ClientSteps, ServerSteps, Cells

\* Every action keeps every variable within its type.
LEMMA TypeStep ==
  ASSUME TypeOK, [Next]_vars
  PROVE  TypeOK'
<1> USE ChannelAssumption
    DEF TypeOK, Goto, GiveUp, Released, kernel, segment, client, server,
        ClientSteps, ServerSteps, Talking, Cells, Requests, Current
<1>1. ASSUME NEW e \in Clients, StartRequest(e) PROVE TypeOK'
  BY <1>1 DEF StartRequest
<1>2. ASSUME NEW e \in Clients, Shmget(e) PROVE TypeOK'
  BY <1>2 DEF Shmget
<1>3. ASSUME NEW e \in Clients, ConnectTimeout(e) PROVE TypeOK'
  BY <1>3 DEF ConnectTimeout
<1>4. ASSUME NEW e \in Clients, Shmat(e) PROVE TypeOK'
  BY <1>4 DEF Shmat
<1>5. ASSUME NEW e \in Clients, LockClientQ(e) PROVE TypeOK'
  BY <1>5 DEF LockClientQ
<1>6. ASSUME NEW e \in Clients, LockFails(e) PROVE TypeOK'
  <2>1. CASE Goto(e, "shmget") /\ UNCHANGED answer
    BY <1>6, <2>1 DEF LockFails
  <2>2. CASE GiveUp(e)
    BY <1>6, <2>2 DEF LockFails
  <2>3. QED
    BY <1>6, <2>1, <2>2 DEF LockFails
<1>7. ASSUME NEW e \in Clients, CopyControl(e) PROVE TypeOK'
  BY <1>7 DEF CopyControl
<1>8. ASSUME NEW e \in Clients, CopyInput(e) PROVE TypeOK'
  BY <1>8 DEF CopyInput
<1>9. ASSUME NEW e \in Clients, SegmentFault(e) PROVE TypeOK'
  BY <1>9 DEF SegmentFault
<1>10. ASSUME NEW e \in Clients, NotifyServer(e) PROVE TypeOK'
  BY <1>10 DEF NotifyServer
<1>11. ASSUME NEW e \in Clients, AwaitServer(e) PROVE TypeOK'
  BY <1>11 DEF AwaitServer
<1>12. ASSUME NEW e \in Clients, SemopFails(e) PROVE TypeOK'
  BY <1>12 DEF SemopFails
<1>13. ASSUME NEW e \in Clients, CopyResponse(e) PROVE TypeOK'
  BY <1>13 DEF CopyResponse
<1>14. ASSUME NEW e \in Clients, AckServer(e) PROVE TypeOK'
  BY <1>14 DEF AckServer
<1>15. ASSUME NEW e \in Clients, Detach(e) PROVE TypeOK'
  BY <1>15 DEF Detach
<1>16. ASSUME NEW e \in Clients, UnlockClientQ(e) PROVE TypeOK'
  BY <1>16 DEF UnlockClientQ
<1>17. ASSUME NEW e \in Clients, Terminate(e) PROVE TypeOK'
  BY <1>17 DEF Terminate
<1>18. ASSUME NEW e \in Clients, Crash(e) PROVE TypeOK'
  BY <1>18 DEF Crash
<1>19. CASE SetupIpcServer
  BY <1>19 DEF SetupIpcServer
<1>20. CASE Listen
  BY <1>20 DEF Listen
<1>21. CASE ServerListen
  BY <1>21 DEF ServerListen
<1>22. CASE DisarmTimer
  BY <1>22 DEF DisarmTimer
<1>23. CASE ParseControl
  BY <1>23 DEF ParseControl
<1>24. CASE JavaStartFails
  BY <1>24 DEF JavaStartFails
<1>25. CASE RunNode
  BY <1>25 DEF RunNode
<1>26. CASE SendResponse
  BY <1>26 DEF SendResponse
<1>27. CASE WakeClient
  BY <1>27 DEF WakeClient
<1>28. CASE WaitClient2Receive
  BY <1>28 DEF WaitClient2Receive
<1>29. CASE Alarm
  BY <1>29 DEF Alarm
<1>30. CASE TerminateServer
  BY <1>30 DEF TerminateServer
<1>31. CASE RemoveShm
  BY <1>31 DEF RemoveShm
<1>32. CASE RemoveSem
  BY <1>32 DEF RemoveSem
<1>33. CASE UNCHANGED vars
  BY <1>33 DEF vars
<1>34. QED
  BY <1>1, <1>2, <1>3, <1>4, <1>5, <1>6, <1>7, <1>8, <1>9, <1>10, <1>11,
     <1>12, <1>13, <1>14, <1>15, <1>16, <1>17, <1>18, <1>19, <1>20, <1>21,
     <1>22, <1>23, <1>24, <1>25, <1>26, <1>27, <1>28, <1>29, <1>30, <1>31,
     <1>32, <1>33
  DEF Next, ClientStep, ServerStep, Quiescent

\* Every variable keeps its type: in particular the semaphores never go
\* below zero, and a client past "idle" has a request of its own to name.
THEOREM TypeCorrect == Spec => []TypeOK
  BY InitTypeOK, TypeStep, PTL DEF Spec

-----------------------------------------------------------------------------
(* The inductive invariant.                                                *)

\* It holds before the server is set up and any client has started.
LEMMA InitIInv == Init => IInv
<1> SUFFICES ASSUME Init PROVE IInv
  OBVIOUS
<1>1. TypeOK
  BY InitTypeOK
<1>2. KernelInv /\ AttachInv /\ OwnerInv /\ SegmentInv /\ TurnInv
  BY DEF Init, KernelInv, AttachInv, OwnerInv, QueueHasOneOwner, HoldsQueue,
         SegmentInv, TurnInv, Talking
<1>3. RunsInv
  BY DEF Init, RunsInv, Requests
<1>4. AnswerInv
  <2> SUFFICES ASSUME NEW c \in Clients
               PROVE  /\ cpc[c] = "idle" /\ reqNo[c] = 0 /\ answer[c] = Blank
                      /\ answer[c] # Res(Current(c))
    <3>1. ~ (0 > 0)
      OBVIOUS
    <3>2. QED
      BY <3>1, Zenon DEF AnswerInv, Talking
  <2>1. Blank # Res(Current(c))
    BY CellFacts
  <2>2. QED
    BY <2>1 DEF Init
<1>5. QED
  BY <1>1, <1>2, <1>3, <1>4 DEF IInv

\* A client whose request is in progress names a real request.
LEMMA PendingIsRequest ==
  ASSUME TypeOK, NEW d \in Clients, cpc[d] # "idle"
  PROVE  Current(d) \in Requests
  BY DEF TypeOK, Current, Requests

\* What the server reads in its turn is the request in progress, so what it
\* runs and answers is that request, which has not run before.
LEMMA RunNodeEffect ==
  ASSUME IInv, RunNode
  PROVE  \E d \in Clients :
           /\ Pending(d) /\ Current(d) \in Requests
           /\ runs[Current(d)] = 0
           /\ runs' = [runs EXCEPT ![Current(d)] = 1]
           /\ out' = Res(Current(d))
<1>1. PICK d \in Clients :
        Pending(d) /\ Holds(Req(Current(d))) /\ runs[Current(d)] = 0
  BY DEF IInv, TurnInv, RunNode, Asked
<1>2. Current(d) \in Requests
  BY <1>1, PendingIsRequest DEF IInv, Pending
<1>3. flags = body /\ body = Req(Current(d))
  BY <1>1 DEF IInv, TurnInv, RunNode, Holds
<1>4. PICK r \in Requests :
        /\ body = Req(r)
        /\ out' = IF flags = body THEN Res(r) ELSE Garbled
        /\ runs' = [runs EXCEPT ![r] = @ + 1]
  BY <1>2, <1>3 DEF RunNode
<1>5. r = Current(d)
  BY <1>3, <1>4, CellFacts
<1>6. runs[r] + 1 = 1
  BY <1>1, <1>5
<1>7. runs' = [runs EXCEPT ![Current(d)] = 1]
  BY <1>4, <1>5, <1>6
<1>8. QED
  BY <1>1, <1>2, <1>3, <1>4, <1>5, <1>7

\* The server creates and removes the set and the segment, in that order.
LEMMA KernelStep ==
  ASSUME TypeOK, KernelInv, [Next]_vars
  PROVE  KernelInv'
<1> USE DEF KernelInv, Timed,
           Goto, GiveUp, Released, kernel, segment, client, server
<1>1. ASSUME NEW e \in Clients, StartRequest(e) PROVE KernelInv'
  BY <1>1 DEF StartRequest
<1>2. ASSUME NEW e \in Clients, Shmget(e) PROVE KernelInv'
  BY <1>2 DEF Shmget
<1>3. ASSUME NEW e \in Clients, ConnectTimeout(e) PROVE KernelInv'
  BY <1>3 DEF ConnectTimeout
<1>4. ASSUME NEW e \in Clients, Shmat(e) PROVE KernelInv'
  BY <1>4 DEF Shmat
<1>5. ASSUME NEW e \in Clients, LockClientQ(e) PROVE KernelInv'
  BY <1>5 DEF LockClientQ
<1>6. ASSUME NEW e \in Clients, LockFails(e) PROVE KernelInv'
  BY <1>6 DEF LockFails
<1>7. ASSUME NEW e \in Clients, CopyControl(e) PROVE KernelInv'
  BY <1>7 DEF CopyControl
<1>8. ASSUME NEW e \in Clients, CopyInput(e) PROVE KernelInv'
  BY <1>8 DEF CopyInput
<1>9. ASSUME NEW e \in Clients, SegmentFault(e) PROVE KernelInv'
  BY <1>9 DEF SegmentFault
<1>10. ASSUME NEW e \in Clients, NotifyServer(e) PROVE KernelInv'
  BY <1>10 DEF NotifyServer
<1>11. ASSUME NEW e \in Clients, AwaitServer(e) PROVE KernelInv'
  BY <1>11 DEF AwaitServer
<1>12. ASSUME NEW e \in Clients, SemopFails(e) PROVE KernelInv'
  BY <1>12 DEF SemopFails
<1>13. ASSUME NEW e \in Clients, CopyResponse(e) PROVE KernelInv'
  BY <1>13 DEF CopyResponse
<1>14. ASSUME NEW e \in Clients, AckServer(e) PROVE KernelInv'
  BY <1>14 DEF AckServer
<1>15. ASSUME NEW e \in Clients, Detach(e) PROVE KernelInv'
  BY <1>15 DEF Detach
<1>16. ASSUME NEW e \in Clients, UnlockClientQ(e) PROVE KernelInv'
  BY <1>16 DEF UnlockClientQ
<1>17. ASSUME NEW e \in Clients, Terminate(e) PROVE KernelInv'
  BY <1>17 DEF Terminate
<1>18. ASSUME NEW e \in Clients, Crash(e) PROVE KernelInv'
  BY <1>18 DEF Crash
<1>19. CASE SetupIpcServer
  BY <1>19 DEF SetupIpcServer
<1>20. CASE Listen
  BY <1>20 DEF Listen
<1>21. CASE ServerListen
  BY <1>21 DEF ServerListen
<1>22. CASE DisarmTimer
  BY <1>22 DEF DisarmTimer
<1>23. CASE ParseControl
  BY <1>23 DEF ParseControl
<1>24. CASE JavaStartFails
  BY <1>24 DEF JavaStartFails
<1>25. CASE RunNode
  BY <1>25 DEF RunNode
<1>26. CASE SendResponse
  BY <1>26 DEF SendResponse
<1>27. CASE WakeClient
  BY <1>27 DEF WakeClient
<1>28. CASE WaitClient2Receive
  BY <1>28 DEF WaitClient2Receive
<1>29. CASE Alarm
  BY <1>29 DEF Alarm
<1>30. CASE TerminateServer
  BY <1>30 DEF TerminateServer
<1>31. CASE RemoveShm
  BY <1>31 DEF RemoveShm
<1>32. CASE RemoveSem
  BY <1>32 DEF RemoveSem
<1>33. CASE UNCHANGED vars
  BY <1>33 DEF vars
<1>34. QED
  BY <1>1, <1>2, <1>3, <1>4, <1>5, <1>6, <1>7, <1>8, <1>9, <1>10, <1>11,
     <1>12, <1>13, <1>14, <1>15, <1>16, <1>17, <1>18, <1>19, <1>20, <1>21,
     <1>22, <1>23, <1>24, <1>25, <1>26, <1>27, <1>28, <1>29, <1>30, <1>31,
     <1>32, <1>33
  DEF Next, ClientStep, ServerStep, Quiescent

\* A client is attached when it must be, and returns to clientConnect
\* attached only if the set is gone.
LEMMA AttachStep ==
  ASSUME TypeOK, KernelInv, AttachInv, [Next]_vars
  PROVE  AttachInv'
<1> USE DEF TypeOK, KernelInv, AttachInv, Talking,
           Goto, GiveUp, Released, kernel, segment, client, server
<1>1. ASSUME NEW e \in Clients, StartRequest(e) PROVE AttachInv'
  BY <1>1 DEF StartRequest
<1>2. ASSUME NEW e \in Clients, Shmget(e) PROVE AttachInv'
  BY <1>2 DEF Shmget
<1>3. ASSUME NEW e \in Clients, ConnectTimeout(e) PROVE AttachInv'
  BY <1>3 DEF ConnectTimeout
<1>4. ASSUME NEW e \in Clients, Shmat(e) PROVE AttachInv'
  BY <1>4 DEF Shmat
<1>5. ASSUME NEW e \in Clients, LockClientQ(e) PROVE AttachInv'
  BY <1>5 DEF LockClientQ
<1>6. ASSUME NEW e \in Clients, LockFails(e) PROVE AttachInv'
  BY <1>6 DEF LockFails
<1>7. ASSUME NEW e \in Clients, CopyControl(e) PROVE AttachInv'
  BY <1>7 DEF CopyControl
<1>8. ASSUME NEW e \in Clients, CopyInput(e) PROVE AttachInv'
  BY <1>8 DEF CopyInput
<1>9. ASSUME NEW e \in Clients, SegmentFault(e) PROVE AttachInv'
  BY <1>9 DEF SegmentFault
<1>10. ASSUME NEW e \in Clients, NotifyServer(e) PROVE AttachInv'
  BY <1>10 DEF NotifyServer
<1>11. ASSUME NEW e \in Clients, AwaitServer(e) PROVE AttachInv'
  BY <1>11 DEF AwaitServer
<1>12. ASSUME NEW e \in Clients, SemopFails(e) PROVE AttachInv'
  BY <1>12 DEF SemopFails
<1>13. ASSUME NEW e \in Clients, CopyResponse(e) PROVE AttachInv'
  BY <1>13 DEF CopyResponse
<1>14. ASSUME NEW e \in Clients, AckServer(e) PROVE AttachInv'
  BY <1>14 DEF AckServer
<1>15. ASSUME NEW e \in Clients, Detach(e) PROVE AttachInv'
  BY <1>15 DEF Detach
<1>16. ASSUME NEW e \in Clients, UnlockClientQ(e) PROVE AttachInv'
  BY <1>16 DEF UnlockClientQ
<1>17. ASSUME NEW e \in Clients, Terminate(e) PROVE AttachInv'
  BY <1>17 DEF Terminate
<1>18. ASSUME NEW e \in Clients, Crash(e) PROVE AttachInv'
  BY <1>18 DEF Crash
<1>19. CASE SetupIpcServer
  BY <1>19 DEF SetupIpcServer
<1>20. CASE Listen
  BY <1>20 DEF Listen
<1>21. CASE ServerListen
  BY <1>21 DEF ServerListen
<1>22. CASE DisarmTimer
  BY <1>22 DEF DisarmTimer
<1>23. CASE ParseControl
  BY <1>23 DEF ParseControl
<1>24. CASE JavaStartFails
  BY <1>24 DEF JavaStartFails
<1>25. CASE RunNode
  BY <1>25 DEF RunNode
<1>26. CASE SendResponse
  BY <1>26 DEF SendResponse
<1>27. CASE WakeClient
  BY <1>27 DEF WakeClient
<1>28. CASE WaitClient2Receive
  BY <1>28 DEF WaitClient2Receive
<1>29. CASE Alarm
  BY <1>29 DEF Alarm
<1>30. CASE TerminateServer
  BY <1>30 DEF TerminateServer
<1>31. CASE RemoveShm
  BY <1>31 DEF RemoveShm
<1>32. CASE RemoveSem
  BY <1>32 DEF RemoveSem
<1>33. CASE UNCHANGED vars
  BY <1>33 DEF vars
<1>34. QED
  BY <1>1, <1>2, <1>3, <1>4, <1>5, <1>6, <1>7, <1>8, <1>9, <1>10, <1>11,
     <1>12, <1>13, <1>14, <1>15, <1>16, <1>17, <1>18, <1>19, <1>20, <1>21,
     <1>22, <1>23, <1>24, <1>25, <1>26, <1>27, <1>28, <1>29, <1>30, <1>31,
     <1>32, <1>33
  DEF Next, ClientStep, ServerStep, Quiescent

\* At most one client owns the queue.  The handler of a client on SIGTERM
\* unlocks it only for its owner.
LEMMA OwnerStep ==
  ASSUME IInv, SafeKills, [Next]_vars
  PROVE  OwnerInv'
<1> USE DEF IInv, TypeOK, KernelInv, AttachInv, OwnerInv, QueueHasOneOwner,
           HoldsQueue, Talking,
           Goto, GiveUp, Released, kernel, segment, client, server
<1>1. ASSUME NEW e \in Clients, StartRequest(e) PROVE OwnerInv'
  BY <1>1 DEF StartRequest
<1>2. ASSUME NEW e \in Clients, Shmget(e) PROVE OwnerInv'
  BY <1>2 DEF Shmget
<1>3. ASSUME NEW e \in Clients, ConnectTimeout(e) PROVE OwnerInv'
  BY <1>3 DEF ConnectTimeout
<1>4. ASSUME NEW e \in Clients, Shmat(e) PROVE OwnerInv'
  BY <1>4 DEF Shmat
<1>5. ASSUME NEW e \in Clients, LockClientQ(e) PROVE OwnerInv'
  BY <1>5 DEF LockClientQ
<1>6. ASSUME NEW e \in Clients, LockFails(e) PROVE OwnerInv'
  BY <1>6 DEF LockFails
<1>7. ASSUME NEW e \in Clients, CopyControl(e) PROVE OwnerInv'
  BY <1>7 DEF CopyControl
<1>8. ASSUME NEW e \in Clients, CopyInput(e) PROVE OwnerInv'
  BY <1>8 DEF CopyInput
<1>9. ASSUME NEW e \in Clients, SegmentFault(e) PROVE OwnerInv'
  BY <1>9 DEF SegmentFault
<1>10. ASSUME NEW e \in Clients, NotifyServer(e) PROVE OwnerInv'
  BY <1>10 DEF NotifyServer
<1>11. ASSUME NEW e \in Clients, AwaitServer(e) PROVE OwnerInv'
  BY <1>11 DEF AwaitServer
<1>12. ASSUME NEW e \in Clients, SemopFails(e) PROVE OwnerInv'
  BY <1>12 DEF SemopFails
<1>13. ASSUME NEW e \in Clients, CopyResponse(e) PROVE OwnerInv'
  BY <1>13 DEF CopyResponse
<1>14. ASSUME NEW e \in Clients, AckServer(e) PROVE OwnerInv'
  BY <1>14 DEF AckServer
<1>15. ASSUME NEW e \in Clients, Detach(e) PROVE OwnerInv'
  BY <1>15 DEF Detach
<1>16. ASSUME NEW e \in Clients, UnlockClientQ(e) PROVE OwnerInv'
  BY <1>16 DEF UnlockClientQ
<1>17. ASSUME NEW e \in Clients, Terminate(e) PROVE OwnerInv'
  <2>1. cpc[e] \in ClientSteps \ {"idle", "dead", "lock", "await"}
    BY <1>17, ChannelAssumption DEF Terminate, SafeKills
  <2>2. semid = "live" /\ att[e] # "null" => HoldsQueue(e)
    BY <2>1 DEF ClientSteps
  <2>3. QED
    BY <1>17, <2>1, <2>2 DEF Terminate
<1>18. ASSUME NEW e \in Clients, Crash(e) PROVE OwnerInv'
  BY <1>18 DEF Crash
<1>19. CASE SetupIpcServer
  BY <1>19 DEF SetupIpcServer, TurnInv
<1>20. CASE Listen
  BY <1>20 DEF Listen
<1>21. CASE ServerListen
  BY <1>21 DEF ServerListen
<1>22. CASE DisarmTimer
  BY <1>22 DEF DisarmTimer
<1>23. CASE ParseControl
  BY <1>23 DEF ParseControl
<1>24. CASE JavaStartFails
  BY <1>24 DEF JavaStartFails
<1>25. CASE RunNode
  BY <1>25 DEF RunNode
<1>26. CASE SendResponse
  BY <1>26 DEF SendResponse
<1>27. CASE WakeClient
  BY <1>27 DEF WakeClient
<1>28. CASE WaitClient2Receive
  BY <1>28 DEF WaitClient2Receive
<1>29. CASE Alarm
  BY <1>29 DEF Alarm
<1>30. CASE TerminateServer
  BY <1>30 DEF TerminateServer
<1>31. CASE RemoveShm
  BY <1>31 DEF RemoveShm
<1>32. CASE RemoveSem
  BY <1>32 DEF RemoveSem
<1>33. CASE UNCHANGED vars
  BY <1>33 DEF vars
<1>34. QED
  BY <1>1, <1>2, <1>3, <1>4, <1>5, <1>6, <1>7, <1>8, <1>9, <1>10, <1>11,
     <1>12, <1>13, <1>14, <1>15, <1>16, <1>17, <1>18, <1>19, <1>20, <1>21,
     <1>22, <1>23, <1>24, <1>25, <1>26, <1>27, <1>28, <1>29, <1>30, <1>31,
     <1>32, <1>33
  DEF Next, ClientStep, ServerStep, Quiescent

\* A request runs only in its turn, so at most once and never before it is
\* sent.
LEMMA RunsStep ==
  ASSUME IInv, TypeOK', SafeKills, [Next]_vars
  PROVE  RunsInv'
<1>0. reqNo' = reqNo => \A c : Current(c)' = Current(c)
  BY DEF Current
<1> USE DEF IInv, TypeOK, KernelInv, RunsInv, Talking,
           Goto, GiveUp, Released, kernel, segment, client, server
<1>1. ASSUME NEW e \in Clients, StartRequest(e) PROVE RunsInv'
  <2>1. \A c \in Clients : c # e => Current(c)' = Current(c)
    BY <1>1 DEF StartRequest, Current
  <2>2. Current(e)' = <<e, reqNo[e] + 1>> /\ reqNo[e] + 1 \in 1 .. MaxReq
    BY <1>1 DEF StartRequest, Current
  <2>3. runs'[Current(e)'] = 0
    BY <1>1, <2>2 DEF StartRequest
  <2>4. QED
    BY <1>1, <2>1, <2>3 DEF StartRequest
<1>2. ASSUME NEW e \in Clients, Shmget(e) PROVE RunsInv'
  BY <1>2, <1>0 DEF Shmget
<1>3. ASSUME NEW e \in Clients, ConnectTimeout(e) PROVE RunsInv'
  BY <1>3, <1>0 DEF ConnectTimeout
<1>4. ASSUME NEW e \in Clients, Shmat(e) PROVE RunsInv'
  BY <1>4, <1>0 DEF Shmat
<1>5. ASSUME NEW e \in Clients, LockClientQ(e) PROVE RunsInv'
  BY <1>5, <1>0 DEF LockClientQ
<1>6. ASSUME NEW e \in Clients, LockFails(e) PROVE RunsInv'
  BY <1>6, <1>0 DEF LockFails
<1>7. ASSUME NEW e \in Clients, CopyControl(e) PROVE RunsInv'
  BY <1>7, <1>0 DEF CopyControl
<1>8. ASSUME NEW e \in Clients, CopyInput(e) PROVE RunsInv'
  BY <1>8, <1>0 DEF CopyInput
<1>9. ASSUME NEW e \in Clients, SegmentFault(e) PROVE RunsInv'
  BY <1>9, <1>0 DEF SegmentFault
<1>10. ASSUME NEW e \in Clients, NotifyServer(e) PROVE RunsInv'
  BY <1>10, <1>0 DEF NotifyServer
<1>11. ASSUME NEW e \in Clients, AwaitServer(e) PROVE RunsInv'
  BY <1>11, <1>0 DEF AwaitServer
<1>12. ASSUME NEW e \in Clients, SemopFails(e) PROVE RunsInv'
  BY <1>12, <1>0 DEF SemopFails
<1>13. ASSUME NEW e \in Clients, CopyResponse(e) PROVE RunsInv'
  BY <1>13, <1>0 DEF CopyResponse
<1>14. ASSUME NEW e \in Clients, AckServer(e) PROVE RunsInv'
  BY <1>14, <1>0 DEF AckServer
<1>15. ASSUME NEW e \in Clients, Detach(e) PROVE RunsInv'
  BY <1>15, <1>0 DEF Detach
<1>16. ASSUME NEW e \in Clients, UnlockClientQ(e) PROVE RunsInv'
  BY <1>16, <1>0 DEF UnlockClientQ
<1>17. ASSUME NEW e \in Clients, Terminate(e) PROVE RunsInv'
  BY <1>17, <1>0 DEF Terminate
<1>18. ASSUME NEW e \in Clients, Crash(e) PROVE RunsInv'
  BY <1>18, <1>0 DEF Crash
<1>19. CASE SetupIpcServer
  BY <1>19, <1>0 DEF SetupIpcServer
<1>20. CASE Listen
  BY <1>20, <1>0 DEF Listen
<1>21. CASE ServerListen
  BY <1>21, <1>0 DEF ServerListen
<1>22. CASE DisarmTimer
  BY <1>22, <1>0 DEF DisarmTimer
<1>23. CASE ParseControl
  BY <1>23, <1>0 DEF ParseControl
<1>24. CASE JavaStartFails
  BY <1>24, <1>0 DEF JavaStartFails
<1>25. CASE RunNode
  <2>1. PICK d \in Clients :
          /\ Pending(d) /\ Current(d) \in Requests
          /\ runs' = [runs EXCEPT ![Current(d)] = 1]
    BY <1>25, RunNodeEffect
  <2>2. \A c \in Clients : \A n \in 1 .. MaxReq :
          n > reqNo[c] => <<c, n>> # Current(d) /\ <<c, n>> \in Requests
    BY DEF Current, Requests
  <2>3. \A c \in Clients :
          cpc[c] \in {"shmget", "shmat", "lock", "control", "input", "notify"}
            => Current(c) # Current(d) /\ Current(c) \in Requests
    BY <2>1, CurrentFacts, PendingIsRequest DEF Pending
  <2>4. QED
    BY <1>25, <1>0, <2>1, <2>2, <2>3 DEF RunNode
<1>26. CASE SendResponse
  BY <1>26, <1>0 DEF SendResponse
<1>27. CASE WakeClient
  BY <1>27, <1>0 DEF WakeClient
<1>28. CASE WaitClient2Receive
  BY <1>28, <1>0 DEF WaitClient2Receive
<1>29. CASE Alarm
  BY <1>29, <1>0 DEF Alarm
<1>30. CASE TerminateServer
  BY <1>30, <1>0 DEF TerminateServer
<1>31. CASE RemoveShm
  BY <1>31, <1>0 DEF RemoveShm
<1>32. CASE RemoveSem
  BY <1>32, <1>0 DEF RemoveSem
<1>33. CASE UNCHANGED vars
  BY <1>33, <1>0 DEF vars
<1>34. QED
  BY <1>1, <1>2, <1>3, <1>4, <1>5, <1>6, <1>7, <1>8, <1>9, <1>10, <1>11,
     <1>12, <1>13, <1>14, <1>15, <1>16, <1>17, <1>18, <1>19, <1>20, <1>21,
     <1>22, <1>23, <1>24, <1>25, <1>26, <1>27, <1>28, <1>29, <1>30, <1>31,
     <1>32, <1>33
  DEF Next, ClientStep, ServerStep, Quiescent

\* What a client copies out and returns answers the request it is making, and
\* that request has run.
LEMMA AnswerStep ==
  ASSUME IInv, SafeKills, [Next]_vars
  PROVE  AnswerInv'
<1>0. reqNo' = reqNo => \A c : Current(c)' = Current(c)
  BY DEF Current
<1> USE DEF IInv, TypeOK, KernelInv, AttachInv, AnswerInv, Talking,
           Goto, GiveUp, Released, kernel, segment, client, server
<1>1. ASSUME NEW e \in Clients, StartRequest(e) PROVE AnswerInv'
  <2>1. \A c \in Clients : c # e => Current(c)' = Current(c)
    BY <1>1 DEF StartRequest, Current
  <2>2. Blank # Res(Current(e)')
    BY CellFacts
  <2>3. QED
    BY <1>1, <2>1, <2>2 DEF StartRequest
<1>2. ASSUME NEW e \in Clients, Shmget(e) PROVE AnswerInv'
  BY <1>2, <1>0 DEF Shmget
<1>3. ASSUME NEW e \in Clients, ConnectTimeout(e) PROVE AnswerInv'
  <2>1. Fault # Blank /\ \A c : Fault # Res(Current(c))
    BY CellFacts
  <2>2. QED
    BY <1>3, <1>0, <2>1 DEF ConnectTimeout
<1>4. ASSUME NEW e \in Clients, Shmat(e) PROVE AnswerInv'
  BY <1>4, <1>0 DEF Shmat
<1>5. ASSUME NEW e \in Clients, LockClientQ(e) PROVE AnswerInv'
  BY <1>5, <1>0 DEF LockClientQ
<1>6. ASSUME NEW e \in Clients, LockFails(e) PROVE AnswerInv'
  <2>1. Fault # Blank /\ \A c : Fault # Res(Current(c))
    BY CellFacts
  <2>2. QED
    BY <1>6, <1>0, <2>1 DEF LockFails
<1>7. ASSUME NEW e \in Clients, CopyControl(e) PROVE AnswerInv'
  BY <1>7, <1>0 DEF CopyControl
<1>8. ASSUME NEW e \in Clients, CopyInput(e) PROVE AnswerInv'
  BY <1>8, <1>0 DEF CopyInput
<1>9. ASSUME NEW e \in Clients, SegmentFault(e) PROVE AnswerInv'
  <2>1. Fault # Blank /\ \A c : Fault # Res(Current(c))
    BY CellFacts
  <2>2. QED
    BY <1>9, <1>0, <2>1 DEF SegmentFault
<1>10. ASSUME NEW e \in Clients, NotifyServer(e) PROVE AnswerInv'
  BY <1>10, <1>0 DEF NotifyServer
<1>11. ASSUME NEW e \in Clients, AwaitServer(e) PROVE AnswerInv'
  BY <1>11, <1>0 DEF AwaitServer
<1>12. ASSUME NEW e \in Clients, SemopFails(e) PROVE AnswerInv'
  <2>1. Fault # Blank /\ \A c : Fault # Res(Current(c))
    BY CellFacts
  <2>2. QED
    BY <1>12, <1>0, <2>1 DEF SemopFails
<1>13. ASSUME NEW e \in Clients, CopyResponse(e) PROVE AnswerInv'
  BY <1>13, <1>0 DEF CopyResponse, SegmentInv, Holds
<1>14. ASSUME NEW e \in Clients, AckServer(e) PROVE AnswerInv'
  <2>1. \A c : Blank # Res(Current(c))
    BY CellFacts
  <2>2. QED
    BY <1>14, <1>0, <2>1 DEF AckServer
<1>15. ASSUME NEW e \in Clients, Detach(e) PROVE AnswerInv'
  BY <1>15, <1>0 DEF Detach
<1>16. ASSUME NEW e \in Clients, UnlockClientQ(e) PROVE AnswerInv'
  BY <1>16, <1>0 DEF UnlockClientQ
<1>17. ASSUME NEW e \in Clients, Terminate(e) PROVE AnswerInv'
  BY <1>17, <1>0 DEF Terminate
<1>18. ASSUME NEW e \in Clients, Crash(e) PROVE AnswerInv'
  BY <1>18, <1>0 DEF Crash
<1>19. CASE SetupIpcServer
  BY <1>19, <1>0 DEF SetupIpcServer
<1>20. CASE Listen
  BY <1>20, <1>0 DEF Listen
<1>21. CASE ServerListen
  BY <1>21, <1>0 DEF ServerListen
<1>22. CASE DisarmTimer
  BY <1>22, <1>0 DEF DisarmTimer
<1>23. CASE ParseControl
  BY <1>23, <1>0 DEF ParseControl
<1>24. CASE JavaStartFails
  BY <1>24, <1>0 DEF JavaStartFails
<1>25. CASE RunNode
  <2>1. PICK d \in Clients :
          Current(d) \in Requests /\ runs' = [runs EXCEPT ![Current(d)] = 1]
    BY <1>25, RunNodeEffect
  <2>2. \A r \in Requests : runs[r] = 1 => runs'[r] = 1
    BY <2>1
  <2>3. \A c \in Clients :
          answer[c] = Res(Current(c)) \/ cpc[c] = "ack" => runs[Current(c)] = 1
    OBVIOUS
  <2>4. \A c : runs[Current(c)] = 1 => runs'[Current(c)] = 1
    BY <2>1
  <2>5. QED
    BY <1>25, <1>0, <2>3, <2>4 DEF RunNode
<1>26. CASE SendResponse
  BY <1>26, <1>0 DEF SendResponse
<1>27. CASE WakeClient
  BY <1>27, <1>0 DEF WakeClient
<1>28. CASE WaitClient2Receive
  BY <1>28, <1>0 DEF WaitClient2Receive
<1>29. CASE Alarm
  BY <1>29, <1>0 DEF Alarm
<1>30. CASE TerminateServer
  BY <1>30, <1>0 DEF TerminateServer
<1>31. CASE RemoveShm
  BY <1>31, <1>0 DEF RemoveShm
<1>32. CASE RemoveSem
  BY <1>32, <1>0 DEF RemoveSem
<1>33. CASE UNCHANGED vars
  BY <1>33, <1>0 DEF vars
<1>34. QED
  BY <1>1, <1>2, <1>3, <1>4, <1>5, <1>6, <1>7, <1>8, <1>9, <1>10, <1>11,
     <1>12, <1>13, <1>14, <1>15, <1>16, <1>17, <1>18, <1>19, <1>20, <1>21,
     <1>22, <1>23, <1>24, <1>25, <1>26, <1>27, <1>28, <1>29, <1>30, <1>31,
     <1>32, <1>33
  DEF Next, ClientStep, ServerStep, Quiescent

\* Nobody overwrites what the owner of the queue, or the server in its turn,
\* has put into the segment.
LEMMA SegmentStep ==
  ASSUME IInv, SafeKills, [Next]_vars
  PROVE  SegmentInv'
<1>0. reqNo' = reqNo => \A c : Current(c)' = Current(c)
  BY DEF Current
<1> USE DEF IInv, TypeOK, KernelInv, OwnerInv, SegmentInv, Holds, Talking,
           Goto, GiveUp, Released, kernel, segment, client, server
<1>1. ASSUME NEW e \in Clients, StartRequest(e) PROVE SegmentInv'
  <2>1. \A c \in Clients : c # e => Current(c)' = Current(c)
    BY <1>1 DEF StartRequest, Current
  <2>2. QED
    BY <1>1, <2>1 DEF StartRequest
<1>2. ASSUME NEW e \in Clients, Shmget(e) PROVE SegmentInv'
  BY <1>2, <1>0 DEF Shmget
<1>3. ASSUME NEW e \in Clients, ConnectTimeout(e) PROVE SegmentInv'
  BY <1>3, <1>0 DEF ConnectTimeout
<1>4. ASSUME NEW e \in Clients, Shmat(e) PROVE SegmentInv'
  BY <1>4, <1>0 DEF Shmat
<1>5. ASSUME NEW e \in Clients, LockClientQ(e) PROVE SegmentInv'
  BY <1>5, <1>0 DEF LockClientQ
<1>6. ASSUME NEW e \in Clients, LockFails(e) PROVE SegmentInv'
  BY <1>6, <1>0 DEF LockFails
<1>7. ASSUME NEW e \in Clients, CopyControl(e) PROVE SegmentInv'
  BY <1>7, <1>0 DEF CopyControl
<1>8. ASSUME NEW e \in Clients, CopyInput(e) PROVE SegmentInv'
  BY <1>8, <1>0 DEF CopyInput
<1>9. ASSUME NEW e \in Clients, SegmentFault(e) PROVE SegmentInv'
  BY <1>9, <1>0 DEF SegmentFault
<1>10. ASSUME NEW e \in Clients, NotifyServer(e) PROVE SegmentInv'
  <2>1. clntWait # 1
    BY <1>10 DEF NotifyServer, TurnInv, Answered, Pending, HoldsQueue
  <2>2. QED
    BY <1>10, <1>0, <2>1 DEF NotifyServer, TurnInv
<1>11. ASSUME NEW e \in Clients, AwaitServer(e) PROVE SegmentInv'
  BY <1>11, <1>0 DEF AwaitServer
<1>12. ASSUME NEW e \in Clients, SemopFails(e) PROVE SegmentInv'
  BY <1>12, <1>0 DEF SemopFails
<1>13. ASSUME NEW e \in Clients, CopyResponse(e) PROVE SegmentInv'
  BY <1>13, <1>0 DEF CopyResponse
<1>14. ASSUME NEW e \in Clients, AckServer(e) PROVE SegmentInv'
  BY <1>14, <1>0 DEF AckServer
<1>15. ASSUME NEW e \in Clients, Detach(e) PROVE SegmentInv'
  BY <1>15, <1>0 DEF Detach
<1>16. ASSUME NEW e \in Clients, UnlockClientQ(e) PROVE SegmentInv'
  BY <1>16, <1>0 DEF UnlockClientQ
<1>17. ASSUME NEW e \in Clients, Terminate(e) PROVE SegmentInv'
  BY <1>17, <1>0 DEF Terminate
<1>18. ASSUME NEW e \in Clients, Crash(e) PROVE SegmentInv'
  BY <1>18, <1>0 DEF Crash
<1>19. CASE SetupIpcServer
  BY <1>19, <1>0 DEF SetupIpcServer
<1>20. CASE Listen
  BY <1>20, <1>0 DEF Listen
<1>21. CASE ServerListen
  BY <1>21, <1>0 DEF ServerListen
<1>22. CASE DisarmTimer
  BY <1>22, <1>0 DEF DisarmTimer
<1>23. CASE ParseControl
  BY <1>23, <1>0 DEF ParseControl
<1>24. CASE JavaStartFails
  BY <1>24, <1>0 DEF JavaStartFails
<1>25. CASE RunNode
  <2>1. PICK d \in Clients :
          Current(d) \in Requests /\ runs' = [runs EXCEPT ![Current(d)] = 1]
    BY <1>25, RunNodeEffect
  <2>2. \A c : runs[Current(c)] = 1 => runs'[Current(c)] = 1
    BY <2>1
  <2>3. QED
    BY <1>25, <1>0, <2>2 DEF RunNode
<1>26. CASE SendResponse
  <2>1. PICK d \in Clients : Pending(d)
    BY <1>26 DEF SendResponse, TurnInv
  <2>2. \A c \in Clients : cpc[c] \notin {"input", "notify", "copy"}
    BY <2>1 DEF Pending, HoldsQueue
  <2>3. clntWait = 0
    BY <1>26 DEF SendResponse, TurnInv
  <2>4. QED
    BY <1>26, <1>0, <2>2, <2>3 DEF SendResponse
<1>27. CASE WakeClient
  <2>1. PICK d \in Clients :
          Pending(d) /\ Holds(Res(Current(d))) /\ runs[Current(d)] = 1
    BY <1>27 DEF WakeClient, TurnInv, Answered
  <2>2. \A c \in Clients : cpc[c] = "await" => c = d
    BY <2>1 DEF Pending, HoldsQueue
  <2>3. QED
    BY <1>27, <1>0, <2>1, <2>2 DEF WakeClient
<1>28. CASE WaitClient2Receive
  BY <1>28, <1>0 DEF WaitClient2Receive
<1>29. CASE Alarm
  BY <1>29, <1>0 DEF Alarm
<1>30. CASE TerminateServer
  BY <1>30, <1>0 DEF TerminateServer
<1>31. CASE RemoveShm
  BY <1>31, <1>0 DEF RemoveShm
<1>32. CASE RemoveSem
  BY <1>32, <1>0 DEF RemoveSem
<1>33. CASE UNCHANGED vars
  BY <1>33, <1>0 DEF vars
<1>34. QED
  BY <1>1, <1>2, <1>3, <1>4, <1>5, <1>6, <1>7, <1>8, <1>9, <1>10, <1>11,
     <1>12, <1>13, <1>14, <1>15, <1>16, <1>17, <1>18, <1>19, <1>20, <1>21,
     <1>22, <1>23, <1>24, <1>25, <1>26, <1>27, <1>28, <1>29, <1>30, <1>31,
     <1>32, <1>33
  DEF Next, ClientStep, ServerStep, Quiescent

\* Wake-ups are never confused: the server takes a request for a request and
\* a receipt for a receipt, or waits in vain.
LEMMA TurnStep ==
  ASSUME IInv, SafeKills, [Next]_vars
  PROVE  TurnInv'
<1>0. reqNo' = reqNo => \A c : Current(c)' = Current(c)
  BY DEF Current
<1> USE DEF IInv, TypeOK, KernelInv, AttachInv, OwnerInv, TurnInv,
           QueueHasOneOwner, HoldsQueue, Holds, Pending, Asked, Answered, Talking,
           Goto, GiveUp, Released, kernel, segment, client, server
<1>1. ASSUME NEW e \in Clients, StartRequest(e) PROVE TurnInv'
  <2>1. \A c \in Clients : c # e => Current(c)' = Current(c)
    BY <1>1 DEF StartRequest, Current
  <2>2. \A d \in Clients : Pending(d) => d # e /\ Pending(d)'
    BY <1>1 DEF StartRequest
  <2>3. QED
    BY <1>1, <2>1, <2>2 DEF StartRequest
<1>2. ASSUME NEW e \in Clients, Shmget(e) PROVE TurnInv'
  BY <1>2, <1>0 DEF Shmget
<1>3. ASSUME NEW e \in Clients, ConnectTimeout(e) PROVE TurnInv'
  BY <1>3, <1>0 DEF ConnectTimeout
<1>4. ASSUME NEW e \in Clients, Shmat(e) PROVE TurnInv'
  BY <1>4, <1>0 DEF Shmat
<1>5. ASSUME NEW e \in Clients, LockClientQ(e) PROVE TurnInv'
  BY <1>5, <1>0 DEF LockClientQ
<1>6. ASSUME NEW e \in Clients, LockFails(e) PROVE TurnInv'
  BY <1>6, <1>0 DEF LockFails
<1>7. ASSUME NEW e \in Clients, CopyControl(e) PROVE TurnInv'
  BY <1>7, <1>0 DEF CopyControl
<1>8. ASSUME NEW e \in Clients, CopyInput(e) PROVE TurnInv'
  BY <1>8, <1>0 DEF CopyInput
<1>9. ASSUME NEW e \in Clients, SegmentFault(e) PROVE TurnInv'
  BY <1>9, <1>0 DEF SegmentFault
<1>10. ASSUME NEW e \in Clients, NotifyServer(e) PROVE TurnInv'
  <2>1. \A d \in Clients : ~ Pending(d)
    BY <1>10 DEF NotifyServer
  <2>2. Pending(e)'
    BY <1>10 DEF NotifyServer, AnswerInv
  <2>3. Asked'
    BY <1>10, <1>0, <2>2 DEF NotifyServer, SegmentInv, RunsInv
  <2>4. QED
    BY <1>10, <2>1, <2>3 DEF NotifyServer
<1>11. ASSUME NEW e \in Clients, AwaitServer(e) PROVE TurnInv'
  <2>1. clntWait = 1 /\ spc \in {"waitrcv", "rmshm", "rmsem"}
    BY <1>11 DEF AwaitServer, ServerSteps
  <2>2. \A c \in Clients : cpc[c] \in Talking => c = e
    BY <1>11 DEF AwaitServer
  <2>3. QED
    BY <1>11, <2>1, <2>2 DEF AwaitServer
<1>12. ASSUME NEW e \in Clients, SemopFails(e) PROVE TurnInv'
  BY <1>12, <1>0 DEF SemopFails
<1>13. ASSUME NEW e \in Clients, CopyResponse(e) PROVE TurnInv'
  BY <1>13, <1>0 DEF CopyResponse
<1>14. ASSUME NEW e \in Clients, AckServer(e) PROVE TurnInv'
  BY <1>14, <1>0 DEF AckServer
<1>15. ASSUME NEW e \in Clients, Detach(e) PROVE TurnInv'
  BY <1>15, <1>0 DEF Detach
<1>16. ASSUME NEW e \in Clients, UnlockClientQ(e) PROVE TurnInv'
  BY <1>16, <1>0 DEF UnlockClientQ
<1>17. ASSUME NEW e \in Clients, Terminate(e) PROVE TurnInv'
  <2>1. cpc[e] \in ClientSteps \ {"idle", "dead", "lock", "await"}
    BY <1>17, ChannelAssumption DEF Terminate, SafeKills
  <2>2. CASE semid = "live" /\ att[e] # "null"
    <3>1. HoldsQueue(e)
      BY <2>1, <2>2 DEF ClientSteps
    <3>2. \A d \in Clients : ~ Pending(d)
      BY <2>1, <3>1
    <3>3. QED
      BY <1>17, <2>1, <2>2, <3>2 DEF Terminate
  <2>3. CASE ~ (semid = "live" /\ att[e] # "null")
    <3>1. qclnt' = qclnt
      BY <1>17, <2>3 DEF Terminate
    <3>2. \A d \in Clients : Pending(d) => Pending(d)'
      BY <1>17, <2>1, <3>1 DEF Terminate
    <3>3. (Asked => Asked') /\ (Answered => Answered')
      BY <1>17, <1>0, <3>2 DEF Terminate
    <3>4. QED
      BY <1>17, <1>0, <2>1, <3>1, <3>2, <3>3 DEF Terminate
  <2>4. QED
    BY <2>2, <2>3
<1>18. ASSUME NEW e \in Clients, Crash(e) PROVE TurnInv'
  BY <1>18, <1>0 DEF Crash
<1>19. CASE SetupIpcServer
  BY <1>19, <1>0 DEF SetupIpcServer
<1>20. CASE Listen
  BY <1>20, <1>0 DEF Listen
<1>21. CASE ServerListen
  BY <1>21, <1>0 DEF ServerListen
<1>22. CASE DisarmTimer
  BY <1>22, <1>0 DEF DisarmTimer
<1>23. CASE ParseControl
  <2>1. \E r \in Requests : head = Req(r)
    BY <1>23, PendingIsRequest DEF ParseControl
  <2>2. QED
    BY <1>23, <1>0, <2>1 DEF ParseControl
<1>24. CASE JavaStartFails
  BY <1>24, <1>0 DEF JavaStartFails
<1>25. CASE RunNode
  <2>1. PICK d \in Clients :
          /\ Pending(d) /\ Current(d) \in Requests
          /\ runs' = [runs EXCEPT ![Current(d)] = 1]
          /\ out' = Res(Current(d))
    BY <1>25, RunNodeEffect
  <2>2. runs'[Current(d)] = 1 /\ Pending(d)'
    BY <1>25, <2>1 DEF RunNode
  <2>3. QED
    BY <1>25, <1>0, <2>1, <2>2 DEF RunNode
<1>26. CASE SendResponse
  BY <1>26, <1>0 DEF SendResponse
<1>27. CASE WakeClient
  BY <1>27, <1>0 DEF WakeClient
<1>28. CASE WaitClient2Receive
  BY <1>28, <1>0 DEF WaitClient2Receive
<1>29. CASE Alarm
  BY <1>29, <1>0 DEF Alarm
<1>30. CASE TerminateServer
  BY <1>30, <1>0 DEF TerminateServer
<1>31. CASE RemoveShm
  BY <1>31, <1>0 DEF RemoveShm
<1>32. CASE RemoveSem
  BY <1>32, <1>0 DEF RemoveSem
<1>33. CASE UNCHANGED vars
  BY <1>33, <1>0 DEF vars
<1>34. QED
  BY <1>1, <1>2, <1>3, <1>4, <1>5, <1>6, <1>7, <1>8, <1>9, <1>10, <1>11,
     <1>12, <1>13, <1>14, <1>15, <1>16, <1>17, <1>18, <1>19, <1>20, <1>21,
     <1>22, <1>23, <1>24, <1>25, <1>26, <1>27, <1>28, <1>29, <1>30, <1>31,
     <1>32, <1>33
  DEF Next, ClientStep, ServerStep, Quiescent

\* IInv is inductive when SIGTERM spares the clients that wait.
LEMMA IInvStep ==
  ASSUME IInv, [Next]_vars, SafeKills
  PROVE  IInv'
<1>1. TypeOK'
  BY TypeStep DEF IInv
<1>2. QED
  BY <1>1, KernelStep, AttachStep, OwnerStep, RunsStep, AnswerStep,
     SegmentStep, TurnStep
  DEF IInv

\* The invariant holds in every run in which SIGTERM spares waiting clients.
THEOREM Invariance == SafeKills => (Spec => []IInv)
<1> SUFFICES ASSUME SafeKills PROVE Spec => []IInv
  OBVIOUS
<1>1. IInv /\ [Next]_vars => IInv'
  BY IInvStep
<1>2. QED
  BY <1>1, InitIInv, PTL DEF Spec

-----------------------------------------------------------------------------
(* The properties.                                                         *)

\* At most one job is touching the segment (lockClientQ "Wait and block
\* other clients", receiveRequest processing the request in place).
THEOREM MutualExclusion == SafeKills => (Spec => []SegmentExclusive)
<1>1. IInv => SegmentExclusive
  <2> SUFFICES ASSUME IInv PROVE SegmentExclusive
    OBVIOUS
  <2> USE DEF IInv, KernelInv, OwnerInv, TurnInv, Asked, Pending, HoldsQueue,
              Touching, ServerTouches, Talking
  <2>1. \A c, d \in Touching : c = d
    OBVIOUS
  <2>2. ServerTouches => Touching = {}
    <3>1. ServerTouches => \E d \in Clients : Pending(d)
      OBVIOUS
    <3>2. QED
      BY <3>1
  <2>3. QED
    BY <2>1, <2>2 DEF SegmentExclusive
<1>2. QED
  BY <1>1, Invariance, PTL

\* runService returns the answer to the request it was called with, or an
\* error (receiveResponse copies whatever the segment holds).
THEOREM OwnAnswers == SafeKills => (Spec => []AnswersOwnRequest)
<1>1. IInv => AnswersOwnRequest
  BY DEF IInv, AnswerInv, AnswersOwnRequest
<1>2. QED
  BY <1>1, Invariance, PTL

\* The server runs a request at most once, and no client gets an answer to a
\* request that has not run.
THEOREM AtMostOnce == SafeKills => (Spec => []ExecutedOnce)
<1>1. IInv => ExecutedOnce
  BY DEF IInv, AnswerInv, RunsInv, ExecutedOnce
<1>2. QED
  BY <1>1, Invariance, PTL

\* The queue has at most one owner as long as the set exists.
THEOREM OneOwner == SafeKills => (Spec => []QueueHasOneOwner)
<1>1. IInv => QueueHasOneOwner
  BY DEF IInv, OwnerInv
<1>2. QED
  BY <1>1, Invariance, PTL
-----------------------------------------------------------------------------
(* No wake-up is lost.                                                     *)

\* Before the server is set up nobody has connected.
LEMMA InitWakeInv == Init => WakeInv
  BY DEF Init, WakeInv

\* Each action keeps track of the wake-up of the client that awaits.
LEMMA WakeStep ==
  ASSUME SafeKills, SafeReceipts, IInv, IInv', WakeInv, [Next]_vars
  PROVE  WakeInv'
<1>a. TypeOK /\ KernelInv /\ AttachInv /\ OwnerInv /\ TurnInv
  BY DEF IInv
<1>b. TypeOK' /\ KernelInv' /\ OwnerInv' /\ TurnInv'
  BY DEF IInv
<1> USE <1>a, <1>b
    DEF TypeOK, KernelInv, OwnerInv, QueueHasOneOwner, HoldsQueue, Talking,
        TurnInv, WakeInv, ReceiptIsOwed, Timed,
        Goto, GiveUp, Released, kernel, segment, client, server
<1>1. ASSUME NEW e \in Clients, StartRequest(e) PROVE WakeInv'
  BY <1>1 DEF StartRequest
<1>2. ASSUME NEW e \in Clients, Shmget(e) PROVE WakeInv'
  BY <1>2 DEF Shmget
<1>3. ASSUME NEW e \in Clients, ConnectTimeout(e) PROVE WakeInv'
  BY <1>3 DEF ConnectTimeout
<1>4. ASSUME NEW e \in Clients, Shmat(e) PROVE WakeInv'
  BY <1>4 DEF Shmat, AttachInv
<1>5. ASSUME NEW e \in Clients, LockClientQ(e) PROVE WakeInv'
  BY <1>5 DEF LockClientQ
<1>6. ASSUME NEW e \in Clients, LockFails(e) PROVE WakeInv'
  BY <1>6 DEF LockFails
<1>7. ASSUME NEW e \in Clients, CopyControl(e) PROVE WakeInv'
  BY <1>7 DEF CopyControl
<1>8. ASSUME NEW e \in Clients, CopyInput(e) PROVE WakeInv'
  BY <1>8 DEF CopyInput
<1>9. ASSUME NEW e \in Clients, SegmentFault(e) PROVE WakeInv'
  BY <1>9 DEF SegmentFault
<1>10. ASSUME NEW e \in Clients, NotifyServer(e) PROVE WakeInv'
  BY <1>10 DEF NotifyServer
<1>11. ASSUME NEW e \in Clients, AwaitServer(e) PROVE WakeInv'
  BY <1>11 DEF AwaitServer
<1>12. ASSUME NEW e \in Clients, SemopFails(e) PROVE WakeInv'
  BY <1>12 DEF SemopFails
<1>13. ASSUME NEW e \in Clients, CopyResponse(e) PROVE WakeInv'
  BY <1>13 DEF CopyResponse
<1>14. ASSUME NEW e \in Clients, AckServer(e) PROVE WakeInv'
  BY <1>14 DEF AckServer
<1>15. ASSUME NEW e \in Clients, Detach(e) PROVE WakeInv'
  BY <1>15 DEF Detach
<1>16. ASSUME NEW e \in Clients, UnlockClientQ(e) PROVE WakeInv'
  BY <1>16 DEF UnlockClientQ
<1>17. ASSUME NEW e \in Clients, Terminate(e) PROVE WakeInv'
  <2>1. cpc[e] \notin {"lock", "await", "copy", "ack"}
    BY <1>17 DEF Terminate, SafeKills, SafeReceipts
  <2>2. ASSUME spc = "waitrcv", svrWait = 0 PROVE att[e] = "null"
    <3>1. semid = "live"
      BY <2>2
    <3>2. cpc[e] \notin {"control", "input", "notify", "unlock"}
      BY <2>2
    <3>3. ~ (cpc[e] = "close" /\ att[e] # "null")
      BY <2>2
    <3>4. QED
      BY <2>1, <3>1, <3>2, <3>3 DEF AttachInv, ClientSteps
  <2>3. spc = "waitrcv" /\ svrWait = 0 => ReceiptIsOwed'
    BY <1>17, <2>2 DEF Terminate
  <2>4. QED
    BY <1>17, <2>1, <2>3 DEF Terminate
<1>18. ASSUME NEW e \in Clients, Crash(e) PROVE WakeInv'
  BY <1>18 DEF Crash
<1>19. CASE SetupIpcServer
  BY <1>19 DEF SetupIpcServer
<1>20. CASE Listen
  BY <1>20 DEF Listen
<1>21. CASE ServerListen
  BY <1>21 DEF ServerListen
<1>22. CASE DisarmTimer
  BY <1>22 DEF DisarmTimer
<1>23. CASE ParseControl
  BY <1>23 DEF ParseControl
<1>24. CASE JavaStartFails
  BY <1>24 DEF JavaStartFails
<1>25. CASE RunNode
  BY <1>25 DEF RunNode
<1>26. CASE SendResponse
  BY <1>26 DEF SendResponse
<1>27. CASE WakeClient
  <2>1. PICK d \in Clients : Pending(d)
    BY <1>27 DEF WakeClient, Answered
  <2>2. ReceiptIsOwed'
    BY <1>27, <2>1 DEF WakeClient, Pending
  <2>3. QED
    BY <1>27, <2>2 DEF WakeClient
<1>28. CASE WaitClient2Receive
  BY <1>28 DEF WaitClient2Receive
<1>29. CASE Alarm
  BY <1>29 DEF Alarm
<1>30. CASE TerminateServer
  BY <1>30 DEF TerminateServer
<1>31. CASE RemoveShm
  BY <1>31 DEF RemoveShm
<1>32. CASE RemoveSem
  BY <1>32 DEF RemoveSem
<1>33. CASE UNCHANGED vars
  BY <1>33 DEF vars
<1>34. QED
  BY <1>1, <1>2, <1>3, <1>4, <1>5, <1>6, <1>7, <1>8, <1>9, <1>10,
     <1>11, <1>12, <1>13, <1>14, <1>15, <1>16, <1>17, <1>18, <1>19,
     <1>20, <1>21, <1>22, <1>23, <1>24, <1>25, <1>26, <1>27, <1>28,
     <1>29, <1>30, <1>31, <1>32, <1>33
  DEF Next, ClientStep, ServerStep, Quiescent

\* Once the server sleeps for a request, nobody sleeps for a response whose
\* request is not pending (serverListen against sendRequest), if no client is
\* terminated between lockClientQ and AckServer once it has woken the server.
THEOREM NoWakeupIsLost ==
  SafeKills /\ SafeReceipts => (Spec => []NoLostWakeup)
<1> SUFFICES ASSUME SafeKills, SafeReceipts PROVE Spec => []NoLostWakeup
  OBVIOUS
<1>1. IInv /\ IInv' /\ WakeInv /\ [Next]_vars => WakeInv'
  BY WakeStep
<1>2. WakeInv => NoLostWakeup
  <2>1. ASSUME WakeInv, spc = "wait", svrWait = 0,
               NEW c \in Clients, cpc[c] = "await"
        PROVE  FALSE
    <3>1. svrWait = 1
      BY <2>1 DEF WakeInv
    <3>2. QED
      BY <2>1, <3>1
  <2>2. QED
    BY <2>1, Zenon DEF NoLostWakeup
<1>3. QED
  BY <1>1, <1>2, InitWakeInv, Invariance, PTL DEF Spec

-----------------------------------------------------------------------------
(* IpcChannel implements RequestReply *)

\* The two modules write answers and requests in the same way.
LEMMA SameTerms ==
  /\ Promise!Blank = Blank /\ Promise!Fault = Fault
  /\ \A r : Promise!Res(r) = Res(r)
  /\ \A c : Promise!Current(c) = Current(c)
  BY DEF Promise!Blank, Promise!Fault, Promise!Res, Promise!Current,
         Blank, Fault, Res, Current

\* The initial states map to the initial state.
LEMMA InitRefines == Init => Promise!Init
  BY DEF Init, Promise!Init, Promise!Blank, Blank, Requests

\* STS_ERROR_FR before the outcome of a request is known maps to Fail.
LEMMA GiveUpFails ==
  ASSUME IInv, NEW e \in Clients, GiveUp(e), UNCHANGED <<reqNo, runs>>,
         cpc[e] \in Talking \cup {"shmget", "lock"}
  PROVE  Promise!Fail(e)
<1>1. reqNo[e] > 0
  BY DEF IInv, TypeOK, Talking
<1>2. answer[e] = Blank
  BY DEF IInv, AnswerInv
<1>3. QED
  BY <1>1, <1>2, SameTerms DEF GiveUp, Promise!Fail

\* Every step of the channel is a step of the promise, or none.
LEMMA StepRefines ==
  ASSUME IInv, [Next]_vars
  PROVE  [Promise!Next]_(Promise!vars)
<1> USE DEF Promise!vars, kernel, segment, client, server
<1> DEFINE Maps == Promise!Next \/ UNCHANGED <<reqNo, answer, runs>>
<1>0. Promise!Next \/ UNCHANGED <<reqNo, answer, runs>>
        => [Promise!Next]_(Promise!vars)
  OBVIOUS
<1>1. ASSUME NEW e \in Clients, StartRequest(e) PROVE Maps
  <2>1. reqNo[e] > 0 => answer[e] # Blank
    BY <1>1 DEF IInv, AnswerInv, StartRequest
  <2>2. Promise!Ask(e)
    BY <1>1, <2>1, SameTerms DEF StartRequest, Promise!Ask
  <2>3. QED
    BY <2>2 DEF Promise!Next
<1>2. ASSUME NEW e \in Clients, Shmget(e) PROVE Maps
  BY <1>2 DEF Shmget
<1>3. ASSUME NEW e \in Clients, ConnectTimeout(e) PROVE Maps
  <2>1. Promise!Fail(e)
    BY <1>3, GiveUpFails DEF ConnectTimeout, Talking
  <2>2. QED
    BY <2>1 DEF Promise!Next
<1>4. ASSUME NEW e \in Clients, Shmat(e) PROVE Maps
  BY <1>4 DEF Shmat
<1>5. ASSUME NEW e \in Clients, LockClientQ(e) PROVE Maps
  BY <1>5 DEF LockClientQ
<1>6. ASSUME NEW e \in Clients, LockFails(e) PROVE Maps
  <2>1. CASE UNCHANGED answer
    BY <1>6, <2>1 DEF LockFails
  <2>2. CASE GiveUp(e)
    <3>1. Promise!Fail(e)
      BY <1>6, <2>2, GiveUpFails DEF LockFails
    <3>2. QED
      BY <3>1 DEF Promise!Next
  <2>3. QED
    BY <1>6, <2>1, <2>2 DEF LockFails
<1>7. ASSUME NEW e \in Clients, CopyControl(e) PROVE Maps
  BY <1>7 DEF CopyControl
<1>8. ASSUME NEW e \in Clients, CopyInput(e) PROVE Maps
  BY <1>8 DEF CopyInput
<1>9. ASSUME NEW e \in Clients, SegmentFault(e) PROVE Maps
  <2>1. Promise!Fail(e)
    BY <1>9, GiveUpFails DEF SegmentFault, Talking
  <2>2. QED
    BY <2>1 DEF Promise!Next
<1>10. ASSUME NEW e \in Clients, NotifyServer(e) PROVE Maps
  BY <1>10 DEF NotifyServer
<1>11. ASSUME NEW e \in Clients, AwaitServer(e) PROVE Maps
  BY <1>11 DEF AwaitServer
<1>12. ASSUME NEW e \in Clients, SemopFails(e) PROVE Maps
  <2>1. Promise!Fail(e)
    BY <1>12, GiveUpFails DEF SemopFails, Talking
  <2>2. QED
    BY <2>1 DEF Promise!Next
<1>13. ASSUME NEW e \in Clients, CopyResponse(e) PROVE Maps
  BY <1>13 DEF CopyResponse
<1>14. ASSUME NEW e \in Clients, AckServer(e) PROVE Maps
  <2>1. reqNo[e] > 0
    BY <1>14 DEF IInv, TypeOK, AckServer
  <2>2. /\ answer[e] = Blank /\ rcv[e] = Res(Current(e))
        /\ runs[Current(e)] = 1
    BY <1>14 DEF IInv, AnswerInv, AckServer, Talking
  <2>3. Promise!Reply(e)
    BY <1>14, <2>1, <2>2, SameTerms DEF AckServer, Promise!Reply
  <2>4. QED
    BY <2>3 DEF Promise!Next
<1>15. ASSUME NEW e \in Clients, Detach(e) PROVE Maps
  BY <1>15 DEF Detach
<1>16. ASSUME NEW e \in Clients, UnlockClientQ(e) PROVE Maps
  BY <1>16 DEF UnlockClientQ
<1>17. ASSUME NEW e \in Clients, Terminate(e) PROVE Maps
  BY <1>17 DEF Terminate
<1>18. ASSUME NEW e \in Clients, Crash(e) PROVE Maps
  BY <1>18 DEF Crash
<1>19. CASE SetupIpcServer
  BY <1>19 DEF SetupIpcServer
<1>20. CASE Listen
  BY <1>20 DEF Listen
<1>21. CASE ServerListen
  BY <1>21 DEF ServerListen
<1>22. CASE DisarmTimer
  BY <1>22 DEF DisarmTimer
<1>23. CASE ParseControl
  BY <1>23 DEF ParseControl
<1>24. CASE JavaStartFails
  BY <1>24 DEF JavaStartFails
<1>25. CASE RunNode
  <2>1. PICK d \in Clients :
          /\ Pending(d) /\ runs[Current(d)] = 0
          /\ runs' = [runs EXCEPT ![Current(d)] = 1]
    BY <1>25, RunNodeEffect
  <2>2. answer[d] = Blank /\ reqNo[d] > 0
    BY <2>1 DEF Pending, IInv, TypeOK
  <2>3. UNCHANGED <<reqNo, answer>>
    BY <1>25 DEF RunNode
  <2>4. Promise!Execute(d)
    BY <2>1, <2>2, <2>3, SameTerms DEF Promise!Execute
  <2>5. QED
    BY <2>4 DEF Promise!Next
<1>26. CASE SendResponse
  BY <1>26 DEF SendResponse
<1>27. CASE WakeClient
  BY <1>27 DEF WakeClient
<1>28. CASE WaitClient2Receive
  BY <1>28 DEF WaitClient2Receive
<1>29. CASE Alarm
  BY <1>29 DEF Alarm
<1>30. CASE TerminateServer
  BY <1>30 DEF TerminateServer
<1>31. CASE RemoveShm
  BY <1>31 DEF RemoveShm
<1>32. CASE RemoveSem
  BY <1>32 DEF RemoveSem
<1>33. CASE UNCHANGED vars
  BY <1>33 DEF vars
<1>34. QED
  BY <1>0, <1>1, <1>2, <1>3, <1>4, <1>5, <1>6, <1>7, <1>8, <1>9, <1>10,
     <1>11, <1>12, <1>13, <1>14, <1>15, <1>16, <1>17, <1>18, <1>19, <1>20,
     <1>21, <1>22, <1>23, <1>24, <1>25, <1>26, <1>27, <1>28, <1>29, <1>30,
     <1>31, <1>32, <1>33
  DEF Next, ClientStep, ServerStep, Quiescent

\* The promise of RequestReply is kept, for any number of clients and
\* requests, as long as SIGTERM spares the clients that wait: requests run at
\* most once, never after their client was told of an error, and answers are
\* those of the request (runService and runServer together).
THEOREM Refinement == SafeKills => (Spec => KeepsPromise)
<1> SUFFICES ASSUME SafeKills PROVE Spec => KeepsPromise
  OBVIOUS
<1>1. Spec => []IInv
  BY Invariance
<1>2. IInv /\ [Next]_vars => [Promise!Next]_(Promise!vars)
  BY StepRefines
<1>3. QED
  BY <1>1, <1>2, InitRefines, PTL DEF Spec, KeepsPromise, Promise!Spec
=============================================================================
