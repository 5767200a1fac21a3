-------------------------- MODULE IpcStartupProofs --------------------------
(***************************************************************************)
(* Machine-checked proofs about IpcStartup, for any number of clients,     *)
(* server jobs, requests and polls.                                        *)
(***************************************************************************)
EXTENDS IpcStartupInvariant, TLAPS

-----------------------------------------------------------------------------
(* Type correctness.  A client only polls while its time is not over.      *)

\* elapsed is below its limit whenever clientConnect is in its loop.
PollInv ==
  \A c \in Clients :
    cpc[c] \in {"ftok", "ftok2", "semget", "shmget"} => elapsed[c] < MaxPolls

\* The initial state is well typed.
LEMMA InitTypeOK == Init => TypeOK /\ PollInv
<1>1. Init => /\ submitted \in [Clients -> BOOLEAN]
              /\ tried \in [Clients -> BOOLEAN]
  <2>1. [c \in Clients |-> FALSE] \in [Clients -> BOOLEAN]
    OBVIOUS
  <2>2. QED
    BY <2>1, Zenon DEF Init
<1>2. QED
  BY <1>1, StartupAssumption
  DEF Init, TypeOK, PollInv, ClientSteps, ServerSteps, Owning

\* Every action keeps every variable within its type.
LEMMA TypeStep ==
  ASSUME TypeOK, PollInv, [Next]_vars
  PROVE  TypeOK'
<1> USE StartupAssumption
    DEF TypeOK, PollInv, Goto, GiveUp, Poll, ServerGoto, server, ids, client,
        ClientSteps, ServerSteps, Owning
<1>1. ASSUME NEW e \in Clients, StartRequest(e) PROVE TypeOK'
  BY <1>1 DEF StartRequest
<1>2. ASSUME NEW e \in Clients, FtokSem(e) PROVE TypeOK'
  BY <1>2 DEF FtokSem
<1>3. ASSUME NEW e \in Clients, StartIpcServer(e) PROVE TypeOK'
  BY <1>3 DEF StartIpcServer
<1>4. ASSUME NEW e \in Clients, SubmitFails(e) PROVE TypeOK'
  BY <1>4 DEF SubmitFails
<1>5. ASSUME NEW e \in Clients, WaitDirectory(e) PROVE TypeOK'
  BY <1>5 DEF WaitDirectory
<1>6. ASSUME NEW e \in Clients, FtokShm(e) PROVE TypeOK'
  BY <1>6 DEF FtokShm
<1>7. ASSUME NEW e \in Clients, Semget(e) PROVE TypeOK'
  BY <1>7 DEF Semget
<1>8. ASSUME NEW e \in Clients, Shmget(e) PROVE TypeOK'
  BY <1>8 DEF Shmget
<1>9. ASSUME NEW e \in Clients, LockClientQ(e) PROVE TypeOK'
  BY <1>9 DEF LockClientQ
<1>10. ASSUME NEW e \in Clients, LockFails(e) PROVE TypeOK'
  <2>1. CASE Goto(e, "ftok")
    <3>1. /\ submitted' = [submitted EXCEPT ![e] = FALSE]
          /\ elapsed' = [elapsed EXCEPT ![e] = 0]
          /\ result' = [result EXCEPT ![e] = "none"]
      BY <1>10, <2>1 DEF LockFails
    <3>2. UNCHANGED <<server, qclnt, reqNo, ids, tried>>
      BY <1>10 DEF LockFails
    <3>3. QED
      BY <2>1, <3>1, <3>2
  <2>2. CASE GiveUp(e, "error")
    BY <1>10, <2>2 DEF LockFails
  <2>3. QED
    BY <1>10, <2>1, <2>2 DEF LockFails
<1>11. ASSUME NEW e \in Clients, Converse(e) PROVE TypeOK'
  BY <1>11 DEF Converse
<1>12. ASSUME NEW e \in Clients, Detach(e) PROVE TypeOK'
  BY <1>12 DEF Detach
<1>13. ASSUME NEW e \in Clients, UnlockClientQ(e) PROVE TypeOK'
  BY <1>13 DEF UnlockClientQ
<1>14. ASSUME NEW u \in Servers, Mkdir(u) PROVE TypeOK'
  BY <1>14 DEF Mkdir
<1>15. ASSUME NEW u \in Servers, MkdirFails(u) PROVE TypeOK'
  BY <1>15 DEF MkdirFails
<1>16. ASSUME NEW u \in Servers, ServerSemget(u) PROVE TypeOK'
  BY <1>16 DEF ServerSemget
<1>17. ASSUME NEW u \in Servers, SetAll(u) PROVE TypeOK'
  BY <1>17 DEF SetAll
<1>18. ASSUME NEW u \in Servers, ServerShmget(u) PROVE TypeOK'
  BY <1>18 DEF ServerShmget
<1>19. ASSUME NEW u \in Servers, SetupFails(u) PROVE TypeOK'
  BY <1>19 DEF SetupFails
<1>20. ASSUME NEW u \in Servers, EndServer(u) PROVE TypeOK'
  BY <1>20 DEF EndServer
<1>21. ASSUME NEW u \in Servers, RemoveDir(u) PROVE TypeOK'
  BY <1>21 DEF RemoveDir
<1>22. ASSUME NEW u \in Servers, RemoveShm(u) PROVE TypeOK'
  BY <1>22 DEF RemoveShm
<1>23. ASSUME NEW u \in Servers, RemoveSem(u) PROVE TypeOK'
  BY <1>23 DEF RemoveSem
<1>24. CASE UNCHANGED vars
  BY <1>24 DEF vars
<1>25. QED
  BY <1>1, <1>2, <1>3, <1>4, <1>5, <1>6, <1>7, <1>8, <1>9, <1>10, <1>11,
     <1>12, <1>13, <1>14, <1>15, <1>16, <1>17, <1>18, <1>19, <1>20, <1>21,
     <1>22, <1>23, <1>24
  DEF Next, ClientStep, ServerStep, Quiescent

\* The loop of clientConnect ends when its time is over.
LEMMA PollStep ==
  ASSUME TypeOK, PollInv, [Next]_vars
  PROVE  PollInv'
<1> USE StartupAssumption
    DEF TypeOK, PollInv, Goto, GiveUp, Poll, ServerGoto, server, ids, client
<1>1. ASSUME NEW e \in Clients, StartRequest(e) PROVE PollInv'
  BY <1>1 DEF StartRequest
<1>2. ASSUME NEW e \in Clients, FtokSem(e) PROVE PollInv'
  BY <1>2 DEF FtokSem
<1>3. ASSUME NEW e \in Clients, StartIpcServer(e) PROVE PollInv'
  BY <1>3 DEF StartIpcServer
<1>4. ASSUME NEW e \in Clients, SubmitFails(e) PROVE PollInv'
  BY <1>4 DEF SubmitFails
<1>5. ASSUME NEW e \in Clients, WaitDirectory(e) PROVE PollInv'
  BY <1>5 DEF WaitDirectory
<1>6. ASSUME NEW e \in Clients, FtokShm(e) PROVE PollInv'
  BY <1>6 DEF FtokShm
<1>7. ASSUME NEW e \in Clients, Semget(e) PROVE PollInv'
  BY <1>7 DEF Semget
<1>8. ASSUME NEW e \in Clients, Shmget(e) PROVE PollInv'
  BY <1>8 DEF Shmget
<1>9. ASSUME NEW e \in Clients, LockClientQ(e) PROVE PollInv'
  BY <1>9 DEF LockClientQ
<1>10. ASSUME NEW e \in Clients, LockFails(e) PROVE PollInv'
  BY <1>10 DEF LockFails
<1>11. ASSUME NEW e \in Clients, Converse(e) PROVE PollInv'
  BY <1>11 DEF Converse
<1>12. ASSUME NEW e \in Clients, Detach(e) PROVE PollInv'
  BY <1>12 DEF Detach
<1>13. ASSUME NEW e \in Clients, UnlockClientQ(e) PROVE PollInv'
  BY <1>13 DEF UnlockClientQ
<1>14. ASSUME NEW u \in Servers, Mkdir(u) PROVE PollInv'
  BY <1>14 DEF Mkdir
<1>15. ASSUME NEW u \in Servers, MkdirFails(u) PROVE PollInv'
  BY <1>15 DEF MkdirFails
<1>16. ASSUME NEW u \in Servers, ServerSemget(u) PROVE PollInv'
  BY <1>16 DEF ServerSemget
<1>17. ASSUME NEW u \in Servers, SetAll(u) PROVE PollInv'
  BY <1>17 DEF SetAll
<1>18. ASSUME NEW u \in Servers, ServerShmget(u) PROVE PollInv'
  BY <1>18 DEF ServerShmget
<1>19. ASSUME NEW u \in Servers, SetupFails(u) PROVE PollInv'
  BY <1>19 DEF SetupFails
<1>20. ASSUME NEW u \in Servers, EndServer(u) PROVE PollInv'
  BY <1>20 DEF EndServer
<1>21. ASSUME NEW u \in Servers, RemoveDir(u) PROVE PollInv'
  BY <1>21 DEF RemoveDir
<1>22. ASSUME NEW u \in Servers, RemoveShm(u) PROVE PollInv'
  BY <1>22 DEF RemoveShm
<1>23. ASSUME NEW u \in Servers, RemoveSem(u) PROVE PollInv'
  BY <1>23 DEF RemoveSem
<1>24. CASE UNCHANGED vars
  BY <1>24 DEF vars
<1>25. QED
  BY <1>1, <1>2, <1>3, <1>4, <1>5, <1>6, <1>7, <1>8, <1>9, <1>10, <1>11,
     <1>12, <1>13, <1>14, <1>15, <1>16, <1>17, <1>18, <1>19, <1>20, <1>21,
     <1>22, <1>23, <1>24
  DEF Next, ClientStep, ServerStep, Quiescent

\* Every variable keeps its type in every run.
THEOREM TypeCorrect == Spec => []TypeOK
<1>1. TypeOK /\ PollInv /\ [Next]_vars => (TypeOK /\ PollInv)'
  BY TypeStep, PollStep
<1>2. QED
  BY <1>1, InitTypeOK, PTL DEF Spec

-----------------------------------------------------------------------------
(* The servers.                                                            *)

\* The path passes from server to server by mkdir and rmdir.
LEMMA PathStep ==
  ASSUME TypeOK, PathInv, [Next]_vars
  PROVE  PathInv'
<1> USE StartupAssumption
    DEF TypeOK, PathInv, Goto, GiveUp, Poll, ServerGoto, server, ids, client,
        Owning
<1>1. ASSUME NEW e \in Clients, StartRequest(e) PROVE PathInv'
  BY <1>1 DEF StartRequest
<1>2. ASSUME NEW e \in Clients, FtokSem(e) PROVE PathInv'
  BY <1>2 DEF FtokSem
<1>3. ASSUME NEW e \in Clients, StartIpcServer(e) PROVE PathInv'
  BY <1>3 DEF StartIpcServer
<1>4. ASSUME NEW e \in Clients, SubmitFails(e) PROVE PathInv'
  BY <1>4 DEF SubmitFails
<1>5. ASSUME NEW e \in Clients, WaitDirectory(e) PROVE PathInv'
  BY <1>5 DEF WaitDirectory
<1>6. ASSUME NEW e \in Clients, FtokShm(e) PROVE PathInv'
  BY <1>6 DEF FtokShm
<1>7. ASSUME NEW e \in Clients, Semget(e) PROVE PathInv'
  BY <1>7 DEF Semget
<1>8. ASSUME NEW e \in Clients, Shmget(e) PROVE PathInv'
  BY <1>8 DEF Shmget
<1>9. ASSUME NEW e \in Clients, LockClientQ(e) PROVE PathInv'
  BY <1>9 DEF LockClientQ
<1>10. ASSUME NEW e \in Clients, LockFails(e) PROVE PathInv'
  BY <1>10 DEF LockFails
<1>11. ASSUME NEW e \in Clients, Converse(e) PROVE PathInv'
  BY <1>11 DEF Converse
<1>12. ASSUME NEW e \in Clients, Detach(e) PROVE PathInv'
  BY <1>12 DEF Detach
<1>13. ASSUME NEW e \in Clients, UnlockClientQ(e) PROVE PathInv'
  BY <1>13 DEF UnlockClientQ
<1>14. ASSUME NEW u \in Servers, Mkdir(u) PROVE PathInv'
  BY <1>14 DEF Mkdir
<1>15. ASSUME NEW u \in Servers, MkdirFails(u) PROVE PathInv'
  BY <1>15 DEF MkdirFails
<1>16. ASSUME NEW u \in Servers, ServerSemget(u) PROVE PathInv'
  BY <1>16 DEF ServerSemget
<1>17. ASSUME NEW u \in Servers, SetAll(u) PROVE PathInv'
  BY <1>17 DEF SetAll
<1>18. ASSUME NEW u \in Servers, ServerShmget(u) PROVE PathInv'
  BY <1>18 DEF ServerShmget
<1>19. ASSUME NEW u \in Servers, SetupFails(u) PROVE PathInv'
  BY <1>19 DEF SetupFails
<1>20. ASSUME NEW u \in Servers, EndServer(u) PROVE PathInv'
  BY <1>20 DEF EndServer
<1>21. ASSUME NEW u \in Servers, RemoveDir(u) PROVE PathInv'
  BY <1>21 DEF RemoveDir
<1>22. ASSUME NEW u \in Servers, RemoveShm(u) PROVE PathInv'
  BY <1>22 DEF RemoveShm
<1>23. ASSUME NEW u \in Servers, RemoveSem(u) PROVE PathInv'
  BY <1>23 DEF RemoveSem
<1>24. CASE UNCHANGED vars
  BY <1>24 DEF vars
<1>25. QED
  BY <1>1, <1>2, <1>3, <1>4, <1>5, <1>6, <1>7, <1>8, <1>9, <1>10, <1>11,
     <1>12, <1>13, <1>14, <1>15, <1>16, <1>17, <1>18, <1>19, <1>20, <1>21,
     <1>22, <1>23, <1>24
  DEF Next, ClientStep, ServerStep, Quiescent

\* A set and a segment are created and removed by their own server.
LEMMA ResourceStep ==
  ASSUME TypeOK, ResourceInv, [Next]_vars
  PROVE  ResourceInv'
<1> USE DEF TypeOK, ResourceInv, Goto, GiveUp, Poll, ServerGoto, server, ids,
           client
<1>1. ASSUME NEW e \in Clients, StartRequest(e) PROVE ResourceInv'
  BY <1>1 DEF StartRequest
<1>2. ASSUME NEW e \in Clients, FtokSem(e) PROVE ResourceInv'
  BY <1>2 DEF FtokSem
<1>3. ASSUME NEW e \in Clients, StartIpcServer(e) PROVE ResourceInv'
  BY <1>3 DEF StartIpcServer
<1>4. ASSUME NEW e \in Clients, SubmitFails(e) PROVE ResourceInv'
  BY <1>4 DEF SubmitFails
<1>5. ASSUME NEW e \in Clients, WaitDirectory(e) PROVE ResourceInv'
  BY <1>5 DEF WaitDirectory
<1>6. ASSUME NEW e \in Clients, FtokShm(e) PROVE ResourceInv'
  BY <1>6 DEF FtokShm
<1>7. ASSUME NEW e \in Clients, Semget(e) PROVE ResourceInv'
  BY <1>7 DEF Semget
<1>8. ASSUME NEW e \in Clients, Shmget(e) PROVE ResourceInv'
  BY <1>8 DEF Shmget
<1>9. ASSUME NEW e \in Clients, LockClientQ(e) PROVE ResourceInv'
  BY <1>9 DEF LockClientQ
<1>10. ASSUME NEW e \in Clients, LockFails(e) PROVE ResourceInv'
  BY <1>10 DEF LockFails
<1>11. ASSUME NEW e \in Clients, Converse(e) PROVE ResourceInv'
  BY <1>11 DEF Converse
<1>12. ASSUME NEW e \in Clients, Detach(e) PROVE ResourceInv'
  BY <1>12 DEF Detach
<1>13. ASSUME NEW e \in Clients, UnlockClientQ(e) PROVE ResourceInv'
  BY <1>13 DEF UnlockClientQ
<1>14. ASSUME NEW u \in Servers, Mkdir(u) PROVE ResourceInv'
  BY <1>14 DEF Mkdir
<1>15. ASSUME NEW u \in Servers, MkdirFails(u) PROVE ResourceInv'
  BY <1>15 DEF MkdirFails
<1>16. ASSUME NEW u \in Servers, ServerSemget(u) PROVE ResourceInv'
  BY <1>16 DEF ServerSemget
<1>17. ASSUME NEW u \in Servers, SetAll(u) PROVE ResourceInv'
  BY <1>17 DEF SetAll
<1>18. ASSUME NEW u \in Servers, ServerShmget(u) PROVE ResourceInv'
  BY <1>18 DEF ServerShmget
<1>19. ASSUME NEW u \in Servers, SetupFails(u) PROVE ResourceInv'
  BY <1>19 DEF SetupFails
<1>20. ASSUME NEW u \in Servers, EndServer(u) PROVE ResourceInv'
  BY <1>20 DEF EndServer
<1>21. ASSUME NEW u \in Servers, RemoveDir(u) PROVE ResourceInv'
  BY <1>21 DEF RemoveDir
<1>22. ASSUME NEW u \in Servers, RemoveShm(u) PROVE ResourceInv'
  BY <1>22 DEF RemoveShm
<1>23. ASSUME NEW u \in Servers, RemoveSem(u) PROVE ResourceInv'
  BY <1>23 DEF RemoveSem
<1>24. CASE UNCHANGED vars
  BY <1>24 DEF vars
<1>25. QED
  BY <1>1, <1>2, <1>3, <1>4, <1>5, <1>6, <1>7, <1>8, <1>9, <1>10, <1>11,
     <1>12, <1>13, <1>14, <1>15, <1>16, <1>17, <1>18, <1>19, <1>20, <1>21,
     <1>22, <1>23, <1>24
  DEF Next, ClientStep, ServerStep, Quiescent

\* What is true of the servers in every run, whatever keys ftok returns.
THEOREM ServerInvariance == Spec => []ServerInv
<1>1. Init => PathInv /\ ResourceInv
  BY StartupAssumption DEF Init, PathInv, ResourceInv, Owning
<1>2. TypeOK /\ PathInv /\ ResourceInv /\ [Next]_vars
        => PathInv' /\ ResourceInv'
  BY PathStep, ResourceStep
<1>3. QED
  BY <1>1, <1>2, TypeCorrect, PTL DEF Spec, ServerInv

\* Of all the server jobs that clients submit, one at a time is the server
\* (the mkdir of setupIpcServer), and no other takes the path from it.
THEOREM OneServerAtATime == Spec => []OneServer
<1>1. ServerInv => OneServer
  BY DEF ServerInv, PathInv, OneServer
<1>2. QED
  BY <1>1, ServerInvariance, PTL

\* A server that ended, or failed to come up, has cleaned up (destroy).
THEOREM ServersLeaveNothing == Spec => []LeavesNothing
<1>1. ServerInv => LeavesNothing
  BY DEF ServerInv, PathInv, ResourceInv, LeavesNothing, Owning
<1>2. QED
  BY <1>1, ServerInvariance, PTL

-----------------------------------------------------------------------------
(* The clients, when keys are not used again.                              *)

\* Keys are given out once.
LEMMA KeyStep ==
  ASSUME ServerInv, KeyInv, ~ ReuseKeys, [Next]_vars
  PROVE  KeyInv'
<1> USE StartupAssumption
    DEF ServerInv, TypeOK, KeyInv, Goto, GiveUp, Poll, ServerGoto, server,
        ids, client, Owning
<1>1. ASSUME NEW e \in Clients, StartRequest(e) PROVE KeyInv'
  BY <1>1 DEF StartRequest
<1>2. ASSUME NEW e \in Clients, FtokSem(e) PROVE KeyInv'
  BY <1>2 DEF FtokSem
<1>3. ASSUME NEW e \in Clients, StartIpcServer(e) PROVE KeyInv'
  BY <1>3 DEF StartIpcServer
<1>4. ASSUME NEW e \in Clients, SubmitFails(e) PROVE KeyInv'
  BY <1>4 DEF SubmitFails
<1>5. ASSUME NEW e \in Clients, WaitDirectory(e) PROVE KeyInv'
  BY <1>5 DEF WaitDirectory
<1>6. ASSUME NEW e \in Clients, FtokShm(e) PROVE KeyInv'
  BY <1>6 DEF FtokShm
<1>7. ASSUME NEW e \in Clients, Semget(e) PROVE KeyInv'
  BY <1>7 DEF Semget
<1>8. ASSUME NEW e \in Clients, Shmget(e) PROVE KeyInv'
  BY <1>8 DEF Shmget
<1>9. ASSUME NEW e \in Clients, LockClientQ(e) PROVE KeyInv'
  BY <1>9 DEF LockClientQ
<1>10. ASSUME NEW e \in Clients, LockFails(e) PROVE KeyInv'
  BY <1>10 DEF LockFails
<1>11. ASSUME NEW e \in Clients, Converse(e) PROVE KeyInv'
  BY <1>11 DEF Converse
<1>12. ASSUME NEW e \in Clients, Detach(e) PROVE KeyInv'
  BY <1>12 DEF Detach
<1>13. ASSUME NEW e \in Clients, UnlockClientQ(e) PROVE KeyInv'
  BY <1>13 DEF UnlockClientQ
<1>14. ASSUME NEW u \in Servers, Mkdir(u) PROVE KeyInv'
  BY <1>14 DEF Mkdir
<1>15. ASSUME NEW u \in Servers, MkdirFails(u) PROVE KeyInv'
  BY <1>15 DEF MkdirFails
<1>16. ASSUME NEW u \in Servers, ServerSemget(u) PROVE KeyInv'
  BY <1>16 DEF ServerSemget
<1>17. ASSUME NEW u \in Servers, SetAll(u) PROVE KeyInv'
  BY <1>17 DEF SetAll
<1>18. ASSUME NEW u \in Servers, ServerShmget(u) PROVE KeyInv'
  BY <1>18 DEF ServerShmget
<1>19. ASSUME NEW u \in Servers, SetupFails(u) PROVE KeyInv'
  BY <1>19 DEF SetupFails
<1>20. ASSUME NEW u \in Servers, EndServer(u) PROVE KeyInv'
  BY <1>20 DEF EndServer
<1>21. ASSUME NEW u \in Servers, RemoveDir(u) PROVE KeyInv'
  BY <1>21 DEF RemoveDir
<1>22. ASSUME NEW u \in Servers, RemoveShm(u) PROVE KeyInv'
  BY <1>22 DEF RemoveShm
<1>23. ASSUME NEW u \in Servers, RemoveSem(u) PROVE KeyInv'
  BY <1>23 DEF RemoveSem
<1>24. CASE UNCHANGED vars
  BY <1>24 DEF vars
<1>25. QED
  BY <1>1, <1>2, <1>3, <1>4, <1>5, <1>6, <1>7, <1>8, <1>9, <1>10, <1>11,
     <1>12, <1>13, <1>14, <1>15, <1>16, <1>17, <1>18, <1>19, <1>20, <1>21,
     <1>22, <1>23, <1>24
  DEF Next, ClientStep, ServerStep, Quiescent

\* What a client has looked up stays what it was, or is on its way out.
LEMMA LookupStep ==
  ASSUME IInv, ~ ReuseKeys, [Next]_vars
  PROVE  LookupInv'
<1> USE StartupAssumption
    DEF IInv, ServerInv, TypeOK, PathInv, KeyInv, LookupInv, Gone, Goto,
        GiveUp, Poll, ServerGoto, server, ids, client, Owning
<1>1. ASSUME NEW e \in Clients, StartRequest(e) PROVE LookupInv'
  BY <1>1 DEF StartRequest
<1>2. ASSUME NEW e \in Clients, FtokSem(e) PROVE LookupInv'
  BY <1>2 DEF FtokSem
<1>3. ASSUME NEW e \in Clients, StartIpcServer(e) PROVE LookupInv'
  BY <1>3 DEF StartIpcServer
<1>4. ASSUME NEW e \in Clients, SubmitFails(e) PROVE LookupInv'
  BY <1>4 DEF SubmitFails
<1>5. ASSUME NEW e \in Clients, WaitDirectory(e) PROVE LookupInv'
  BY <1>5 DEF WaitDirectory
<1>6. ASSUME NEW e \in Clients, FtokShm(e) PROVE LookupInv'
  BY <1>6 DEF FtokShm
<1>7. ASSUME NEW e \in Clients, Semget(e) PROVE LookupInv'
  BY <1>7 DEF Semget
<1>8. ASSUME NEW e \in Clients, Shmget(e) PROVE LookupInv'
  <2>1. CASE Poll(e) /\ UNCHANGED shdm_p
    BY <1>8, <2>1 DEF Shmget
  <2>2. ASSUME NEW x \in shm,
               key[x] = shmkey[e], shdm_p' = [shdm_p EXCEPT ![e] = x],
               Goto(e, "lock")
        PROVE  LookupInv'
    <3>1. PICK s \in Servers, t \in Servers :
            /\ shmkey[e] = key[t] /\ key[t] # None
            /\ s # t => Gone(s)
            /\ semid[e] = s
      BY <1>8 DEF Shmget
    <3>2. x = t
      BY <2>2, <3>1
    <3>3. s = x => spc[s] \in {"up", "rmdir", "rmshm"}
      BY <2>2 DEF ResourceInv
    <3>4. QED
      BY <1>8, <2>2, <3>1, <3>2, <3>3 DEF Shmget
  <2>3. QED
    BY <1>8, <2>1, <2>2 DEF Shmget
<1>9. ASSUME NEW e \in Clients, LockClientQ(e) PROVE LookupInv'
  BY <1>9 DEF LockClientQ
<1>10. ASSUME NEW e \in Clients, LockFails(e) PROVE LookupInv'
  BY <1>10 DEF LockFails
<1>11. ASSUME NEW e \in Clients, Converse(e) PROVE LookupInv'
  BY <1>11 DEF Converse
<1>12. ASSUME NEW e \in Clients, Detach(e) PROVE LookupInv'
  BY <1>12 DEF Detach
<1>13. ASSUME NEW e \in Clients, UnlockClientQ(e) PROVE LookupInv'
  BY <1>13 DEF UnlockClientQ
<1>14. ASSUME NEW u \in Servers, Mkdir(u) PROVE LookupInv'
  BY <1>14 DEF Mkdir
<1>15. ASSUME NEW u \in Servers, MkdirFails(u) PROVE LookupInv'
  BY <1>15 DEF MkdirFails
<1>16. ASSUME NEW u \in Servers, ServerSemget(u) PROVE LookupInv'
  BY <1>16 DEF ServerSemget
<1>17. ASSUME NEW u \in Servers, SetAll(u) PROVE LookupInv'
  BY <1>17 DEF SetAll
<1>18. ASSUME NEW u \in Servers, ServerShmget(u) PROVE LookupInv'
  BY <1>18 DEF ServerShmget
<1>19. ASSUME NEW u \in Servers, SetupFails(u) PROVE LookupInv'
  BY <1>19 DEF SetupFails
<1>20. ASSUME NEW u \in Servers, EndServer(u) PROVE LookupInv'
  BY <1>20 DEF EndServer
<1>21. ASSUME NEW u \in Servers, RemoveDir(u) PROVE LookupInv'
  BY <1>21 DEF RemoveDir
<1>22. ASSUME NEW u \in Servers, RemoveShm(u) PROVE LookupInv'
  BY <1>22 DEF RemoveShm
<1>23. ASSUME NEW u \in Servers, RemoveSem(u) PROVE LookupInv'
  BY <1>23 DEF RemoveSem
<1>24. CASE UNCHANGED vars
  BY <1>24 DEF vars
<1>25. QED
  BY <1>1, <1>2, <1>3, <1>4, <1>5, <1>6, <1>7, <1>8, <1>9, <1>10, <1>11,
     <1>12, <1>13, <1>14, <1>15, <1>16, <1>17, <1>18, <1>19, <1>20, <1>21,
     <1>22, <1>23, <1>24
  DEF Next, ClientStep, ServerStep, Quiescent

\* Both together, on top of what holds of the servers.
THEOREM Invariance == ~ ReuseKeys => (Spec => []IInv)
<1> SUFFICES ASSUME ~ ReuseKeys PROVE Spec => []IInv
  OBVIOUS
<1>1. Init => KeyInv /\ LookupInv
  BY DEF Init, KeyInv, LookupInv, Owning
<1>2. ServerInv /\ KeyInv /\ LookupInv /\ [Next]_vars
        => KeyInv' /\ LookupInv'
  BY KeyStep, LookupStep DEF IInv
<1>3. QED
  BY <1>1, <1>2, ServerInvariance, PTL DEF Spec, IInv

\* The set and the segment a client works with are those of one server, as
\* long as that server has not begun to leave (the two ftok calls, and the
\* order of destroy).
THEOREM SetAndSegmentMatch == ~ ReuseKeys => (Spec => []SameServer)
<1>1. IInv => SameServer
  BY DEF IInv, LookupInv, SameServer, Gone
<1>2. QED
  BY <1>1, Invariance, PTL

\* A client reaches the queue only after SETALL, because it looks for the
\* segment, which is created later.
THEOREM NoUseBeforeSetAll == ~ ReuseKeys => (Spec => []InitializedBeforeUse)
<1>1. IInv => InitializedBeforeUse
  BY DEF IInv, LookupInv, InitializedBeforeUse, Gone
<1>2. QED
  BY <1>1, Invariance, PTL
=============================================================================
