---------------------------- MODULE MCIpcChannel ----------------------------
(* Instances of IpcChannel for TLC.                                         *)
EXTENDS IpcChannelInvariant, TLC

CONSTANTS c1, c2, c3

\* One request of the first client ends the server.
EndByFirst == {<<c1, 1>>}

NoSteps == {}
\* Steps at which the SIGTERM handler of a client does no harm.
SafeSteps == ClientSteps \ {"idle", "dead", "lock", "await"}
\* Those at which it neither loses a wake-up nor leaves the queue locked.
HarmlessSteps == SafeSteps \ {"copy", "ack", "unlock"}
AllSteps == ClientSteps \ {"idle", "dead"}
AwaitStep == {"await"}
LockStep == {"lock"}
NoRequests == {}

\* Clients are interchangeable when no request is singled out.
ClientSymmetry == Permutations(Clients)
=============================================================================
