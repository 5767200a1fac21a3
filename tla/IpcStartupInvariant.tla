------------------------- MODULE IpcStartupInvariant -------------------------
(***************************************************************************)
(* The inductive invariants behind the safety properties of IpcStartup.    *)
(* What servers do needs no assumption; what clients may rely on needs     *)
(* that a key is not used again (~ ReuseKeys).                             *)
(***************************************************************************)
EXTENDS IpcStartup

\* The path is a server's own exactly from its mkdir to its rmdir.
PathInv == \A s \in Servers : dir = s <=> spc[s] \in Owning

\* The set and the segment exist only within the steps that need them.
ResourceInv ==
  \A s \in Servers :
    /\ s \in sem => spc[s] \in {"setall", "shmget", "up", "rmdir", "rmshm",
                                "rmsem"}
    /\ s \in shm => spc[s] \in {"up", "rmdir", "rmshm"}

ServerInv == TypeOK /\ PathInv /\ ResourceInv

Gone(s) == spc[s] \in {"rmshm", "rmsem", "ended"}

\* A server that came as far as the path has a key, its own.
KeyInv ==
  /\ \A s, t \in Servers : key[s] = key[t] /\ key[s] # None => s = t
  /\ \A s \in Servers : spc[s] \in Owning \cup {"rmshm", "rmsem"} => key[s] # None
  /\ \A s \in Servers : spc[s] \in {"unborn", "queued"} => key[s] = None

\* What a client has looked up so far: s is the server whose directory the
\* first ftok saw and t the one whose directory the second saw, where s is
\* past its rmdir unless they are the same.
LookupInv ==
  \A c \in Clients :
    /\ cpc[c] = "ftok2" =>
         \E s \in Servers :
           semkey[c] = key[s] /\ key[s] # None /\ (dir = s \/ Gone(s))
    /\ cpc[c] \in {"semget", "shmget"} =>
         \E s, t \in Servers :
           /\ semkey[c] = key[s] /\ key[s] # None
           /\ shmkey[c] = key[t] /\ key[t] # None
           /\ s # t => Gone(s)
           /\ cpc[c] = "shmget" => semid[c] = s
    /\ cpc[c] \in {"lock", "talk"} =>
         /\ semid[c] \in Servers /\ shdm_p[c] \in Servers
         /\ IF semid[c] = shdm_p[c]
              THEN spc[semid[c]] = "up" \/ spc[semid[c]] = "rmdir"
                                        \/ Gone(semid[c])
              ELSE Gone(semid[c])

IInv == ServerInv /\ KeyInv /\ LookupInv
=============================================================================
