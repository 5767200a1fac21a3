------------------------- MODULE ControlFlagsProofs -------------------------
(***************************************************************************)
(* Machine-checked proofs about ControlFlags, for any number of clients,   *)
(* servers and requests and any set of control strings.                    *)
(***************************************************************************)
EXTENDS ControlFlags, TLAPS, WellFoundedInduction

-----------------------------------------------------------------------------
(* The operators of Control::parse                                         *)

\* The conversion to int gives an integer.
LEMMA IntKept == \A n \in Int : ToInt(n) \in Int
  BY ControlAssumption DEF ToInt

\* Whatever a flag stores, the Control object keeps its type.
LEMMA StoreType ==
  ASSUME NEW t \in Flag, NEW o \in Control
  PROVE  Store(t, o) \in Control
<1> USE ControlAssumption DEF Control, CcsidFlags, TimerFlags, Switches
<1>1. CASE t.val = NoValue
  <2>1. StoreSwitch(t, o) \in Control
    BY DEF StoreSwitch
  <2>2. QED
    BY <1>1, <2>1 DEF Store
<1>2. CASE t.val # NoValue
  <2>1. t.flag \in CcsidFlags => StoreValue(t, o) \in Control
    BY <1>2, IntKept DEF StoreValue, Flag
  <2>2. t.flag \in TimerFlags => StoreValue(t, o) \in Control
    BY <1>2 DEF StoreValue, Flag
  <2>3. t.flag \in {"IPC", "IPCSVR"} => StoreValue(t, o) \in Control
    BY <1>2 DEF StoreValue, Flag
  <2>4. t.flag = "SBMJOB" => StoreValue(t, o) \in Control
    <3>1. t.flag = "SBMJOB" => t.val \in Seq(Names)
      BY <1>2 DEF Flag
    <3>2. t.flag = "SBMJOB" =>
            [i \in 1 .. 3 |-> IF i <= Len(t.val) THEN t.val[i] ELSE o.sbmjob[i]]
              \in [1 .. 3 -> Names]
      BY <3>1
    <3>3. QED
      BY <3>2 DEF StoreValue
  <2>5. t.flag \in Switches \cup {"UNKNOWN"} => StoreValue(t, o) \in Control
    BY DEF StoreValue
  <2>6. t.flag \in CcsidFlags \cup TimerFlags \cup {"IPC", "IPCSVR", "SBMJOB"}
                    \cup Switches \cup {"UNKNOWN"}
    BY DEF Flag
  <2>7. Store(t, o) = StoreValue(t, o)
    BY <1>2 DEF Store
  <2>8. QED
    BY <2>1, <2>2, <2>3, <2>4, <2>5, <2>6, <2>7
<1>3. QED
  BY <1>1, <1>2

\* A flag that parse accepts leaves the server's timers usable.
LEMMA StoreTimers ==
  ASSUME NEW t \in Flag, NEW o \in Control, Accepts(t),
         o.wait_client >= 0, o.wait_data >= 0
  PROVE  Store(t, o).wait_client >= 0 /\ Store(t, o).wait_data >= 0
<1> USE ControlAssumption DEF Control, CcsidFlags, TimerFlags, Switches
<1>1. CASE t.val = NoValue
  BY <1>1 DEF Store, StoreSwitch
<1>2. CASE t.val # NoValue
  <2>1. CASE t.flag = "WAITCLIENT"
    BY <1>2, <2>1 DEF Store, StoreValue, Accepts
  <2>2. CASE t.flag = "WAITDATA"
    BY <1>2, <2>2 DEF Store, StoreValue, Accepts
  <2>3. CASE t.flag \notin {"WAITCLIENT", "WAITDATA"}
    BY <1>2, <2>3 DEF Store, StoreValue
  <2>4. QED
    BY <2>1, <2>2, <2>3
<1>3. QED
  BY <1>1, <1>2

\* Only *ENDIPC sets endipc.
LEMMA StoreEnd ==
  ASSUME NEW t \in Flag, NEW o \in Control, Store(t, o).endipc
  PROVE  o.endipc \/ t.flag = "ENDIPC"
BY DEF Store, StoreSwitch, StoreValue, Control

\* The flags of a job are a sequence.
LEMMA FlagsType ==
  ASSUME TypeOK, NEW j \in Jobs
  PROVE  flags[j] \in Seq(Flag) /\ Len(flags[j]) \in Nat
<1>1. flags[j] \in Strings \cup {<<>>}
  BY DEF TypeOK
<1>2. Strings \subseteq Seq(Flag)
  BY ControlAssumption
<1>3. <<>> \in Seq(Flag)
  OBVIOUS
<1>4. flags[j] \in Seq(Flag)
  BY <1>1, <1>2, <1>3, Zenon
<1>5. QED
  BY <1>4

\* The flag that parse is at is a flag.
LEMMA FlagAt ==
  ASSUME TypeOK, NEW j \in Jobs, at[j] <= Len(flags[j])
  PROVE  /\ flags[j][at[j]] \in Flag
         /\ at[j] \in 1 .. Len(flags[j])
         /\ at[j] \in DOMAIN flags[j]
<1>1. flags[j] \in Seq(Flag)
  BY FlagsType
<1>2. QED
  BY <1>1 DEF TypeOK

-----------------------------------------------------------------------------
(* Type correctness                                                        *)

\* The initial state is well typed.
LEMMA InitType == Init => TypeOK
<1>1. Init => ret \in [Jobs -> BOOLEAN]
  <2>1. [j \in Jobs |-> TRUE] \in [Jobs -> BOOLEAN]
    OBVIOUS
  <2>2. QED
    BY <2>1, Zenon DEF Init
<1>2. Constructed \in Control
  BY ControlAssumption DEF Constructed, Control
<1>3. QED
  BY <1>1, <1>2, ControlAssumption
  DEF Init, TypeOK, Jobs, ClientStates, ServerStates, Unanswered, Answers

\* A client that awaits an answer is served by a server job that is not a client.
LEMMA ServedClient ==
  ASSUME TypeOK, ServerInv, NEW k \in Keys, pc[k] \in {"RUN", "ERROR_FR"}
  PROVE  serving[k] \in Clients /\ serving[k] # k
BY ControlAssumption DEF TypeOK, ServerInv

\* Every action keeps every variable within its type.
LEMMA TypeStep ==
  ASSUME IInv, [Next]_vars
  PROVE  TypeOK'
<1> USE ControlAssumption
    DEF IInv, TypeOK, Jobs, Goto, Parsed, BeginParse, parsing, ClientStates,
        ServerStates, Unanswered
<1>1. ASSUME NEW e \in Jobs, ParseFlag(e) PROVE TypeOK'
  <2>1. flags[e][at[e]] \in Flag /\ ctl[e] \in Control
    BY <1>1, FlagAt DEF ParseFlag
  <2>2. Store(flags[e][at[e]], ctl[e]) \in Control
    BY <2>1, StoreType
  <2>3. Len(flags[e]) \in Nat
    OBVIOUS
  <2>4. (ret[e] /\ Accepts(flags[e][at[e]])) \in BOOLEAN
    OBVIOUS
  <2>5. ctl' \in [Jobs -> Control]
    BY <1>1, <2>2 DEF ParseFlag
  <2>6. ret' \in [Jobs -> BOOLEAN]
    BY <1>1, <2>4 DEF ParseFlag
  <2>7. at' \in [Jobs -> Nat \ {0}]
    BY <1>1, <2>3 DEF ParseFlag
  <2>8. QED
    BY <1>1, <2>5, <2>6, <2>7 DEF ParseFlag
<1>2. ASSUME NEW e \in Clients, StartRequest(e) PROVE TypeOK'
  BY <1>2 DEF StartRequest, Answers
<1>3. ASSUME NEW e \in Clients, Route(e) PROVE TypeOK'
  BY <1>3 DEF Route
<1>4. ASSUME NEW e \in Clients, SendRequest(e) PROVE TypeOK'
  <2>1. ctl[e].ipcKey \in Keys
    BY <1>4 DEF SendRequest, ClientInv
  <2> DEFINE k == ctl[e].ipcKey
  <2>2. /\ serving' = [serving EXCEPT ![k] = e]
        /\ flags' = [flags EXCEPT ![k] = flags[e]]
        /\ at' = [at EXCEPT ![k] = 1]
        /\ ret' = [ret EXCEPT ![k] = TRUE]
        /\ pc' = [pc EXCEPT ![e] = "AWAIT", ![k] = "PARSE"]
        /\ UNCHANGED <<ctl, reqNo, given, answer>>
    BY <1>4 DEF SendRequest
  <2>3. k \in Keys /\ k # e
    BY <2>1
  <2> HIDE DEF k
  <2>4. /\ pc' \in [Jobs -> ClientStates \cup ServerStates]
        /\ \A c \in Clients : pc'[c] \in ClientStates
        /\ \A h \in Keys : pc'[h] \in ServerStates
    BY <2>2, <2>3
  <2>5. serving' \in [Keys -> Clients \cup {NoJob}]
    BY <2>2, <2>3
  <2>6. /\ flags' \in [Jobs -> Strings \cup {<<>>}]
        /\ at' \in [Jobs -> Nat \ {0}]
        /\ ret' \in [Jobs -> BOOLEAN]
    BY <2>2, <2>3
  <2>7. QED
    BY <2>2, <2>4, <2>5, <2>6
<1>5. ASSUME NEW e \in Clients, ConnectFails(e) PROVE TypeOK'
  BY <1>5 DEF ConnectFails
<1>6. ASSUME NEW e \in Clients, AwaitFails(e) PROVE TypeOK'
  BY <1>6 DEF AwaitFails
<1>7. ASSUME NEW e \in Clients, SetupLocal(e) PROVE TypeOK'
  BY <1>7 DEF SetupLocal
<1>8. ASSUME NEW e \in Clients, RunLocal(e) PROVE TypeOK'
  BY <1>8 DEF RunLocal, Answers, Control
<1>9. ASSUME NEW e \in Clients, ReportError(e) PROVE TypeOK'
  <2>1. ctl[e].after \in Int
    BY <1>9 DEF ReportError, Control
  <2>2. [where |-> "error", before |-> 0, after |-> ctl[e].after] \in Answers
    BY <2>1 DEF Answers
  <2>3. QED
    BY <1>9, <2>2 DEF ReportError
<1>10. ASSUME NEW e \in Keys, StartServer(e) PROVE TypeOK'
  <2>1. Constructed \in Control
    BY DEF Constructed, Control
  <2>2. QED
    BY <1>10, <2>1 DEF StartServer
<1>11. ASSUME NEW e \in Keys, Expire(e) PROVE TypeOK'
  BY <1>11 DEF Expire
<1>12. ASSUME NEW e \in Keys, ServerParsed(e) PROVE TypeOK'
  BY <1>12 DEF ServerParsed
<1>13. ASSUME NEW e \in Keys, SetupServer(e) PROVE TypeOK'
  BY <1>13 DEF SetupServer
<1>14. ASSUME NEW e \in Keys, RunServer(e) PROVE TypeOK'
  <2>1. serving[e] \in Clients /\ serving[e] # e
    BY <1>14, ServedClient DEF RunServer
  <2>2. ctl[e].after \in Int /\ ctl[e].before \in Int
    BY <1>14 DEF RunServer, Control
  <2>3. [where |-> e, before |-> ctl[e].before, after |-> ctl[e].after] \in Answers
    BY <2>2 DEF Answers
  <2>4. QED
    BY <1>14, <2>1, <2>3 DEF RunServer, Reply
<1>15. ASSUME NEW e \in Keys, ReplyError(e) PROVE TypeOK'
  <2>1. serving[e] \in Clients /\ serving[e] # e
    BY <1>15, ServedClient DEF ReplyError
  <2>2. ctl[e].after \in Int /\ ctl[e].before \in Int
    BY <1>15 DEF ReplyError, Control
  <2>3. [where |-> "error", before |-> 0, after |-> ctl[e].after] \in Answers
    BY <2>2 DEF Answers
  <2>4. QED
    BY <1>15, <2>1, <2>3 DEF ReplyError, Reply
<1>16. CASE UNCHANGED vars
  BY <1>16 DEF vars
<1>17. QED
  BY <1>1, <1>2, <1>3, <1>4, <1>5, <1>6, <1>7, <1>8, <1>9, <1>10, <1>11, <1>12, <1>13, <1>14, <1>15, <1>16
  DEF Next, ClientStep, ServerStep, Quiescent

-----------------------------------------------------------------------------
(* The invariant                                                           *)

\* What a round of the loop does, to this job and to the others.
LEMMA ParseEffect ==
  ASSUME TypeOK, NEW e \in Jobs, ParseFlag(e)
  PROVE  /\ pc[e] = "PARSE"
         /\ UNCHANGED <<flags, pc, serving, reqNo, given, answer>>
         /\ at[e] \in 1 .. Len(flags[e]) /\ at[e] \in DOMAIN flags[e]
         /\ flags[e][at[e]] \in Flag
         /\ ctl'[e] = Store(flags[e][at[e]], ctl[e])
         /\ ret'[e] = (ret[e] /\ Accepts(flags[e][at[e]]))
         /\ Accepts(flags[e][at[e]]) => at'[e] = at[e] + 1
         /\ \A j \in Jobs \ {e} : ctl'[j] = ctl[j] /\ ret'[j] = ret[j] /\ at'[j] = at[j]
<1>1. flags[e][at[e]] \in Flag /\ at[e] \in 1 .. Len(flags[e]) /\ at[e] \in DOMAIN flags[e]
  BY FlagAt DEF ParseFlag
<1>2. pc[e] = "PARSE" /\ UNCHANGED <<flags, pc, serving, reqNo, given, answer>>
  BY DEF ParseFlag
<1> DEFINE t == flags[e][at[e]]
<1>3. /\ ctl' = [ctl EXCEPT ![e] = Store(t, ctl[e])]
      /\ ret' = [ret EXCEPT ![e] = ret[e] /\ Accepts(t)]
      /\ at' = [at EXCEPT ![e] = IF Breaks(t) THEN Len(flags[e]) + 1 ELSE at[e] + 1]
  BY Zenon DEF ParseFlag
<1>4. Accepts(t) => ~ Breaks(t)
  BY DEF Breaks
<1> HIDE DEF t
<1>5. ctl'[e] = Store(t, ctl[e]) /\ \A j \in Jobs \ {e} : ctl'[j] = ctl[j]
  BY <1>3 DEF TypeOK
<1>6. ret'[e] = (ret[e] /\ Accepts(t)) /\ \A j \in Jobs \ {e} : ret'[j] = ret[j]
  BY <1>3, Zenon DEF TypeOK
<1>7. (Accepts(t) => at'[e] = at[e] + 1) /\ \A j \in Jobs \ {e} : at'[j] = at[j]
  BY <1>3, <1>4 DEF TypeOK
<1>8. QED
  BY <1>1, <1>2, <1>5, <1>6, <1>7 DEF t

\* What a client has let through, it has accepted.
LEMMA ClientInvStep ==
  ASSUME IInv, [Next]_vars
  PROVE  ClientInv'
<1> USE ControlAssumption
    DEF IInv, TypeOK, Jobs, Goto, Parsed, BeginParse, parsing, AllAccepted, ClientInv
<1>1. ASSUME NEW e \in Jobs, ParseFlag(e) PROVE ClientInv'
  <2> DEFINE t == flags[e][at[e]]
  <2>1. /\ pc[e] = "PARSE" /\ UNCHANGED <<flags, pc, serving, reqNo, given, answer>>
        /\ at[e] \in 1 .. Len(flags[e])
        /\ ret'[e] = (ret[e] /\ Accepts(t))
        /\ Accepts(t) => at'[e] = at[e] + 1
        /\ \A j \in Jobs \ {e} : ctl'[j] = ctl[j] /\ ret'[j] = ret[j] /\ at'[j] = at[j]
    BY <1>1, ParseEffect
  <2>3. SUFFICES ASSUME NEW c \in Clients
                 PROVE  /\ flags[c]' = given[c]'
                        /\ pc[c]' = "PARSE" /\ ret[c]' =>
                             \A i \in 1 .. Len(flags[c]') : i < at[c]' => Accepts(flags[c]'[i])
                        /\ pc[c]' \in {"CONNECT", "AWAIT"} =>
                             AllAccepted(flags[c]') /\ ctl[c].ipcKey' \in Keys
    BY Zenon DEF ClientInv
  <2>4. CASE c # e
    <3>1. /\ flags[c]' = flags[c] /\ given[c]' = given[c] /\ pc[c]' = pc[c]
          /\ ret[c]' = ret[c] /\ at[c]' = at[c] /\ ctl[c]' = ctl[c]
      BY <2>1, <2>4
    <3>2. QED
      BY <3>1
  <2>5. CASE c = e
    <3>1. /\ flags[c]' = flags[c] /\ given[c]' = given[c] /\ pc[c]' = "PARSE"
          /\ ret[c]' = (ret[c] /\ Accepts(t))
          /\ Accepts(t) => at[c]' = at[c] + 1
      BY <2>1, <2>5, Zenon
    <3>2. CASE ret[c]'
      <4>1. at[c]' = at[c] + 1 /\ ret[c] /\ Accepts(t)
        BY <3>1, <3>2
      <4>2. ASSUME NEW i \in 1 .. Len(flags[c]), i < at[c] + 1
            PROVE  Accepts(flags[c][i])
        <5>1. CASE i = at[c]
          BY <5>1, <4>1, <2>5 DEF t
        <5>2. CASE i < at[c]
          BY <5>2, <4>1, <2>1, <2>5
        <5>3. QED
          BY <4>2, <5>1, <5>2
      <4>3. QED
        BY <3>1, <4>1, <4>2
    <3>3. CASE ~ ret[c]'
      BY <3>1, <3>3
    <3>4. QED
      BY <3>2, <3>3
  <2>6. QED
    BY <2>4, <2>5
<1>2. ASSUME NEW e \in Clients, StartRequest(e) PROVE ClientInv'
  <2>1. PICK fs \in Strings : /\ given' = [given EXCEPT ![e] = fs]
                             /\ flags' = [flags EXCEPT ![e] = fs]
                             /\ at' = [at EXCEPT ![e] = 1]
    BY <1>2 DEF StartRequest
  <2>2. /\ pc' = [pc EXCEPT ![e] = "PARSE"] /\ UNCHANGED ctl
        /\ \A c \in Clients \ {e} : ret'[c] = ret[c]
    BY <1>2 DEF StartRequest
  <2>3. flags'[e] = fs /\ given'[e] = fs /\ at'[e] = 1 /\ pc'[e] = "PARSE"
    BY <2>1, <2>2
  <2>4. \A c \in Clients \ {e} :
          /\ flags'[c] = flags[c] /\ given'[c] = given[c] /\ at'[c] = at[c]
          /\ pc'[c] = pc[c] /\ ctl'[c] = ctl[c] /\ ret'[c] = ret[c]
    BY <2>1, <2>2
  <2>5. ASSUME NEW c \in Clients
        PROVE  /\ flags'[c] = given'[c]
               /\ pc'[c] = "PARSE" /\ ret'[c] =>
                    \A i \in 1 .. Len(flags'[c]) : i < at'[c] => Accepts(flags'[c][i])
               /\ pc'[c] \in {"CONNECT", "AWAIT"} =>
                    AllAccepted(flags'[c]) /\ ctl'[c].ipcKey \in Keys
    <3>1. CASE c = e
      BY <2>3, <3>1
    <3>2. CASE c # e
      BY <2>4, <3>2
    <3>3. QED
      BY <3>1, <3>2
  <2>6. QED
    BY <2>5 DEF ClientInv
<1>3. ASSUME NEW e \in Clients, Route(e) PROVE ClientInv'
  <2>1. ret[e] => AllAccepted(flags[e])
    <3>1. pc[e] = "PARSE" /\ at[e] > Len(flags[e])
      BY <1>3 DEF Route
    <3>2. Len(flags[e]) \in Nat /\ at[e] \in Nat
      BY FlagsType
    <3>3. \A i \in 1 .. Len(flags[e]) : i < at[e]
      BY <3>1, <3>2
    <3>4. QED
      BY <3>1, <3>3
  <2>2. ctl[e].ipcKey # NoKey => ctl[e].ipcKey \in Keys
    BY DEF Control
  <2>3. /\ UNCHANGED <<ctl, flags, at, ret, given>>
        /\ pc' = [pc EXCEPT ![e] = IF ~ ret[e] THEN "ERROR_FR"
               ELSE IF ctl[e].ipcKey # NoKey THEN "CONNECT" ELSE "SETUP"]
    BY <1>3 DEF Route
  <2>4. QED
    BY <2>1, <2>2, <2>3
<1>4. ASSUME NEW e \in Clients, SendRequest(e) PROVE ClientInv'
  BY <1>4 DEF SendRequest
<1>5. ASSUME NEW e \in Clients, ConnectFails(e) PROVE ClientInv'
  BY <1>5 DEF ConnectFails
<1>6. ASSUME NEW e \in Clients, AwaitFails(e) PROVE ClientInv'
  BY <1>6 DEF AwaitFails
<1>7. ASSUME NEW e \in Clients, SetupLocal(e) PROVE ClientInv'
  BY <1>7 DEF SetupLocal
<1>8. ASSUME NEW e \in Clients, RunLocal(e) PROVE ClientInv'
  BY <1>8 DEF RunLocal
<1>9. ASSUME NEW e \in Clients, ReportError(e) PROVE ClientInv'
  BY <1>9 DEF ReportError
<1>10. ASSUME NEW e \in Keys, StartServer(e) PROVE ClientInv'
  BY <1>10 DEF StartServer
<1>11. ASSUME NEW e \in Keys, Expire(e) PROVE ClientInv'
  BY <1>11 DEF Expire
<1>12. ASSUME NEW e \in Keys, ServerParsed(e) PROVE ClientInv'
  BY <1>12 DEF ServerParsed
<1>13. ASSUME NEW e \in Keys, SetupServer(e) PROVE ClientInv'
  BY <1>13 DEF SetupServer
<1>14. ASSUME NEW e \in Keys, RunServer(e) PROVE ClientInv'
  <2>1. serving[e] \in Clients /\ serving[e] # e
    BY <1>14, ServedClient DEF RunServer
  <2>2. QED
    BY <1>14, <2>1 DEF RunServer, Reply
<1>15. ASSUME NEW e \in Keys, ReplyError(e) PROVE ClientInv'
  <2>1. serving[e] \in Clients /\ serving[e] # e
    BY <1>15, ServedClient DEF ReplyError
  <2>2. QED
    BY <1>15, <2>1 DEF ReplyError, Reply
<1>16. CASE UNCHANGED vars
  BY <1>16 DEF vars
<1>17. QED
  BY <1>1, <1>2, <1>3, <1>4, <1>5, <1>6, <1>7, <1>8, <1>9, <1>10, <1>11, <1>12, <1>13, <1>14, <1>15, <1>16
  DEF Next, ClientStep, ServerStep, Quiescent

\* A server works on what one waiting client has let through.
LEMMA ServerInvStep ==
  ASSUME IInv, [Next]_vars
  PROVE  ServerInv'
<1> USE ControlAssumption
    DEF IInv, TypeOK, Jobs, Goto, Parsed, BeginParse, parsing, AllAccepted, ClientInv, ServerInv
<1>1. ASSUME NEW e \in Jobs, ParseFlag(e) PROVE ServerInv'
  <2>1. /\ pc[e] = "PARSE" /\ UNCHANGED <<flags, pc, serving, reqNo, given, answer>>
        /\ flags[e][at[e]] \in Flag /\ at[e] \in DOMAIN flags[e]
        /\ ctl'[e] = Store(flags[e][at[e]], ctl[e])
        /\ \A j \in Jobs \ {e} : ctl'[j] = ctl[j]
    BY <1>1, ParseEffect
  <2>2. CASE e \in Clients
    <3>1. Store(flags[e][at[e]], ctl[e]) \in Control
      BY <2>1, StoreType
    <3>2. \A k \in Keys : pc[k] \in {"PARSE", "SETUP", "RUN", "ERROR_FR"} => serving[k] # e
      BY <2>1
    <3>3. \A k \in Keys : ctl'[k] = ctl[k]
      <4>1. \A k \in Keys : k \in Jobs \ {e}
        BY <2>2
      <4>2. QED
        BY <2>1, <4>1
    <3>4. \A k \in Keys : pc[k] \in {"PARSE", "SETUP", "RUN", "ERROR_FR"} =>
             ctl'[serving[k]] = ctl[serving[k]]
      BY <2>1, <3>2
    <3>5. QED
      BY <2>1, <3>3, <3>4
  <2>3. CASE e \in Keys
    <3>1. ctl[e]'.endipc => ctl[e].endipc \/ flags[e][at[e]].flag = "ENDIPC"
      BY <2>1, StoreEnd
    <3>2. ctl[e]'.endipc => HasFlag(flags[e], "ENDIPC")
      BY <3>1, <2>1, <2>3 DEF HasFlag
    <3>3. \A c \in Clients : c \in Jobs \ {e}
      BY <2>3
    <3>4. /\ \A c \in Clients : ctl'[c] = ctl[c]
          /\ \A k \in Keys : k # e => ctl'[k] = ctl[k]
      BY <2>1, <3>3
    <3>5. \A k \in Keys : pc[k] \in {"PARSE", "SETUP", "RUN", "ERROR_FR"} =>
            ctl'[serving[k]] = ctl[serving[k]]
      BY <3>4
    <3>6. \A k \in Keys :
            /\ ctl'[k].endipc => ctl[k].endipc \/ k = e
            /\ pc[k] = "LISTEN" => ctl'[k] = ctl[k]
      BY <2>1, <3>4
    <3>7. QED
      BY <2>1, <3>2, <3>5, <3>6
  <2>4. QED
    BY <2>2, <2>3
<1>2. ASSUME NEW e \in Clients, StartRequest(e) PROVE ServerInv'
  BY <1>2 DEF StartRequest
<1>3. ASSUME NEW e \in Clients, Route(e) PROVE ServerInv'
  BY <1>3 DEF Route
<1>4. ASSUME NEW e \in Clients, SendRequest(e) PROVE ServerInv'
  BY <1>4 DEF SendRequest
<1>5. ASSUME NEW e \in Clients, ConnectFails(e) PROVE ServerInv'
  BY <1>5 DEF ConnectFails
<1>6. ASSUME NEW e \in Clients, AwaitFails(e) PROVE ServerInv'
  BY <1>6 DEF AwaitFails
<1>7. ASSUME NEW e \in Clients, SetupLocal(e) PROVE ServerInv'
  BY <1>7 DEF SetupLocal
<1>8. ASSUME NEW e \in Clients, RunLocal(e) PROVE ServerInv'
  BY <1>8 DEF RunLocal
<1>9. ASSUME NEW e \in Clients, ReportError(e) PROVE ServerInv'
  BY <1>9 DEF ReportError
<1>10. ASSUME NEW e \in Keys, StartServer(e) PROVE ServerInv'
  <2>1. /\ pc[e] = "DOWN" /\ pc' = [pc EXCEPT ![e] = "LISTEN"]
        /\ ctl' = [ctl EXCEPT ![e] = Constructed]
        /\ UNCHANGED <<flags, at, ret, serving, given>>
    BY <1>10 DEF StartServer
  <2>2. \A c \in Clients : c # e /\ ctl'[c] = ctl[c] /\ pc'[c] = pc[c]
    BY <2>1
  <2>3. \A k \in Keys \ {e} : ctl'[k] = ctl[k] /\ pc'[k] = pc[k]
    BY <2>1
  <2>4. ~ ctl'[e].endipc /\ pc'[e] = "LISTEN"
    BY <2>1 DEF Constructed
  <2>5. QED
    BY <2>1, <2>2, <2>3, <2>4
<1>11. ASSUME NEW e \in Keys, Expire(e) PROVE ServerInv'
  BY <1>11 DEF Expire
<1>12. ASSUME NEW e \in Keys, ServerParsed(e) PROVE ServerInv'
  BY <1>12 DEF ServerParsed
<1>13. ASSUME NEW e \in Keys, SetupServer(e) PROVE ServerInv'
  BY <1>13 DEF SetupServer
<1>14. ASSUME NEW e \in Keys, RunServer(e) PROVE ServerInv'
  <2>1. serving[e] \in Clients /\ serving[e] # e
    BY <1>14, ServedClient DEF RunServer
  <2>2. QED
    BY <1>14, <2>1 DEF RunServer, Reply
<1>15. ASSUME NEW e \in Keys, ReplyError(e) PROVE ServerInv'
  <2>1. serving[e] \in Clients /\ serving[e] # e
    BY <1>15, ServedClient DEF ReplyError
  <2>2. QED
    BY <1>15, <2>1 DEF ReplyError, Reply
<1>16. CASE UNCHANGED vars
  BY <1>16 DEF vars
<1>17. QED
  BY <1>1, <1>2, <1>3, <1>4, <1>5, <1>6, <1>7, <1>8, <1>9, <1>10, <1>11, <1>12, <1>13, <1>14, <1>15, <1>16
  DEF Next, ClientStep, ServerStep, Quiescent

\* What a client has let through, the server accepts, and its timers stay valid.
LEMMA AcceptStep ==
  ASSUME IInv, [Next]_vars
  PROVE  (ServerAccepts /\ ServerTimersValid)'
<1> USE ControlAssumption
    DEF IInv, TypeOK, Jobs, Goto, Parsed, BeginParse, parsing, AllAccepted, ServerAccepts, ServerTimersValid
<1>1. ASSUME NEW e \in Jobs, ParseFlag(e) PROVE (ServerAccepts /\ ServerTimersValid)'
  <2>1. /\ pc[e] = "PARSE" /\ flags[e][at[e]] \in Flag
        /\ at[e] \in 1 .. Len(flags[e])
        /\ ctl'[e] = Store(flags[e][at[e]], ctl[e])
        /\ ret'[e] = (ret[e] /\ Accepts(flags[e][at[e]]))
        /\ \A j \in Jobs \ {e} : ctl'[j] = ctl[j] /\ ret'[j] = ret[j]
    BY <1>1, ParseEffect
  <2>2. CASE e \in Clients
    <3>1. \A k \in Keys : ctl'[k] = ctl[k] /\ ret'[k] = ret[k]
      BY <2>1, <2>2
    <3>2. QED
      BY <3>1
  <2>3. CASE e \in Keys
    <3>1. Accepts(flags[e][at[e]])
      BY <2>1, <2>3 DEF ServerInv
    <3>2. /\ Store(flags[e][at[e]], ctl[e]).wait_client >= 0
          /\ Store(flags[e][at[e]], ctl[e]).wait_data >= 0
      BY <2>1, <2>3, <3>1, StoreTimers
    <3>3. /\ ctl'[e] = Store(flags[e][at[e]], ctl[e]) /\ ret'[e]
          /\ \A k \in Keys : k # e => ctl'[k] = ctl[k] /\ ret'[k] = ret[k]
      BY <2>1, <2>3, <3>1
    <3>4. QED
      BY <3>2, <3>3
  <2>4. QED
    BY <2>2, <2>3
<1>2. ASSUME NEW e \in Clients, StartRequest(e) PROVE (ServerAccepts /\ ServerTimersValid)'
  BY <1>2 DEF StartRequest
<1>3. ASSUME NEW e \in Clients, Route(e) PROVE (ServerAccepts /\ ServerTimersValid)'
  BY <1>3 DEF Route
<1>4. ASSUME NEW e \in Clients, SendRequest(e) PROVE (ServerAccepts /\ ServerTimersValid)'
  BY <1>4 DEF SendRequest
<1>5. ASSUME NEW e \in Clients, ConnectFails(e) PROVE (ServerAccepts /\ ServerTimersValid)'
  BY <1>5 DEF ConnectFails
<1>6. ASSUME NEW e \in Clients, AwaitFails(e) PROVE (ServerAccepts /\ ServerTimersValid)'
  BY <1>6 DEF AwaitFails
<1>7. ASSUME NEW e \in Clients, SetupLocal(e) PROVE (ServerAccepts /\ ServerTimersValid)'
  BY <1>7 DEF SetupLocal
<1>8. ASSUME NEW e \in Clients, RunLocal(e) PROVE (ServerAccepts /\ ServerTimersValid)'
  BY <1>8 DEF RunLocal
<1>9. ASSUME NEW e \in Clients, ReportError(e) PROVE (ServerAccepts /\ ServerTimersValid)'
  BY <1>9 DEF ReportError
<1>10. ASSUME NEW e \in Keys, StartServer(e) PROVE (ServerAccepts /\ ServerTimersValid)'
  BY <1>10 DEF StartServer, Constructed
<1>11. ASSUME NEW e \in Keys, Expire(e) PROVE (ServerAccepts /\ ServerTimersValid)'
  BY <1>11 DEF Expire
<1>12. ASSUME NEW e \in Keys, ServerParsed(e) PROVE (ServerAccepts /\ ServerTimersValid)'
  BY <1>12 DEF ServerParsed
<1>13. ASSUME NEW e \in Keys, SetupServer(e) PROVE (ServerAccepts /\ ServerTimersValid)'
  BY <1>13 DEF SetupServer
<1>14. ASSUME NEW e \in Keys, RunServer(e) PROVE (ServerAccepts /\ ServerTimersValid)'
  BY <1>14 DEF RunServer, Reply
<1>15. ASSUME NEW e \in Keys, ReplyError(e) PROVE (ServerAccepts /\ ServerTimersValid)'
  BY <1>15 DEF ReplyError, Reply
<1>16. CASE UNCHANGED vars
  BY <1>16 DEF vars
<1>17. QED
  BY <1>1, <1>2, <1>3, <1>4, <1>5, <1>6, <1>7, <1>8, <1>9, <1>10, <1>11, <1>12, <1>13, <1>14, <1>15, <1>16
  DEF Next, ClientStep, ServerStep, Quiescent

-----------------------------------------------------------------------------
(* The theorems                                                            *)

\* The initial state satisfies the invariant.
LEMMA InitInv == Init => IInv
<1>1. ASSUME Init PROVE ClientInv /\ ServerInv
  BY <1>1, ControlAssumption
  DEF Init, ClientInv, ServerInv, AllAccepted, Jobs, Constructed
<1>2. ASSUME Init PROVE ServerAccepts /\ ServerTimersValid
  BY <1>2 DEF Init, ServerAccepts, ServerTimersValid, Jobs, Constructed
<1>3. QED
  BY <1>1, <1>2, InitType DEF IInv

\* The inductive invariant holds in every behaviour.
THEOREM Invariance == Spec => []IInv
<1>1. IInv /\ [Next]_vars => IInv'
  BY TypeStep, ClientInvStep, ServerInvStep, AcceptStep DEF IInv
<1>2. QED
  BY <1>1, InitInv, PTL DEF Spec

\* Type correctness: Control objects, loop counters, states and answers.
THEOREM TypeCorrect == Spec => []TypeOK
BY Invariance, PTL DEF IInv

\* A server job never refuses the flags of a client (runServer's parse never
\* returns false), whatever strings the callers give.
THEOREM NoServerRefusal == Spec => []ServerAccepts
BY Invariance, PTL DEF IInv

\* A server job never has a negative timer, though the objects of its clients
\* may hold one.
THEOREM TimersStayValid == Spec => []ServerTimersValid
BY Invariance, PTL DEF IInv

\* A server job ends by beingEnded() only for the request it is serving.
THEOREM NoForeignEnd == Spec => []EndsOnlyWhenAsked
<1>1. IInv => EndsOnlyWhenAsked
  BY DEF IInv, ServerInv, EndsOnlyWhenAsked
<1>2. QED
  BY <1>1, Invariance, PTL
-----------------------------------------------------------------------------
(* What is named applies                                                   *)

\* A set of natural numbers that is not empty has a least one.
LEMMA Least ==
  ASSUME NEW T, T \subseteq Nat, T # {}
  PROVE  \E m \in T : \A n \in T : m <= n
<1> DEFINE R == OpToRel(<, Nat)
<1>1. IsWellFoundedOn(R, Nat)
  BY NatLessThanWellFounded
<1>2. PICK m \in T : \A n \in T : ~ (<<n, m>> \in R)
  BY <1>1, WFMin
<1>3. \A n \in T : ~ (n < m)
  BY <1>2 DEF OpToRel
<1>4. QED
  BY <1>3

\* A set of places of a string that is not empty has a last one.
LEMMA LastPlace ==
  ASSUME NEW n \in Nat, NEW S, S \subseteq 1 .. n, S # {}
  PROVE  \E i \in S : \A h \in S : h <= i
<1> DEFINE T == {n - i : i \in S}
<1>1. \A i \in S : n - i \in Nat
  OBVIOUS
<1>2. PICK m \in T : \A x \in T : m <= x
  <2>1. T \subseteq Nat
    BY <1>1
  <2>2. T # {}
    OBVIOUS
  <2>3. QED
    BY <2>1, <2>2, Least
<1>3. PICK i \in S : m = n - i
  OBVIOUS
<1>4. ASSUME NEW h \in S PROVE h <= i
  <2>1. n - i <= n - h
    BY <1>2, <1>3
  <2>2. QED
    BY <2>1
<1>5. QED
  BY <1>4

\* A Control object that shows a whole string has the value named last.
LEMMA ShowsLast ==
  ASSUME NEW fs \in Seq(Flag), NEW o, NEW f \in CcsidFlags \cup {"IPC"},
         Shows(o, fs, Len(fs) + 1), Valued(fs, f) # {}
  PROVE  /\ Field(o, f) = Kept(f, LastValue(fs, f))
         /\ \E i \in DOMAIN fs :
              fs[i].flag = f /\ fs[i].val # NoValue /\ LastValue(fs, f) = fs[i].val
<1>1. Valued(fs, f) \subseteq 1 .. Len(fs) /\ Len(fs) \in Nat
  BY DEF Valued
<1>2. \E i \in Valued(fs, f) : \A h \in Valued(fs, f) : h <= i
  BY <1>1, LastPlace
<1> DEFINE i == CHOOSE i \in Valued(fs, f) : \A h \in Valued(fs, f) : h <= i
<1>3. i \in Valued(fs, f) /\ \A h \in Valued(fs, f) : h <= i
  BY <1>2
<1>4. LastValue(fs, f) = fs[i].val
  BY DEF LastValue
<1> HIDE DEF i
<1>5. i < Len(fs) + 1
  BY <1>1, <1>3
<1>6. Field(o, f) = Kept(f, fs[i].val)
  BY <1>3, <1>5 DEF Shows
<1>7. QED
  BY <1>3, <1>4, <1>6 DEF Valued

\* An accepted flag gives its field its value and leaves the others alone.
LEMMA StoreField ==
  ASSUME NEW t \in Flag, NEW o \in Control, Accepts(t),
         NEW f \in CcsidFlags \cup {"IPC"}
  PROVE  Field(Store(t, o), f) =
           IF t.flag = f /\ t.val # NoValue THEN Kept(f, t.val) ELSE Field(o, f)
<1> USE ControlAssumption DEF Control, CcsidFlags, TimerFlags, Switches
<1>1. CASE t.val = NoValue
  BY <1>1 DEF Store, StoreSwitch, Field
<1>2. CASE t.val # NoValue
  <2>1. Store(t, o) = StoreValue(t, o)
    BY <1>2 DEF Store
  <2>2. CASE t.flag \in CcsidFlags
    BY <1>2, <2>1, <2>2 DEF StoreValue, Accepts, Field, Kept
  <2>3. CASE t.flag = "IPC"
    BY <1>2, <2>1, <2>3 DEF StoreValue, Accepts, Field, Kept
  <2>4. CASE t.flag \notin CcsidFlags \cup {"IPC"}
    <3>1. /\ StoreValue(t, o).after = o.after
          /\ StoreValue(t, o).before = o.before
          /\ StoreValue(t, o).ipcKey = o.ipcKey
      BY <2>4 DEF StoreValue
    <3>2. t.flag # f
      BY <2>4
    <3>3. QED
      BY <2>1, <3>1, <3>2 DEF Field
  <2>5. QED
    BY <2>2, <2>3, <2>4
<1>3. QED
  BY <1>1, <1>2

\* Before the first flag there is nothing to show.
LEMMA ShowsNothing ==
  ASSUME NEW fs \in Seq(Flag), NEW o
  PROVE  Shows(o, fs, 1)
BY DEF Shows, Valued

\* A round of the loop keeps up what the object shows.
LEMMA ShowsNext ==
  ASSUME NEW fs \in Seq(Flag), NEW o \in Control, NEW n \in 1 .. Len(fs),
         Accepts(fs[n]), Shows(o, fs, n)
  PROVE  Shows(Store(fs[n], o), fs, n + 1)
<1> SUFFICES ASSUME NEW f \in CcsidFlags \cup {"IPC"}, NEW i \in Valued(fs, f),
                    i < n + 1, \A h \in Valued(fs, f) : h < n + 1 => h <= i
             PROVE  Field(Store(fs[n], o), f) = Kept(f, fs[i].val)
  BY DEF Shows
<1>1. fs[n] \in Flag /\ i \in 1 .. Len(fs) /\ n \in DOMAIN fs
  BY DEF Valued
<1>2. Field(Store(fs[n], o), f) =
        IF fs[n].flag = f /\ fs[n].val # NoValue THEN Kept(f, fs[n].val) ELSE Field(o, f)
  BY <1>1, StoreField
<1>3. CASE n \in Valued(fs, f)
  <2>1. i = n
    BY <1>1, <1>3
  <2>2. fs[n].flag = f /\ fs[n].val # NoValue
    BY <1>3 DEF Valued
  <2>3. QED
    BY <1>2, <2>1, <2>2
<1>4. CASE n \notin Valued(fs, f)
  <2>1. ~ (fs[n].flag = f /\ fs[n].val # NoValue)
    BY <1>1, <1>4 DEF Valued
  <2>2. i < n
    BY <1>1, <1>4
  <2>3. \A h \in Valued(fs, f) : h < n => h <= i
    BY <1>1 DEF Valued
  <2>4. Field(o, f) = Kept(f, fs[i].val)
    BY <2>2, <2>3 DEF Shows
  <2>5. QED
    BY <1>2, <2>1, <2>4
<1>5. QED
  BY <1>3, <1>4

\* Behind the last flag everything is shown.
LEMMA ShowsEnd ==
  ASSUME NEW fs \in Seq(Flag), NEW o, NEW n \in Nat, n > Len(fs), Shows(o, fs, n)
  PROVE  Shows(o, fs, Len(fs) + 1)
<1>1. \A f : Valued(fs, f) \subseteq 1 .. Len(fs)
  BY DEF Valued
<1>2. \A f : \A i \in Valued(fs, f) : i < n /\ i < Len(fs) + 1
  BY <1>1
<1>3. QED
  BY <1>2, Zenon DEF Shows
\* Nothing is shown and nothing answered before the first request.
LEMMA InitReflect == Init => ReflectInv /\ NamedFlagsApply
<1> SUFFICES ASSUME Init PROVE ReflectInv /\ NamedFlagsApply
  OBVIOUS
<1>1. \A j \in Jobs : pc[j] \in {"IDLE", "DOWN"}
  BY DEF Init
<1>2. \A c \in Clients : pc[c] = "IDLE" /\ answer[c] = Unanswered
  BY DEF Init, Jobs
<1>3. ReflectInv
  BY <1>1, <1>2 DEF ReflectInv
<1>4. NamedFlagsApply
  BY <1>2, ControlAssumption DEF NamedFlagsApply, NamedApply, Unanswered
<1>5. QED
  BY <1>3, <1>4

\* What a job has parsed shows in its own object, whatever was there before.
LEMMA ReflectStep ==
  ASSUME IInv, IInv', ReflectInv, [Next]_vars
  PROVE  ReflectInv'
<1>a. TypeOK /\ ClientInv /\ ServerInv
  BY DEF IInv
<1>b. \A j \in Jobs : flags[j] \in Seq(Flag) /\ Len(flags[j]) \in Nat
  BY <1>a, FlagsType
<1>c. \A fs \in Strings : fs \in Seq(Flag)
  BY ControlAssumption
<1> USE <1>a, ControlAssumption
    DEF TypeOK, Jobs, Goto, Parsed, BeginParse, parsing, ReflectInv, ShowsAll
<1>1. ASSUME NEW e \in Jobs, ParseFlag(e) PROVE ReflectInv'
  <2>1. /\ pc[e] = "PARSE" /\ UNCHANGED <<flags, pc, serving, reqNo, given, answer>>
        /\ at[e] \in 1 .. Len(flags[e])
        /\ ctl'[e] = Store(flags[e][at[e]], ctl[e])
        /\ ret'[e] = (ret[e] /\ Accepts(flags[e][at[e]]))
        /\ Accepts(flags[e][at[e]]) => at'[e] = at[e] + 1
        /\ \A j \in Jobs \ {e} : ctl'[j] = ctl[j] /\ ret'[j] = ret[j] /\ at'[j] = at[j]
    BY <1>1, ParseEffect
  <2>2. ret'[e] => Shows(ctl'[e], flags'[e], at'[e])
    <3>1. ASSUME ret'[e]
          PROVE  Shows(Store(flags[e][at[e]], ctl[e]), flags[e], at[e] + 1)
      <4>1. ret[e] /\ Accepts(flags[e][at[e]])
        BY <2>1, <3>1, Zenon
      <4>2. Shows(ctl[e], flags[e], at[e]) /\ ctl[e] \in Control
        BY <2>1, <4>1
      <4>3. QED
        BY <1>b, <2>1, <4>1, <4>2, ShowsNext
    <3>2. ret'[e] => at'[e] = at[e] + 1
      BY <2>1, Zenon
    <3>3. QED
      BY <2>1, <3>1, <3>2
  <2>3. QED
    BY <2>1, <2>2
<1>2. ASSUME NEW e \in Clients, StartRequest(e) PROVE ReflectInv'
  <2>1. PICK fs \in Strings : flags' = [flags EXCEPT ![e] = fs]
    BY <1>2 DEF StartRequest
  <2>2. /\ at' = [at EXCEPT ![e] = 1] /\ ret' = [ret EXCEPT ![e] = TRUE]
        /\ pc[e] = "IDLE" /\ pc' = [pc EXCEPT ![e] = "PARSE"] /\ UNCHANGED ctl
        /\ answer' = [answer EXCEPT ![e] = Unanswered]
    BY <1>2 DEF StartRequest
  <2>3. Shows(ctl[e], fs, 1)
    BY <1>c, ShowsNothing
  <2>4. \A j \in Jobs \ {e} :
          flags'[j] = flags[j] /\ at'[j] = at[j] /\ ret'[j] = ret[j] /\ pc'[j] = pc[j]
    BY <2>1, <2>2
  <2>5. flags'[e] = fs /\ at'[e] = 1 /\ pc'[e] = "PARSE"
    BY <2>1, <2>2
  <2>6. \A c \in Clients : answer'[c] = IF c = e THEN Unanswered ELSE answer[c]
    BY <2>2
  <2>7. QED
    BY <2>2, <2>3, <2>4, <2>5, <2>6 DEF AllAccepted
<1>3. ASSUME NEW e \in Clients, Route(e) PROVE ReflectInv'
  <2>1. /\ pc[e] = "PARSE" /\ at[e] > Len(flags[e])
        /\ UNCHANGED <<ctl, flags, at, ret, answer>>
        /\ pc' = [pc EXCEPT ![e] = IF ~ ret[e] THEN "ERROR_FR"
               ELSE IF ctl[e].ipcKey # NoKey THEN "CONNECT" ELSE "SETUP"]
    BY <1>3 DEF Route
  <2>2. ret[e] => ShowsAll(e)
    BY <1>b, <2>1, ShowsEnd
  <2>3. ret[e] => AllAccepted(flags[e])
    <3>1. \A i \in 1 .. Len(flags[e]) : i < at[e]
      BY <1>b, <2>1
    <3>2. QED
      BY <2>1, <3>1 DEF ClientInv, AllAccepted
  <2>4. QED
    BY <2>1, <2>2, <2>3
<1>4. ASSUME NEW e \in Clients, SendRequest(e) PROVE ReflectInv'
  <2> DEFINE k == ctl[e].ipcKey
  <2>1. k \in Keys /\ k # e
    BY <1>4 DEF SendRequest, ClientInv
  <2>2. /\ flags' = [flags EXCEPT ![k] = flags[e]]
        /\ at' = [at EXCEPT ![k] = 1]
        /\ ret' = [ret EXCEPT ![k] = TRUE]
        /\ pc[e] = "CONNECT"
        /\ pc' = [pc EXCEPT ![e] = "AWAIT", ![k] = "PARSE"]
        /\ UNCHANGED <<ctl, answer>>
    BY <1>4 DEF SendRequest
  <2>3. Shows(ctl[k], flags[e], 1)
    BY <1>b, ShowsNothing
  <2>4. ShowsAll(e)
    BY <2>2
  <2> HIDE DEF k
  <2>5. /\ flags'[k] = flags[e] /\ at'[k] = 1 /\ pc'[k] = "PARSE" /\ pc'[e] = "AWAIT"
        /\ flags'[e] = flags[e]
    BY <2>1, <2>2
  <2>6. \A j \in Jobs \ {e, k} :
          flags'[j] = flags[j] /\ at'[j] = at[j] /\ ret'[j] = ret[j] /\ pc'[j] = pc[j]
    BY <2>1, <2>2
  <2>7. \A j \in Jobs :
          /\ pc'[j] = "PARSE" /\ ret'[j] => Shows(ctl'[j], flags'[j], at'[j])
          /\ pc'[j] \in {"CONNECT", "AWAIT", "SETUP", "RUN"} =>
               Shows(ctl'[j], flags'[j], Len(flags'[j]) + 1)
    BY <2>2, <2>3, <2>4, <2>5, <2>6
  <2>8. \A c \in Clients :
          /\ pc'[c] \in {"SETUP", "RUN"} => AllAccepted(flags'[c]) /\ ctl'[c].ipcKey = NoKey
          /\ pc'[c] # "IDLE" => answer'[c] = Unanswered
    BY <2>1, <2>2, <2>5, <2>6
  <2>9. QED
    BY <2>7, <2>8
<1>5. ASSUME NEW e \in Clients, ConnectFails(e) PROVE ReflectInv'
  BY <1>5 DEF ConnectFails
<1>6. ASSUME NEW e \in Clients, AwaitFails(e) PROVE ReflectInv'
  BY <1>6 DEF AwaitFails
<1>7. ASSUME NEW e \in Clients, SetupLocal(e) PROVE ReflectInv'
  BY <1>7 DEF SetupLocal
<1>8. ASSUME NEW e \in Clients, RunLocal(e) PROVE ReflectInv'
  BY <1>8 DEF RunLocal
<1>9. ASSUME NEW e \in Clients, ReportError(e) PROVE ReflectInv'
  BY <1>9 DEF ReportError
<1>10. ASSUME NEW e \in Keys, StartServer(e) PROVE ReflectInv'
  <2>1. /\ ctl' = [ctl EXCEPT ![e] = Constructed] /\ pc' = [pc EXCEPT ![e] = "LISTEN"]
        /\ UNCHANGED <<flags, at, ret, answer>>
    BY <1>10 DEF StartServer
  <2>2. \A j \in Jobs \ {e} : ctl'[j] = ctl[j] /\ pc'[j] = pc[j]
    BY <2>1
  <2>3. pc'[e] = "LISTEN" /\ e \notin Clients
    BY <2>1
  <2>4. QED
    BY <2>1, <2>2, <2>3
<1>11. ASSUME NEW e \in Keys, Expire(e) PROVE ReflectInv'
  BY <1>11 DEF Expire
<1>12. ASSUME NEW e \in Keys, ServerParsed(e) PROVE ReflectInv'
  <2>1. /\ pc[e] = "PARSE" /\ at[e] > Len(flags[e])
        /\ UNCHANGED <<ctl, flags, at, ret, answer>>
        /\ pc' = [pc EXCEPT ![e] = IF ret[e] THEN "SETUP" ELSE "ERROR_FR"]
    BY <1>12 DEF ServerParsed
  <2>2. ret[e] => ShowsAll(e)
    BY <1>b, <2>1, ShowsEnd
  <2>3. QED
    BY <2>1, <2>2
<1>13. ASSUME NEW e \in Keys, SetupServer(e) PROVE ReflectInv'
  BY <1>13 DEF SetupServer
<1>14. ASSUME NEW e \in Keys, RunServer(e) PROVE ReflectInv'
  <2>1. serving[e] \in Clients /\ serving[e] # e
    BY <1>14, ServedClient DEF RunServer
  <2>2. QED
    BY <1>14, <2>1 DEF RunServer, Reply
<1>15. ASSUME NEW e \in Keys, ReplyError(e) PROVE ReflectInv'
  <2>1. serving[e] \in Clients /\ serving[e] # e
    BY <1>15, ServedClient DEF ReplyError
  <2>2. QED
    BY <1>15, <2>1 DEF ReplyError, Reply
<1>16. CASE UNCHANGED vars
  BY <1>16 DEF vars
<1>17. QED
  BY <1>1, <1>2, <1>3, <1>4, <1>5, <1>6, <1>7, <1>8, <1>9, <1>10, <1>11, <1>12, <1>13, <1>14, <1>15, <1>16
  DEF Next, ClientStep, ServerStep, Quiescent
\* A request that runs in the caller's job names no server.
LEMMA LocalNamesNoKey ==
  ASSUME IInv, ReflectInv, NEW c \in Clients, pc[c] = "RUN"
  PROVE  Valued(given[c], "IPC") = {}
<1> SUFFICES ASSUME Valued(given[c], "IPC") # {} PROVE FALSE
  OBVIOUS
<1>1. /\ c \in Jobs /\ flags[c] = given[c] /\ flags[c] \in Seq(Flag)
      /\ ctl[c].ipcKey = NoKey /\ AllAccepted(flags[c])
      /\ Shows(ctl[c], flags[c], Len(flags[c]) + 1)
  BY FlagsType DEF IInv, ClientInv, ReflectInv, ShowsAll, Jobs
<1>2. PICK i \in DOMAIN flags[c] :
        /\ flags[c][i].flag = "IPC" /\ flags[c][i].val # NoValue
        /\ Field(ctl[c], "IPC") = flags[c][i].val
  <2>1. Valued(flags[c], "IPC") # {}
    BY <1>1
  <2>2. flags[c] \in Seq(Flag) /\ Shows(ctl[c], flags[c], Len(flags[c]) + 1)
    BY <1>1
  <2>3. "IPC" \in CcsidFlags \cup {"IPC"}
    OBVIOUS
  <2>4. /\ Field(ctl[c], "IPC") = Kept("IPC", LastValue(flags[c], "IPC"))
        /\ \E i \in DOMAIN flags[c] :
             /\ flags[c][i].flag = "IPC" /\ flags[c][i].val # NoValue
             /\ LastValue(flags[c], "IPC") = flags[c][i].val
    BY <2>1, <2>2, <2>3, ShowsLast, Zenon
  <2>5. QED
    BY <2>4 DEF Kept, CcsidFlags
<1>3. flags[c][i] \in Flag /\ Accepts(flags[c][i])
  <2>1. i \in 1 .. Len(flags[c])
    BY <1>1
  <2>2. QED
    BY <1>1, <2>1 DEF AllAccepted
<1>4. flags[c][i].val \in Keys
  BY <1>2, <1>3, ControlAssumption
  DEF Flag, Accepts, CcsidFlags, TimerFlags, Switches
<1>5. flags[c][i].val = NoKey
  BY <1>1, <1>2 DEF Field
<1>6. QED
  BY <1>4, <1>5, ControlAssumption

\* Every answer that is given names what its request names.
LEMMA NamedStep ==
  ASSUME IInv, ReflectInv, NamedFlagsApply, [Next]_vars
  PROVE  NamedFlagsApply'
<1>a. TypeOK /\ ClientInv /\ ServerInv
  BY DEF IInv
<1>b. \A j \in Jobs : flags[j] \in Seq(Flag)
  BY <1>a, FlagsType
<1>c. \A c \in Clients : NamedApply(c)
  BY DEF NamedFlagsApply
<1> SUFFICES ASSUME NEW c \in Clients PROVE NamedApply(c)'
  BY DEF NamedFlagsApply
<1>1. ASSUME answer'[c] = answer[c], given'[c] = given[c] PROVE NamedApply(c)'
  BY <1>1, <1>c DEF NamedApply
<1>2. ASSUME answer'[c].where \in {"none", "error"} PROVE NamedApply(c)'
  BY <1>2, ControlAssumption DEF NamedApply
<1>3. ASSUME NEW e \in Clients, StartRequest(e) PROVE NamedApply(c)'
  <2>1. CASE c = e
    <3>1. answer'[c] = Unanswered
      BY <1>3, <1>a, <2>1 DEF StartRequest, TypeOK
    <3>2. QED
      BY <1>2, <3>1 DEF Unanswered
  <2>2. CASE c # e
    BY <1>1, <1>3, <1>a, <2>2 DEF StartRequest, TypeOK
  <2>3. QED
    BY <2>1, <2>2
<1>4. ASSUME NEW e \in Clients, RunLocal(e) PROVE NamedApply(c)'
  <2>1. CASE c = e
    <3>1. /\ answer'[c].after = ctl[c].after /\ answer'[c].before = ctl[c].before
          /\ given'[c] = given[c] /\ pc[c] = "RUN"
      BY <1>4, <1>a, <2>1 DEF RunLocal, TypeOK
    <3>2. /\ flags[c] = given[c] /\ flags[c] \in Seq(Flag)
          /\ Shows(ctl[c], flags[c], Len(flags[c]) + 1)
      BY <1>a, <1>b, <3>1 DEF ClientInv, ReflectInv, ShowsAll, Jobs
    <3>3. Valued(given[c], "IPC") = {}
      BY <3>1, LocalNamesNoKey
    <3>4. Valued(given[c], "AFTER") # {} => ctl[c].after = ToInt(LastValue(given[c], "AFTER"))
      BY <3>2, ShowsLast DEF Field, Kept, CcsidFlags
    <3>5. Valued(given[c], "BEFORE") # {} => ctl[c].before = ToInt(LastValue(given[c], "BEFORE"))
      BY <3>2, ShowsLast DEF Field, Kept, CcsidFlags
    <3>6. QED
      BY <3>1, <3>3, <3>4, <3>5 DEF NamedApply
  <2>2. CASE c # e
    BY <1>1, <1>4, <1>a, <2>2 DEF RunLocal, TypeOK
  <2>3. QED
    BY <2>1, <2>2
<1>5. ASSUME NEW e \in Clients, ReportError(e) PROVE NamedApply(c)'
  <2>1. CASE c = e
    BY <1>2, <1>5, <1>a, <2>1 DEF ReportError, TypeOK
  <2>2. CASE c # e
    BY <1>1, <1>5, <1>a, <2>2 DEF ReportError, TypeOK
  <2>3. QED
    BY <2>1, <2>2
<1>6. ASSUME NEW e \in Keys, RunServer(e) PROVE NamedApply(c)'
  <2>1. CASE c = serving[e]
    <3>1. /\ pc[e] = "RUN" /\ given'[c] = given[c] /\ answer'[c].where = e
          /\ answer'[c].after = ctl[e].after /\ answer'[c].before = ctl[e].before
      BY <1>6, <1>a, <2>1 DEF RunServer, Reply, TypeOK
    <3>2. /\ flags[e] = given[c] /\ pc[c] = "AWAIT" /\ ctl[c].ipcKey = e
          /\ flags[c] = given[c] /\ given[c] \in Seq(Flag)
      BY <1>a, <1>b, <2>1, <3>1 DEF ServerInv, ClientInv, Jobs
    <3>3. /\ Shows(ctl[e], given[c], Len(given[c]) + 1)
          /\ Shows(ctl[c], given[c], Len(given[c]) + 1)
      BY <3>1, <3>2 DEF ReflectInv, ShowsAll, Jobs
    <3>4. Valued(given[c], "AFTER") # {} => ctl[e].after = ToInt(LastValue(given[c], "AFTER"))
      BY <3>2, <3>3, ShowsLast DEF Field, Kept, CcsidFlags
    <3>5. Valued(given[c], "BEFORE") # {} => ctl[e].before = ToInt(LastValue(given[c], "BEFORE"))
      BY <3>2, <3>3, ShowsLast DEF Field, Kept, CcsidFlags
    <3>6. Valued(given[c], "IPC") # {} => e = LastValue(given[c], "IPC")
      BY <3>2, <3>3, ShowsLast DEF Field, Kept, CcsidFlags
    <3>7. QED
      BY <3>1, <3>4, <3>5, <3>6 DEF NamedApply
  <2>2. CASE c # serving[e]
    BY <1>1, <1>6, <1>a, <2>2 DEF RunServer, Reply, TypeOK
  <2>3. QED
    BY <2>1, <2>2
<1>7. ASSUME NEW e \in Keys, ReplyError(e) PROVE NamedApply(c)'
  <2>1. CASE c = serving[e]
    BY <1>2, <1>7, <1>a, <2>1 DEF ReplyError, Reply, TypeOK
  <2>2. CASE c # serving[e]
    BY <1>1, <1>7, <1>a, <2>2 DEF ReplyError, Reply, TypeOK
  <2>3. QED
    BY <2>1, <2>2
<1>8. ASSUME UNCHANGED <<answer, given>> PROVE NamedApply(c)'
  BY <1>1, <1>8
<1>9. QED
  BY <1>3, <1>4, <1>5, <1>6, <1>7, <1>8
  DEF Next, ClientStep, ServerStep, Quiescent, vars, ParseFlag, Route, SendRequest,
      ConnectFails, AwaitFails, SetupLocal, StartServer, Expire, ServerParsed, SetupServer

\* A request runs where its last *IPC says, with the CCSIDs its last *AFTER and
\* *BEFORE say (Control::parse in the client and again in the server), whatever
\* earlier requests have left in the two Control objects.
THEOREM NamedApplies == Spec => []NamedFlagsApply
<1>1. IInv /\ IInv' /\ ReflectInv /\ NamedFlagsApply /\ [Next]_vars
        => ReflectInv' /\ NamedFlagsApply'
  BY ReflectStep, NamedStep
<1>2. QED
  BY <1>1, InitReflect, Invariance, PTL DEF Spec
=============================================================================
