---------------------------- MODULE RequestReply ----------------------------
(***************************************************************************)
(* What the IPC service promises the callers of runService, without saying *)
(* how: clients ask one request after the other; a request is executed at  *)
(* most once, and only while its client has not been told the outcome; the *)
(* outcome is the answer to that very request, or an error.                *)
(* In particular a client that was told of an error may repeat the request *)
(* without fear that the first one is executed later.                      *)
(***************************************************************************)
EXTENDS Naturals

CONSTANTS Clients, MaxReq

VARIABLES
  reqNo,   \* the number of each client's request
  answer,  \* the outcome of each client's request, <<"blank">> if none yet
  runs     \* how often each request was executed

vars == <<reqNo, answer, runs>>

Blank == <<"blank">>
Fault == <<"fault">>
Res(r) == <<"res", r>>
Current(c) == <<c, reqNo[c]>>

Init ==
  /\ reqNo = [c \in Clients |-> 0]
  /\ answer = [c \in Clients |-> Blank]
  /\ runs = [r \in Clients \X (1 .. MaxReq) |-> 0]

\* A client asks only once the previous request has its outcome.
Ask(c) ==
  /\ reqNo[c] < MaxReq
  /\ reqNo[c] > 0 => answer[c] # Blank
  /\ reqNo' = [reqNo EXCEPT ![c] = @ + 1]
  /\ answer' = [answer EXCEPT ![c] = Blank]
  /\ UNCHANGED runs

Execute(c) ==
  /\ reqNo[c] > 0
  /\ answer[c] = Blank
  /\ runs[Current(c)] = 0
  /\ runs' = [runs EXCEPT ![Current(c)] = 1]
  /\ UNCHANGED <<reqNo, answer>>

Reply(c) ==
  /\ reqNo[c] > 0
  /\ answer[c] = Blank
  /\ runs[Current(c)] = 1
  /\ answer' = [answer EXCEPT ![c] = Res(Current(c))]
  /\ UNCHANGED <<reqNo, runs>>

Fail(c) ==
  /\ reqNo[c] > 0
  /\ answer[c] = Blank
  /\ answer' = [answer EXCEPT ![c] = Fault]
  /\ UNCHANGED <<reqNo, runs>>

Next == \E c \in Clients : Ask(c) \/ Execute(c) \/ Reply(c) \/ Fail(c)

Spec == Init /\ [][Next]_vars
=============================================================================
