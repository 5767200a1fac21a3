------------------------------ MODULE NodeRun ------------------------------
(***************************************************************************)
(* Running the nodes of a request: runNode (Utility.c), JNode::run and the *)
(* run() of every kind of node, for the requests a job is given one after  *)
(* the other.                                                              *)
(*                                                                         *)
(* The flight recorder is shared by all nodes of a request: the code in it *)
(* decides if the next node is run, and what is in it when a node is done  *)
(* becomes the STATUS of the node.  Some things outlive the request: the   *)
(* static variables of runRexx and of Qshell::run, the REXX source in      *)
(* QTEMP, the environment variables of the job and a file in /TMP.         *)
(*                                                                         *)
(* An author of messages and an owner of data is a request and a position  *)
(* in its plan.  Every system call may fail.  Commands of the caller do    *)
(* not touch what the service keeps in QTEMP, /TMP and the environment.    *)
(***************************************************************************)
EXTENDS Naturals, Sequences, FlightRec

CONSTANTS
  Plans,  \* the requests, as sequences of runnable nodes
  MaxReq  \* how many come (bound)

\* What init() lets pass: there is a choice of exec for commands only, and
\* only their errors can be ignored.
Nodes ==
  {n \in [kind : {"CMD", "SH", "QSH", "PGM", "SQL", "JOBINFO"},
          exec : {"CMD", "SYSTEM", "REXX", "none"},
          error : {"OFF", "ON", "IGNORE", "none"}] :
     (n.kind = "CMD" <=> n.exec # "none") /\ (n.error = "IGNORE" => n.kind = "CMD")}

Codes == {OK, "CMD_RUN", "SYSTEM_RUN", "REXX_RUN", "PASE_RUN", "PGM_RUN",
          "PASE_START", "ARGUMENT_INIT", "SQL_RUN", "READ_IFS", "WRITE_IFS", "PARSE_FAIL",
          "INPUT_INVALID", "INIT", "CONVERT"}

ASSUME RunAssumption ==
  /\ Plans \subseteq Seq(Nodes)
  /\ MaxReq \in Nat

VARIABLES
  plan,        \* the runnable nodes of the request, in the order of the tree
  answers,     \* what the nodes run so far have in their STATUS
  status,      \* the STATUS of the root, NoCode while the nodes are run
  reqNo,       \* the number of the request
  fileCreated, \* static in Command::runRexx
  member,      \* the REXX source in QTEMP
  isQshRdy,    \* static in Qshell::run
  envVars,     \* how many of the two variables of QSH are set
  tmpFile      \* whose output is in the file in /TMP

statics == <<fileCreated, member, isQshRdy, envVars, tmpFile>>
runVars == <<plan, answers, status, reqNo, statics>>

NoCode == "none"
Nobody == <<0, 0>>

-----------------------------------------------------------------------------
Current == Len(answers) + 1
Node == plan[Current]
Me == <<reqNo, Current>>

\* A job that was not given a request yet.
RunInit ==
  /\ fr = Clean
  /\ plan = <<>>
  /\ answers = <<>>
  /\ status = OK
  /\ reqNo = 0
  /\ fileCreated = FALSE
  /\ member = "none"
  /\ isQshRdy = FALSE
  /\ envVars = 0
  /\ tmpFile = Nobody

\* JNode::run: the node is run if the recorder has no error; its STATUS gets
\* the code, all messages in the recorder, and the data the run produced.
Answer(f, data) ==
  /\ fr' = f
  /\ answers' = Append(answers, [code |-> f.code, msgs |-> f.msgs, data |-> data])
  /\ UNCHANGED <<plan, status, reqNo>>

\* Variant: the recorder is not looked at.
Running_Anyway(kind) ==
  /\ status = NoCode
  /\ Current <= Len(plan)
  /\ Node.kind = kind

Running(kind) ==
  /\ status = NoCode
  /\ fr.code = OK
  /\ Current <= Len(plan)
  /\ Node.kind = kind

\* doCommand, doSystem: the code is set in any case, messages only on errors.
\* Variant: no message either.
Done(f) == SetCode(f, OK)
Failed_Silent(f, code) == SetCode(f, code)
Failed(f, code) == Report(f, code, Me)

\* getMsgKey may fail, which turns "error":"on" off.
EffectiveErrors(e) == IF e = "ON" THEN {"ON", "OFF"} ELSE {e}

\* getMessages adds the messages of the job log, if it gets them.
WithJobLog(f) == {f, AddMessages(f, <<Me>>)}

\* What is made of a failure: all messages, or none but the error's own; or
\* it is no failure, although its message stays.
AfterFailure(f, error) ==
  CASE error = "ON" -> WithJobLog(f)
    [] error = "IGNORE" -> {SetCode(f, OK)}
    [] OTHER -> {f}

\* Command::runCommand and runSystem: what was in the recorder is dropped.
RunCommand ==
  /\ Running("CMD")
  /\ Node.exec \in {"CMD", "SYSTEM"}
  /\ LET code == IF Node.exec = "CMD" THEN "CMD_RUN" ELSE "SYSTEM_RUN" IN
     \/ Answer(Done(Clean), Nobody)
     \/ \E error \in EffectiveErrors(Node.error) :
          \E f \in AfterFailure(Failed(Clean, code), error) : Answer(f, Nobody)
  /\ UNCHANGED statics

\* Command::runRexx: the first time, the member with the REXX procedure is
\* made, in three steps that can fail.
MakeTemplate ==
  \/ /\ member' \in {"none", member}
     /\ fileCreated' = FALSE
     /\ Answer(Failed(fr, "CMD_RUN"), Nobody)
  \/ /\ member' \in {"empty", "partial"}
     /\ fileCreated' = FALSE
     /\ Answer(Failed(Done(fr), "WRITE_IFS"), Nobody)

\* The procedure is run: it cannot be started, its output cannot be read or
\* parsed, it reports an error, or the node has its output.
RexxOutcome ==
  \/ Answer(Failed(Clean, "CMD_RUN"), Nobody)
  \/ Answer(Failed(Clean, "READ_IFS"), Nobody)
  \/ Answer(Report(Clean, "REXX_RUN", Me), Nobody)
  \/ \E f \in WithJobLog(SetCode(Clean, "REXX_RUN")) : Answer(f, Nobody)
  \/ Answer(Clean, Me)

RunRexx ==
  /\ Running("CMD")
  /\ Node.exec = "REXX"
  /\ \/ ~ fileCreated /\ MakeTemplate
     \/ /\ member' = IF fileCreated THEN member ELSE "complete"
        /\ fileCreated' = TRUE
        /\ RexxOutcome
  /\ UNCHANGED <<isQshRdy, envVars, tmpFile>>

\* Shell::run: output is data even if the shell failed, unless all messages
\* are wanted instead.
RunShell ==
  /\ Running("SH")
  /\ \/ \E data \in {Me, Nobody} : Answer(fr, data)
     \/ \E error \in EffectiveErrors(Node.error) :
          \E f \in AfterFailure(Failed(fr, "PASE_RUN"), error) :
            \E data \in IF error = "ON" THEN {Nobody} ELSE {Me, Nobody} :
              Answer(f, data)
  /\ UNCHANGED statics

\* Qshell::run: the first time, the two variables are set.
SetEnvVars ==
  \/ envVars' = envVars /\ Answer(Failed(fr, "CMD_RUN"), Nobody)
  \/ /\ envVars' = IF envVars = 0 THEN 1 ELSE envVars
     /\ Answer(Failed(Done(fr), "CMD_RUN"), Nobody)

\* The command writes the file in /TMP, if it gets that far.  When it failed
\* and not all messages are wanted, the code of the failure ends run() after
\* the file is read: it is not removed.
QshFailure ==
  LET f == Failed(Done(fr), "CMD_RUN") IN
  \/ /\ Node.error = "ON"
     /\ tmpFile' \in {Nobody, tmpFile, Me}
     /\ \E g \in WithJobLog(f) : Answer(g, Nobody)
  \/ /\ tmpFile' \in {tmpFile, Me}
     /\ \E g \in {f, Failed(f, "READ_IFS")} : Answer(g, Nobody)

\* Variant: without output it has not.
QshSuccess_NoFile ==
  \/ tmpFile' \in {tmpFile, Me} /\ Answer(Failed(Done(fr), "READ_IFS"), Nobody)
  \/ tmpFile' = Nobody /\ \E data \in {Me, tmpFile} : Answer(Done(fr), data)

\* A command that succeeds has written the file, with or without output.
QshSuccess ==
  \/ tmpFile' \in {tmpFile, Me} /\ Answer(Failed(Done(fr), "READ_IFS"), Nobody)
  \/ tmpFile' \in {Nobody, Me} /\ \E data \in {Me, Nobody} : Answer(Done(fr), data)

RunQshell ==
  /\ Running("QSH")
  /\ \/ ~ isQshRdy /\ SetEnvVars /\ UNCHANGED <<isQshRdy, tmpFile>>
     \/ /\ envVars' = IF isQshRdy THEN envVars ELSE 2
        /\ isQshRdy' = TRUE
        /\ QshFailure \/ QshSuccess
  /\ UNCHANGED <<fileCreated, member>>

\* Program::run; ProgramCall has its steps.  Arguments, PASE, what is called
\* and the call may fail, each with a message.  A program called through PASE
\* with a result other than 0 is a failure that has none.  Neither has what
\* it fails with in copyBack any of the job log.
RunProgram ==
  /\ Running("PGM")
  /\ \/ \E data \in {Me, Nobody} : Answer(fr, data)
     \/ \E c \in {"PASE_START", "ARGUMENT_INIT", "PASE_RUN", "PGM_RUN"},
           error \in EffectiveErrors(Node.error) :
          \E f \in AfterFailure(Failed(fr, c), error) : Answer(f, Nobody)
     \/ \E error \in EffectiveErrors(Node.error) :
          \E f \in AfterFailure(SetCode(fr, "PGM_RUN"), error) : Answer(f, Nobody)
     \/ \E data \in {Me, Nobody} : Answer(Failed(fr, "PGM_RUN"), data)
  /\ UNCHANGED statics

\* SqlUtil::run, of which only the result matters here.
RunSql ==
  /\ Running("SQL")
  /\ \/ \E data \in {Me, Nobody} : Answer(fr, data)
     \/ \E error \in EffectiveErrors(Node.error) :
          \E f \in AfterFailure(Failed(fr, "SQL_RUN"), error), data \in {Me, Nobody} :
            Answer(f, data)
  /\ UNCHANGED statics

\* JobInfo::run cannot fail; the node has no STATUS of its own.
RunJobInfo ==
  /\ Running("JOBINFO")
  /\ Answer(fr, Me)
  /\ UNCHANGED statics

\* runNode: the code in the recorder is the STATUS of the root.
FinishRequest ==
  /\ status = NoCode
  /\ fr.code # OK \/ Current > Len(plan)
  /\ status' = fr.code
  /\ UNCHANGED <<fr, plan, answers, reqNo, statics>>

\* The tree of the next request is there to be run.
Load(runs) ==
  /\ status # NoCode
  /\ reqNo < MaxReq
  /\ reqNo' = reqNo + 1
  /\ plan' = runs
  /\ answers' = <<>>
  /\ status' = NoCode
  /\ UNCHANGED statics

NextRequest == (\E runs \in Plans : Load(runs)) /\ fr' = Clean

RunStep ==
  \/ RunCommand \/ RunRexx \/ RunShell \/ RunQshell \/ RunProgram \/ RunSql
  \/ RunJobInfo \/ FinishRequest

RunNext == RunStep \/ NextRequest

RunSpec == RunInit /\ [][RunNext]_<<runVars, fr>>

-----------------------------------------------------------------------------
(* Properties *)

RunTypeOK ==
  /\ fr \in [code : Codes, msgs : Seq(Nat \X Nat)]
  /\ plan \in Seq(Nodes)
  /\ Len(answers) <= Len(plan)
  /\ answers \in Seq([code : Codes, msgs : Seq(Nat \X Nat), data : Nat \X Nat])
  /\ status \in Codes \cup {NoCode}
  /\ reqNo \in 0 .. MaxReq
  /\ fileCreated \in BOOLEAN /\ isQshRdy \in BOOLEAN
  /\ member \in {"none", "empty", "partial", "complete"}
  /\ envVars \in 0 .. 2
  /\ tmpFile \in Nat \X Nat

\* The nodes of a request are answered as Batch promises, whatever their
\* kinds do to the recorder that they share.
Promise == INSTANCE Batch WITH
  Plans <- Seq(Nodes), Codes <- Codes, OK <- OK, NoCode <- NoCode,
  plan <- plan, answered <- [i \in DOMAIN answers |-> answers[i].code],
  overall <- status

AnswersInOrder == Promise!Spec

\* src/README.md:149-151, 161-162: a node reports its escape message, or the
\* messages during its execution.  TLC finds this violated: a node that comes
\* after a command whose failure was ignored answers with its messages too.
MessagesAreOwn ==
  \A i \in DOMAIN answers : \A k \in DOMAIN answers[i].msgs :
    answers[i].msgs[k] = <<reqNo, i>>

\* How far that goes: a message that is not the node's own is one of a command
\* whose failure was ignored and that no later command has made the recorder
\* forget.  It is never one of an earlier request.
DropsMessages(i) == plan[i].kind = "CMD"

MessagesHaveReason ==
  \A i \in DOMAIN answers : \A k \in DOMAIN answers[i].msgs :
    LET by == answers[i].msgs[k] IN
    /\ by[1] = reqNo
    /\ by[2] \in 1 .. i
    /\ by[2] # i =>
         /\ plan[by[2]].kind = "CMD" /\ plan[by[2]].error = "IGNORE"
         /\ \A j \in by[2] + 1 .. i - 1 : ~ DropsMessages(j)
         /\ ~ (DropsMessages(i) /\ plan[i].exec # "REXX")

\* A node with an error in its STATUS has a message of its own there that
\* says why, unless the error is what a REXX procedure or a program of PASE
\* has returned: that is a result, and none of them need have sent a message.
ByResult(node, code) ==
  \/ node.exec = "REXX" /\ code = "REXX_RUN"
  \/ node.kind = "PGM" /\ code = "PGM_RUN"

ErrorsAreExplained ==
  \A i \in DOMAIN answers :
    answers[i].code # OK /\ ~ ByResult(plan[i], answers[i].code) =>
      \E k \in DOMAIN answers[i].msgs : answers[i].msgs[k] = <<reqNo, i>>

\* The DATA of a node is output of the node itself, although QSH gets its
\* output through a file in /TMP that may be left there by an earlier one.
DataIsOwn ==
  \A i \in DOMAIN answers : answers[i].data \in {Nobody, <<reqNo, i>>}

\* What the job remembers to have made is there and complete, although making
\* it may have failed half-way before.
StaticsTrue ==
  /\ fileCreated => member = "complete"
  /\ isQshRdy => envVars = 2
=============================================================================
