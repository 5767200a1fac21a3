--------------------------- MODULE DocumentProofs ---------------------------
(***************************************************************************)
(* Proofs about Document and the NodeRun it extends: for any requests,     *)
(* however many, the type invariant, what the job's static variables       *)
(* remember, whose data and messages a node has, and that Batch is         *)
(* implemented; for any text, however long, that parseNode refuses no      *)
(* request of the grammar as none, accepts only what begins with a node,   *)
(* and makes a tree of it whose output has the tokens of the text.         *)
(***************************************************************************)
EXTENDS Document, SequenceLemmas, SequenceTheorems, FiniteSetTheorems, TLAPS

Records == [code : Codes, msgs : Seq(Nat \X Nat)]

\* The nodes before the last one that was run have succeeded.
EarlierAreOK == \A i \in 1 .. Len(answers) : i < Len(answers) => answers[i].code = OK

\* While the nodes are run, the recorder is what the last one has as STATUS.
RecorderIsLast ==
  status = NoCode =>
    IF answers = <<>> THEN fr = Clean
    ELSE fr.code = answers[Len(answers)].code /\ fr.msgs = answers[Len(answers)].msgs

\* In a STATUS without error, messages of its own are of a command whose
\* failure is ignored, and a command has no others.
OwnAreIgnored ==
  \A i \in DOMAIN answers : answers[i].code = OK =>
    \A k \in DOMAIN answers[i].msgs :
      IF answers[i].msgs[k][2] = i
      THEN plan[i].kind = "CMD" /\ plan[i].error = "IGNORE"
      ELSE plan[i].kind # "CMD"

IInv ==
  /\ RunTypeOK /\ StaticsTrue /\ DataIsOwn
  /\ EarlierAreOK /\ RecorderIsLast
  /\ MessagesHaveReason /\ OwnAreIgnored /\ ErrorsAreExplained

-----------------------------------------------------------------------------
(* What an action leaves in the recorder *)

\* The messages of f are those of g and the node's own.
From(f, g) ==
  /\ f \in Records
  /\ \A k \in DOMAIN f.msgs :
       f.msgs[k] = Me \/ \E l \in DOMAIN g.msgs : f.msgs[k] = g.msgs[l]

Own(f) == \E k \in DOMAIN f.msgs : f.msgs[k] = Me

\* What every node's run() does to its STATUS.
Answered ==
  \E f, g, data :
    /\ Answer(f, data)
    /\ g \in {fr, Clean} /\ data \in {Nobody, Me}
    /\ From(f, g)
    /\ Node.kind = "CMD" /\ Node.exec # "REXX" => g = Clean
    /\ f.code # OK /\ ~ ByResult(Node, f.code) => Own(f)
    /\ f.code = OK =>
         IF Node.kind = "CMD"
         THEN g = Clean /\ (Node.error = "IGNORE" \/ f.msgs = <<>>)
         ELSE f.msgs = fr.msgs

\* The clean record, and setting the code.
LEMMA Setting ==
  /\ Clean \in Records /\ Clean.code = OK /\ Clean.msgs = <<>>
  /\ \A f \in Records, c \in Codes :
       /\ SetCode(f, c) \in Records
       /\ SetCode(f, c).code = c /\ SetCode(f, c).msgs = f.msgs
<1>1. <<>> \in Seq(Nat \X Nat) /\ OK \in Codes
  BY DEF Codes
<1>2. Clean \in Records /\ Clean.code = OK /\ Clean.msgs = <<>>
  BY <1>1 DEF Clean, Records
<1>3. ASSUME NEW f \in Records, NEW c \in Codes
      PROVE  /\ SetCode(f, c) \in Records
             /\ SetCode(f, c).code = c /\ SetCode(f, c).msgs = f.msgs
  BY DEF Records, SetCode
<1> QED
  BY <1>2, <1>3

\* A message is added behind the others.
LEMMA Adding ==
  ASSUME NEW f \in Records, NEW by \in Nat \X Nat
  PROVE  /\ AddMessages(f, <<by>>) \in Records
         /\ AddMessages(f, <<by>>).code = f.code
         /\ AddMessages(f, <<by>>).msgs = Append(f.msgs, by)
<1>1. f.msgs \in Seq(Nat \X Nat)
  BY DEF Records
<1>2. f.msgs \o <<by>> = Append(f.msgs, by) /\ Append(f.msgs, by) \in Seq(Nat \X Nat)
  BY <1>1
<1> QED
  BY <1>1, <1>2 DEF AddMessages, Records

\* Messages of the node keep what is from a record from it.
LEMMA Reporting ==
  ASSUME NEW g \in Records, NEW f \in Records, From(f, g), Me \in Nat \X Nat
  PROVE  /\ From(AddMessages(f, <<Me>>), g) /\ Own(AddMessages(f, <<Me>>))
         /\ \A c \in Codes : From(SetCode(f, c), g)
<1>1. /\ AddMessages(f, <<Me>>) \in Records
      /\ AddMessages(f, <<Me>>).msgs = Append(f.msgs, Me)
  BY Adding
<1>2. f.msgs \in Seq(Nat \X Nat)
  BY DEF Records
<1>3. /\ DOMAIN Append(f.msgs, Me) = 1 .. Len(f.msgs) + 1
      /\ Append(f.msgs, Me)[Len(f.msgs) + 1] = Me
      /\ \A k \in DOMAIN f.msgs : Append(f.msgs, Me)[k] = f.msgs[k]
      /\ DOMAIN f.msgs = 1 .. Len(f.msgs)
      /\ Len(f.msgs) \in Nat
  BY <1>2, SMTT(30)
<1>4. Own(AddMessages(f, <<Me>>))
  BY <1>1, <1>3 DEF Own
<1>5. From(AddMessages(f, <<Me>>), g)
  <2> DEFINE h == AddMessages(f, <<Me>>)
  <2>1. h \in Records /\ h.msgs = Append(f.msgs, Me)
    BY <1>1
  <2>2. \A k \in DOMAIN f.msgs : f.msgs[k] = Me \/ \E l \in DOMAIN g.msgs : f.msgs[k] = g.msgs[l]
    BY DEF From
  <2> HIDE DEF h
  <2>3. SUFFICES ASSUME NEW k \in DOMAIN h.msgs
                 PROVE  h.msgs[k] = Me \/ \E l \in DOMAIN g.msgs : h.msgs[k] = g.msgs[l]
    BY <2>1 DEF From, h
  <2>4. k = Len(f.msgs) + 1 \/ k \in DOMAIN f.msgs
    BY <1>3, <2>1, <2>3
  <2>5. CASE k = Len(f.msgs) + 1
    BY <1>3, <2>1, <2>5
  <2>6. CASE k \in DOMAIN f.msgs
    <3>1. h.msgs[k] = f.msgs[k]
      BY <1>3, <2>1, <2>6
    <3> QED
      BY <2>2, <2>6, <3>1
  <2> QED
    BY <2>4, <2>5, <2>6
<1>6. \A c \in Codes : From(SetCode(f, c), g)
  BY Setting DEF From
<1> QED
  BY <1>4, <1>5, <1>6

\* A record is from itself.
LEMMA FromSelf == \A g \in Records : From(g, g)
  BY DEF From

\* A failure leaves a message of the node, and the code unless it is ignored.
LEMMA Failing ==
  ASSUME NEW g \in Records, NEW c \in Codes, Me \in Nat \X Nat
  PROVE  /\ From(Failed(g, c), g) /\ Own(Failed(g, c)) /\ Failed(g, c).code = c
         /\ \A f \in WithJobLog(Failed(g, c)) : From(f, g) /\ Own(f) /\ f.code = c
         /\ \A error : \A f \in AfterFailure(Failed(g, c), error) :
              /\ From(f, g) /\ Own(f)
              /\ f.code = c \/ (error = "IGNORE" /\ f.code = OK)
<1>1. SetCode(g, c) \in Records /\ SetCode(g, c).code = c /\ From(SetCode(g, c), g)
  BY Setting, Reporting, FromSelf
<1>2. /\ From(Failed(g, c), g) /\ Own(Failed(g, c)) /\ Failed(g, c) \in Records
      /\ Failed(g, c).code = c
  BY <1>1, Adding, Reporting DEF Failed, Report, From
<1>3. ASSUME NEW f \in WithJobLog(Failed(g, c))
      PROVE  From(f, g) /\ Own(f) /\ f.code = c
  BY <1>2, Adding, Reporting DEF WithJobLog
<1>4. ASSUME NEW error, NEW f \in AfterFailure(Failed(g, c), error)
      PROVE  /\ From(f, g) /\ Own(f)
             /\ f.code = c \/ (error = "IGNORE" /\ f.code = OK)
  <2>1. OK \in Codes
    BY DEF Codes
  <2>2. CASE error = "ON"
    BY <1>3, <2>2 DEF AfterFailure
  <2>3. CASE error = "IGNORE"
    <3>1. f = SetCode(Failed(g, c), OK)
      BY <2>3 DEF AfterFailure
    <3>2. f.msgs = Failed(g, c).msgs /\ f.code = OK /\ From(f, g)
      BY <3>1, <2>1, <1>2, Setting, Reporting
    <3> QED
      BY <3>2, <2>3, <1>2 DEF Own
  <2>4. CASE error \notin {"ON", "IGNORE"}
    BY <1>2, <2>4 DEF AfterFailure
  <2> QED
    BY <2>2, <2>3, <2>4
<1> QED
  BY <1>2, <1>3, <1>4

-----------------------------------------------------------------------------
(* The kinds of nodes *)

\* The types of the record, of the node and of the request number.
LEMMA Typed == RunTypeOK => fr \in Records /\ Me \in Nat \X Nat /\ reqNo \in Nat
<1> SUFFICES ASSUME RunTypeOK PROVE fr \in Records /\ Me \in Nat \X Nat /\ reqNo \in Nat
  OBVIOUS
<1>1. reqNo \in Nat /\ Len(answers) \in Nat
  BY RunAssumption DEF RunTypeOK
<1> QED
  BY <1>1 DEF RunTypeOK, Records, Me, Current

\* The codes of failures are not OK.
LEMMA CodesAre ==
  /\ OK \in Codes
  /\ \A c \in {"CMD_RUN", "SYSTEM_RUN", "REXX_RUN", "PASE_RUN", "PGM_RUN", "PASE_START",
               "ARGUMENT_INIT", "SQL_RUN", "READ_IFS", "WRITE_IFS"} : c \in Codes /\ c # OK
  BY DEF Codes, OK

\* Done sets the code only.
LEMMA DoneOnly ==
  RunTypeOK => /\ Done(fr) \in Records /\ Done(fr).msgs = fr.msgs /\ Done(fr).code = OK
               /\ \A f : From(f, Done(fr)) => From(f, fr)
<1> SUFFICES ASSUME RunTypeOK
             PROVE  /\ Done(fr) \in Records /\ Done(fr).msgs = fr.msgs /\ Done(fr).code = OK
                    /\ \A f : From(f, Done(fr)) => From(f, fr)
  OBVIOUS
<1>1. fr \in Records /\ OK \in Codes
  BY Typed, CodesAre
<1>2. Done(fr) \in Records /\ Done(fr).msgs = fr.msgs /\ Done(fr).code = OK
  BY <1>1, Setting DEF Done
<1> QED
  BY <1>2 DEF From

\* If a node succeeds, or fails as the others do.
LEMMA AnsweredIf ==
  ASSUME RunTypeOK, NEW f, NEW data \in {Nobody, Me}, NEW g \in {fr, Clean}, Answer(f, data),
         From(f, g), Node.kind = "CMD" /\ Node.exec # "REXX" => g = Clean,
         \/ f.code # OK /\ (ByResult(Node, f.code) \/ Own(f))
         \/ f.code = OK /\ Node.kind = "CMD" /\ g = Clean
              /\ (Node.error = "IGNORE" \/ f.msgs = <<>>)
         \/ f.code = OK /\ Node.kind # "CMD" /\ f.msgs = fr.msgs
  PROVE  Answered
  BY DEF Answered

\* A command is answered.
LEMMA CommandAnswers == RunTypeOK /\ RunCommand => Answered
<1> SUFFICES ASSUME RunTypeOK, RunCommand PROVE Answered
  OBVIOUS
<1> DEFINE code == IF Node.exec = "CMD" THEN "CMD_RUN" ELSE "SYSTEM_RUN"
<1>1. code \in Codes /\ code # OK /\ Node.kind = "CMD" /\ Clean \in Records
  BY CodesAre, Setting DEF RunCommand, Running
<1>2. CASE Answer(Done(Clean), Nobody)
  <2>1. Done(Clean).code = OK /\ Done(Clean).msgs = <<>> /\ From(Done(Clean), Clean)
    BY Setting, CodesAre, FromSelf, Reporting, Typed DEF Done
  <2> QED
    BY <1>1, <1>2, <2>1, AnsweredIf
<1>3. ASSUME NEW error \in EffectiveErrors(Node.error),
             NEW f \in AfterFailure(Failed(Clean, code), error), Answer(f, Nobody)
      PROVE  Answered
  <2>1. /\ From(f, Clean) /\ Own(f)
        /\ f.code = code \/ (error = "IGNORE" /\ f.code = OK)
    BY <1>1, <1>3, Failing, Typed
  <2>2. error = "IGNORE" => Node.error = "IGNORE"
    BY <1>3 DEF EffectiveErrors
  <2> QED
    BY <1>1, <1>3, <2>1, <2>2, AnsweredIf
<1> QED
  BY <1>2, <1>3 DEF RunCommand

\* A REXX command is answered.
LEMMA RexxAnswers == RunTypeOK /\ RunRexx => Answered
<1> SUFFICES ASSUME RunTypeOK, RunRexx PROVE Answered
  OBVIOUS
<1>1. Node.kind = "CMD" /\ Node.exec = "REXX" /\ Clean \in Records /\ fr \in Records
      /\ Me \in Nat \X Nat
  BY Setting, Typed DEF RunRexx, Running
<1>2. ASSUME NEW g \in {fr, Clean}, NEW c \in {"CMD_RUN", "READ_IFS", "REXX_RUN"},
             Answer(Failed(g, c), Nobody)
      PROVE  Answered
  BY <1>1, <1>2, Failing, CodesAre, AnsweredIf
<1>3. CASE Answer(Failed(Done(fr), "WRITE_IFS"), Nobody)
  <2>1. "WRITE_IFS" \in Codes /\ "WRITE_IFS" # OK
    BY CodesAre
  <2>2. /\ From(Failed(Done(fr), "WRITE_IFS"), Done(fr)) /\ Own(Failed(Done(fr), "WRITE_IFS"))
        /\ Failed(Done(fr), "WRITE_IFS").code = "WRITE_IFS"
    BY <1>1, <2>1, DoneOnly, Failing
  <2>3. From(Failed(Done(fr), "WRITE_IFS"), fr)
    BY <2>2, DoneOnly
  <2> QED
    BY <1>1, <1>3, <2>1, <2>2, <2>3, AnsweredIf
<1>4. ASSUME NEW f \in WithJobLog(SetCode(Clean, "REXX_RUN")), Answer(f, Nobody)
      PROVE  Answered
  <2>1. /\ SetCode(Clean, "REXX_RUN") \in Records /\ From(SetCode(Clean, "REXX_RUN"), Clean)
        /\ SetCode(Clean, "REXX_RUN").code = "REXX_RUN"
    BY <1>1, Setting, CodesAre, FromSelf, Reporting
  <2>2. From(f, Clean) /\ f.code = "REXX_RUN"
    BY <1>1, <1>4, <2>1, Adding, Reporting DEF WithJobLog
  <2>3. ByResult(Node, f.code)
    BY <1>1, <2>2 DEF ByResult
  <2> QED
    BY <1>1, <1>4, <2>2, <2>3, CodesAre, AnsweredIf
<1>5. CASE Answer(Clean, Me)
  BY <1>1, <1>5, Setting, FromSelf, AnsweredIf
<1> QED
  BY <1>2, <1>3, <1>4, <1>5 DEF RunRexx, MakeTemplate, RexxOutcome, Failed

\* Shells, programs and SQL: what is in the recorder stays.
LEMMA OthersFail ==
  ASSUME RunTypeOK, Node \in Nodes, Node.kind # "CMD", NEW g \in {fr, Done(fr)},
         NEW c \in {"PASE_RUN", "PGM_RUN", "PASE_START", "ARGUMENT_INIT", "SQL_RUN", "CMD_RUN",
                   "READ_IFS"},
         NEW data \in {Nobody, Me}
  PROVE  /\ Answer(Failed(g, c), data) => Answered
         /\ \A f \in WithJobLog(Failed(g, c)) : Answer(f, data) => Answered
         /\ \A error \in EffectiveErrors(Node.error) :
              \A f \in AfterFailure(Failed(g, c), error) : Answer(f, data) => Answered
<1>1. /\ g \in Records /\ fr \in Records /\ Me \in Nat \X Nat
      /\ \A f : From(f, g) => From(f, fr)
  BY Typed, DoneOnly
<1>2. c \in Codes /\ c # OK
  BY CodesAre
<1>4. \A error \in EffectiveErrors(Node.error) : error # "IGNORE"
  BY DEF EffectiveErrors, Nodes
<1>5. ASSUME NEW f, From(f, g), Own(f), f.code = c, Answer(f, data) PROVE Answered
  BY <1>1, <1>2, <1>5, AnsweredIf
<1> QED
  BY <1>1, <1>2, <1>4, <1>5, Failing

\* What succeeds is answered.
LEMMA OthersSucceed ==
  ASSUME RunTypeOK, Node.kind # "CMD", fr.code = OK, NEW g \in {fr, Done(fr)},
         NEW data \in {Nobody, Me}, Answer(g, data)
  PROVE  Answered
<1>1. g.code = OK /\ g.msgs = fr.msgs /\ g \in Records
  BY Typed, DoneOnly
<1>2. From(g, fr)
  BY <1>1, Typed DEF From
<1> QED
  BY <1>1, <1>2, AnsweredIf

\* The node that is run is one of the plan.
LEMMA NodeIsOne == RunTypeOK /\ Current <= Len(plan) => Node \in Nodes
<1> SUFFICES ASSUME RunTypeOK, Current <= Len(plan) PROVE Node \in Nodes
  OBVIOUS
<1>1. plan \in Seq(Nodes) /\ Current \in 1 .. Len(plan)
  BY DEF RunTypeOK, Current
<1> QED
  BY <1>1 DEF Node

\* A program with a result other than 0 is answered.
LEMMA ResultAnswers ==
  ASSUME RunTypeOK, Node \in Nodes, Node.kind = "PGM",
         NEW error \in EffectiveErrors(Node.error),
         NEW f \in AfterFailure(SetCode(fr, "PGM_RUN"), error), Answer(f, Nobody)
  PROVE  Answered
<1> DEFINE g == SetCode(fr, "PGM_RUN")
<1>1. fr \in Records /\ Me \in Nat \X Nat /\ "PGM_RUN" \in Codes /\ "PGM_RUN" # OK
  BY Typed, CodesAre
<1>2. g \in Records /\ From(g, fr) /\ g.code = "PGM_RUN"
  BY <1>1, Setting, FromSelf, Reporting
<1>3. error # "IGNORE"
  BY DEF EffectiveErrors, Nodes
<1>4. f \in WithJobLog(g)
  BY <1>3 DEF AfterFailure, WithJobLog
<1>5. From(f, fr) /\ f.code = "PGM_RUN"
  BY <1>1, <1>2, <1>4, Adding, Reporting DEF WithJobLog
<1>6. ByResult(Node, f.code)
  BY <1>5 DEF ByResult
<1> QED
  BY <1>1, <1>5, <1>6, AnsweredIf

\* Nodes other than commands are answered.
LEMMA OthersAnswer ==
  ASSUME RunTypeOK, RunShell \/ RunQshell \/ RunProgram \/ RunSql \/ RunJobInfo
  PROVE  Answered
<1>1. /\ Node \in Nodes /\ Node.kind # "CMD" /\ fr.code = OK
  BY NodeIsOne DEF RunShell, RunQshell, RunProgram, RunSql, RunJobInfo, Running
<1>2. CASE RunShell
  BY <1>1, <1>2, OthersFail, OthersSucceed DEF RunShell
<1>3. CASE RunQshell
  <2>1. CASE SetEnvVars
    BY <1>1, <2>1, OthersFail DEF SetEnvVars
  <2>2. CASE QshFailure
    <3> DEFINE f == Failed(Done(fr), "CMD_RUN")
    <3>1. CASE \E g \in WithJobLog(f) : Answer(g, Nobody)
      BY <1>1, <3>1, OthersFail
    <3>2. CASE Answer(f, Nobody)
      BY <1>1, <3>2, OthersFail
    <3>3. CASE Answer(Failed(f, "READ_IFS"), Nobody)
      <4>1. /\ "CMD_RUN" \in Codes /\ "READ_IFS" \in Codes /\ "READ_IFS" # OK
            /\ Me \in Nat \X Nat /\ Done(fr) \in Records
        BY Typed, DoneOnly, CodesAre
      <4>2. From(f, Done(fr))
        BY <4>1, Failing
      <4>3. f \in Records /\ From(f, fr)
        BY <4>2, DoneOnly DEF From
      <4>4. /\ From(Failed(f, "READ_IFS"), f) /\ Own(Failed(f, "READ_IFS"))
            /\ Failed(f, "READ_IFS").code = "READ_IFS"
        BY <4>1, <4>3, Failing
      <4>5. From(Failed(f, "READ_IFS"), fr)
        BY <4>3, <4>4 DEF From
      <4> QED
        BY <1>1, <3>3, <4>1, <4>4, <4>5, AnsweredIf
    <3> QED
      BY <2>2, <3>1, <3>2, <3>3 DEF QshFailure
  <2>3. CASE QshSuccess
    BY <1>1, <2>3, OthersFail, OthersSucceed DEF QshSuccess
  <2> QED
    BY <1>3, <2>1, <2>2, <2>3 DEF RunQshell
<1>4. CASE RunProgram
  <2>1. ASSUME NEW error \in EffectiveErrors(Node.error),
               NEW f \in AfterFailure(SetCode(fr, "PGM_RUN"), error), Answer(f, Nobody)
        PROVE  Answered
    BY <1>1, <1>4, <2>1, ResultAnswers DEF RunProgram, Running
  <2> QED
    BY <1>1, <1>4, <2>1, OthersFail, OthersSucceed DEF RunProgram
<1>5. CASE RunSql
  BY <1>1, <1>5, OthersFail, OthersSucceed DEF RunSql
<1>6. CASE RunJobInfo
  BY <1>1, <1>6, OthersSucceed DEF RunJobInfo
<1> QED
  BY <1>2, <1>3, <1>4, <1>5, <1>6

\* Every node is answered.
LEMMA EveryNodeAnswers ==
  ASSUME RunTypeOK, RunStep, ~ FinishRequest
  PROVE  Answered /\ status = NoCode /\ fr.code = OK /\ Current <= Len(plan)
  BY CommandAnswers, RexxAnswers, OthersAnswer
     DEF RunStep, RunCommand, RunRexx, RunShell, RunQshell, RunProgram, RunSql, RunJobInfo, Running

-----------------------------------------------------------------------------
(* The invariant *)

\* A message that is in the recorder when a node is about to run is that of a
\* command whose failure was ignored, with no command since.
LEMMA RecorderReason ==
  ASSUME IInv, status = NoCode, fr.code = OK, NEW l \in DOMAIN fr.msgs
  PROVE  /\ fr.msgs[l][1] = reqNo /\ fr.msgs[l][2] \in 1 .. Len(answers)
         /\ plan[fr.msgs[l][2]].kind = "CMD" /\ plan[fr.msgs[l][2]].error = "IGNORE"
         /\ \A j \in fr.msgs[l][2] + 1 .. Len(answers) : ~ DropsMessages(j)
<1> DEFINE n == Len(answers)
           by == fr.msgs[l]
<1>1. answers # <<>> /\ fr.code = answers[n].code /\ fr.msgs = answers[n].msgs
  BY Setting DEF IInv, RecorderIsLast
<1>2. n \in DOMAIN answers /\ n \in Nat \ {0}
  BY <1>1 DEF IInv, RunTypeOK
<1>3. /\ by[1] = reqNo /\ by[2] \in 1 .. n
      /\ by[2] # n =>
           /\ plan[by[2]].kind = "CMD" /\ plan[by[2]].error = "IGNORE"
           /\ \A j \in by[2] + 1 .. n - 1 : ~ DropsMessages(j)
  BY <1>1, <1>2 DEF IInv, MessagesHaveReason
<1>4. IF by[2] = n THEN plan[n].kind = "CMD" /\ plan[n].error = "IGNORE"
                   ELSE plan[n].kind # "CMD"
  BY <1>1, <1>2 DEF IInv, OwnAreIgnored
<1>5. \A j \in by[2] + 1 .. n : ~ DropsMessages(j)
  <2> SUFFICES ASSUME NEW j \in by[2] + 1 .. n PROVE ~ DropsMessages(j)
    OBVIOUS
  <2>1. CASE j = n
    BY <1>2, <1>3, <1>4, <2>1 DEF DropsMessages
  <2>2. CASE j # n
    BY <1>2, <1>3, <2>2
  <2> QED
    BY <2>1, <2>2
<1> QED
  BY <1>3, <1>4, <1>5

\* What an answer adds to the answers.
LEMMA OneMore ==
  ASSUME RunTypeOK, NEW f, NEW data, Answer(f, data), Current <= Len(plan)
  PROVE  /\ fr' = f /\ plan' = plan /\ status' = status /\ reqNo' = reqNo
         /\ Len(answers) \in Nat /\ Current = Len(answers) + 1
         /\ Len(answers') = Current /\ DOMAIN answers' = 1 .. Current
         /\ DOMAIN answers = 1 .. Len(answers)
         /\ answers'[Current] = [code |-> f.code, msgs |-> f.msgs, data |-> data]
         /\ \A i \in 1 .. Len(answers) : answers'[i] = answers[i]
         /\ answers' # <<>>
<1>1. /\ answers \in Seq([code : Codes, msgs : Seq(Nat \X Nat), data : Nat \X Nat])
      /\ answers' = Append(answers, [code |-> f.code, msgs |-> f.msgs, data |-> data])
      /\ fr' = f /\ plan' = plan /\ status' = status /\ reqNo' = reqNo
  BY DEF RunTypeOK, Answer
<1>2. /\ Len(answers) \in Nat /\ DOMAIN answers = 1 .. Len(answers)
      /\ Len(answers') = Len(answers) + 1 /\ DOMAIN answers' = 1 .. Len(answers')
      /\ answers'[Len(answers) + 1] = [code |-> f.code, msgs |-> f.msgs, data |-> data]
      /\ \A i \in 1 .. Len(answers) : answers'[i] = answers[i]
  BY <1>1
<1>3. answers' # <<>>
  BY <1>2
<1> QED
  BY <1>1, <1>2, <1>3 DEF Current

\* An answer keeps the types.
LEMMA AnsweredType ==
  ASSUME RunTypeOK, NEW f \in Records, NEW data \in {Nobody, Me}, Answer(f, data),
         Current <= Len(plan)
  PROVE  /\ fr' \in Records /\ plan' \in Seq(Nodes) /\ Len(answers') <= Len(plan')
         /\ answers' \in Seq([code : Codes, msgs : Seq(Nat \X Nat), data : Nat \X Nat])
         /\ status' \in Codes \cup {NoCode} /\ reqNo' \in 0 .. MaxReq
<1>1. Me \in Nat \X Nat /\ Nobody \in Nat \X Nat
  BY Typed DEF Nobody
<1>2. [code |-> f.code, msgs |-> f.msgs, data |-> data]
        \in [code : Codes, msgs : Seq(Nat \X Nat), data : Nat \X Nat]
  BY <1>1 DEF Records
<1>3. answers' = Append(answers, [code |-> f.code, msgs |-> f.msgs, data |-> data])
  BY DEF Answer
<1>4. answers' \in Seq([code : Codes, msgs : Seq(Nat \X Nat), data : Nat \X Nat])
  BY <1>2, <1>3 DEF RunTypeOK
<1>5. fr' = f /\ plan' = plan /\ status' = status /\ reqNo' = reqNo /\ Len(answers') = Current
  BY OneMore
<1> QED
  BY <1>4, <1>5 DEF RunTypeOK

\* What the answers of the nodes have in common.
Answers ==
  /\ DataIsOwn /\ EarlierAreOK /\ RecorderIsLast
  /\ MessagesHaveReason /\ OwnAreIgnored /\ ErrorsAreExplained

\* An answer keeps what is said of the answers.
LEMMA AnsweredKeeps ==
  ASSUME IInv, Answered, status = NoCode, fr.code = OK, Current <= Len(plan)
  PROVE  Answers'
<1> USE DEF IInv
<1>1. PICK f, g, data :
        /\ Answer(f, data)
        /\ g \in {fr, Clean} /\ data \in {Nobody, Me}
        /\ From(f, g)
        /\ Node.kind = "CMD" /\ Node.exec # "REXX" => g = Clean
        /\ f.code # OK /\ ~ ByResult(Node, f.code) => Own(f)
        /\ f.code = OK =>
             IF Node.kind = "CMD"
             THEN g = Clean /\ (Node.error = "IGNORE" \/ f.msgs = <<>>)
             ELSE f.msgs = fr.msgs
  BY DEF Answered
<1> DEFINE n == Len(answers)
<1>2. /\ fr' = f /\ plan' = plan /\ status' = status /\ reqNo' = reqNo
      /\ n \in Nat /\ Current = n + 1
      /\ Len(answers') = n + 1 /\ DOMAIN answers' = 1 .. n + 1 /\ DOMAIN answers = 1 .. n
      /\ answers'[n + 1] = [code |-> f.code, msgs |-> f.msgs, data |-> data]
      /\ \A i \in 1 .. n : answers'[i] = answers[i]
      /\ answers' # <<>>
  BY <1>1, OneMore
<1>3. Node = plan[n + 1] /\ Me = <<reqNo, n + 1>>
  BY <1>2 DEF Node, Me
<1>4. \A i \in DOMAIN answers' : i \in 1 .. n \/ i = n + 1
  BY <1>2
<1>5. DataIsOwn'
  BY <1>1, <1>2, <1>3, <1>4 DEF DataIsOwn
<1>6. EarlierAreOK'
  <2>1. \A i \in 1 .. n : answers[i].code = OK
    <3>1. n > 0 => answers[n].code = OK
      BY <1>2, Setting DEF RecorderIsLast
    <3> QED
      BY <3>1, <1>2 DEF EarlierAreOK
  <2> QED
    BY <2>1, <1>2 DEF EarlierAreOK
<1>7. RecorderIsLast'
  BY <1>2 DEF RecorderIsLast
<1>8. ASSUME NEW k \in DOMAIN f.msgs, f.msgs[k] # Me
      PROVE  /\ ~ (Node.kind = "CMD" /\ Node.exec # "REXX")
             /\ f.code = OK => Node.kind # "CMD"
             /\ \E l \in DOMAIN fr.msgs : f.msgs[k] = fr.msgs[l]
  <2>1. PICK l \in DOMAIN g.msgs : f.msgs[k] = g.msgs[l]
    BY <1>1, <1>8 DEF From
  <2>2. g # Clean
    BY <2>1, Setting
  <2> QED
    BY <1>1, <2>1, <2>2
<1>9. MessagesHaveReason'
  <2> SUFFICES ASSUME NEW i \in DOMAIN answers', NEW k \in DOMAIN answers'[i].msgs
               PROVE  LET by == answers'[i].msgs[k] IN
                      /\ by[1] = reqNo
                      /\ by[2] \in 1 .. i
                      /\ by[2] # i =>
                           /\ plan[by[2]].kind = "CMD" /\ plan[by[2]].error = "IGNORE"
                           /\ \A j \in by[2] + 1 .. i - 1 : ~ DropsMessages(j)
                           /\ ~ (DropsMessages(i) /\ plan[i].exec # "REXX")
    BY <1>2 DEF MessagesHaveReason, DropsMessages
  <2>1. CASE i \in 1 .. n
    BY <1>2, <2>1 DEF MessagesHaveReason
  <2>2. CASE i = n + 1 /\ f.msgs[k] = Me
    BY <1>2, <1>3, <2>2
  <2>3. CASE i = n + 1 /\ f.msgs[k] # Me
    <3>1. PICK l \in DOMAIN fr.msgs : f.msgs[k] = fr.msgs[l]
      BY <1>2, <1>8, <2>3
    <3>2. /\ fr.msgs[l][1] = reqNo /\ fr.msgs[l][2] \in 1 .. n
          /\ plan[fr.msgs[l][2]].kind = "CMD" /\ plan[fr.msgs[l][2]].error = "IGNORE"
          /\ \A j \in fr.msgs[l][2] + 1 .. n : ~ DropsMessages(j)
      BY RecorderReason
    <3>3. ~ (DropsMessages(i) /\ plan[i].exec # "REXX")
      BY <1>2, <1>3, <1>8, <2>3 DEF DropsMessages
    <3> QED
      BY <1>2, <2>3, <3>1, <3>2, <3>3
  <2> QED
    BY <1>4, <2>1, <2>2, <2>3
<1>10. OwnAreIgnored'
  <2> SUFFICES ASSUME NEW i \in DOMAIN answers', answers'[i].code = OK,
                      NEW k \in DOMAIN answers'[i].msgs
               PROVE  IF answers'[i].msgs[k][2] = i
                      THEN plan[i].kind = "CMD" /\ plan[i].error = "IGNORE"
                      ELSE plan[i].kind # "CMD"
    BY <1>2 DEF OwnAreIgnored
  <2>1. CASE i \in 1 .. n
    BY <1>2, <2>1 DEF OwnAreIgnored
  <2>2. CASE i = n + 1 /\ Node.kind = "CMD"
    BY <1>1, <1>2, <1>3, <1>8, <2>2
  <2>3. CASE i = n + 1 /\ Node.kind # "CMD"
    <3>1. f.msgs = fr.msgs /\ k \in DOMAIN fr.msgs
      BY <1>1, <1>2, <2>3
    <3>2. fr.msgs[k][2] \in 1 .. n
      BY <3>1, RecorderReason
    <3> QED
      BY <1>2, <1>3, <2>3, <3>1, <3>2
  <2> QED
    BY <1>4, <2>1, <2>2, <2>3
<1>11. ErrorsAreExplained'
  <2> SUFFICES ASSUME NEW i \in DOMAIN answers',
                      answers'[i].code # OK /\ ~ ByResult(plan[i], answers'[i].code)
               PROVE  \E k \in DOMAIN answers'[i].msgs : answers'[i].msgs[k] = <<reqNo, i>>
    BY <1>2 DEF ErrorsAreExplained
  <2>1. CASE i \in 1 .. n
    BY <1>2, <2>1 DEF ErrorsAreExplained
  <2>2. CASE i = n + 1
    BY <1>1, <1>2, <1>3, <2>2 DEF Own
  <2> QED
    BY <1>4, <2>1, <2>2
<1> QED
  BY <1>5, <1>6, <1>7, <1>9, <1>10, <1>11 DEF Answers

\* What the job remembers.
StaticsType ==
  /\ fileCreated \in BOOLEAN /\ isQshRdy \in BOOLEAN
  /\ member \in {"none", "empty", "partial", "complete"}
  /\ envVars \in 0 .. 2
  /\ tmpFile \in Nat \X Nat

\* Running a node keeps what is said of the static variables.
LEMMA StaticsStep ==
  ASSUME RunTypeOK, StaticsTrue, RunStep
  PROVE  StaticsType' /\ StaticsTrue'
<1> USE DEF StaticsTrue, statics
<1>0. StaticsType /\ Me \in Nat \X Nat /\ Nobody \in Nat \X Nat
  BY Typed DEF RunTypeOK, StaticsType, Nobody
<1>1. CASE UNCHANGED statics
  BY <1>0, <1>1 DEF StaticsType
<1>2. CASE RunRexx
  <2>1. UNCHANGED <<isQshRdy, envVars, tmpFile>>
    BY <1>2 DEF RunRexx
  <2>2. CASE ~ fileCreated /\ MakeTemplate
    BY <1>0, <2>1, <2>2 DEF MakeTemplate, StaticsType
  <2>3. CASE /\ member' = IF fileCreated THEN member ELSE "complete"
             /\ fileCreated' = TRUE
    BY <1>0, <2>1, <2>3 DEF StaticsType
  <2> QED
    BY <1>2, <2>2, <2>3 DEF RunRexx
<1>3. CASE RunQshell
  <2>1. UNCHANGED <<fileCreated, member>>
    BY <1>3 DEF RunQshell
  <2>2. CASE ~ isQshRdy /\ SetEnvVars /\ UNCHANGED <<isQshRdy, tmpFile>>
    BY <1>0, <2>1, <2>2 DEF SetEnvVars, StaticsType
  <2>3. CASE /\ envVars' = IF isQshRdy THEN envVars ELSE 2
             /\ isQshRdy' = TRUE
             /\ QshFailure \/ QshSuccess
    <3>1. tmpFile' \in {Nobody, tmpFile, Me}
      BY <2>3 DEF QshFailure, QshSuccess
    <3> QED
      BY <1>0, <2>1, <2>3, <3>1 DEF StaticsType
  <2> QED
    BY <1>3, <2>2, <2>3 DEF RunQshell
<1> QED
  BY <1>1, <1>2, <1>3
     DEF RunStep, RunCommand, RunShell, RunProgram, RunSql, RunJobInfo, FinishRequest

\* Every step keeps the invariant.
LEMMA Invariance == IInv /\ [RunNext]_<<runVars, fr>> => IInv'
<1> SUFFICES ASSUME IInv, [RunNext]_<<runVars, fr>> PROVE IInv'
  OBVIOUS
<1>0. /\ RunTypeOK /\ StaticsTrue /\ Answers /\ StaticsType
  BY DEF IInv, Answers, RunTypeOK, StaticsType
<1>1. ASSUME RunTypeOK', StaticsTrue', Answers' PROVE IInv'
  BY <1>1 DEF IInv, Answers
<1>2. CASE RunStep /\ ~ FinishRequest
  <2>1. Answered /\ status = NoCode /\ fr.code = OK /\ Current <= Len(plan)
    BY <1>0, <1>2, EveryNodeAnswers
  <2>2. Answers'
    BY <2>1, AnsweredKeeps
  <2>3. StaticsType' /\ StaticsTrue'
    BY <1>0, <1>2, StaticsStep
  <2>4. PICK f \in Records, data \in {Nobody, Me} : Answer(f, data)
    BY <2>1 DEF Answered, From
  <2>5. RunTypeOK'
    BY <1>0, <2>1, <2>3, <2>4, AnsweredType DEF RunTypeOK, StaticsType, Records
  <2> QED
    BY <1>1, <2>2, <2>3, <2>5
<1>3. CASE FinishRequest
  <2>1. /\ UNCHANGED <<fr, plan, answers, reqNo, statics>> /\ status' = fr.code
        /\ fr.code \in Codes /\ status' # NoCode
    <3>1. fr.code \in Codes
      BY <1>0, Typed DEF Records
    <3> QED
      BY <1>3, <3>1 DEF FinishRequest, Codes, OK, NoCode
  <2>2. RunTypeOK' /\ StaticsTrue'
    BY <1>0, <2>1 DEF RunTypeOK, StaticsTrue, statics
  <2>3. ErrorsAreExplained'
    BY <1>0, <2>1, Zenon DEF Answers, ErrorsAreExplained
  <2>4. /\ DataIsOwn' /\ EarlierAreOK' /\ RecorderIsLast'
        /\ MessagesHaveReason' /\ OwnAreIgnored'
    BY <1>0, <2>1 DEF Answers, DataIsOwn, EarlierAreOK, RecorderIsLast, MessagesHaveReason,
                      OwnAreIgnored, DropsMessages
  <2> QED
    BY <1>1, <2>2, <2>3, <2>4 DEF Answers
<1>4. CASE NextRequest
  <2>1. PICK runs \in Plans : Load(runs)
    BY <1>4 DEF NextRequest
  <2>2. /\ fr' = Clean /\ plan' = runs /\ answers' = <<>> /\ status' = NoCode
        /\ UNCHANGED statics /\ reqNo' = reqNo + 1 /\ reqNo < MaxReq /\ runs \in Seq(Nodes)
    BY <1>4, <2>1, RunAssumption DEF NextRequest, Load
  <2>3. RunTypeOK' /\ StaticsTrue'
    <3>1. fr' \in [code : Codes, msgs : Seq(Nat \X Nat)]
      BY <2>2, Setting DEF Records
    <3>2. reqNo' \in 0 .. MaxReq
      BY <1>0, <2>2, RunAssumption DEF RunTypeOK
    <3>3. Len(answers') = 0 /\ Len(plan') \in Nat /\ plan' \in Seq(Nodes)
          /\ answers' \in Seq([code : Codes, msgs : Seq(Nat \X Nat), data : Nat \X Nat])
      BY <2>2
    <3> QED
      BY <1>0, <2>2, <3>1, <3>2, <3>3 DEF RunTypeOK, StaticsTrue, statics
  <2>4. DOMAIN answers' = {} /\ Len(answers') = 0
    BY <2>2
  <2>5. Answers'
    BY <2>2, <2>4 DEF Answers, DataIsOwn, EarlierAreOK, RecorderIsLast, MessagesHaveReason,
                      OwnAreIgnored, ErrorsAreExplained
  <2> QED
    BY <1>1, <2>3, <2>5
<1>5. CASE UNCHANGED <<runVars, fr>>
  <2>1. UNCHANGED <<fr, plan, answers, status, reqNo, fileCreated, member, isQshRdy, envVars, tmpFile>>
    BY <1>5 DEF runVars, statics
  <2>2. RunTypeOK' /\ StaticsTrue'
    BY <1>0, <2>1 DEF RunTypeOK, StaticsTrue
  <2>3. Answers'
    BY <1>0, <2>1, ZenonT(60) DEF Answers, DataIsOwn, EarlierAreOK, RecorderIsLast, MessagesHaveReason,
                      OwnAreIgnored, ErrorsAreExplained, DropsMessages
  <2> QED
    BY <1>1, <2>2, <2>3
<1> QED
  BY <1>2, <1>3, <1>4, <1>5 DEF RunNext

\* It holds initially.
LEMMA Initial == RunInit => IInv
<1> SUFFICES ASSUME RunInit PROVE IInv
  OBVIOUS
<1>1. /\ DOMAIN answers = {} /\ Len(answers) = 0 /\ Len(plan) = 0 /\ plan \in Seq(Nodes)
      /\ answers \in Seq([code : Codes, msgs : Seq(Nat \X Nat), data : Nat \X Nat])
  BY DEF RunInit
<1>2. /\ fr \in [code : Codes, msgs : Seq(Nat \X Nat)] /\ status \in Codes
      /\ status # NoCode /\ reqNo \in 0 .. MaxReq /\ tmpFile \in Nat \X Nat
  BY Setting, CodesAre, RunAssumption DEF RunInit, Records, Nobody, OK, NoCode
<1>3. StaticsType /\ StaticsTrue
  <2>1. fileCreated = FALSE /\ isQshRdy = FALSE /\ member = "none" /\ envVars = 0
    BY DEF RunInit
  <2>2. ~ fileCreated /\ ~ isQshRdy /\ fileCreated \in BOOLEAN /\ isQshRdy \in BOOLEAN
    BY <2>1
  <2>3. envVars \in 0 .. 2 /\ member \in {"none", "empty", "partial", "complete"}
    BY <2>1
  <2> QED
    BY <1>2, <2>2, <2>3 DEF StaticsType, StaticsTrue
<1>4. RunTypeOK
  BY <1>1, <1>2, <1>3 DEF RunTypeOK, StaticsType
<1>5. status # NoCode
  BY <1>2
<1> QED
  BY <1>1, <1>3, <1>4, <1>5 DEF IInv, DataIsOwn, EarlierAreOK, RecorderIsLast,
                                MessagesHaveReason, OwnAreIgnored, ErrorsAreExplained

\* So it holds in every state.
LEMMA Inductive == RunSpec => []IInv
  BY Initial, Invariance, PTL DEF RunSpec

-----------------------------------------------------------------------------
(* The theorems *)

\* Everything has its type: no answer for a node that is not there.
THEOREM TypeCorrect == RunSpec => []RunTypeOK
  BY Inductive, PTL DEF IInv

\* A static variable never says that something is ready that is not.
THEOREM StaticsAreTrue == RunSpec => []StaticsTrue
  BY Inductive, PTL DEF IInv

\* The DATA of a node is its own output.
THEOREM DataIsAlwaysOwn == RunSpec => []DataIsOwn
  BY Inductive, PTL DEF IInv

\* A message in a STATUS is the node's own or that of an ignored command.
THEOREM MessagesAlwaysHaveReason == RunSpec => []MessagesHaveReason
  BY Inductive, PTL DEF IInv

\* A node with an error says why, unless the error is a result.
THEOREM ErrorsAreAlwaysExplained == RunSpec => []ErrorsAreExplained
  BY Inductive, PTL DEF IInv

-----------------------------------------------------------------------------
(* Batch is implemented *)

codes == [i \in DOMAIN answers |-> answers[i].code]

\* The codes of the answers.
LEMMA CodesAreASeq ==
  RunTypeOK => /\ codes \in Seq(Codes) /\ Len(codes) = Len(answers)
               /\ \A i \in 1 .. Len(answers) : codes[i] = answers[i].code
<1> SUFFICES ASSUME RunTypeOK
             PROVE  /\ codes \in Seq(Codes) /\ Len(codes) = Len(answers)
                    /\ \A i \in 1 .. Len(answers) : codes[i] = answers[i].code
  OBVIOUS
<1>1. /\ Len(answers) \in Nat /\ DOMAIN answers = 1 .. Len(answers)
      /\ \A i \in 1 .. Len(answers) : answers[i].code \in Codes
  <2>1. answers \in Seq([code : Codes, msgs : Seq(Nat \X Nat), data : Nat \X Nat])
    BY DEF RunTypeOK
  <2>2. \A i \in 1 .. Len(answers) :
          answers[i] \in [code : Codes, msgs : Seq(Nat \X Nat), data : Nat \X Nat]
    BY <2>1, ElementOfSeq
  <2> QED
    BY <2>1, <2>2
<1>2. codes \in [1 .. Len(answers) -> Codes]
  BY <1>1 DEF codes
<1>3. codes \in Seq(Codes)
  BY <1>1, <1>2, SeqDef
<1> QED
  BY <1>1, <1>2, <1>3 DEF codes

\* With no answer there is no code.
LEMMA NoCodes == RunTypeOK /\ Len(answers) = 0 => codes = <<>>
<1> SUFFICES ASSUME RunTypeOK, Len(answers) = 0 PROVE codes = <<>>
  OBVIOUS
<1>1. codes \in Seq(Codes) /\ Len(codes) = 0
  BY CodesAreASeq
<1> QED
  BY <1>1, EmptySeq

\* The initial states are those of Batch.
LEMMA InitRefines == RunInit => Promise!Init
<1> SUFFICES ASSUME RunInit PROVE Promise!Init
  OBVIOUS
<1>1. codes = <<>>
  <2>1. RunTypeOK /\ Len(answers) = 0
    BY Initial DEF IInv, RunInit
  <2> QED
    BY <2>1, NoCodes
<1> QED
  BY <1>1 DEF Promise!Init, RunInit, codes

\* A step is one of Batch, or none.
LEMMA NextRefines ==
  ASSUME IInv, IInv', [RunNext]_<<runVars, fr>>
  PROVE  [Promise!Next]_(Promise!vars)
<1> DEFINE n == Len(answers)
           Well == \A i \in 1 .. n : answers[i].code = OK
<1>1. /\ codes \in Seq(Codes) /\ Len(codes) = n /\ n \in Nat
      /\ \A i \in 1 .. n : codes[i] = answers[i].code
      /\ codes' \in Seq(Codes) /\ Len(codes') = Len(answers')
      /\ \A i \in 1 .. Len(answers') : codes'[i] = answers'[i].code
  <2>1. (RunTypeOK => /\ codes \in Seq(Codes) /\ Len(codes) = Len(answers)
                      /\ \A i \in 1 .. Len(answers) : codes[i] = answers[i].code)'
    BY CodesAreASeq, PTL
  <2>2. RunTypeOK /\ RunTypeOK'
    BY DEF IInv
  <2>3. /\ codes \in Seq(Codes) /\ Len(codes) = n
        /\ \A i \in 1 .. n : codes[i] = answers[i].code
    BY <2>2, CodesAreASeq
  <2>4. /\ codes' \in Seq(Codes) /\ Len(codes') = Len(answers')
        /\ \A i \in 1 .. Len(answers') : codes'[i] = answers'[i].code
    BY <2>1, <2>2
  <2>5. n \in Nat
    BY <2>3
  <2> QED
    BY <2>3, <2>4, <2>5
<1>2. Promise!AllWell(codes) <=> Well
  BY <1>1 DEF Promise!AllWell
<1>3. status = NoCode /\ fr.code = OK => Well
  BY Setting, <1>1 DEF IInv, EarlierAreOK, RecorderIsLast
<1>4. status = NoCode /\ fr.code # OK => n > 0 /\ ~ Well /\ fr.code = answers[n].code
  <2> SUFFICES ASSUME status = NoCode, fr.code # OK
               PROVE  n > 0 /\ ~ Well /\ fr.code = answers[n].code
    OBVIOUS
  <2>1. answers # <<>> /\ fr.code = answers[n].code
    BY Setting DEF IInv, RecorderIsLast
  <2>2. n > 0
    BY <2>1 DEF IInv, RunTypeOK
  <2> QED
    BY <2>1, <2>2, <1>1
<1>5. CASE RunStep /\ ~ FinishRequest
  <2>1. Answered /\ status = NoCode /\ fr.code = OK /\ Current <= Len(plan)
    BY <1>5, EveryNodeAnswers DEF IInv
  <2>2. PICK f \in Records, data \in {Nobody, Me} : Answer(f, data)
    BY <2>1 DEF Answered, From
  <2>3. /\ plan' = plan /\ status' = status /\ Len(answers') = n + 1 /\ Current = n + 1
        /\ answers'[n + 1].code = f.code
        /\ \A i \in 1 .. n : answers'[i] = answers[i]
    <3>1. /\ plan' = plan /\ status' = status /\ Len(answers') = Current /\ Current = n + 1
          /\ answers'[Current] = [code |-> f.code, msgs |-> f.msgs, data |-> data]
          /\ \A i \in 1 .. n : answers'[i] = answers[i]
      BY <2>1, <2>2, OneMore DEF IInv
    <3> QED
      BY <3>1
  <2>4. f.code \in Codes
    BY DEF Records
  <2>5. codes' = Append(codes, f.code)
    <3>1. Append(codes, f.code) \in Seq(Codes) /\ Len(Append(codes, f.code)) = n + 1
      BY <1>1, <2>4
    <3>2. \A i \in 1 .. n + 1 : codes'[i] = Append(codes, f.code)[i]
      BY <1>1, <2>3, <2>4
    <3> QED
      BY <1>1, <2>3, <3>1, <3>2, SeqEqual
  <2>6. Promise!Answer(f.code)
    BY <1>1, <1>2, <1>3, <2>1, <2>3, <2>5 DEF Promise!Answer, codes
  <2> QED
    BY <2>4, <2>6 DEF Promise!Next
<1>6. CASE FinishRequest
  <2>1. /\ status = NoCode /\ status' = fr.code /\ plan' = plan /\ answers' = answers
        /\ fr.code # OK \/ Current > Len(plan)
    BY <1>6 DEF FinishRequest
  <2>2. codes' = codes
    BY <2>1 DEF codes
  <2>3. n <= Len(plan) /\ Len(plan) \in Nat /\ Current = n + 1
    BY DEF IInv, RunTypeOK, Current
  <2>4. CASE fr.code = OK
    <3>1. Len(codes) = Len(plan)
      BY <1>1, <2>1, <2>3, <2>4
    <3>2. Promise!Finish
      BY <1>2, <1>3, <2>1, <2>2, <2>4, <3>1 DEF Promise!Finish, codes
    <3> QED
      BY <3>2 DEF Promise!Next
  <2>5. CASE fr.code # OK
    <3>1. ~ Promise!AllWell(codes) /\ fr.code = codes[Len(codes)]
      BY <1>1, <1>2, <1>4, <2>1, <2>5
    <3>2. Promise!Finish
      BY <2>1, <2>2, <3>1 DEF Promise!Finish, codes
    <3> QED
      BY <3>2 DEF Promise!Next
  <2> QED
    BY <2>4, <2>5
<1>7. CASE NextRequest
  <2>1. PICK runs \in Plans : Load(runs)
    BY <1>7 DEF NextRequest
  <2>2. /\ plan' = runs /\ runs \in Seq(Nodes) /\ answers' = <<>> /\ Len(answers') = 0
        /\ status # NoCode /\ status' = NoCode
    BY <2>1, RunAssumption DEF Load
  <2>3. codes' = <<>>
    BY <1>1, <2>2, EmptySeq
  <2>4. Promise!Take
    BY <2>2, <2>3 DEF Promise!Take, codes
  <2> QED
    BY <2>4 DEF Promise!Next
<1>8. CASE UNCHANGED <<runVars, fr>>
  BY <1>8 DEF runVars, Promise!vars
<1> QED
  BY <1>5, <1>6, <1>7, <1>8 DEF RunNext

\* Running the nodes of any requests keeps the promise of Batch.
THEOREM Refinement == RunSpec => AnswersInOrder
  BY Inductive, InitRefines, NextRefines, PTL DEF RunSpec, AnswersInOrder, Promise!Spec

-----------------------------------------------------------------------------
(* The grammar *)

\* g and h are the same for all places behind i.
Agree(t, i, g, h) ==
  \A j \in i + 1 .. Len(t) + 1, kind \in Kinds : g[<<j, kind>>] = h[<<j, kind>>]

\* What begins at a place depends on lists behind it only.
LEMMA NodeFromLocal ==
  ASSUME NEW X, NEW t \in Seq(X), NEW i \in Nat, NEW g, NEW h, Agree(t, i, g, h)
  PROVE  NodeFrom(t, i, g) = NodeFrom(t, i, h)
<1>1. CASE i \in 1 .. Len(t)
  <2>1. i + 1 \in i + 1 .. Len(t) + 1
    BY <1>1
  <2>2. \A kind \in Kinds : g[<<i + 1, kind>>] = h[<<i + 1, kind>>]
    BY <2>1, Zenon DEF Agree
  <2>3. /\ g[<<i + 1, "attr">>] = h[<<i + 1, "attr">>]
        /\ g[<<i + 1, "string">>] = h[<<i + 1, "string">>]
        /\ g[<<i + 1, "number">>] = h[<<i + 1, "number">>]
        /\ g[<<i + 1, "node">>] = h[<<i + 1, "node">>]
    BY <2>2 DEF Kinds
  <2> QED
    BY <2>3, Zenon DEF NodeFrom
<1>2. CASE i \notin 1 .. Len(t)
  BY <1>2, Zenon DEF NodeFrom, Is
<1> QED
  BY <1>1, <1>2

\* What a member starting at i ends at depends on g behind i only.
LEMMA AttrFromLocal ==
  ASSUME NEW X, NEW t \in Seq(X), NEW i \in Nat, NEW g, NEW h, Agree(t, i, g, h), NEW l
  PROVE  AttrFrom(t, i, g, l) = AttrFrom(t, i, h, l)
<1>1. i + 2 \in Nat /\ Agree(t, i + 2, g, h)
  <2>1. \A j \in i + 2 + 1 .. Len(t) + 1 : j \in i + 1 .. Len(t) + 1
    OBVIOUS
  <2> QED
    BY <2>1 DEF Agree
<1> DEFINE p == i + 2
<1>2. p \in Nat /\ Agree(t, p, g, h)
  BY <1>1
<1> HIDE DEF p
<1>3. NodeFrom(t, p, g) = NodeFrom(t, p, h)
  BY <1>2, NodeFromLocal
<1> QED
  BY <1>3, Zenon DEF AttrFrom, p

\* The same of an element of any list.
LEMMA ElementFromLocal ==
  ASSUME NEW X, NEW t \in Seq(X), NEW i \in Nat, NEW g, NEW h, Agree(t, i, g, h), NEW l, NEW kind
  PROVE  ElementFrom(t, i, kind, g, l) = ElementFrom(t, i, kind, h, l)
<1>1. NodeFrom(t, i, g) = NodeFrom(t, i, h) /\ AttrFrom(t, i, g, l) = AttrFrom(t, i, h, l)
  BY NodeFromLocal, AttrFromLocal
<1> QED
  BY <1>1, Zenon DEF ElementFrom

\* The same of a list: one step of the grammar's recursion looks behind i only.
LEMMA ListFromLocal ==
  ASSUME NEW X, NEW t \in Seq(X), NEW i \in Nat, NEW g, NEW h, Agree(t, i, g, h), NEW l,
         NEW kind \in Kinds
  PROVE  ListFrom(t, i, kind, g, l) = ListFrom(t, i, kind, h, l)
<1>1. ElementFrom(t, i, kind, g, l) = ElementFrom(t, i, kind, h, l)
  BY ElementFromLocal
<1> DEFINE first == ElementFrom(t, i, kind, g, l)
           at == {k \in i .. Len(t) : k \in first /\ t[k] = ","}
<1>2. \A k \in at : g[<<k + 1, kind>>] = h[<<k + 1, kind>>]
  <2>1. \A k \in i .. Len(t) : k + 1 \in i + 1 .. Len(t) + 1
    OBVIOUS
  <2> QED
    BY <2>1, Zenon DEF Agree
<1> DEFINE G == {g[<<k + 1, kind>>] : k \in at}
           H == {h[<<k + 1, kind>>] : k \in at}
<1>3. G = H
  <2> HIDE DEF at
  <2> QED
    BY <1>2
<1>4. ListFrom(t, i, kind, g, l) = first \cup UNION G
  BY Zenon DEF ListFrom
<1>5. ListFrom(t, i, kind, h, l) = first \cup UNION H
  BY <1>1, Zenon DEF ListFrom
<1> QED
  BY <1>3, <1>4, <1>5, Zenon

\* The ends are places.
LEMMA NodeFromType ==
  ASSUME NEW X, NEW t \in Seq(X), NEW i \in Nat,
         NEW g \in [(1 .. Len(t) + 1) \X Kinds -> SUBSET Nat]
  PROVE  NodeFrom(t, i, g) \subseteq Nat
<1>1. \A S \in SUBSET Nat : \A b : Closed(t, S, b) \subseteq Nat
  BY DEF Closed
<1>2. ASSUME i \in 1 .. Len(t), NEW kind \in Kinds PROVE g[<<i + 1, kind>>] \subseteq Nat
  <2>1. <<i + 1, kind>> \in (1 .. Len(t) + 1) \X Kinds
    BY <1>2
  <2> QED
    BY <2>1
<1>3. CASE Is(t, i, {"{"})
  <2>1. g[<<i + 1, "attr">>] \subseteq Nat
    BY <1>2, <1>3, Zenon DEF Is, Kinds
  <2>2. {i + 1} \cup g[<<i + 1, "attr">>] \in SUBSET Nat
    BY <2>1
  <2>3. NodeFrom(t, i, g) = Closed(t, {i + 1} \cup g[<<i + 1, "attr">>], "}")
    BY <1>3, Zenon DEF NodeFrom
  <2> QED
    BY <1>1, <2>2, <2>3, Zenon
<1>4. CASE ~ Is(t, i, {"{"}) /\ Is(t, i, {"["})
  <2>1. /\ g[<<i + 1, "string">>] \subseteq Nat /\ g[<<i + 1, "number">>] \subseteq Nat
        /\ g[<<i + 1, "node">>] \subseteq Nat
    BY <1>2, <1>4, Zenon DEF Is, Kinds
  <2> DEFINE S == {i + 1} \cup g[<<i + 1, "string">>]
                 \cup (IF Is(t, i + 1, Numbers \ Minus) THEN g[<<i + 1, "number">>]
                       ELSE {})
                 \cup g[<<i + 1, "node">>]
  <2>2. S \in SUBSET Nat
    BY <2>1
  <2> HIDE DEF S
  <2>3. NodeFrom(t, i, g) = Closed(t, S, "]")
    BY <1>4, Zenon DEF NodeFrom, S
  <2> QED
    BY <1>1, <2>2, <2>3, Zenon
<1>5. CASE ~ Is(t, i, {"{"}) /\ ~ Is(t, i, {"["})
  BY <1>5, Zenon DEF NodeFrom
<1> QED
  BY <1>3, <1>4, <1>5, Zenon

\* The ends of a list are places.
LEMMA ListFromType ==
  ASSUME NEW X, NEW t \in Seq(X), NEW i \in Nat, NEW kind \in Kinds, NEW l,
         NEW g \in [(1 .. Len(t) + 1) \X Kinds -> SUBSET Nat]
  PROVE  ListFrom(t, i, kind, g, l) \subseteq Nat
<1>1. \A p \in Nat : \A stop : Tail1(t, p, stop) \subseteq Nat
  BY DEF Tail1
<1>2. \A p \in Nat : NodeFrom(t, p, g) \subseteq Nat
  BY NodeFromType
<1> DEFINE first == ElementFrom(t, i, kind, g, l)
           at == {k \in i .. Len(t) : k \in first /\ t[k] = ","}
<1>3. AttrFrom(t, i, g, l) \subseteq Nat
  <2>1. NodeFrom(t, i + 2, g) \subseteq Nat /\ Tail1(t, i + 2, {",", "}"}) \subseteq Nat /\ {i + 3} \subseteq Nat
    <3>1. i + 2 \in Nat /\ {i + 3} \subseteq Nat
      OBVIOUS
    <3> QED
      BY <1>1, <1>2, <3>1, Zenon
  <2> DEFINE A == NodeFrom(t, i + 2, g) B == Tail1(t, i + 2, {",", "}"}) C == {i + 3}
  <2>2. AttrFrom(t, i, g, l) \in {{}, A, B, C}
    BY Zenon DEF AttrFrom
  <2> HIDE DEF A, B, C
  <2>3. A \subseteq Nat /\ B \subseteq Nat /\ C \subseteq Nat
    BY <2>1, Zenon DEF A, B, C
  <2> QED
    BY <2>2, <2>3
<1>4. first \subseteq Nat
  <2> DEFINE A == NodeFrom(t, i, g) B == Tail1(t, i + 1, {",", "]"}) C == {i + 1}
             D == AttrFrom(t, i, g, l)
  <2>1. A \subseteq Nat /\ B \subseteq Nat /\ C \subseteq Nat /\ D \subseteq Nat
    <3>1. i + 1 \in Nat
      OBVIOUS
    <3> QED
      BY <1>1, <1>2, <1>3, <3>1, Zenon
  <2>2. first \in {{}, A, B, C, D}
    <3>1. kind = "string" \/ kind = "number" \/ kind = "node" \/ kind = "attr"
      BY DEF Kinds
    <3> QED
      BY <3>1, Zenon DEF ElementFrom
  <2> HIDE DEF A, B, C, D
  <2> QED
    BY <2>1, <2>2
<1>5. \A k \in at : g[<<k + 1, kind>>] \subseteq Nat
  <2>1. \A k \in i .. Len(t) : <<k + 1, kind>> \in (1 .. Len(t) + 1) \X Kinds
    OBVIOUS
  <2> QED
    BY <2>1, Zenon
<1>6. ListFrom(t, i, kind, g, l) = first \cup UNION {g[<<k + 1, kind>>] : k \in at}
  BY Zenon DEF ListFrom
<1> HIDE DEF first, at
<1> QED
  BY <1>4, <1>5, <1>6

\* Where lists end is what the grammar says: an element, and a list behind a comma.
LEMMA ListEndsIs ==
  ASSUME NEW X, NEW t \in Seq(X), NEW l
  PROVE  \A i \in 1 .. Len(t) + 1, kind \in Kinds :
           ListEnds(t, l)[<<i, kind>>] = ListFrom(t, i, kind, ListEnds(t, l), l)
<1> DEFINE D == (1 .. Len(t) + 1) \X Kinds
           G == [D -> SUBSET Nat]
           F == [g \in G |-> [x \in D |-> ListFrom(t, x[1], x[2], g, l)]]
           n == Len(t) + 1
           L == [k \in 0 .. n |-> {x \in D : x[1] > n - k}]
<1>1. n \in Nat /\ Len(t) \in Nat
  OBVIOUS
<1>2. \A x \in D : x[1] \in Nat /\ x[2] \in Kinds /\ x[1] >= 1 /\ x = <<x[1], x[2]>>
  OBVIOUS
<1>3. ASSUME NEW g \in G, NEW x \in D PROVE ListFrom(t, x[1], x[2], g, l) \in SUBSET Nat
  <2>1. x[1] \in Nat /\ x[2] \in Kinds
    BY <1>2
  <2> HIDE DEF D
  <2>2. g \in [(1 .. Len(t) + 1) \X Kinds -> SUBSET Nat]
    BY DEF D
  <2> QED
    BY <2>1, <2>2, ListFromType
<1>4. F \in [G -> G] /\ \A g \in G : F[g] = [x \in D |-> ListFrom(t, x[1], x[2], g, l)]
  <2> HIDE DEF D
  <2> QED
    BY <1>3
<1>5. G # {} /\ \A g \in G : g = [x \in D |-> g[x]]
  <2>1. [x \in D |-> {}] \in G
    OBVIOUS
  <2> HIDE DEF D
  <2> QED
    BY <2>1
<1>6. \A x \in D : x \notin L[0] /\ x \in L[n]
  <2>1. 0 \in 0 .. n /\ n \in 0 .. n
    BY <1>1
  <2>2. \A x \in D : ~ (x[1] > n - 0) /\ x[1] > n - n
    OBVIOUS
  <2> HIDE DEF D, n
  <2> QED
    BY <2>1, <2>2
<1>7. ASSUME NEW k \in Nat, k + 1 <= n, NEW g \in G, NEW h \in G,
             \A y \in D : y \in L[k] => g[y] = h[y],
             NEW x \in D, x \in L[k + 1]
      PROVE  F[g][x] = F[h][x]
  <2>1. k \in 0 .. n /\ k + 1 \in 0 .. n
    BY <1>1, <1>7
  <2>2. x[1] > n - (k + 1)
    BY <2>1, <1>7
  <2>3. ASSUME NEW j \in x[1] + 1 .. Len(t) + 1, NEW kind \in Kinds
        PROVE  g[<<j, kind>>] = h[<<j, kind>>]
    <3>1. <<j, kind>> \in D /\ <<j, kind>>[1] = j /\ j > n - k
      BY <2>2, <1>2
    <3>2. <<j, kind>> \in L[k]
      BY <2>1, <3>1
    <3> QED
      BY <3>1, <3>2, <1>7
  <2>4. Agree(t, x[1], g, h)
    BY <2>3, Zenon DEF Agree
  <2>5. ListFrom(t, x[1], x[2], g, l) = ListFrom(t, x[1], x[2], h, l)
    <3>1. x[1] \in Nat /\ x[2] \in Kinds
      BY <1>2
    <3> QED
      BY <2>4, <3>1, ListFromLocal
  <2> HIDE DEF D, F, G
  <2> QED
    BY <1>4, <2>5
<1> HIDE DEF D, F, G, L, n
<1>8. Layered(D, G, F, n, L)
  BY <1>1, <1>4, <1>5, <1>6, <1>7 DEF Layered
<1>9. PICK f \in G : f = F[f]
  BY <1>8, Recursion
<1>10. f = [x \in D |-> ListFrom(t, x[1], x[2], f, l)]
  BY <1>4, <1>9
<1> DEFINE e == ListEnds(t, l)
<1>11. e = CHOOSE f_1 : f_1 = [x \in D |-> ListFrom(t, x[1], x[2], f_1, l)]
  BY DEF ListEnds, D
<1>12. e = [x \in D |-> ListFrom(t, x[1], x[2], e, l)]
  <2> HIDE DEF e
  <2> QED
    BY <1>10, <1>11, Zenon
<1> HIDE DEF e
<1>13. \A x \in D : e[x] = ListFrom(t, x[1], x[2], e, l)
  BY <1>12, Zenon
<1>14. ASSUME NEW i \in 1 .. Len(t) + 1, NEW kind \in Kinds
       PROVE  e[<<i, kind>>] = ListFrom(t, i, kind, e, l)
  <2>1. <<i, kind>> \in D /\ <<i, kind>>[1] = i /\ <<i, kind>>[2] = kind
    BY DEF D
  <2> QED
    BY <2>1, <1>13
<1> QED
  BY <1>14, Zenon DEF e

-----------------------------------------------------------------------------
(* The steps of the parser *)

States == {"value", "members", "name", "colon", "attrValue", "afterAttr",
           "elements", "strings", "numbers", "afterChild"}
AttrRecs == [name : Strings, value : Seq(Tokens), node : Nat]
NodeRecs == [type : NodeTypes, attrs : Seq(AttrRecs), kids : Seq(Nat),
             raw : Seq(Seq(Tokens)), run : Nodes \cup {NoRun}]
Frames == [node : Nat, at : States]

TreeTypeOK ==
  /\ text \in Seq(Tokens) /\ size \in 0 .. Len(text) /\ pos \in Nat \ {0}
  /\ nodes \in Seq(NodeRecs) /\ stack \in Seq(Frames)
  /\ verdict \in {"start", "parsing", "tree", "error", "null"}
  /\ verdict = "parsing" <=> stack # <<>>
  /\ verdict \in {"parsing", "tree"} => nodes # <<>>
  /\ \A k \in DOMAIN stack : stack[k].node \in DOMAIN nodes

\* What the parser has just read, by the state it is in, and that it is in
\* the text where it does not look if it is.
Placed ==
  verdict = "parsing" =>
    /\ size > 0 /\ text[1] \in {"{", "["} /\ text[size] \in {"}", "]"}
    /\ Top.at \notin {"strings", "afterAttr", "afterChild"} => pos <= size
    /\ Top.at \in {"name", "strings"} => pos <= Len(text) /\ text[pos] \in Strings
    /\ Top.at = "members" => pos > 1 /\ text[pos - 1] = "{"
    /\ Top.at = "elements" => pos > 1 /\ text[pos - 1] = "["
    /\ Top.at = "colon" =>
         /\ pos > 1 /\ text[pos - 1] \in Strings \ {Empty}
         /\ nodes[Top.node].attrs # <<>> /\ Last(nodes[Top.node].attrs).name = text[pos - 1]
    /\ Top.at = "attrValue" =>
         /\ pos > 2 /\ text[pos - 2] \in Strings \ {Empty} /\ text[pos - 1] = ":"
         /\ nodes[Top.node].attrs # <<>> /\ Last(nodes[Top.node].attrs).name = text[pos - 2]

\* The ways a step ends: in the same frame, in a new one, in the one below.
GoesOn(s, p) ==
  /\ stack' = [stack EXCEPT ![Len(stack)].at = s]
  /\ pos' = p
  /\ verdict' = "parsing"
  /\ UNCHANGED <<text, size, fr>>

Enters(s, p, type, under) ==
  /\ stack' = Append([stack EXCEPT ![Len(stack)].at = s], Frame(Len(nodes) + 1))
  /\ nodes' = Append(under, NewNode(type))
  /\ pos' = p
  /\ verdict' = "parsing"
  /\ UNCHANGED <<text, size, fr>>

Returns(p, under) ==
  /\ \E obj \in InitOutcomes(Top.node) :
       /\ nodes[Top.node].type \in RunnableKinds => obj # NoRun
       /\ nodes' = [under EXCEPT ![Top.node].run = obj]
  /\ stack' = Front(stack)
  /\ pos' = p
  /\ verdict' = IF Len(stack) = 1 THEN "tree" ELSE "parsing"
  /\ UNCHANGED <<text, size, fr>>

\* What the parser does behind the value of an attribute.
LastAttr == Last(nodes[Top.node].attrs)
Type == getNodeType(LastAttr.name)
OnlyNode == Type # "NORMAL" /\ text[pos] # "{"
EndOfNumber == Find(pos, {",", "}"})
EndOfElement == Find(pos + 1, {",", "]"})
MoreAttrs == Char(pos) = "," /\ Char(pos + 1) \in Strings
MoreChildren == Char(pos) = "," /\ Char(pos + 1) \in {"{", "["}
WithKid == [nodes EXCEPT ![Top.node].kids = Append(@, Len(nodes) + 1)]
MoreRaw == AddArrayElement(SubSeq(text, pos, EndOfElement - 1))

Onward ==
  \/ At("value") /\ text[pos] = "{" /\ nodes' = nodes /\ GoesOn("members", pos + 1)
  \/ /\ At("value") /\ text[pos] = "[" /\ GoesOn("elements", pos + 1)
     /\ nodes' = [nodes EXCEPT ![Top.node].type = "CONTAINER"]
  \/ At("members") /\ text[pos] \in Strings /\ nodes' = nodes /\ GoesOn("name", pos)
  \/ /\ At("name") /\ text[pos] # Empty /\ GoesOn("colon", pos + 1)
     /\ nodes' = [nodes EXCEPT ![Top.node].attrs =
                    Append(@, [name |-> text[pos], value |-> <<>>, node |-> 0])]
  \/ At("colon") /\ text[pos] = ":" /\ nodes' = nodes /\ GoesOn("attrValue", pos + 1)
  \/ /\ At("attrValue") /\ ~ OnlyNode /\ text[pos] \in Strings
     /\ nodes' = SetValue(<<text[pos]>>, 0) /\ GoesOn("afterAttr", pos + 1)
  \/ /\ At("attrValue") /\ ~ OnlyNode /\ text[pos] \in Numbers /\ EndOfNumber # 0
     /\ nodes' = SetValue(SubSeq(text, pos, EndOfNumber - 1), 0)
     /\ GoesOn("afterAttr", EndOfNumber)
  \/ At("afterAttr") /\ MoreAttrs /\ pos < size /\ nodes' = nodes /\ GoesOn("name", pos + 1)
  \/ At("elements") /\ text[pos] \in Strings /\ nodes' = nodes /\ GoesOn("strings", pos)
  \/ At("elements") /\ text[pos] \in Numbers \ Minus /\ nodes' = nodes /\ GoesOn("numbers", pos)
  \/ /\ At("strings") /\ Char(pos + 1) = "," /\ Char(pos + 2) \in Strings
     /\ nodes' = AddArrayElement(<<text[pos]>>) /\ GoesOn("strings", pos + 2)
  \/ /\ At("numbers") /\ EndOfElement # 0 /\ text[EndOfElement] = ","
     /\ nodes' = MoreRaw /\ GoesOn("numbers", EndOfElement + 1)

Inward ==
  \/ /\ At("attrValue") /\ ~ OnlyNode /\ text[pos] \in {"{", "["}
     /\ Enters("afterAttr", pos, Type, SetValue(<<>>, Len(nodes) + 1))
  \/ /\ At("elements") /\ text[pos] \notin Strings \cup (Numbers \ Minus) \cup {"]"}
     /\ Enters("afterChild", pos, "NORMAL", WithKid)
  \/ /\ At("afterChild") /\ MoreChildren /\ pos < size
     /\ Enters("afterChild", pos + 1, "NORMAL", WithKid)

Outward ==
  \/ At("members") /\ text[pos] = "}" /\ Returns(pos + 1, nodes)
  \/ At("afterAttr") /\ Char(pos) = "}" /\ Returns(pos + 1, nodes)
  \/ At("elements") /\ text[pos] = "]" /\ Returns(pos + 1, nodes)
  \/ At("strings") /\ Char(pos + 1) = "]" /\ Returns(pos + 2, AddArrayElement(<<text[pos]>>))
  \/ /\ At("numbers") /\ EndOfElement # 0 /\ text[EndOfElement] = "]"
     /\ Returns(EndOfElement + 1, MoreRaw)
  \/ At("afterChild") /\ Char(pos) = "]" /\ Returns(pos + 1, nodes)

\* The loops end behind the input.
Overrun ==
  \/ At("afterAttr") /\ MoreAttrs /\ pos >= size /\ Returns(pos + 1, nodes)
  \/ At("afterChild") /\ MoreChildren /\ pos >= size /\ Returns(pos, nodes)

Refused ==
  \/ At("value") /\ text[pos] \notin {"{", "["}
  \/ At("members") /\ text[pos] \notin {"}"} \cup Strings
  \/ At("name") /\ text[pos] = Empty
  \/ At("colon") /\ text[pos] # ":"
  \/ At("attrValue") /\ OnlyNode
  \/ At("attrValue") /\ text[pos] \in Numbers /\ EndOfNumber = 0
  \/ At("attrValue") /\ text[pos] \in {"}", "]", ",", ":"}
  \/ At("afterAttr") /\ ~ MoreAttrs /\ Char(pos) # "}"
  \/ At("strings") /\ ~ (Char(pos + 1) = "," /\ Char(pos + 2) \in Strings) /\ Char(pos + 1) # "]"
  \/ At("numbers") /\ EndOfElement = 0
  \/ At("afterChild") /\ ~ MoreChildren /\ Char(pos) # "]"

Fails == ParseError("INIT") \/ (ParseError("PARSE_FAIL") /\ Refused)

Starts ==
  /\ verdict = "start" /\ size > 0
  /\ <<Char(1), Char(size)>> \in {<<"{", "}">>, <<"[", "]">>}
  /\ nodes' = <<NewNode("NORMAL")>> /\ stack' = <<Frame(1)>> /\ verdict' = "parsing"
  /\ pos' = pos /\ UNCHANGED <<text, size, fr>>

\* There is no tree: the conversion failed, or what is sent is no request.
NoTree ==
  /\ verdict = "start" /\ pos' = pos /\ UNCHANGED <<text, size>>
  /\ \/ /\ verdict' = "null" /\ nodes' = nodes /\ stack' = stack
        /\ \E code \in {"CONVERT", "INPUT_INVALID"} : fr' = Report(fr, code, Parser)
     \/ /\ ParseError("INPUT_INVALID") /\ size > 0
        /\ <<Char(1), Char(size)>> \notin {<<"{", "}">>, <<"[", "]">>}

\* Close returns from the node on top, or its _init refuses it.
LEMMA CloseIs ==
  ASSUME NEW p, NEW under, verdict = "parsing", Close(p, under)
  PROVE  Returns(p, under) \/ (ParseError("INIT") /\ pos' = p /\ UNCHANGED <<text, size>>)
<1>1. PICK obj \in InitOutcomes(Top.node) :
        IF nodes[Top.node].type \in RunnableKinds /\ obj = NoRun
        THEN ParseError("INIT")
        ELSE /\ nodes' = [under EXCEPT ![Top.node].run = obj]
             /\ stack' = Front(stack)
             /\ verdict' = IF Len(stack) = 1 THEN "tree" ELSE "parsing"
             /\ UNCHANGED fr
  BY DEF Close
<1>2. pos' = p /\ text' = text /\ size' = size
  BY DEF Close, input
<1>3. CASE nodes[Top.node].type \in RunnableKinds /\ obj = NoRun
  BY <1>1, <1>2, <1>3
<1>4. CASE ~ (nodes[Top.node].type \in RunnableKinds /\ obj = NoRun)
  <2>1. Returns(p, under)
    BY <1>1, <1>2, <1>4, Zenon DEF Returns
  <2> QED
    BY <2>1
<1> QED
  BY <1>3, <1>4

\* AddNode enters a new node, the caller's frame waiting in s.
LEMMA AddNodeIs ==
  ASSUME NEW p, NEW s, NEW type, NEW under, verdict = "parsing", AddNode(type, s, under), pos' = p
  PROVE  Enters(s, p, type, under)
BY DEF AddNode, Enters, input

\* Writing the state a frame has changes nothing.
LEMMA SameFrame ==
  ASSUME stack \in Seq(Frames), stack # <<>>
  PROVE  [stack EXCEPT ![Len(stack)].at = Top.at] = stack
<1> DEFINE n == Len(stack)
<1>1. n \in 1 .. n /\ DOMAIN stack = 1 .. n /\ stack[n] \in Frames /\ Top = stack[n]
  BY DEF Top, Last
<1>2. [stack[n] EXCEPT !.at = stack[n].at] = stack[n]
  BY <1>1 DEF Frames
<1> HIDE DEF n
<1>3. [stack EXCEPT ![n] = stack[n]] = stack
  BY <1>1
<1> QED
  BY <1>1, <1>2, <1>3, Zenon DEF n

\* Every action is one of these steps.
LEMMA StepsAre ==
  ASSUME TreeTypeOK, TreeNext
  PROVE  \/ Starts \/ NoTree
         \/ /\ verdict = "parsing"
            /\ Onward \/ Inward \/ Outward \/ Overrun \/ (Fails /\ UNCHANGED <<text, size>>)
<1> USE DEF At
<1>1. CASE ParseNode
  <2>1. pos' = pos /\ text' = text /\ size' = size /\ verdict = "start"
    BY <1>1, Zenon DEF ParseNode, input
  <2> QED
    BY <1>1, <2>1, Zenon DEF ParseNode, Starts, NoTree
<1>2. CASE Open
  <2>1. text[pos] = "{" \/ text[pos] = "[" \/ text[pos] \notin {"{", "["}
    BY Zenon
  <2>2. CASE text[pos] = "{"
    BY <1>2, <2>2, Zenon DEF Open, input, Goto, Onward, GoesOn
  <2>3. CASE text[pos] = "["
    BY <1>2, <2>3 DEF Open, input, Goto, Onward, GoesOn
  <2>4. CASE text[pos] \notin {"{", "["}
    BY <1>2, <2>4, Zenon DEF Open, Reject, input, Fails, Refused
  <2> QED
    BY <2>1, <2>2, <2>3, <2>4, Zenon
<1>3. CASE Members
  <2>1. CASE text[pos] = "}" /\ Close(pos + 1, nodes)
    BY <1>3, <2>1, CloseIs, Zenon DEF Members, Outward, Fails
  <2>2. CASE text[pos] \in Strings /\ Goto("name") /\ UNCHANGED <<input, pos, nodes, verdict, fr>>
    BY <1>3, <2>2, Zenon DEF Members, Goto, Onward, GoesOn, input
  <2>3. CASE text[pos] \notin {"}"} \cup Strings /\ Reject
    BY <1>3, <2>3, Zenon DEF Members, Reject, input, Fails, Refused
  <2> QED
    BY <1>3, <2>1, <2>2, <2>3, Zenon DEF Members
<1>4. CASE Name
  BY <1>4 DEF Name, Goto, Onward, GoesOn, input, Reject, Fails, Refused
<1>5. CASE Colon
  BY <1>5 DEF Colon, Goto, Onward, GoesOn, input, Reject, Fails, Refused
<1>6. CASE AttrValue
  <2>1. CASE OnlyNode /\ Reject
    BY <1>6, <2>1, Zenon DEF AttrValue, Reject, input, Fails, Refused
  <2>2. CASE /\ ~ OnlyNode /\ text[pos] \in Strings
             /\ nodes' = SetValue(<<text[pos]>>, 0)
             /\ pos' = pos + 1
             /\ Goto("afterAttr")
             /\ UNCHANGED <<input, verdict, fr>>
    BY <1>6, <2>2, Zenon DEF AttrValue, Goto, Onward, GoesOn, input
  <2>3. CASE /\ ~ OnlyNode /\ text[pos] \in Numbers
             /\ \/ EndOfNumber = 0 /\ Reject
                \/ /\ EndOfNumber # 0
                   /\ nodes' = SetValue(SubSeq(text, pos, EndOfNumber - 1), 0)
                   /\ pos' = EndOfNumber
                   /\ Goto("afterAttr")
                   /\ UNCHANGED <<input, verdict, fr>>
    BY <1>6, <2>3, Zenon DEF AttrValue, Goto, Onward, GoesOn, input, Reject, Fails, Refused
  <2>4. CASE /\ ~ OnlyNode /\ text[pos] \in {"{", "["}
             /\ AddNode(Type, "afterAttr", SetValue(<<>>, Len(nodes) + 1))
             /\ UNCHANGED pos
    BY <1>6, <2>4, AddNodeIs, Zenon DEF AttrValue, Inward
  <2>5. CASE ~ OnlyNode /\ text[pos] \in {"}", "]", ",", ":"} /\ Reject
    BY <1>6, <2>5, Zenon DEF AttrValue, Reject, input, Fails, Refused
  <2>6. \/ OnlyNode /\ Reject
        \/ /\ ~ OnlyNode /\ text[pos] \in Strings
           /\ nodes' = SetValue(<<text[pos]>>, 0)
           /\ pos' = pos + 1
           /\ Goto("afterAttr")
           /\ UNCHANGED <<input, verdict, fr>>
        \/ /\ ~ OnlyNode /\ text[pos] \in Numbers
           /\ \/ EndOfNumber = 0 /\ Reject
              \/ /\ EndOfNumber # 0
                 /\ nodes' = SetValue(SubSeq(text, pos, EndOfNumber - 1), 0)
                 /\ pos' = EndOfNumber
                 /\ Goto("afterAttr")
                 /\ UNCHANGED <<input, verdict, fr>>
        \/ /\ ~ OnlyNode /\ text[pos] \in {"{", "["}
           /\ AddNode(Type, "afterAttr", SetValue(<<>>, Len(nodes) + 1))
           /\ UNCHANGED pos
        \/ ~ OnlyNode /\ text[pos] \in {"}", "]", ",", ":"} /\ Reject
    BY <1>6, Zenon DEF AttrValue, OnlyNode, Type, LastAttr, EndOfNumber
  <2> QED
    BY <2>1, <2>2, <2>3, <2>4, <2>5, <2>6, Zenon
<1>7. CASE AfterAttr
  <2>1. CASE MoreAttrs /\ pos < size /\ pos' = pos + 1 /\ Goto("name") /\ UNCHANGED <<input, nodes, verdict, fr>>
    BY <1>7, <2>1, Zenon DEF AfterAttr, Goto, Onward, GoesOn, input
  <2>2. CASE MoreAttrs /\ pos >= size /\ Close(pos + 1, nodes)
    BY <1>7, <2>2, CloseIs, Zenon DEF AfterAttr, Overrun, Fails
  <2>3. CASE Char(pos) = "}" /\ Close(pos + 1, nodes)
    BY <1>7, <2>3, CloseIs, Zenon DEF AfterAttr, Outward, Fails
  <2>4. CASE ~ MoreAttrs /\ Char(pos) # "}" /\ Reject
    BY <1>7, <2>4, Zenon DEF AfterAttr, Reject, input, Fails, Refused
  <2>5. \/ MoreAttrs /\ pos < size /\ pos' = pos + 1 /\ Goto("name") /\ UNCHANGED <<input, nodes, verdict, fr>>
        \/ MoreAttrs /\ pos >= size /\ Close(pos + 1, nodes)
        \/ Char(pos) = "}" /\ Close(pos + 1, nodes)
        \/ ~ MoreAttrs /\ Char(pos) # "}" /\ Reject
    BY <1>7, Zenon DEF AfterAttr, MoreAttrs
  <2> QED
    BY <2>1, <2>2, <2>3, <2>4, <2>5, Zenon
<1>8. CASE Elements
  <2>1. CASE text[pos] \in Strings /\ Goto("strings") /\ UNCHANGED <<input, pos, nodes, verdict, fr>>
    BY <1>8, <2>1 DEF Elements, Goto, Onward, GoesOn, input
  <2>2. CASE text[pos] \in Numbers \ Minus /\ Goto("numbers") /\ UNCHANGED <<input, pos, nodes, verdict, fr>>
    BY <1>8, <2>2 DEF Elements, Goto, Onward, GoesOn, input
  <2>3. CASE text[pos] = "]" /\ Close(pos + 1, nodes)
    BY <1>8, <2>3, CloseIs DEF Elements, Outward, Fails
  <2>4. CASE /\ text[pos] \notin Strings \cup (Numbers \ Minus) \cup {"]"}
             /\ AddChild
             /\ UNCHANGED pos
    <3>1. Enters("afterChild", pos, "NORMAL", WithKid)
      BY <1>8, <2>4, AddNodeIs DEF Elements, AddChild, WithKid
    <3> QED
      BY <1>8, <2>4, <3>1 DEF Elements, Inward
  <2> QED
    BY <1>8, <2>1, <2>2, <2>3, <2>4 DEF Elements
<1>9. CASE StringElement
  <2>1. CASE Char(pos + 1) = "]" /\ Close(pos + 2, AddArrayElement(<<text[pos]>>))
    BY <1>9, <2>1, CloseIs, Zenon DEF StringElement, Outward, Fails
  <2>2. CASE /\ Char(pos + 1) = "," /\ Char(pos + 2) \in Strings
             /\ nodes' = AddArrayElement(<<text[pos]>>)
             /\ pos' = pos + 2
             /\ UNCHANGED <<input, stack, verdict, fr>>
    <3>1. At("strings") /\ stack' = stack /\ verdict' = "parsing"
      BY <1>9, <2>2, Zenon DEF StringElement
    <3>2. stack' = [stack EXCEPT ![Len(stack)].at = "strings"]
      BY <3>1, SameFrame DEF TreeTypeOK
    <3>3. GoesOn("strings", pos + 2)
      BY <2>2, <3>1, <3>2, Zenon DEF GoesOn, input
    <3> QED
      BY <2>2, <3>1, <3>3, Zenon DEF Onward
  <2>3. CASE ~ (Char(pos + 1) = "," /\ Char(pos + 2) \in Strings) /\ Char(pos + 1) # "]" /\ Reject
    BY <1>9, <2>3, Zenon DEF StringElement, Reject, input, Fails, Refused
  <2>4. \/ Char(pos + 1) = "]" /\ Close(pos + 2, AddArrayElement(<<text[pos]>>))
        \/ /\ Char(pos + 1) = "," /\ Char(pos + 2) \in Strings
           /\ nodes' = AddArrayElement(<<text[pos]>>)
           /\ pos' = pos + 2
           /\ UNCHANGED <<input, stack, verdict, fr>>
        \/ ~ (Char(pos + 1) = "," /\ Char(pos + 2) \in Strings) /\ Char(pos + 1) # "]" /\ Reject
    BY <1>9, Zenon DEF StringElement
  <2> QED
    BY <2>1, <2>2, <2>3, <2>4, Zenon
<1>10. CASE NumberElement
  <2>1. CASE EndOfElement = 0 /\ Reject
    BY <1>10, <2>1, Zenon DEF NumberElement, Reject, input, Fails, Refused
  <2>2. CASE EndOfElement # 0 /\ text[EndOfElement] = "]" /\ Close(EndOfElement + 1, MoreRaw)
    BY <1>10, <2>2, CloseIs, Zenon DEF NumberElement, Outward, Fails
  <2>3. CASE /\ EndOfElement # 0 /\ text[EndOfElement] = ","
             /\ nodes' = MoreRaw
             /\ pos' = EndOfElement + 1
             /\ UNCHANGED <<input, stack, verdict, fr>>
    <3>1. At("numbers") /\ stack' = stack /\ verdict' = "parsing"
      BY <1>10, <2>3, Zenon DEF NumberElement
    <3>2. stack' = [stack EXCEPT ![Len(stack)].at = "numbers"]
      BY <3>1, SameFrame DEF TreeTypeOK
    <3>3. GoesOn("numbers", EndOfElement + 1)
      BY <2>3, <3>1, <3>2, Zenon DEF GoesOn, input
    <3> QED
      BY <2>3, <3>1, <3>3, Zenon DEF Onward
  <2>4. \/ EndOfElement = 0 /\ Reject
        \/ EndOfElement # 0 /\ text[EndOfElement] = "]" /\ Close(EndOfElement + 1, MoreRaw)
        \/ /\ EndOfElement # 0 /\ text[EndOfElement] = ","
           /\ nodes' = MoreRaw
           /\ pos' = EndOfElement + 1
           /\ UNCHANGED <<input, stack, verdict, fr>>
    BY <1>10, Zenon DEF NumberElement, EndOfElement, MoreRaw
  <2> QED
    BY <2>1, <2>2, <2>3, <2>4, Zenon
<1>11. CASE AfterChild
  <2>1. CASE MoreChildren /\ pos < size /\ AddChild /\ pos' = pos + 1
    <3>1. Enters("afterChild", pos + 1, "NORMAL", WithKid)
      BY <1>11, <2>1, AddNodeIs, Zenon DEF AfterChild, AddChild, WithKid
    <3> QED
      BY <1>11, <2>1, <3>1, Zenon DEF AfterChild, Inward
  <2>2. CASE MoreChildren /\ pos >= size /\ Close(pos, nodes)
    BY <1>11, <2>2, CloseIs, Zenon DEF AfterChild, Overrun, Fails
  <2>3. CASE Char(pos) = "]" /\ Close(pos + 1, nodes)
    BY <1>11, <2>3, CloseIs DEF AfterChild, Outward, Fails
  <2>4. CASE ~ MoreChildren /\ Char(pos) # "]" /\ Reject
    BY <1>11, <2>4, Zenon DEF AfterChild, Reject, input, Fails, Refused
  <2>5. \/ MoreChildren /\ pos < size /\ AddChild /\ pos' = pos + 1
        \/ MoreChildren /\ pos >= size /\ Close(pos, nodes)
        \/ Char(pos) = "]" /\ Close(pos + 1, nodes)
        \/ ~ MoreChildren /\ Char(pos) # "]" /\ Reject
    BY <1>11, Zenon DEF AfterChild, MoreChildren
  <2> QED
    BY <2>1, <2>2, <2>3, <2>4, <2>5
<1>12. /\ Starts \/ NoTree
          \/ /\ verdict = "parsing"
             /\ Onward \/ Inward \/ Outward \/ Overrun \/ (Fails /\ UNCHANGED <<text, size>>)
  BY <1>1, <1>2, <1>3, <1>4, <1>5, <1>6, <1>7, <1>8, <1>9, <1>10, <1>11, Zenon DEF TreeNext
<1> QED
  BY <1>12

\* N is the nodes, with another one on top.
Changed(N, v) ==
  /\ N \in Seq(NodeRecs) /\ Len(N) = Len(nodes) /\ N[Top.node] = v
  /\ \A m \in DOMAIN nodes : m # Top.node => N[m] = nodes[m]

Now == nodes[Top.node]
Rec(type, attrs, kids, raw, run) ==
  [type |-> type, attrs |-> attrs, kids |-> kids, raw |-> raw, run |-> run]

\* The frame on top, its node and their types.
LEMMA TopIs ==
  ASSUME TreeTypeOK, verdict = "parsing"
  PROVE  /\ Len(stack) \in Nat \ {0} /\ stack[Len(stack)] = Top /\ Top \in Frames
         /\ Top.node \in DOMAIN nodes /\ Now \in NodeRecs
         /\ DOMAIN nodes = 1 .. Len(nodes) /\ DOMAIN stack = 1 .. Len(stack)
         /\ Now = Rec(Now.type, Now.attrs, Now.kids, Now.raw, Now.run)
<1>1. stack \in Seq(Frames) /\ stack # <<>> /\ nodes \in Seq(NodeRecs)
  BY DEF TreeTypeOK
<1>2. Len(stack) \in DOMAIN stack /\ stack[Len(stack)] = Top
  BY <1>1 DEF Top, Last
<1>3. Top.node \in DOMAIN nodes
  BY <1>2 DEF TreeTypeOK
<1>4. Now \in NodeRecs
  BY <1>1, <1>3 DEF Now
<1>5. Now = Rec(Now.type, Now.attrs, Now.kids, Now.raw, Now.run)
  BY <1>4 DEF NodeRecs, Rec
<1> QED
  BY <1>1, <1>2, <1>3, <1>4, <1>5

\* An update of the node on top changes that node only.
LEMMA TopChanges ==
  ASSUME TreeTypeOK, verdict = "parsing"
  PROVE  \A v \in NodeRecs : Changed([nodes EXCEPT ![Top.node] = v], v)
<1>1. Top.node \in DOMAIN nodes /\ nodes \in Seq(NodeRecs)
  BY TopIs DEF TreeTypeOK
<1> DEFINE n == Top.node
<1> HIDE DEF n
<1>2. ASSUME NEW v \in NodeRecs, n \in DOMAIN nodes
      PROVE  /\ [nodes EXCEPT ![n] = v] \in Seq(NodeRecs)
             /\ Len([nodes EXCEPT ![n] = v]) = Len(nodes)
             /\ [nodes EXCEPT ![n] = v][n] = v
             /\ \A m \in DOMAIN nodes : m # n => [nodes EXCEPT ![n] = v][m] = nodes[m]
  BY <1>1, <1>2
<1> QED
  BY <1>1, <1>2 DEF Changed, n

\* Records of five fields, whatever the fields are.
LEMMA Fields ==
  ASSUME NEW A, NEW B, NEW C, NEW D, NEW E,
         NEW r \in [type : A, attrs : B, kids : C, raw : D, run : E]
  PROVE  /\ \A x \in A : /\ [r EXCEPT !.type = x] = Rec(x, r.attrs, r.kids, r.raw, r.run)
                        /\ [r EXCEPT !.type = x] \in [type : A, attrs : B, kids : C, raw : D, run : E]
         /\ \A x \in B : /\ [r EXCEPT !.attrs = x] = Rec(r.type, x, r.kids, r.raw, r.run)
                        /\ [r EXCEPT !.attrs = x] \in [type : A, attrs : B, kids : C, raw : D, run : E]
         /\ \A x \in C : /\ [r EXCEPT !.kids = x] = Rec(r.type, r.attrs, x, r.raw, r.run)
                        /\ [r EXCEPT !.kids = x] \in [type : A, attrs : B, kids : C, raw : D, run : E]
         /\ \A x \in D : /\ [r EXCEPT !.raw = x] = Rec(r.type, r.attrs, r.kids, x, r.run)
                        /\ [r EXCEPT !.raw = x] \in [type : A, attrs : B, kids : C, raw : D, run : E]
         /\ \A x \in E : /\ [r EXCEPT !.run = x] = Rec(r.type, r.attrs, r.kids, r.raw, x)
                        /\ [r EXCEPT !.run = x] \in [type : A, attrs : B, kids : C, raw : D, run : E]
<1> USE DEF Rec
<1>1. ASSUME NEW x \in A
      PROVE  /\ [r EXCEPT !.type = x] = Rec(x, r.attrs, r.kids, r.raw, r.run)
             /\ [r EXCEPT !.type = x] \in [type : A, attrs : B, kids : C, raw : D, run : E]
  OBVIOUS
<1>2. ASSUME NEW x \in B
      PROVE  /\ [r EXCEPT !.attrs = x] = Rec(r.type, x, r.kids, r.raw, r.run)
             /\ [r EXCEPT !.attrs = x] \in [type : A, attrs : B, kids : C, raw : D, run : E]
  OBVIOUS
<1>3. ASSUME NEW x \in C
      PROVE  /\ [r EXCEPT !.kids = x] = Rec(r.type, r.attrs, x, r.raw, r.run)
             /\ [r EXCEPT !.kids = x] \in [type : A, attrs : B, kids : C, raw : D, run : E]
  OBVIOUS
<1>4. ASSUME NEW x \in D
      PROVE  /\ [r EXCEPT !.raw = x] = Rec(r.type, r.attrs, r.kids, x, r.run)
             /\ [r EXCEPT !.raw = x] \in [type : A, attrs : B, kids : C, raw : D, run : E]
  OBVIOUS
<1>5. ASSUME NEW x \in E
      PROVE  /\ [r EXCEPT !.run = x] = Rec(r.type, r.attrs, r.kids, r.raw, x)
             /\ [r EXCEPT !.run = x] \in [type : A, attrs : B, kids : C, raw : D, run : E]
  OBVIOUS
<1> QED
  BY <1>1, <1>2, <1>3, <1>4, <1>5

\* The same of the updates of one field.
LEMMA Updates ==
  ASSUME TreeTypeOK, verdict = "parsing"
  PROVE  /\ \A x \in NodeTypes :
              Changed([nodes EXCEPT ![Top.node].type = x], Rec(x, Now.attrs, Now.kids, Now.raw, Now.run))
         /\ \A x \in Seq(AttrRecs) :
              Changed([nodes EXCEPT ![Top.node].attrs = x], Rec(Now.type, x, Now.kids, Now.raw, Now.run))
         /\ \A x \in Seq(Nat) :
              Changed([nodes EXCEPT ![Top.node].kids = x], Rec(Now.type, Now.attrs, x, Now.raw, Now.run))
         /\ \A x \in Seq(Seq(Tokens)) :
              Changed([nodes EXCEPT ![Top.node].raw = x], Rec(Now.type, Now.attrs, Now.kids, x, Now.run))
         /\ \A x \in Nodes \cup {NoRun} :
              Changed([nodes EXCEPT ![Top.node].run = x], Rec(Now.type, Now.attrs, Now.kids, Now.raw, x))
<1>1. Now \in NodeRecs
  BY TopIs
<1>2. /\ \A x \in NodeTypes : /\ [Now EXCEPT !.type = x] = Rec(x, Now.attrs, Now.kids, Now.raw, Now.run)
                             /\ [Now EXCEPT !.type = x] \in NodeRecs
      /\ \A x \in Seq(AttrRecs) : /\ [Now EXCEPT !.attrs = x] = Rec(Now.type, x, Now.kids, Now.raw, Now.run)
                                 /\ [Now EXCEPT !.attrs = x] \in NodeRecs
      /\ \A x \in Seq(Nat) : /\ [Now EXCEPT !.kids = x] = Rec(Now.type, Now.attrs, x, Now.raw, Now.run)
                            /\ [Now EXCEPT !.kids = x] \in NodeRecs
      /\ \A x \in Seq(Seq(Tokens)) : /\ [Now EXCEPT !.raw = x] = Rec(Now.type, Now.attrs, Now.kids, x, Now.run)
                                    /\ [Now EXCEPT !.raw = x] \in NodeRecs
      /\ \A x \in Nodes \cup {NoRun} : /\ [Now EXCEPT !.run = x] = Rec(Now.type, Now.attrs, Now.kids, Now.raw, x)
                                      /\ [Now EXCEPT !.run = x] \in NodeRecs
  <2> DEFINE A == NodeTypes B == Seq(AttrRecs) C == Seq(Nat) D == Seq(Seq(Tokens)) E == Nodes \cup {NoRun}
  <2>1. Now \in [type : A, attrs : B, kids : C, raw : D, run : E]
        /\ NodeRecs = [type : A, attrs : B, kids : C, raw : D, run : E]
    BY <1>1 DEF NodeRecs
  <2> DEFINE r == Now
  <2> HIDE DEF A, B, C, D, E, r
  <2>2. r \in [type : A, attrs : B, kids : C, raw : D, run : E]
    BY <2>1 DEF r
  <2>3. /\ \A x \in A : /\ [r EXCEPT !.type = x] = Rec(x, r.attrs, r.kids, r.raw, r.run)
                        /\ [r EXCEPT !.type = x] \in [type : A, attrs : B, kids : C, raw : D, run : E]
        /\ \A x \in B : /\ [r EXCEPT !.attrs = x] = Rec(r.type, x, r.kids, r.raw, r.run)
                        /\ [r EXCEPT !.attrs = x] \in [type : A, attrs : B, kids : C, raw : D, run : E]
        /\ \A x \in C : /\ [r EXCEPT !.kids = x] = Rec(r.type, r.attrs, x, r.raw, r.run)
                        /\ [r EXCEPT !.kids = x] \in [type : A, attrs : B, kids : C, raw : D, run : E]
        /\ \A x \in D : /\ [r EXCEPT !.raw = x] = Rec(r.type, r.attrs, r.kids, x, r.run)
                        /\ [r EXCEPT !.raw = x] \in [type : A, attrs : B, kids : C, raw : D, run : E]
        /\ \A x \in E : /\ [r EXCEPT !.run = x] = Rec(r.type, r.attrs, r.kids, r.raw, x)
                        /\ [r EXCEPT !.run = x] \in [type : A, attrs : B, kids : C, raw : D, run : E]
    BY <2>2, Fields
  <2> QED
    BY <2>1, <2>3, Zenon DEF A, B, C, D, E, r
<1>7. \A v \in NodeRecs : Changed([nodes EXCEPT ![Top.node] = v], v)
  BY TopChanges
<1>8. nodes[Top.node] = Now
  BY DEF Now
<1> QED
  BY <1>2, <1>7, <1>8, Zenon

\* The last element of a sequence.
LEMMA LastIs ==
  ASSUME NEW X, NEW s \in Seq(X), s # <<>>
  PROVE  Len(s) \in 1 .. Len(s) /\ Len(s) \in Nat \ {0} /\ Last(s) = s[Len(s)] /\ Last(s) \in X
BY DEF Last

\* A sequence with one element replaced.
LEMMA SeqUpdate ==
  ASSUME NEW X, NEW s \in Seq(X), NEW n \in 1 .. Len(s), NEW x \in X
  PROVE  /\ [s EXCEPT ![n] = x] \in Seq(X) /\ Len([s EXCEPT ![n] = x]) = Len(s)
         /\ [s EXCEPT ![n] = x][n] = x
         /\ \A i \in 1 .. Len(s) : i # n => [s EXCEPT ![n] = x][i] = s[i]
OBVIOUS

\* The elements of a sequence.
LEMMA SeqElement ==
  ASSUME NEW X, NEW s \in Seq(X)
  PROVE  DOMAIN s = 1 .. Len(s) /\ Len(s) \in Nat /\ \A i \in 1 .. Len(s) : s[i] \in X
OBVIOUS

\* What an update of the values leaves of the attributes.
Assigned(list, v, m) == [list EXCEPT ![Len(list)].value = v, ![Len(list)].node = m]

\* setValue changes the value of the last attribute only.
LEMMA AssignedIs ==
  ASSUME NEW list \in Seq(AttrRecs), list # <<>>, NEW v \in Seq(Tokens), NEW m \in Nat
  PROVE  /\ Assigned(list, v, m) \in Seq(AttrRecs) /\ Len(Assigned(list, v, m)) = Len(list)
         /\ \A i \in 1 .. Len(list) : i # Len(list) => Assigned(list, v, m)[i] = list[i]
         /\ Assigned(list, v, m)[Len(list)] = [name |-> Last(list).name, value |-> v, node |-> m]
<1> DEFINE n == Len(list)
<1>1. n \in 1 .. n /\ n \in Nat /\ DOMAIN list = 1 .. n /\ list[n] \in AttrRecs /\ Last(list) = list[n]
      /\ list \in Seq(AttrRecs) /\ Len(list) = n
  <2>1. Last(list) = list[Len(list)]
    BY DEF Last
  <2>2. Len(list) \in 1 .. Len(list) /\ Len(list) \in Nat /\ DOMAIN list = 1 .. Len(list) /\ list[Len(list)] \in AttrRecs
    BY LastIs, SeqElement, Zenon
  <2> QED
    BY <2>1, <2>2
<1> HIDE DEF n
<1> DEFINE b == [list EXCEPT ![n] = [list[n] EXCEPT !.value = v]]
           c == [b EXCEPT ![n] = [b[n] EXCEPT !.node = m]]
<1>a. \A r \in AttrRecs :
        /\ [r EXCEPT !.value = v] \in AttrRecs
        /\ [r EXCEPT !.value = v] = [name |-> r.name, value |-> v, node |-> r.node]
        /\ [r EXCEPT !.node = m] \in AttrRecs
        /\ [r EXCEPT !.node = m] = [name |-> r.name, value |-> r.value, node |-> m]
  <2> DEFINE A == Strings B == Seq(Tokens)
  <2> HIDE DEF A, B
  <2>1. ASSUME NEW r \in [name : A, value : B, node : Nat], v \in B
        PROVE /\ [r EXCEPT !.value = v] \in [name : A, value : B, node : Nat]
              /\ [r EXCEPT !.value = v] = [name |-> r.name, value |-> v, node |-> r.node]
              /\ [r EXCEPT !.node = m] \in [name : A, value : B, node : Nat]
              /\ [r EXCEPT !.node = m] = [name |-> r.name, value |-> r.value, node |-> m]
    BY <2>1
  <2> QED
    BY <2>1, Zenon DEF A, B, AttrRecs
<1>2. [list[n] EXCEPT !.value = v] \in AttrRecs /\ [list[n] EXCEPT !.value = v] = [name |-> list[n].name, value |-> v, node |-> list[n].node]
  BY <1>1, <1>a, Zenon
<1>3. b \in Seq(AttrRecs) /\ Len(b) = n /\ b[n] = [name |-> list[n].name, value |-> v, node |-> list[n].node]
      /\ \A i \in 1 .. n : i # n => b[i] = list[i]
  <2> DEFINE x == [list[n] EXCEPT !.value = v]
  <2>1. x \in AttrRecs /\ b = [list EXCEPT ![n] = x] /\ n \in 1 .. Len(list)
        /\ x = [name |-> list[n].name, value |-> v, node |-> list[n].node]
    BY <1>1, <1>2
  <2> HIDE DEF x, b
  <2>2. /\ [list EXCEPT ![n] = x] \in Seq(AttrRecs) /\ Len([list EXCEPT ![n] = x]) = Len(list)
        /\ [list EXCEPT ![n] = x][n] = x
        /\ \A i \in 1 .. Len(list) : i # n => [list EXCEPT ![n] = x][i] = list[i]
    <3>1. list \in Seq(AttrRecs) /\ n \in 1 .. Len(list) /\ x \in AttrRecs
      BY <1>1, <2>1
    <3> QED
      BY <3>1, SeqUpdate
  <2> QED
    BY <1>1, <2>1, <2>2, Zenon
<1>4. [b[n] EXCEPT !.node = m] \in AttrRecs
      /\ [b[n] EXCEPT !.node = m] = [name |-> list[n].name, value |-> v, node |-> m]
  <2>1. b[n] \in AttrRecs /\ b[n].name = list[n].name /\ b[n].value = v
    <3> HIDE DEF b
    <3>1. b[n] \in AttrRecs
      BY <1>1, <1>3, SeqElement, Zenon
    <3> QED
      BY <1>3, <3>1
  <2> HIDE DEF b
  <2> QED
    BY <2>1, <1>a
<1> HIDE DEF b
<1>5. c \in Seq(AttrRecs) /\ Len(c) = n /\ c[n] = [name |-> list[n].name, value |-> v, node |-> m]
      /\ \A i \in 1 .. n : i # n => c[i] = b[i]
  <2> DEFINE x == [b[n] EXCEPT !.node = m]
  <2>1. x \in AttrRecs /\ b \in Seq(AttrRecs) /\ Len(b) = n
        /\ x = [name |-> list[n].name, value |-> v, node |-> m]
    BY <1>3, <1>4
  <2>2. c = [b EXCEPT ![n] = x]
    OBVIOUS
  <2> HIDE DEF x, c
  <2>3. /\ [b EXCEPT ![n] = x] \in Seq(AttrRecs) /\ Len([b EXCEPT ![n] = x]) = Len(b)
        /\ [b EXCEPT ![n] = x][n] = x
        /\ \A i \in 1 .. Len(b) : i # n => [b EXCEPT ![n] = x][i] = b[i]
    <3>1. n \in 1 .. Len(b)
      BY <1>1, <2>1
    <3> QED
      BY <2>1, <3>1, SeqUpdate
  <2> QED
    BY <2>1, <2>2, <2>3, Zenon
<1>6. Assigned(list, v, m) = c
  BY Zenon DEF Assigned, b, n
<1> HIDE DEF c
<1> QED
  BY <1>1, <1>3, <1>5, <1>6, Zenon DEF n

\* setValue changes the node on top.
LEMMA SetValueIs ==
  ASSUME TreeTypeOK, verdict = "parsing", Now.attrs # <<>>, NEW v \in Seq(Tokens), NEW m \in Nat
  PROVE  Changed(SetValue(v, m), Rec(Now.type, Assigned(Now.attrs, v, m), Now.kids, Now.raw, Now.run))
<1>1. Assigned(Now.attrs, v, m) \in Seq(AttrRecs)
  BY TopIs, AssignedIs DEF NodeRecs
<1>2. SetValue(v, m) = [nodes EXCEPT ![Top.node].attrs = Assigned(Now.attrs, v, m)]
  BY Zenon DEF SetValue, Assigned, Now
<1> QED
  BY <1>1, <1>2, Updates

\* addArrayElement appends to the node on top.
LEMMA AddArrayElementIs ==
  ASSUME TreeTypeOK, verdict = "parsing", NEW e \in Seq(Tokens)
  PROVE  Changed(AddArrayElement(e), Rec(Now.type, Now.attrs, Now.kids, Append(Now.raw, e), Now.run))
<1>1. Append(Now.raw, e) \in Seq(Seq(Tokens))
  BY TopIs DEF NodeRecs
<1>2. AddArrayElement(e) = [nodes EXCEPT ![Top.node].raw = Append(Now.raw, e)]
  BY Zenon DEF AddArrayElement, Now
<1> QED
  BY <1>1, <1>2, Updates

\* A new child is entered in the node on top.
LEMMA WithKidIs ==
  ASSUME TreeTypeOK, verdict = "parsing"
  PROVE  Changed(WithKid, Rec(Now.type, Now.attrs, Append(Now.kids, Len(nodes) + 1), Now.raw, Now.run))
<1>1. Append(Now.kids, Len(nodes) + 1) \in Seq(Nat)
  <2>1. Now.kids \in Seq(Nat) /\ Len(nodes) + 1 \in Nat
    BY TopIs DEF NodeRecs, TreeTypeOK
  <2> QED
    BY <2>1
<1>2. WithKid = [nodes EXCEPT ![Top.node].kids = Append(Now.kids, Len(nodes) + 1)]
  BY Zenon DEF WithKid, Now
<1> QED
  BY <1>1, <1>2, Updates

\* What init() may make of a node.
LEMMA OutcomesAre ==
  ASSUME NEW n, NEW obj \in InitOutcomes(n)
  PROVE  /\ obj \in Nodes \cup {NoRun}
         /\ obj # NoRun => obj.kind = nodes[n].type /\ nodes[n].type \in RunnableKinds
<1> DEFINE kind == nodes[n].type
           exec == IF kind = "CMD" THEN Option(n, "EXEC", "CMD") ELSE <<"none">>
           error == Option(n, "ERROR", "OFF")
           well == /\ \A a \in Needed(kind) : Given(n, a)
                   /\ exec \in {<<e>> : e \in Execs(kind)}
                   /\ error \in {<<e>> : e \in Errors(kind)}
           o == [kind |-> kind, exec |-> exec[1], error |-> error[1]]
<1>1. InitOutcomes(n) = CASE kind \notin RunnableKinds -> {NoRun}
        [] kind = "JOBINFO" -> {[NoRun EXCEPT !.kind = kind]}
        [] OTHER -> (IF well THEN {o} ELSE {NoRun})
                      \cup (IF kind \in {"PGM", "SQL"} THEN {NoRun} ELSE {})
  BY Zenon DEF InitOutcomes
<1> HIDE DEF exec, error
<1>2. CASE kind \notin RunnableKinds
  <2> DEFINE A == {NoRun} B == {[NoRun EXCEPT !.kind = kind]}
             C == (IF well THEN {o} ELSE {NoRun})
                      \cup (IF kind \in {"PGM", "SQL"} THEN {NoRun} ELSE {})
             p == kind \notin RunnableKinds
  <2>a. p /\ InitOutcomes(n) = CASE p -> A [] kind = "JOBINFO" -> B [] OTHER -> C
    BY <1>1, <1>2, Zenon
  <2>c. p => kind # "JOBINFO"
    BY DEF RunnableKinds
  <2> HIDE DEF A, B, C, p
  <2>b. InitOutcomes(n) = A
    BY <2>a, <2>c
  <2>1. InitOutcomes(n) = {NoRun}
    BY <2>b DEF A
  <2> QED
    BY <2>1
<1>3. CASE kind = "JOBINFO"
  <2>1. kind \in RunnableKinds
    BY <1>3 DEF RunnableKinds
  <2>2. obj = [NoRun EXCEPT !.kind = kind]
    BY <1>1, <1>3, <2>1
  <2>3. obj = [kind |-> "JOBINFO", exec |-> "none", error |-> "none"]
    BY <1>3, <2>2 DEF NoRun
  <2> QED
    BY <1>3, <2>1, <2>3 DEF Nodes
<1>4. CASE kind \in RunnableKinds /\ kind # "JOBINFO"
  <2>1. obj = NoRun \/ (well /\ obj = o)
    BY <1>1, <1>4
  <2>2. ASSUME well PROVE o \in Nodes
    <3>1. exec[1] \in Execs(kind) /\ error[1] \in Errors(kind)
      BY <2>2
    <3>2. CASE kind = "CMD"
      BY <3>1, <3>2 DEF Nodes, Execs, Errors
    <3>3. CASE kind # "CMD"
      BY <1>4, <3>1, <3>3 DEF Nodes, Execs, Errors, RunnableKinds
    <3> QED
      BY <3>2, <3>3
  <2>3. o.kind = kind
    OBVIOUS
  <2> HIDE DEF o, well
  <2> QED
    BY <1>4, <2>1, <2>2, <2>3
<1> QED
  BY <1>2, <1>3, <1>4

\* The frames under the one on top wait for a node to be parsed.
Waiting == \A k \in 1 .. Len(stack) - 1 : stack[k].at \in {"afterAttr", "afterChild"}

Unread == verdict = "start" => pos = 1 /\ stack = <<>> /\ nodes = <<>>

TreeInv == TreeTypeOK /\ Placed /\ Waiting /\ Unread

-----------------------------------------------------------------------------
(* What the three kinds of steps do to the stack *)

SameBelow == \A k \in 1 .. Len(stack) - 1 : stack'[k] = stack[k]

Stays(s) ==
  /\ stack' \in Seq(Frames) /\ Len(stack') = Len(stack) /\ SameBelow
  /\ stack'[Len(stack)] = [node |-> Top.node, at |-> s] /\ Top' = stack'[Len(stack)]

Pushes(s) ==
  /\ stack' \in Seq(Frames) /\ Len(stack') = Len(stack) + 1 /\ SameBelow
  /\ stack'[Len(stack)] = [node |-> Top.node, at |-> s]
  /\ stack'[Len(stack) + 1] = [node |-> Len(nodes) + 1, at |-> "value"]
  /\ Top' = stack'[Len(stack) + 1]

Pops ==
  /\ stack' \in Seq(Frames) /\ Len(stack') = Len(stack) - 1 /\ SameBelow
  /\ Len(stack) > 1 => Top' = stack'[Len(stack) - 1]

\* A step that goes on keeps the frames and writes the state of the top.
LEMMA StaysIs ==
  ASSUME TreeTypeOK, verdict = "parsing", NEW s \in States, NEW p, GoesOn(s, p)
  PROVE  Stays(s)
<1> DEFINE n == Len(stack)
           F == Frames
<1>1. n \in Nat \ {0} /\ stack \in Seq(F) /\ n = Len(stack) /\ stack[n] = Top /\ Top \in F /\ n \in 1 .. n
  BY TopIs DEF TreeTypeOK
<1>2. [stack[n] EXCEPT !.at = s] = [node |-> Top.node, at |-> s]
      /\ [node |-> Top.node, at |-> s] \in F
  BY <1>1 DEF Frames
<1> DEFINE x == [node |-> Top.node, at |-> s]
<1>3. stack' = [stack EXCEPT ![n] = x]
  BY <1>2 DEF GoesOn
<1> HIDE DEF n, x, F
<1>4. x \in F
  BY <1>2 DEF x
<1>5. stack' \in Seq(F) /\ Len(stack') = n /\ stack'[n] = x
      /\ \A k \in 1 .. n : k # n => stack'[k] = stack[k]
  BY <1>1, <1>3, <1>4
<1>6. Top' = stack'[n]
  BY <1>5 DEF Top, Last
<1>7. \A k \in 1 .. n - 1 : k \in 1 .. n /\ k # n
  BY <1>1
<1> QED
  BY <1>1, <1>5, <1>6, <1>7 DEF Stays, SameBelow, x, n, F

\* A step that enters a node pushes a frame and leaves those below.
LEMMA PushesIs ==
  ASSUME TreeTypeOK, verdict = "parsing", NEW s \in States, NEW p, NEW type, NEW under,
         Enters(s, p, type, under)
  PROVE  Pushes(s)
<1> DEFINE n == Len(stack)
           F == Frames
           x == [node |-> Top.node, at |-> s]
           y == [node |-> Len(nodes) + 1, at |-> "value"]
<1>1. n \in Nat \ {0} /\ stack \in Seq(F) /\ n = Len(stack) /\ stack[n] = Top /\ Top \in F /\ n \in 1 .. n
  BY TopIs DEF TreeTypeOK
<1>2. [stack[n] EXCEPT !.at = s] = x /\ x \in F
  BY <1>1 DEF Frames
<1>y. y = Frame(Len(nodes) + 1) /\ y \in F
  <2>1. Len(nodes) + 1 \in Nat
    BY DEF TreeTypeOK
  <2> QED
    BY <2>1 DEF Frame, Frames, States
<1>3. stack' = Append([stack EXCEPT ![n] = x], y)
  BY <1>2, <1>y DEF Enters
<1> HIDE DEF n, x, y, F
<1>4. stack' \in Seq(F) /\ Len(stack') = n + 1 /\ stack'[n] = x /\ stack'[n + 1] = y
      /\ \A k \in 1 .. n : k # n => stack'[k] = stack[k]
  <2> DEFINE z == [stack EXCEPT ![n] = x]
  <2>1. z \in Seq(F) /\ Len(z) = n /\ z[n] = x /\ \A k \in 1 .. n : k # n => z[k] = stack[k]
    BY <1>1, <1>2
  <2>2. stack' = Append(z, y)
    BY <1>3
  <2> HIDE DEF z
  <2> QED
    BY <1>1, <1>y, <2>1, <2>2
<1>6. Top' = stack'[n + 1]
  BY <1>4 DEF Top, Last
<1>7. \A k \in 1 .. n - 1 : k \in 1 .. n /\ k # n
  BY <1>1
<1> QED
  BY <1>4, <1>6, <1>7 DEF Pushes, SameBelow, x, y, n, F

\* A step that returns drops the frame on top.
LEMMA PopsIs ==
  ASSUME TreeTypeOK, verdict = "parsing", stack' = Front(stack)
  PROVE  Pops
<1> DEFINE n == Len(stack)
           F == Frames
<1>1. n \in Nat \ {0} /\ stack \in Seq(F) /\ n = Len(stack)
  BY TopIs DEF TreeTypeOK
<1>2. stack' = SubSeq(stack, 1, n - 1)
  BY DEF Front
<1> HIDE DEF n, F
<1>3. stack' \in Seq(F) /\ Len(stack') = n - 1 /\ \A k \in 1 .. n - 1 : stack'[k] = stack[k]
  BY <1>1, <1>2
<1>4. n > 1 => Top' = stack'[n - 1]
  BY <1>3 DEF Top, Last
<1> QED
  BY <1>1, <1>3, <1>4 DEF Pops, SameBelow, n, F

\* A hit is the first one.
LEMMA FindIs ==
  ASSUME NEW p \in Nat \ {0}, NEW toks, size \in Nat
  PROVE  \/ Find(p, toks) = 0 /\ \A k \in p .. size : text[k] \notin toks
         \/ /\ Find(p, toks) \in p .. size /\ text[Find(p, toks)] \in toks /\ Find(p, toks) # 0
            /\ \A k \in p .. Find(p, toks) - 1 : text[k] \notin toks
<1> DEFINE hits == {k \in p .. size : text[k] \in toks}
           f == CHOOSE k \in hits : \A l \in hits : k <= l
<1>1. CASE hits = {}
  BY <1>1 DEF Find
<1>2. CASE hits # {}
  <2>1. Find(p, toks) = f
    BY <1>2, Zenon DEF Find
  <2>2. \E k \in hits : \A l \in hits : k <= l
    <3>1. hits \subseteq Nat
      OBVIOUS
    <3> HIDE DEF hits
    <3> QED
      BY <1>2, <3>1, Least
  <2>3. f \in hits /\ \A l \in hits : f <= l
    <3> HIDE DEF hits
    <3> QED
      BY <2>2, Zenon
  <2>4. ASSUME NEW k \in p .. f - 1 PROVE text[k] \notin toks
    <3>1. f \in p .. size
      BY <2>3
    <3>2. ~ (f <= k) /\ k \in p .. size
      <4> HIDE DEF f
      <4> QED
        BY <3>1
    <3> HIDE DEF f
    <3> QED
      BY <2>3, <3>2
  <2>5. f \in p .. size /\ text[f] \in toks
    BY <2>3
  <2> HIDE DEF f
  <2> QED
    BY <2>1, <2>4, <2>5
<1> QED
  BY <1>1, <1>2

\* What is at the places the parser looks at is a token.
LEMMA TextIs ==
  ASSUME TreeTypeOK
  PROVE  /\ size \in Nat /\ Len(text) \in Nat /\ size <= Len(text)
         /\ \A p \in Nat \ {0} : p <= Len(text) => text[p] \in Tokens
         /\ \A p \in Nat \ {0} : p <= size => text[p] \in Tokens /\ Char(p) = text[p]
         /\ \A p \in Nat \ {0}, q \in Nat : q <= Len(text) => SubSeq(text, p, q) \in Seq(Tokens)
<1> DEFINE X == Tokens
<1>1. text \in Seq(X) /\ size \in 0 .. Len(text)
  BY DEF TreeTypeOK
<1> HIDE DEF X
<1>2. size \in Nat /\ Len(text) \in Nat /\ size <= Len(text)
      /\ (\A p \in Nat \ {0} : p <= Len(text) => text[p] \in X)
  BY <1>1
<1>3. \A p \in Nat \ {0} : p <= size => text[p] \in X /\ Char(p) = text[p]
  BY <1>2 DEF Char
<1>4. \A p \in Nat \ {0}, q \in Nat : q <= Len(text) => SubSeq(text, p, q) \in Seq(X)
  BY <1>1
<1> QED
  BY <1>2, <1>3, <1>4 DEF X

\* At the value of an attribute there is an attribute to set.
LEMMA SetValueNodes ==
  ASSUME TreeTypeOK, Placed, verdict = "parsing", Top.at = "attrValue",
         NEW v \in Seq(Tokens), NEW m \in Nat
  PROVE  Changed(SetValue(v, m), Rec(Now.type, Assigned(Now.attrs, v, m), Now.kids, Now.raw, Now.run))
<1>1. Now.attrs # <<>>
  BY Zenon DEF Placed, Now
<1> QED
  BY <1>1, SetValueIs

\* What is added to the node on top.
NewAttr(name) == [name |-> name, value |-> <<>>, node |-> 0]

\* At a name, the name is appended to the attributes.
LEMMA NameNodes ==
  ASSUME TreeTypeOK, Placed, verdict = "parsing", Top.at = "name"
  PROVE  Changed([nodes EXCEPT ![Top.node].attrs = Append(@, [name |-> text[pos], value |-> <<>>, node |-> 0])],
                 Rec(Now.type, Append(Now.attrs, NewAttr(text[pos])), Now.kids, Now.raw, Now.run))
<1> DEFINE a == NewAttr(text[pos])
<1>1. a \in AttrRecs
  <2>1. text[pos] \in Strings
    BY Zenon DEF Placed
  <2> QED
    BY <2>1 DEF AttrRecs, NewAttr
<1>2. Append(Now.attrs, a) \in Seq(AttrRecs)
  BY <1>1, TopIs DEF NodeRecs
<1>3. [nodes EXCEPT ![Top.node].attrs = Append(@, [name |-> text[pos], value |-> <<>>, node |-> 0])]
      = [nodes EXCEPT ![Top.node].attrs = Append(Now.attrs, a)]
  BY Zenon DEF NewAttr, Now
<1> QED
  BY <1>2, <1>3, Updates

\* Where the search for the end of a number stops.
LEMMA EndOfNumberIs ==
  ASSUME TreeTypeOK
  PROVE  EndOfNumber # 0 => /\ EndOfNumber \in pos .. size /\ EndOfNumber \in Nat \ {0}
                            /\ text[EndOfNumber] \in {",", "}"}
                            /\ SubSeq(text, pos, EndOfNumber - 1) \in Seq(Tokens)
<1> DEFINE e == EndOfNumber
<1>0. pos \in Nat \ {0} /\ size \in Nat /\ Len(text) \in Nat /\ size <= Len(text)
  BY TextIs DEF TreeTypeOK
<1>1. e # 0 => e \in pos .. size /\ text[e] \in {",", "}"}
  BY <1>0, FindIs, Zenon DEF EndOfNumber
<1> HIDE DEF e
<1>2. ASSUME e # 0 PROVE e \in Nat \ {0} /\ e - 1 \in Nat /\ e - 1 <= Len(text)
  <2>1. e \in pos .. size
    BY <1>1, <1>2, Zenon
  <2> QED
    BY <1>0, <2>1
<1>3. e # 0 => SubSeq(text, pos, e - 1) \in Seq(Tokens)
  BY <1>0, <1>2, TextIs
<1> QED
  BY <1>1, <1>2, <1>3, Zenon DEF e

\* Where the search for the end of an element stops.
LEMMA EndOfElementIs ==
  ASSUME TreeTypeOK
  PROVE  EndOfElement # 0 => /\ EndOfElement \in pos + 1 .. size /\ EndOfElement \in Nat \ {0}
                             /\ text[EndOfElement] \in {",", "]"}
                             /\ SubSeq(text, pos, EndOfElement - 1) \in Seq(Tokens)
<1> DEFINE e == EndOfElement q == pos + 1
<1>0. pos \in Nat \ {0} /\ size \in Nat /\ q \in Nat \ {0} /\ q = pos + 1
      /\ Len(text) \in Nat /\ size <= Len(text)
  BY TextIs DEF TreeTypeOK
<1>1. e # 0 => e \in q .. size /\ text[e] \in {",", "]"}
  <2> HIDE DEF q
  <2>1. e = Find(q, {",", "]"})
    BY DEF EndOfElement, q
  <2> HIDE DEF e
  <2> QED
    BY <1>0, <2>1, FindIs, Zenon
<1> HIDE DEF e, q
<1>2. ASSUME e # 0 PROVE e \in Nat \ {0} /\ e - 1 \in Nat /\ e - 1 <= Len(text)
  <2>1. e \in q .. size
    BY <1>1, <1>2, Zenon
  <2> QED
    BY <1>0, <2>1
<1>3. e # 0 => SubSeq(text, pos, e - 1) \in Seq(Tokens)
  BY <1>0, <1>2, TextIs
<1> QED
  BY <1>1, <1>2, <1>3, Zenon DEF e, q

\* A step that stays in the node changes that node at most.
LEMMA OnwardNodes ==
  ASSUME TreeTypeOK, Placed, verdict = "parsing", Onward
  PROVE  nodes' = nodes \/ \E v : Changed(nodes', v)
<1> USE DEF At
<1>0. /\ \A p \in Nat \ {0} : p <= Len(text) => text[p] \in Tokens
      /\ pos \in Nat \ {0} /\ size <= Len(text) /\ size \in Nat /\ Len(text) \in Nat
  BY TextIs DEF TreeTypeOK
<1>1. CASE At("value") /\ nodes' = [nodes EXCEPT ![Top.node].type = "CONTAINER"]
  <2>1. "CONTAINER" \in NodeTypes
    BY DEF NodeTypes
  <2> QED
    BY <1>1, <2>1, Updates
<1>2. CASE At("name") /\ nodes' = [nodes EXCEPT ![Top.node].attrs =
                    Append(@, [name |-> text[pos], value |-> <<>>, node |-> 0])]
  BY <1>2, NameNodes
<1>3. CASE At("attrValue") /\ text[pos] \in Strings /\ nodes' = SetValue(<<text[pos]>>, 0)
  <2>1. <<text[pos]>> \in Seq(Tokens)
    BY <1>3 DEF Tokens
  <2> QED
    BY <1>3, <2>1, SetValueNodes
<1>4. CASE At("attrValue") /\ EndOfNumber # 0 /\ nodes' = SetValue(SubSeq(text, pos, EndOfNumber - 1), 0)
  BY <1>4, EndOfNumberIs, SetValueNodes, Zenon
<1>5. CASE At("strings") /\ nodes' = AddArrayElement(<<text[pos]>>)
  <2>1. <<text[pos]>> \in Seq(Tokens)
    <3>1. text[pos] \in Strings
      BY <1>5, Zenon DEF Placed
    <3> QED
      BY <3>1 DEF Tokens
  <2> QED
    BY <2>1, <1>5, AddArrayElementIs
<1>6. CASE EndOfElement # 0 /\ nodes' = MoreRaw
  BY <1>6, EndOfElementIs, AddArrayElementIs, Zenon DEF MoreRaw
<1>7. CASE nodes' = nodes
  BY <1>7
<1> QED
  BY <1>1, <1>2, <1>3, <1>4, <1>5, <1>6, <1>7, Zenon DEF Onward

\* A new node is under the node on top.
LEMMA InwardNodes ==
  ASSUME TreeTypeOK, Placed, verdict = "parsing", Inward
  PROVE  \E s, p, type, under :
           /\ s \in {"afterAttr", "afterChild"} /\ p \in Nat \ {0} /\ type \in NodeTypes
           /\ Enters(s, p, type, under) /\ p <= size
           /\ \E v : Changed(under, v)
<1> USE DEF At
<1>0. pos \in Nat \ {0} /\ size \in Nat /\ Len(nodes) + 1 \in Nat
  BY TextIs DEF TreeTypeOK
<1>1. CASE At("attrValue") /\ Enters("afterAttr", pos, Type, SetValue(<<>>, Len(nodes) + 1))
  <2>1. Type \in NodeTypes
    BY DEF Type, getNodeType, NodeTypes
  <2>2. \E v : Changed(SetValue(<<>>, Len(nodes) + 1), v)
    <3>1. <<>> \in Seq(Tokens)
      OBVIOUS
    <3> QED
      BY <1>1, <1>0, <3>1, SetValueNodes, Zenon
  <2>3. pos <= size
    BY <1>1, Zenon DEF Placed
  <2> DEFINE under == SetValue(<<>>, Len(nodes) + 1)
  <2> HIDE DEF under
  <2> QED
    BY <1>0, <1>1, <2>1, <2>2, <2>3 DEF under
<1>2. CASE At("elements") /\ Enters("afterChild", pos, "NORMAL", WithKid)
  <2>3. pos <= size
    BY <1>2, Zenon DEF Placed
  <2> QED
    BY <1>0, <1>2, <2>3, WithKidIs DEF NodeTypes
<1>3. CASE pos < size /\ Enters("afterChild", pos + 1, "NORMAL", WithKid)
  <2>1. pos + 1 \in Nat \ {0} /\ pos + 1 <= size
    BY <1>0, <1>3
  <2> QED
    BY <1>3, <2>1, WithKidIs DEF NodeTypes
<1> QED
  BY <1>1, <1>2, <1>3, Zenon DEF Inward

\* A step that leaves the node changes that node at most.
LEMMA OutwardNodes ==
  ASSUME TreeTypeOK, Placed, verdict = "parsing", Outward \/ Overrun
  PROVE  \E p, under :
           /\ p \in Nat \ {0}
           /\ Returns(p, under)
           /\ under = nodes \/ \E v : Changed(under, v)
<1> USE DEF At
<1>0. pos \in Nat \ {0} /\ size \in Nat /\ pos + 1 \in Nat \ {0} /\ pos + 2 \in Nat \ {0}
  BY TextIs DEF TreeTypeOK
<1>1. CASE At("strings") /\ Returns(pos + 2, AddArrayElement(<<text[pos]>>))
  <2>1. <<text[pos]>> \in Seq(Tokens)
    <3>1. text[pos] \in Strings
      BY <1>1, Zenon DEF Placed
    <3> QED
      BY <3>1 DEF Tokens
  <2> QED
    BY <1>0, <1>1, <2>1, AddArrayElementIs, Zenon
<1>2. CASE EndOfElement # 0 /\ Returns(EndOfElement + 1, MoreRaw)
  <2>1. EndOfElement + 1 \in Nat \ {0}
    <3> DEFINE e == EndOfElement
    <3>1. e \in Nat \ {0}
      BY <1>2, EndOfElementIs, Zenon
    <3> HIDE DEF e
    <3>2. e + 1 \in Nat \ {0}
      BY <3>1
    <3> QED
      BY <3>2 DEF e
  <2>2. \E v : Changed(MoreRaw, v)
    BY <1>2, EndOfElementIs, AddArrayElementIs, Zenon DEF MoreRaw
  <2> QED
    BY <1>2, <2>1, <2>2, Zenon
<1>3. CASE Returns(pos + 1, nodes) \/ Returns(pos, nodes)
  BY <1>0, <1>3, Zenon
<1> QED
  BY <1>1, <1>2, <1>3, Zenon DEF Outward, Overrun

\* A step that stays in the node goes on in a state of the parser.
LEMMA OnwardGoes ==
  ASSUME TreeTypeOK, Placed, verdict = "parsing", Onward
  PROVE  \E s \in States, p \in Nat \ {0} : GoesOn(s, p)
<1>1. pos \in Nat \ {0} /\ pos + 1 \in Nat \ {0} /\ pos + 2 \in Nat \ {0}
  BY DEF TreeTypeOK
<1>2. /\ EndOfNumber # 0 => EndOfNumber \in Nat \ {0}
      /\ EndOfElement # 0 => EndOfElement + 1 \in Nat \ {0}
  <2> DEFINE e == EndOfElement
  <2>1. e # 0 => e \in Nat \ {0}
    BY EndOfElementIs, Zenon
  <2> HIDE DEF e
  <2>2. e # 0 => e + 1 \in Nat \ {0}
    BY <2>1
  <2> QED
    BY <2>2, EndOfNumberIs, Zenon DEF e
<1>3. /\ "members" \in States /\ "elements" \in States /\ "name" \in States /\ "colon" \in States
      /\ "attrValue" \in States /\ "afterAttr" \in States /\ "strings" \in States /\ "numbers" \in States
  BY DEF States
<1> QED
  BY <1>1, <1>2, <1>3, Zenon DEF Onward

\* What a step has to show for the type invariant.
LEMMA TypeIsKept ==
  ASSUME TreeInv, verdict = "parsing", text' = text, size' = size, pos' \in Nat \ {0},
         nodes' \in Seq(NodeRecs), nodes' # <<>>, Len(nodes) <= Len(nodes'), stack' \in Seq(Frames),
         verdict' \in {"parsing", "tree"}, verdict' = "parsing" <=> stack' # <<>>,
         \A k \in DOMAIN stack' : stack'[k].node \in DOMAIN nodes'
  PROVE  TreeTypeOK'
BY DEF TreeInv, TreeTypeOK

\* Types and waiting frames after a step that stays in the node.
LEMMA OnwardType ==
  ASSUME TreeInv, verdict = "parsing", Onward
  PROVE  TreeTypeOK' /\ Waiting'
<1> USE DEF TreeInv
<1>1. PICK s \in States, p \in Nat \ {0} : GoesOn(s, p)
  BY OnwardGoes
<1>2. Stays(s)
  BY <1>1, StaysIs
<1>3. nodes' \in Seq(NodeRecs) /\ Len(nodes') = Len(nodes) /\ nodes # <<>> /\ nodes \in Seq(NodeRecs)
  BY OnwardNodes DEF Changed, TreeTypeOK
<1>4. DOMAIN nodes' = 1 .. Len(nodes) /\ DOMAIN nodes = 1 .. Len(nodes) /\ nodes' # <<>>
  BY <1>3
<1>5. Len(stack) \in Nat \ {0} /\ Top.node \in DOMAIN nodes /\ DOMAIN stack = 1 .. Len(stack)
      /\ stack' \in Seq(Frames) /\ DOMAIN stack' = 1 .. Len(stack)
  BY <1>2, TopIs DEF Stays
<1> DEFINE n == Len(stack)
<1> HIDE DEF n
<1>6. n \in Nat \ {0} /\ DOMAIN stack' = 1 .. n /\ DOMAIN stack = 1 .. n
      /\ stack'[n] = [node |-> Top.node, at |-> s] /\ Len(stack') = n
      /\ \A k \in 1 .. n - 1 : stack'[k] = stack[k]
  BY <1>2, <1>5 DEF Stays, SameBelow, n
<1>7. ASSUME NEW k \in 1 .. n PROVE stack'[k].node \in DOMAIN nodes'
  <2>1. CASE k = n
    BY <2>1, <1>6, <1>5, <1>4
  <2>2. CASE k # n
    <3>1. k \in 1 .. n - 1
      BY <2>2, <1>6
    <3>2. stack[k].node \in DOMAIN nodes
      BY <1>6 DEF TreeTypeOK
    <3> QED
      BY <3>1, <3>2, <1>6, <1>4
  <2> QED
    BY <2>1, <2>2
<1>8. TreeTypeOK'
  <2>1. text' = text /\ size' = size /\ pos' \in Nat \ {0} /\ verdict' = "parsing"
    BY <1>1 DEF GoesOn
  <2>2. stack' # <<>>
    BY <1>5, <1>6
  <2>3. Len(nodes) <= Len(nodes')
    BY <1>3
  <2> QED
    BY <2>1, <2>2, <2>3, <1>3, <1>4, <1>5, <1>6, <1>7, TypeIsKept
<1>9. Waiting'
  <2>1. \A k \in 1 .. n - 1 : stack'[k].at \in {"afterAttr", "afterChild"}
    BY <1>6 DEF Waiting, n
  <2> QED
    BY <1>6, <2>1 DEF Waiting
<1> QED
  BY <1>8, <1>9

\* Types and waiting frames after a step into a child.
LEMMA InwardType ==
  ASSUME TreeInv, verdict = "parsing", Inward
  PROVE  TreeTypeOK' /\ Waiting'
<1> USE DEF TreeInv
<1>1. PICK s, p, type, under :
           /\ s \in {"afterAttr", "afterChild"} /\ p \in Nat \ {0} /\ type \in NodeTypes
           /\ Enters(s, p, type, under) /\ p <= size
           /\ \E v : Changed(under, v)
  BY InwardNodes
<1>a. s \in {"afterAttr", "afterChild"} /\ p \in Nat \ {0} /\ type \in NodeTypes
  BY <1>1
<1>2. Pushes(s)
  <2>1. s \in States
    BY <1>a DEF States
  <2> QED
    BY <1>1, <2>1, PushesIs
<1>3. nodes' \in Seq(NodeRecs) /\ Len(nodes') = Len(nodes) + 1 /\ nodes \in Seq(NodeRecs)
  <2>1. under \in Seq(NodeRecs) /\ Len(under) = Len(nodes) /\ nodes \in Seq(NodeRecs)
    BY <1>1 DEF Changed, TreeTypeOK
  <2>2. NewNode(type) \in NodeRecs
    <3>1. /\ <<>> \in Seq(AttrRecs) /\ <<>> \in Seq(Nat) /\ <<>> \in Seq(Seq(Tokens))
      OBVIOUS
    <3> QED
      BY <1>a, <3>1 DEF NewNode, NodeRecs
  <2>3. nodes' = Append(under, NewNode(type))
    BY <1>1 DEF Enters
  <2> DEFINE X == NodeRecs y == NewNode(type)
  <2> HIDE DEF X, y
  <2>4. under \in Seq(X) /\ y \in X /\ nodes' = Append(under, y)
    BY <2>1, <2>2, <2>3 DEF X, y
  <2>5. nodes' \in Seq(X) /\ Len(nodes') = Len(nodes) + 1
    BY <2>1, <2>4
  <2> QED
    BY <2>1, <2>5 DEF X
<1>4. DOMAIN nodes' = 1 .. Len(nodes) + 1 /\ DOMAIN nodes = 1 .. Len(nodes) /\ nodes' # <<>>
      /\ Len(nodes) \in Nat
  BY <1>3
<1>5. Len(stack) \in Nat \ {0} /\ Top.node \in DOMAIN nodes /\ DOMAIN stack = 1 .. Len(stack)
      /\ stack' \in Seq(Frames) /\ DOMAIN stack' = 1 .. Len(stack) + 1
  BY <1>2, TopIs DEF Pushes
<1> DEFINE n == Len(stack)
<1> HIDE DEF n
<1>6. n \in Nat \ {0} /\ DOMAIN stack' = 1 .. n + 1 /\ DOMAIN stack = 1 .. n
      /\ stack'[n] = [node |-> Top.node, at |-> s] /\ Len(stack') = n + 1
      /\ stack'[n + 1] = [node |-> Len(nodes) + 1, at |-> "value"]
      /\ \A k \in 1 .. n - 1 : stack'[k] = stack[k]
  BY <1>2, <1>5 DEF Pushes, SameBelow, n
<1>7. ASSUME NEW k \in 1 .. n + 1 PROVE stack'[k].node \in DOMAIN nodes'
  <2>1. CASE k = n
    BY <2>1, <1>6, <1>5, <1>4
  <2>2. CASE k = n + 1
    BY <2>2, <1>6, <1>4
  <2>3. CASE k # n /\ k # n + 1
    <3>1. k \in 1 .. n - 1 /\ k \in 1 .. n
      BY <2>3, <1>6
    <3>2. stack[k].node \in DOMAIN nodes
      BY <3>1, <1>6 DEF TreeTypeOK
    <3> QED
      BY <3>1, <3>2, <1>6, <1>4
  <2> QED
    BY <2>1, <2>2, <2>3
<1>8. TreeTypeOK'
  <2>1. text' = text /\ size' = size /\ pos' \in Nat \ {0} /\ verdict' = "parsing"
    BY <1>1 DEF Enters
  <2>2. stack' # <<>>
    BY <1>5, <1>6
  <2>3. Len(nodes) <= Len(nodes')
    BY <1>3, <1>4
  <2> QED
    BY <2>1, <2>2, <2>3, <1>3, <1>4, <1>5, <1>6, <1>7, TypeIsKept
<1>9. Waiting'
  <2>1. \A k \in 1 .. n : k = n \/ k \in 1 .. n - 1
    BY <1>6
  <2>a. stack'[n].at \in {"afterAttr", "afterChild"}
    BY <1>6, <1>a
  <2>b. \A k \in 1 .. n - 1 : stack'[k].at \in {"afterAttr", "afterChild"}
    BY <1>6 DEF Waiting, n
  <2>2. \A k \in 1 .. n : stack'[k].at \in {"afterAttr", "afterChild"}
    BY <2>1, <2>a, <2>b
  <2>3. Len(stack') - 1 = n
    BY <1>6
  <2> QED
    BY <2>2, <2>3 DEF Waiting
<1> QED
  BY <1>8, <1>9

\* A return gives the node on top an outcome of its _init and no more.
LEMMA RunChanges ==
  ASSUME TreeTypeOK, verdict = "parsing", NEW p, NEW under, Returns(p, under),
         under \in Seq(NodeRecs), Len(under) = Len(nodes)
  PROVE  nodes' \in Seq(NodeRecs) /\ Len(nodes') = Len(nodes) /\ nodes' # <<>>
         /\ \E obj \in InitOutcomes(Top.node) :
              /\ nodes[Top.node].type \in RunnableKinds => obj # NoRun
              /\ nodes'[Top.node] = [under[Top.node] EXCEPT !.run = obj]
              /\ \A m \in DOMAIN nodes : m # Top.node => nodes'[m] = under[m]
<1>1. PICK obj \in InitOutcomes(Top.node) :
       /\ nodes[Top.node].type \in RunnableKinds => obj # NoRun
       /\ nodes' = [under EXCEPT ![Top.node].run = obj]
  BY DEF Returns
<1>2. obj \in Nodes \cup {NoRun}
  BY OutcomesAre
<1> DEFINE n == Top.node
           X == NodeRecs
           y == [under[n] EXCEPT !.run = obj]
<1>3. n \in 1 .. Len(nodes) /\ Len(nodes) \in Nat /\ DOMAIN nodes = 1 .. Len(nodes)
      /\ under \in Seq(X) /\ nodes' = [under EXCEPT ![n] = y]
  BY <1>1, TopIs DEF TreeTypeOK
<1>4. y \in X
  <2>1. under[n] \in NodeRecs
    BY <1>3
  <2> DEFINE A == NodeTypes B == Seq(AttrRecs) C == Seq(Nat) D == Seq(Seq(Tokens)) E == Nodes \cup {NoRun}
             r == under[n]
  <2>2. r \in [type : A, attrs : B, kids : C, raw : D, run : E] /\ obj \in E
    BY <1>2, <2>1 DEF NodeRecs
  <2>3. X = [type : A, attrs : B, kids : C, raw : D, run : E]
    BY DEF NodeRecs
  <2> HIDE DEF A, B, C, D, E, r, X
  <2>4. [r EXCEPT !.run = obj] \in [type : A, attrs : B, kids : C, raw : D, run : E]
    BY <2>2
  <2> QED
    BY <2>3, <2>4 DEF r
<1> HIDE DEF n, X, y
<1>5. nodes' \in Seq(X) /\ Len(nodes') = Len(nodes) /\ nodes'[n] = y
      /\ \A m \in 1 .. Len(nodes) : m # n => nodes'[m] = under[m]
  BY <1>3, <1>4
<1>6. nodes' # <<>>
  BY <1>3, <1>5
<1> QED
  BY <1>1, <1>3, <1>5, <1>6 DEF n, X, y

\* Types and waiting frames after a step that leaves the node.
LEMMA OutwardType ==
  ASSUME TreeInv, verdict = "parsing", Outward \/ Overrun
  PROVE  TreeTypeOK' /\ Waiting' /\ (verdict' = "parsing" => Top'.at \in {"afterAttr", "afterChild"})
         /\ verdict' \in {"parsing", "tree"} /\ UNCHANGED <<text, size>>
<1> USE DEF TreeInv
<1>1. PICK p, under : p \in Nat \ {0} /\ Returns(p, under) /\ (under = nodes \/ \E v : Changed(under, v))
  BY OutwardNodes
<1>2. Pops
  BY <1>1, PopsIs DEF Returns
<1>3. nodes' \in Seq(NodeRecs) /\ Len(nodes') = Len(nodes) /\ nodes' # <<>> /\ nodes \in Seq(NodeRecs)
  <2>1. under \in Seq(NodeRecs) /\ Len(under) = Len(nodes)
    BY <1>1 DEF Changed, TreeTypeOK
  <2> QED
    BY <1>1, <2>1, RunChanges DEF TreeTypeOK
<1>4. DOMAIN nodes' = 1 .. Len(nodes) /\ DOMAIN nodes = 1 .. Len(nodes)
  BY <1>3
<1>5. Len(stack) \in Nat \ {0} /\ DOMAIN stack = 1 .. Len(stack)
      /\ stack' \in Seq(Frames) /\ DOMAIN stack' = 1 .. Len(stack) - 1
  BY <1>2, TopIs DEF Pops
<1> DEFINE n == Len(stack)
<1> HIDE DEF n
<1>6. n \in Nat \ {0} /\ DOMAIN stack' = 1 .. n - 1 /\ DOMAIN stack = 1 .. n
      /\ Len(stack') = n - 1 /\ (n > 1 => Top' = stack'[n - 1])
      /\ \A k \in 1 .. n - 1 : stack'[k] = stack[k]
  BY <1>2, <1>5 DEF Pops, SameBelow, n
<1>7. ASSUME NEW k \in 1 .. n - 1 PROVE stack'[k].node \in DOMAIN nodes'
  <2>1. k \in 1 .. n
    BY <1>6
  <2>2. stack[k].node \in DOMAIN nodes
    BY <2>1, <1>6 DEF TreeTypeOK
  <2> QED
    BY <2>2, <1>6, <1>4
<1>v. verdict' = IF n = 1 THEN "tree" ELSE "parsing"
  BY <1>1 DEF Returns, n
<1>8. TreeTypeOK'
  <2>1. text' = text /\ size' = size /\ pos' \in Nat \ {0} /\ verdict' \in {"parsing", "tree"}
    BY <1>1, <1>v DEF Returns
  <2>2. verdict' = "parsing" <=> stack' # <<>>
    <3>1. n = 1 <=> stack' = <<>>
      BY <1>5, <1>6
    <3> QED
      BY <3>1, <1>v
  <2>3. Len(nodes) <= Len(nodes')
    BY <1>3
  <2> QED
    BY <2>1, <2>2, <2>3, <1>3, <1>4, <1>5, <1>6, <1>7, TypeIsKept
<1>9. Waiting'
  <2>1. \A k \in 1 .. n - 2 : k \in 1 .. n - 1
    BY <1>6
  <2>2. \A k \in 1 .. n - 2 : stack'[k].at \in {"afterAttr", "afterChild"}
    BY <1>6, <2>1 DEF Waiting, n
  <2>3. Len(stack') - 1 = n - 2
    BY <1>6
  <2> QED
    BY <2>2, <2>3 DEF Waiting
<1>10. ASSUME verdict' = "parsing" PROVE Top'.at \in {"afterAttr", "afterChild"}
  <2>1. n > 1
    BY <1>v, <1>6, <1>10
  <2>2. n - 1 \in 1 .. n - 1 /\ Top' = stack[n - 1]
    BY <2>1, <1>6
  <2> QED
    BY <2>2 DEF Waiting, n
<1> QED
  BY <1>8, <1>9, <1>10, <1>1, <1>v DEF Returns

\* What is placed where, as one formula for the state and the place.
PlacedAt(t, z, s, p, as) ==
  /\ s \notin {"strings", "afterAttr", "afterChild"} => p <= z
  /\ s \in {"name", "strings"} => p <= Len(t) /\ t[p] \in Strings
  /\ s = "members" => p > 1 /\ t[p - 1] = "{"
  /\ s = "elements" => p > 1 /\ t[p - 1] = "["
  /\ s = "colon" =>
       /\ p > 1 /\ t[p - 1] \in Strings \ {Empty}
       /\ as # <<>> /\ Last(as).name = t[p - 1]
  /\ s = "attrValue" =>
       /\ p > 2 /\ t[p - 2] \in Strings \ {Empty} /\ t[p - 1] = ":"
       /\ as # <<>> /\ Last(as).name = t[p - 2]

\* Placed, with the place told by the operator.
LEMMA PlacedIs ==
  Placed <=> (verdict = "parsing" =>
                /\ size > 0 /\ text[1] \in {"{", "["} /\ text[size] \in {"}", "]"}
                /\ PlacedAt(text, size, Top.at, pos, Now.attrs))
BY Zenon DEF Placed, PlacedAt, Now

\* What a step has to show for Placed.
LEMMA PlacedNext ==
  ASSUME Placed, verdict = "parsing", text' = text, size' = size, NEW s, NEW p,
         verdict' = "parsing" =>
           /\ Top'.at = s /\ pos' = p /\ PlacedAt(text, size, s, p, nodes'[Top'.node].attrs)
  PROVE  Placed'
<1>1. size > 0 /\ text[1] \in {"{", "["} /\ text[size] \in {"}", "]"}
  BY Zenon DEF Placed
<1> QED
  BY <1>1, Zenon DEF Placed, PlacedAt

\* Brackets, names and numbers are different tokens.
LEMMA TokensDiffer ==
  /\ \A x \in Strings : x \notin {"{", "}", "[", "]", ",", ":"} /\ x \notin Numbers
  /\ \A x \in Numbers : x \notin {"{", "}", "[", "]", ",", ":"} /\ x \notin Strings
BY TreeAssumption, Zenon DEF Punctuation

Shuts == {"}", "]"}

\* The last character of the input is not reached by what goes on behind it.
LEMMA NotLast ==
  ASSUME TreeTypeOK, Placed, verdict = "parsing", NEW p \in Nat \ {0}, p <= size,
         text[p] \notin Shuts
  PROVE  p + 1 <= size /\ p + 1 \in Nat \ {0} /\ p + 1 - 1 = p /\ p + 1 > 1
<1>1. p # size /\ size \in Nat
  BY TextIs, Zenon DEF Placed, Shuts
<1> QED
  BY <1>1

\* The four states that look back.
LEMMA LooksBack ==
  ASSUME NEW t, NEW z, NEW p, NEW l, p <= z, p > 1
  PROVE  /\ t[p - 1] = "{" => PlacedAt(t, z, "members", p, l)
         /\ t[p - 1] = "[" => PlacedAt(t, z, "elements", p, l)
         /\ t[p - 1] \in Strings \ {Empty} /\ l # <<>> /\ Last(l).name = t[p - 1]
              => PlacedAt(t, z, "colon", p, l)
         /\ p > 2 /\ t[p - 2] \in Strings \ {Empty} /\ t[p - 1] = ":" /\ l # <<>> /\ Last(l).name = t[p - 2]
              => PlacedAt(t, z, "attrValue", p, l)
<1>1. ASSUME t[p - 1] = "{" PROVE PlacedAt(t, z, "members", p, l)
  BY <1>1, Zenon DEF PlacedAt
<1>2. ASSUME t[p - 1] = "[" PROVE PlacedAt(t, z, "elements", p, l)
  BY <1>2, Zenon DEF PlacedAt
<1>3. ASSUME t[p - 1] \in Strings \ {Empty}, l # <<>>, Last(l).name = t[p - 1]
      PROVE  PlacedAt(t, z, "colon", p, l)
  BY <1>3, Zenon DEF PlacedAt
<1>4. ASSUME p > 2, t[p - 2] \in Strings \ {Empty}, t[p - 1] = ":", l # <<>>, Last(l).name = t[p - 2]
      PROVE  PlacedAt(t, z, "attrValue", p, l)
  BY <1>4, Zenon DEF PlacedAt
<1> QED
  BY <1>1, <1>2, <1>3, <1>4, Zenon

\* A step that stays in the node stops where its state expects.
LEMMA OnwardPlaced ==
  ASSUME TreeInv, verdict = "parsing", Onward
  PROVE  Placed'
<1> USE DEF At, TreeInv
<1>0. /\ pos \in Nat \ {0} /\ size \in Nat /\ Len(text) \in Nat /\ size <= Len(text)
      /\ Top.at \notin {"strings", "afterAttr", "afterChild"} => pos <= size
      /\ Top.at \in {"name", "strings"} => pos <= Len(text) /\ text[pos] \in Strings
  BY TextIs, Zenon DEF Placed, TreeTypeOK
<1>1. ASSUME NEW s \in States, NEW p \in Nat \ {0}, GoesOn(s, p),
             PlacedAt(text, size, s, p, nodes'[Top.node].attrs)
      PROVE  Placed'
  <2>1. Stays(s)
    BY <1>1, StaysIs
  <2>2. /\ Top'.at = s /\ Top'.node = Top.node /\ text' = text /\ size' = size /\ pos' = p
        /\ verdict' = "parsing"
    BY <1>1, <2>1 DEF Stays, GoesOn
  <2> QED
    BY <1>1, <2>2, PlacedNext
<1>2. pos + 1 - 1 = pos /\ pos + 1 + 1 > 2 /\ pos + 1 - 2 = pos - 1 /\ pos + 1 \in Nat \ {0} /\ pos + 2 \in Nat \ {0}
  BY <1>0
<1>t. text[pos + 1 - 1] = text[pos] /\ text[pos + 1 - 2] = text[pos - 1]
  BY <1>2
<1>3. pos <= size /\ text[pos] \notin Shuts => pos + 1 <= size /\ pos + 1 > 1
  BY <1>0, NotLast
<1>4. \A x \in Strings : x \notin Shuts
  BY TokensDiffer, Zenon DEF Shuts
<1>5. "{" \notin Shuts /\ "[" \notin Shuts /\ "," \notin Shuts /\ ":" \notin Shuts
  BY DEF Shuts
<1>6. "members" \in States /\ "name" \in States /\ "colon" \in States /\ "attrValue" \in States /\ "afterAttr" \in States /\ "elements" \in States /\ "strings" \in States /\ "numbers" \in States
  BY DEF States
<1>a. CASE At("value") /\ text[pos] = "{" /\ GoesOn("members", pos + 1)
  <2>1. pos + 1 <= size /\ pos + 1 > 1
    BY <1>a, <1>0, <1>3, <1>5, Zenon
  <2> DEFINE q == pos + 1
  <2>p. q <= size /\ q > 1 /\ q - 1 = pos
    BY <1>0, <2>1
  <2>2. q <= size /\ q > 1 /\ text[q - 1] = text[pos]
    <3> HIDE DEF q
    <3> QED
      BY <2>p
  <2> HIDE DEF q
  <2>3. PlacedAt(text, size, "members", q, nodes'[Top.node].attrs)
    BY <1>a, <2>2, LooksBack, Zenon
  <2> QED
    BY <1>a, <1>1, <1>2, <1>6, <2>3, Zenon DEF q
<1>b. CASE At("value") /\ text[pos] = "[" /\ GoesOn("elements", pos + 1)
  <2>1. pos + 1 <= size /\ pos + 1 > 1
    BY <1>b, <1>0, <1>3, <1>5, Zenon
  <2> DEFINE q == pos + 1
  <2>p. q <= size /\ q > 1 /\ q - 1 = pos
    BY <1>0, <2>1
  <2>2. q <= size /\ q > 1 /\ text[q - 1] = text[pos]
    <3> HIDE DEF q
    <3> QED
      BY <2>p
  <2> HIDE DEF q
  <2>3. PlacedAt(text, size, "elements", q, nodes'[Top.node].attrs)
    BY <1>b, <2>2, LooksBack, Zenon
  <2> QED
    BY <1>b, <1>1, <1>2, <1>6, <2>3 DEF q
<1>c. CASE At("members") /\ text[pos] \in Strings /\ GoesOn("name", pos)
  <2>1. pos <= size /\ pos <= Len(text)
    BY <1>c, <1>0
  <2>2. PlacedAt(text, size, "name", pos, nodes'[Top.node].attrs)
    BY <1>c, <2>1, Zenon DEF PlacedAt
  <2> QED
    BY <1>c, <1>0, <1>1, <1>6, <2>2
<1>d. CASE /\ At("name") /\ text[pos] # Empty /\ GoesOn("colon", pos + 1)
           /\ nodes' = [nodes EXCEPT ![Top.node].attrs =
                          Append(@, [name |-> text[pos], value |-> <<>>, node |-> 0])]
  <2>1. pos + 1 <= size /\ pos + 1 > 1 /\ text[pos] \in Strings \ {Empty}
    BY <1>d, <1>0, <1>3, <1>4
  <2>2. nodes'[Top.node].attrs = Append(Now.attrs, NewAttr(text[pos]))
    <3>1. nodes'[Top.node] = Rec(Now.type, Append(Now.attrs, NewAttr(text[pos])), Now.kids, Now.raw, Now.run)
      BY <1>d, NameNodes DEF Changed
    <3> QED
      BY <3>1 DEF Rec
  <2>3. nodes'[Top.node].attrs # <<>> /\ Last(nodes'[Top.node].attrs).name = text[pos]
    <3> DEFINE l == Now.attrs a == NewAttr(text[pos]) X == AttrRecs
    <3>1. l \in Seq(X) /\ a \in X /\ a.name = text[pos]
      BY <2>1, TopIs DEF NodeRecs, AttrRecs, NewAttr
    <3> HIDE DEF l, a, X
    <3>2. Append(l, a) # <<>> /\ Last(Append(l, a)) = a
      BY <3>1 DEF Last
    <3> QED
      BY <2>2, <3>1, <3>2 DEF l, a
  <2> DEFINE q == pos + 1
  <2>p. q <= size /\ q > 1 /\ q - 1 = pos
    BY <1>0, <2>1
  <2>q. q <= size /\ q > 1 /\ text[q - 1] = text[pos]
    <3> HIDE DEF q
    <3> QED
      BY <2>p
  <2> HIDE DEF q
  <2>4. PlacedAt(text, size, "colon", q, nodes'[Top.node].attrs)
    BY <2>1, <2>3, <2>q, LooksBack, Zenon
  <2> QED
    BY <1>d, <1>1, <1>2, <1>6, <2>4 DEF q
<1>e. CASE At("colon") /\ text[pos] = ":" /\ nodes' = nodes /\ GoesOn("attrValue", pos + 1)
  <2>1. pos + 1 <= size /\ pos > 1
    BY <1>e, <1>0, <1>3, <1>5, Zenon DEF Placed
  <2>2. pos + 1 > 2
    BY <1>0, <2>1
  <2>3. /\ text[pos - 1] \in Strings \ {Empty}
        /\ nodes[Top.node].attrs # <<>> /\ Last(nodes[Top.node].attrs).name = text[pos - 1]
    BY <1>e, Zenon DEF Placed
  <2> DEFINE q == pos + 1
  <2>p. q <= size /\ q > 1 /\ q - 1 = pos /\ q > 2 /\ q - 2 = pos - 1
    BY <1>0, <2>1, <2>2
  <2>q. q <= size /\ q > 1 /\ q > 2 /\ text[q - 1] = text[pos] /\ text[q - 2] = text[pos - 1]
    <3> HIDE DEF q
    <3> QED
      BY <2>p
  <2> HIDE DEF q
  <2>4. PlacedAt(text, size, "attrValue", q, nodes'[Top.node].attrs)
    BY <1>e, <2>3, <2>q, LooksBack, Zenon
  <2> QED
    BY <1>e, <1>1, <1>2, <1>6, <2>4 DEF q
<1>f. ASSUME NEW p \in Nat \ {0}, GoesOn("afterAttr", p) PROVE Placed'
  <2>1. PlacedAt(text, size, "afterAttr", p, nodes'[Top.node].attrs)
    BY Zenon DEF PlacedAt
  <2> QED
    BY <1>f, <1>1, <1>6, <2>1
<1>g. CASE MoreAttrs /\ pos < size /\ GoesOn("name", pos + 1)
  <2>1. pos + 1 <= size /\ pos + 1 <= Len(text)
    BY <1>0, <1>g
  <2>2. text[pos + 1] \in Strings
    BY <1>g, <2>1, Zenon DEF MoreAttrs, Char
  <2>3. PlacedAt(text, size, "name", pos + 1, nodes'[Top.node].attrs)
    BY <2>1, <2>2, Zenon DEF PlacedAt
  <2> QED
    BY <1>g, <1>1, <1>2, <1>6, <2>3
<1>h. CASE At("elements") /\ text[pos] \in Strings /\ GoesOn("strings", pos)
  <2>1. pos <= Len(text)
    BY <1>h, <1>0
  <2>2. PlacedAt(text, size, "strings", pos, nodes'[Top.node].attrs)
    BY <1>h, <2>1, Zenon DEF PlacedAt
  <2> QED
    BY <1>h, <1>0, <1>1, <1>6, <2>2
<1>i. ASSUME NEW p \in Nat \ {0}, p <= size, GoesOn("numbers", p) PROVE Placed'
  <2>1. PlacedAt(text, size, "numbers", p, nodes'[Top.node].attrs)
    BY <1>i, Zenon DEF PlacedAt
  <2> QED
    BY <1>i, <1>1, <1>6, <2>1
<1>j. CASE At("strings") /\ Char(pos + 2) \in Strings /\ GoesOn("strings", pos + 2)
  <2>1. pos + 2 <= Len(text) /\ text[pos + 2] \in Strings
    BY <1>j, TreeAssumption DEF Char, Tokens
  <2>2. PlacedAt(text, size, "strings", pos + 2, nodes'[Top.node].attrs)
    BY <2>1, Zenon DEF PlacedAt
  <2> QED
    BY <1>j, <1>1, <1>2, <1>6, <2>2
<1>k. CASE At("numbers") /\ EndOfElement # 0 /\ text[EndOfElement] = "," /\ GoesOn("numbers", EndOfElement + 1)
  <2> DEFINE e == EndOfElement
  <2>1. e \in pos + 1 .. size /\ e \in Nat \ {0} /\ text[e] \notin Shuts
    BY <1>k, <1>5, EndOfElementIs, Zenon
  <2>2. GoesOn("numbers", e + 1)
    BY <1>k, Zenon
  <2> HIDE DEF e
  <2>3. e <= size
    BY <1>0, <2>1
  <2>4. e + 1 <= size /\ e + 1 \in Nat \ {0}
    BY <2>1, <2>3, NotLast
  <2> QED
    BY <1>i, <2>2, <2>4
<1>l. CASE EndOfNumber # 0 /\ GoesOn("afterAttr", EndOfNumber)
  BY <1>f, <1>l, EndOfNumberIs, Zenon
<1> QED
  BY <1>0, <1>2, <1>a, <1>b, <1>c, <1>d, <1>e, <1>f, <1>g, <1>h, <1>i, <1>j, <1>k, <1>l, Zenon DEF Onward

\* The parser only goes to places that are natural numbers.
LEMMA PosIs ==
  ASSUME TreeTypeOK, TreeNext
  PROVE  pos' \in Nat \ {0}
<1> DEFINE P == Nat \ {0}
<1>1. pos \in P /\ pos + 1 \in P /\ pos + 2 \in P
  BY DEF TreeTypeOK
<1>2. EndOfNumber # 0 => EndOfNumber \in P
  BY EndOfNumberIs, Zenon
<1>3. EndOfElement # 0 => EndOfElement + 1 \in P
  <2> DEFINE e == EndOfElement
  <2>1. e # 0 => e \in P
    BY EndOfElementIs, Zenon
  <2> HIDE DEF e
  <2>2. e # 0 => e + 1 \in P
    BY <2>1
  <2> QED
    BY <2>2 DEF e
<1> SUFFICES pos' \in P
  OBVIOUS
<1> HIDE DEF P
<1>4. ASSUME NEW p, NEW under, Close(p, under), p \in P PROVE pos' \in P
  BY <1>4 DEF Close
<1>5. CASE ParseNode
  BY <1>1, <1>5, Zenon DEF ParseNode, input
<1>6. CASE Open
  BY <1>1, <1>6, Zenon DEF Open, Reject, input
<1>7. CASE Members
  BY <1>1, <1>4, <1>7, Zenon DEF Members, Reject, input
<1>8. CASE Name
  BY <1>1, <1>8 DEF Name, Reject, input
<1>9. CASE Colon
  BY <1>1, <1>9 DEF Colon, Reject, input
<1>10. CASE AttrValue
  BY <1>1, <1>2, <1>10, Zenon DEF AttrValue, Reject, EndOfNumber, input
<1>11. CASE AfterAttr
  BY <1>1, <1>4, <1>11, Zenon DEF AfterAttr, Reject, input
<1>12. CASE Elements
  BY <1>1, <1>4, <1>12 DEF Elements, Reject, input
<1>13. CASE StringElement
  BY <1>1, <1>4, <1>13, Zenon DEF StringElement, Reject, input
<1>14. CASE NumberElement
  BY <1>1, <1>3, <1>4, <1>14, Zenon DEF NumberElement, Reject, EndOfElement, input
<1>15. CASE AfterChild
  BY <1>1, <1>4, <1>15, Zenon DEF AfterChild, Reject, input
<1> QED
  BY <1>5, <1>6, <1>7, <1>8, <1>9, <1>10, <1>11, <1>12, <1>13, <1>14, <1>15 DEF TreeNext

\* The invariant of the tree and its parser is kept by every step.
LEMMA TreeInvStep ==
  ASSUME TreeInv, TreeNext
  PROVE  TreeInv'
<1>0. TreeTypeOK /\ Placed /\ Waiting /\ Unread /\ pos' \in Nat \ {0}
  BY PosIs DEF TreeInv
<1>1. ASSUME stack' = <<>>, nodes' = <<>> \/ (nodes' = nodes /\ nodes \in Seq(NodeRecs)), verdict' \in {"error", "null"}, UNCHANGED <<text, size>>
      PROVE  TreeInv'
  <2>1. <<>> \in Seq(NodeRecs) /\ <<>> \in Seq(Frames)
    OBVIOUS
  <2>2. TreeTypeOK'
    <3>1. text' \in Seq(Tokens) /\ size' \in 0 .. Len(text') /\ pos' \in Nat \ {0}
      BY <1>0, <1>1 DEF TreeTypeOK
    <3>2. nodes' \in Seq(NodeRecs) /\ stack' \in Seq(Frames) /\ DOMAIN stack' = {}
      <4>1. nodes' \in Seq(NodeRecs)
        BY <1>1, <2>1
      <4> QED
        BY <1>1, <2>1, <4>1
    <3> QED
      BY <1>1, <3>1, <3>2, Zenon DEF TreeTypeOK
  <2>3. verdict' # "parsing" /\ verdict' # "start" /\ verdict' # "tree"
    BY <1>1
  <2>4. Placed' /\ Unread'
    BY <2>3, Zenon DEF Placed, Unread
  <2>5. Waiting'
    BY <1>1 DEF Waiting
  <2> QED
    BY <2>2, <2>4, <2>5 DEF TreeInv
<1>2. CASE Starts
  <2> DEFINE r == NewNode("NORMAL") f == Frame(1)
  <2>1. r \in NodeRecs /\ f \in Frames /\ f.node = 1 /\ f.at = "value"
    <3>1. /\ <<>> \in Seq(AttrRecs) /\ <<>> \in Seq(Nat) /\ <<>> \in Seq(Seq(Tokens))
      OBVIOUS
    <3> QED
      BY <3>1 DEF NewNode, NodeRecs, NodeTypes, Frame, Frames, States
  <2>2. nodes' = <<r>> /\ stack' = <<f>>
    BY <1>2, Zenon DEF Starts
  <2> HIDE DEF r, f
  <2>3. /\ nodes' \in Seq(NodeRecs) /\ stack' \in Seq(Frames) /\ nodes' # <<>> /\ stack' # <<>>
        /\ Len(stack') = 1 /\ stack'[1] = f /\ DOMAIN stack' = {1} /\ 1 \in DOMAIN nodes'
    <3> DEFINE X == NodeRecs Y == Frames
    <3>1. r \in X /\ f \in Y
      BY <2>1
    <3> HIDE DEF X, Y
    <3>2. nodes' \in Seq(X) /\ stack' \in Seq(Y) /\ nodes' # <<>> /\ stack' # <<>>
      BY <2>2, <3>1
    <3>3. Len(stack') = 1 /\ stack'[1] = f /\ DOMAIN stack' = {1} /\ 1 \in DOMAIN nodes'
      BY <2>2
    <3> QED
      BY <3>2, <3>3 DEF X, Y
  <2>4. Top'.at = "value"
    BY <2>3, <2>1 DEF Top, Last
  <2>5. TreeTypeOK'
    BY <1>0, <1>2, <2>1, <2>3, Zenon DEF TreeTypeOK, Starts
  <2>6. pos = 1 /\ size > 0 /\ size \in Nat /\ Char(1) = text[1] /\ Char(size) = text[size]
    <3>1. pos = 1 /\ size > 0 /\ size \in Nat /\ size <= Len(text) /\ Len(text) \in Nat
      BY <1>0, <1>2, TextIs, Zenon DEF Starts, Unread
    <3>2. 1 <= Len(text) /\ size \in Nat \ {0}
      BY <3>1
    <3> QED
      BY <3>1, <3>2, Zenon DEF Char
  <2>7. text[1] \in {"{", "["} /\ text[size] \in {"}", "]"}
    BY <1>2, <2>6, Zenon DEF Starts
  <2>8. pos' = pos /\ text' = text /\ size' = size /\ verdict' = "parsing"
    BY <1>2, Zenon DEF Starts
  <2>9. pos' <= size'
    BY <2>6, <2>8
  <2>10. Placed'
    BY <2>4, <2>6, <2>7, <2>8, <2>9, Zenon DEF Placed
  <2>11. Waiting'
    BY <2>3 DEF Waiting
  <2>12. Unread'
    BY <2>8 DEF Unread
  <2> QED
    BY <2>5, <2>10, <2>11, <2>12 DEF TreeInv
<1>3. CASE NoTree
  <2>1. verdict = "start" /\ text' = text /\ size' = size
    BY <1>3, Zenon DEF NoTree
  <2>2. stack = <<>> /\ nodes \in Seq(NodeRecs)
    BY <1>0, <2>1 DEF Unread, TreeTypeOK
  <2> QED
    BY <1>1, <1>3, <2>1, <2>2, Zenon DEF NoTree, ParseError
<1>4. CASE verdict = "parsing" /\ Onward
  <2>1. TreeTypeOK' /\ Waiting' /\ Placed'
    BY <1>4, OnwardType, OnwardPlaced
  <2>2. verdict' = "parsing"
    BY <1>0, <1>4, OnwardGoes DEF GoesOn
  <2> QED
    BY <2>1, <2>2 DEF TreeInv, Unread
<1>5. CASE verdict = "parsing" /\ Inward
  <2>1. TreeTypeOK' /\ Waiting'
    BY <1>5, InwardType
  <2>2. PICK s, p, type, under :
           /\ s \in {"afterAttr", "afterChild"} /\ p \in Nat \ {0} /\ type \in NodeTypes
           /\ Enters(s, p, type, under) /\ p <= size
    BY <1>0, <1>5, InwardNodes
  <2>3. s \in States
    BY <2>2 DEF States
  <2>4. Pushes(s)
    BY <1>0, <1>5, <2>2, <2>3, PushesIs
  <2>5. Top'.at = "value"
    BY <2>4 DEF Pushes
  <2>6. verdict' = "parsing" /\ pos' = p /\ text' = text /\ size' = size
    BY <2>2 DEF Enters
  <2>7. Placed'
    <3>1. PlacedAt(text, size, "value", p, nodes'[Top'.node].attrs)
      BY <2>2, Zenon DEF PlacedAt
    <3> QED
      BY <1>0, <1>5, <2>5, <2>6, <3>1, PlacedNext
  <2> QED
    BY <2>1, <2>6, <2>7 DEF TreeInv, Unread
<1>6. CASE verdict = "parsing" /\ (Outward \/ Overrun)
  <2>1. TreeTypeOK' /\ Waiting' /\ (verdict' = "parsing" => Top'.at \in {"afterAttr", "afterChild"})
         /\ verdict' \in {"parsing", "tree"} /\ UNCHANGED <<text, size>>
    BY <1>6, OutwardType
  <2>2. Placed'
    <3>1. PlacedAt(text, size, "afterAttr", pos', nodes'[Top'.node].attrs)
      BY Zenon DEF PlacedAt
    <3>2. PlacedAt(text, size, "afterChild", pos', nodes'[Top'.node].attrs)
      BY Zenon DEF PlacedAt
    <3>3. verdict' = "parsing" => PlacedAt(text, size, Top'.at, pos', nodes'[Top'.node].attrs)
      BY <2>1, <3>1, <3>2
    <3> QED
      BY <1>0, <1>6, <2>1, <3>3, PlacedNext
  <2> QED
    BY <2>1, <2>2 DEF TreeInv, Unread
<1>7. CASE Fails /\ UNCHANGED <<text, size>>
  <2>1. stack' = <<>> /\ nodes' = <<>> /\ verdict' = "error"
    BY <1>7 DEF Fails, ParseError
  <2> QED
    BY <1>1, <1>7, <2>1
<1> QED
  BY <1>0, <1>2, <1>3, <1>4, <1>5, <1>6, <1>7, StepsAre

-----------------------------------------------------------------------------
(* The places behind something are behind the place where it begins *)

Behind(i, S) == \A e \in S : e \in Nat /\ e > i

ListsBehind(t, i, lists) ==
  \A j \in i + 1 .. Len(t) + 1, kind \in Kinds : Behind(j, lists[<<j, kind>>])

\* What closes behind S.
LEMMA ClosedIs ==
  ASSUME NEW t, NEW S, NEW b, NEW e
  PROVE  e \in Closed(t, S, b) <=> \E k \in S : Is(t, k, {b}) /\ e = k + 1
BY DEF Closed

\* A bracket lies behind what it closes.
LEMMA ClosedBehind ==
  ASSUME NEW t, NEW S, NEW b, NEW i \in Nat, \A k \in S : k \in Nat /\ k > i
  PROVE  Behind(i + 1, Closed(t, S, b))
<1>1. ASSUME NEW e \in Closed(t, S, b) PROVE e \in Nat /\ e > i + 1
  <2>1. PICK k \in S : e = k + 1
    BY DEF Closed
  <2> QED
    BY <2>1
<1> QED
  BY <1>1 DEF Behind

\* A node is what is between two brackets, and these.
LEMMA NodeFromIs ==
  ASSUME NEW t, NEW i, NEW lists
  PROVE  \/ NodeFrom(t, i, lists) = {}
         \/ /\ i \in 1 .. Len(t)
            /\ \E S, b : /\ NodeFrom(t, i, lists) = Closed(t, S, b)
                         /\ \A k \in S : k = i + 1 \/ \E kind \in Kinds : k \in lists[<<i + 1, kind>>]
<1> DEFINE A == {i + 1} \cup lists[<<i + 1, "attr">>]
           N == IF Is(t, i + 1, Numbers \ Minus) THEN lists[<<i + 1, "number">>] ELSE {}
           E == {i + 1} \cup lists[<<i + 1, "string">>] \cup N \cup lists[<<i + 1, "node">>]
<1>k. "attr" \in Kinds /\ "string" \in Kinds /\ "number" \in Kinds /\ "node" \in Kinds
  BY DEF Kinds
<1>a. \A k \in A : k = i + 1 \/ \E kind \in Kinds : k \in lists[<<i + 1, kind>>]
  BY <1>k
<1>n. \A k \in N : k \in lists[<<i + 1, "number">>]
  OBVIOUS
<1>e. \A k \in E : k = i + 1 \/ \E kind \in Kinds : k \in lists[<<i + 1, kind>>]
  <2> HIDE DEF N
  <2> QED
    BY <1>k, <1>n
<1>1. NodeFrom(t, i, lists) = IF Is(t, i, {"{"}) THEN Closed(t, A, "}")
                              ELSE IF Is(t, i, {"["}) THEN Closed(t, E, "]") ELSE {}
  BY Zenon DEF NodeFrom
<1>2. \A S : Is(t, i, S) => i \in 1 .. Len(t)
  BY DEF Is
<1> HIDE DEF A, E
<1>3. CASE Is(t, i, {"{"})
  BY <1>1, <1>2, <1>3, <1>a, Zenon
<1>4. CASE ~ Is(t, i, {"{"}) /\ Is(t, i, {"["})
  BY <1>1, <1>2, <1>4, <1>e, Zenon
<1>5. CASE ~ Is(t, i, {"{"}) /\ ~ Is(t, i, {"["})
  BY <1>1, <1>5, Zenon
<1> QED
  BY <1>3, <1>4, <1>5, Zenon

\* A node ends at least two places behind its start.
LEMMA NodeFromBehind ==
  ASSUME NEW X, NEW t \in Seq(X), NEW i \in Nat, NEW lists, ListsBehind(t, i, lists)
  PROVE  Behind(i + 1, NodeFrom(t, i, lists))
<1>1. CASE NodeFrom(t, i, lists) = {}
  BY <1>1 DEF Behind
<1>2. CASE i \in 1 .. Len(t) /\ NodeFrom(t, i, lists) # {}
  <2>1. PICK S, b : /\ NodeFrom(t, i, lists) = Closed(t, S, b)
                    /\ \A k \in S : k = i + 1 \/ \E kind \in Kinds : k \in lists[<<i + 1, kind>>]
    BY <1>2, NodeFromIs
  <2>2. \A kind \in Kinds : Behind(i + 1, lists[<<i + 1, kind>>])
    <3>1. i + 1 \in i + 1 .. Len(t) + 1
      BY <1>2
    <3> QED
      BY <3>1 DEF ListsBehind
  <2>3. \A k \in S : k \in Nat /\ k > i
    <3> SUFFICES ASSUME NEW k \in S PROVE k \in Nat /\ k > i
      OBVIOUS
    <3>1. k = i + 1 \/ (k \in Nat /\ k > i + 1)
      BY <2>1, <2>2 DEF Behind
    <3> QED
      BY <3>1
  <2>4. Behind(i + 1, Closed(t, S, b))
    BY <2>3, ClosedBehind
  <2> QED
    BY <2>1, <2>4
<1> QED
  BY <1>1, <1>2, NodeFromIs

\* A member ends behind its start.
LEMMA AttrFromBehind ==
  ASSUME NEW X, NEW t \in Seq(X), NEW i \in Nat, NEW lists, ListsBehind(t, i, lists), NEW l
  PROVE  Behind(i, AttrFrom(t, i, lists, l))
<1> DEFINE N == NodeFrom(t, i + 2, lists)
           M == Tail1(t, i + 2, {",", "}"})
<1>1. Behind(i, N)
  <2> DEFINE p == i + 2
  <2>1. p \in Nat /\ ListsBehind(t, p, lists)
    <3>1. \A j \in i + 2 + 1 .. Len(t) + 1 : j \in i + 1 .. Len(t) + 1
      OBVIOUS
    <3> QED
      BY <3>1 DEF ListsBehind
  <2> HIDE DEF p
  <2>2. Behind(p + 1, NodeFrom(t, p, lists))
    BY <2>1, NodeFromBehind
  <2>3. p = i + 2
    BY DEF p
  <2> QED
    BY <2>2, <2>3 DEF Behind
<1>2. Behind(i, M)
  <2> DEFINE c == {",", "}"}
  <2> HIDE DEF c
  <2>1. Behind(i, Tail1(t, i + 2, c))
    BY DEF Behind, Tail1
  <2> QED
    BY <2>1, Zenon DEF c
<1>3. Behind(i, {i + 3}) /\ Behind(i, {})
  BY DEF Behind
<1>4. AttrFrom(t, i, lists, l) \in {N, M, {i + 3}, {}}
  BY Zenon DEF AttrFrom
<1> HIDE DEF N, M
<1> QED
  BY <1>1, <1>2, <1>3, <1>4

\* An element ends behind its start.
LEMMA ElementFromBehind ==
  ASSUME NEW X, NEW t \in Seq(X), NEW i \in Nat, NEW lists, ListsBehind(t, i, lists), NEW l,
         NEW kind \in Kinds
  PROVE  Behind(i, ElementFrom(t, i, kind, lists, l))
<1> DEFINE M == Tail1(t, i + 1, {",", "]"})
<1>1. Behind(i, NodeFrom(t, i, lists)) /\ Behind(i, AttrFrom(t, i, lists, l))
  <2>1. Behind(i + 1, NodeFrom(t, i, lists)) /\ Behind(i, AttrFrom(t, i, lists, l))
    BY NodeFromBehind, AttrFromBehind
  <2> QED
    BY <2>1 DEF Behind
<1>2. Behind(i, M)
  <2> DEFINE c == {",", "]"}
  <2> HIDE DEF c
  <2>1. Behind(i, Tail1(t, i + 1, c))
    BY DEF Behind, Tail1
  <2> QED
    BY <2>1, Zenon DEF c
<1>3. Behind(i, {i + 1}) /\ Behind(i, {})
  BY DEF Behind
<1>4. /\ kind = "string" => ElementFrom(t, i, kind, lists, l) \in {{i + 1}, {}}
      /\ kind = "number" => ElementFrom(t, i, kind, lists, l) \in {M, {i + 1}, {}}
      /\ kind = "node" => ElementFrom(t, i, kind, lists, l) = NodeFrom(t, i, lists)
      /\ kind = "attr" => ElementFrom(t, i, kind, lists, l) = AttrFrom(t, i, lists, l)
  BY Zenon DEF ElementFrom
<1> HIDE DEF M
<1> QED
  BY <1>1, <1>2, <1>3, <1>4 DEF Kinds

\* The list at a place, in both readings of the grammar.
LEMMA ListIs ==
  ASSUME NEW X, NEW t \in Seq(X), NEW l, NEW i \in 1 .. Len(t) + 1, NEW kind \in Kinds
  PROVE  \A x : x \in ListEnds(t, l)[<<i, kind>>] <=>
           \/ x \in ElementFrom(t, i, kind, ListEnds(t, l), l)
           \/ \E k \in i .. Len(t) :
                /\ k \in ElementFrom(t, i, kind, ListEnds(t, l), l) /\ t[k] = ","
                /\ x \in ListEnds(t, l)[<<k + 1, kind>>]
<1> DEFINE lists == ListEnds(t, l)
           first == ElementFrom(t, i, kind, lists, l)
           c == ","
<1>1. lists[<<i, kind>>] = ListFrom(t, i, kind, lists, l)
  BY ListEndsIs
<1>2. ListFrom(t, i, kind, lists, l)
        = first \cup UNION {lists[<<k + 1, kind>>] : k \in {k \in i .. Len(t) : k \in first /\ t[k] = c}}
  BY DEF ListFrom
<1> HIDE DEF lists, first, c
<1>3. \A x : x \in lists[<<i, kind>>] <=>
        x \in first \/ \E k \in i .. Len(t) : k \in first /\ t[k] = c /\ x \in lists[<<k + 1, kind>>]
  <2> DEFINE K == {k \in i .. Len(t) : k \in first /\ t[k] = c}
  <2>1. \A k : k \in K <=> k \in i .. Len(t) /\ k \in first /\ t[k] = c
    OBVIOUS
  <2>2. lists[<<i, kind>>] = first \cup UNION {lists[<<k + 1, kind>>] : k \in K}
    BY <1>1, <1>2, Zenon
  <2> HIDE DEF K
  <2>3. \A x : x \in lists[<<i, kind>>] <=> x \in first \/ \E k \in K : x \in lists[<<k + 1, kind>>]
    BY <2>2
  <2> QED
    BY <2>1, <2>3, Zenon
<1> QED
  BY <1>3, Zenon DEF lists, first, c

\* A list ends behind its start.
LEMMA AllListsBehind ==
  ASSUME NEW X, NEW t \in Seq(X), NEW l
  PROVE  \A i \in 1 .. Len(t) + 1, kind \in Kinds : Behind(i, ListEnds(t, l)[<<i, kind>>])
<1> DEFINE lists == ListEnds(t, l)
           Good(i) == \A kind \in Kinds : Behind(i, lists[<<i, kind>>])
           S == {n \in Nat : \A i \in 1 .. Len(t) + 1 : Len(t) + 1 - i < n => Good(i)}
<1>n. Len(t) \in Nat
  OBVIOUS
<1>1. 0 \in S
  <2>1. \A i \in 1 .. Len(t) + 1 : ~ (Len(t) + 1 - i < 0)
    BY <1>n
  <2> HIDE DEF Good
  <2> QED
    BY <2>1
<1>2. ASSUME NEW n \in Nat, n \in S PROVE n + 1 \in S
  <2>1. ASSUME NEW i \in 1 .. Len(t) + 1, Len(t) + 1 - i < n + 1 PROVE Good(i)
    <3>1. \A j \in i + 1 .. Len(t) + 1 : Good(j)
      <4>1. \A j \in i + 1 .. Len(t) + 1 : j \in 1 .. Len(t) + 1 /\ Len(t) + 1 - j < n
        BY <1>n, <2>1
      <4> HIDE DEF Good
      <4> QED
        BY <1>2, <4>1
    <3>2. ListsBehind(t, i, lists)
      BY <3>1, Zenon DEF ListsBehind
    <3>3. ASSUME NEW kind \in Kinds PROVE Behind(i, lists[<<i, kind>>])
      <4> DEFINE first == ElementFrom(t, i, kind, lists, l)
      <4>1. Behind(i, first)
        BY <3>2, ElementFromBehind
      <4>2. \A x : x \in lists[<<i, kind>>] =>
                x \in first \/ \E k \in i .. Len(t) : x \in lists[<<k + 1, kind>>]
        BY ListIs, ZenonT(60)
      <4> HIDE DEF first, lists
      <4>4. ASSUME NEW k \in i .. Len(t), NEW e \in lists[<<k + 1, kind>>] PROVE e \in Nat /\ e > i
        <5>1. k + 1 \in i + 1 .. Len(t) + 1 /\ k \in Nat /\ k >= i
          BY <1>n
        <5>2. Behind(k + 1, lists[<<k + 1, kind>>])
          BY <3>2, <5>1 DEF ListsBehind
        <5>3. e \in Nat /\ e > k + 1
          BY <5>2 DEF Behind
        <5> QED
          BY <5>1, <5>3
      <4>5. ASSUME NEW e \in lists[<<i, kind>>] PROVE e \in Nat /\ e > i
        BY <4>1, <4>2, <4>4, <4>5 DEF Behind
      <4> QED
        BY <4>5 DEF Behind
    <3> QED
      BY <3>3
  <2> HIDE DEF Good
  <2> QED
    BY <2>1
<1> HIDE DEF Good
<1>3. Nat \subseteq S
  <2> HIDE DEF S
  <2> QED
    BY <1>1, <1>2, Induction
<1>4. ASSUME NEW i \in 1 .. Len(t) + 1 PROVE Good(i)
  <2>1. Len(t) + 2 \in S
    BY <1>3, <1>n
  <2>2. Len(t) + 1 - i < Len(t) + 2
    BY <1>n
  <2> QED
    BY <2>1, <2>2
<1> QED
  BY <1>4, Zenon DEF Good

-----------------------------------------------------------------------------
(* What may be behind an element of a list *)

Rest(t, l, k, kind, b) ==
  Closed(t, {k} \cup (IF Is(t, k, {","}) THEN ListEnds(t, l)[<<k + 1, kind>>] ELSE {}), b)

\* A list that is closed is an element and the rest.
LEMMA ListRest ==
  ASSUME NEW X, NEW t \in Seq(X), NEW l, NEW i \in 1 .. Len(t) + 1, NEW kind \in Kinds, NEW b, NEW e
  PROVE  e \in Closed(t, ListEnds(t, l)[<<i, kind>>], b) <=>
           \E k \in ElementFrom(t, i, kind, ListEnds(t, l), l) : e \in Rest(t, l, k, kind, b)
<1> DEFINE lists == ListEnds(t, l)
           first == ElementFrom(t, i, kind, lists, l)
           c == ","
<1>0. Len(t) \in Nat
  OBVIOUS
<1>1. \A x : x \in lists[<<i, kind>>] <=>
        x \in first \/ \E k \in i .. Len(t) : k \in first /\ t[k] = c /\ x \in lists[<<k + 1, kind>>]
  BY ListIs, ZenonT(60)
<1>2. Behind(i, first)
  <2>1. ListsBehind(t, i, lists)
    <3>1. \A j \in i + 1 .. Len(t) + 1 : j \in 1 .. Len(t) + 1
      OBVIOUS
    <3> QED
      BY <3>1, AllListsBehind, Zenon DEF ListsBehind
  <2> QED
    BY <2>1, ElementFromBehind
<1>3. \A k : Rest(t, l, k, kind, b) = Closed(t, {k} \cup (IF Is(t, k, {c}) THEN lists[<<k + 1, kind>>] ELSE {}), b)
  BY Zenon DEF Rest
<1> HIDE DEF lists, first, c
<1>4. \A k \in first : k \in i .. Len(t) /\ t[k] = c <=> Is(t, k, {c})
  BY <1>0, <1>2 DEF Is, Behind
<1>6. ASSUME e \in Closed(t, lists[<<i, kind>>], b)
      PROVE  \E k \in first : e \in Rest(t, l, k, kind, b)
  <2>1. PICK x \in lists[<<i, kind>>] : Is(t, x, {b}) /\ e = x + 1
    BY <1>6 DEF Closed
  <2>2. CASE x \in first
    <3>1. e \in Rest(t, l, x, kind, b)
      BY <1>3, <2>1, ZenonT(60) DEF Closed
    <3> QED
      BY <2>2, <3>1
  <2>3. CASE x \notin first
    <3>1. PICK k \in i .. Len(t) : k \in first /\ t[k] = c /\ x \in lists[<<k + 1, kind>>]
      BY <1>1, <2>3
    <3>2. k \in first /\ Is(t, k, {c})
      BY <3>1, <1>4
    <3>3. e \in Rest(t, l, k, kind, b)
      BY <1>3, <2>1, <3>1, <3>2 DEF Closed
    <3> QED
      BY <3>2, <3>3
  <2> QED
    BY <2>2, <2>3
<1>7. ASSUME NEW k \in first, e \in Rest(t, l, k, kind, b)
      PROVE  e \in Closed(t, lists[<<i, kind>>], b)
  <2> DEFINE B == {k} \cup (IF Is(t, k, {c}) THEN lists[<<k + 1, kind>>] ELSE {})
  <2>0. e \in Closed(t, B, b)
    BY <1>3, <1>7, Zenon
  <2>1. PICK x \in B : Is(t, x, {b}) /\ e = x + 1
    <3> HIDE DEF B
    <3> QED
      BY <2>0 DEF Closed
  <2>2. x \in lists[<<i, kind>>]
    <3>1. CASE x = k
      BY <1>1, <3>1
    <3>2. CASE Is(t, k, {c}) /\ x \in lists[<<k + 1, kind>>]
      BY <1>1, <1>4, <3>2
    <3> QED
      BY <2>1, <3>1, <3>2
  <2> QED
    BY <2>1, <2>2 DEF Closed
<1> QED
  BY <1>6, <1>7 DEF lists, first

\* The same of the nodes of a whole text.
LEMMA NodesBehind ==
  ASSUME NEW X, NEW t \in Seq(X), NEW l, NEW i \in Nat
  PROVE  Behind(i + 1, NodeEnds(t, i, l))
<1>1. ListsBehind(t, i, ListEnds(t, l))
  <2>1. \A j \in i + 1 .. Len(t) + 1 : j \in 1 .. Len(t) + 1
    OBVIOUS
  <2> QED
    BY <2>1, AllListsBehind, Zenon DEF ListsBehind
<1> QED
  BY <1>1, NodeFromBehind DEF NodeEnds

-----------------------------------------------------------------------------
(* Where the node on top of the stack may end *)

Lists(l, p, kind) == ListEnds(Input, l)[<<p, kind>>]

EndsOf(t, l, s, p) ==
  CASE s = "value" -> NodeEnds(t, p, l)
    [] s \in {"members", "elements"} -> NodeEnds(t, p - 1, l)
    [] s = "name" -> Closed(t, ListEnds(t, l)[<<p, "attr">>], "}")
    [] s = "colon" -> Closed(t, ListEnds(t, l)[<<p - 1, "attr">>], "}")
    [] s = "attrValue" -> Closed(t, ListEnds(t, l)[<<p - 2, "attr">>], "}")
    [] s = "afterAttr" -> Rest(t, l, p, "attr", "}")
    [] s = "strings" -> Closed(t, ListEnds(t, l)[<<p, "string">>], "]")
    [] s = "numbers" -> Closed(t, ListEnds(t, l)[<<p, "number">>], "]")
    [] OTHER -> Rest(t, l, p, "node", "]")

Ends(l, s, p) == EndsOf(Input, l, s, p)

\* The ends of the node on top, state by state.
LEMMA EndsAre ==
  ASSUME NEW l, NEW p
  PROVE  /\ Ends(l, "value", p) = NodeEnds(Input, p, l)
         /\ Ends(l, "members", p) = NodeEnds(Input, p - 1, l)
         /\ Ends(l, "elements", p) = NodeEnds(Input, p - 1, l)
         /\ Ends(l, "name", p) = Closed(Input, Lists(l, p, "attr"), "}")
         /\ Ends(l, "colon", p) = Closed(Input, Lists(l, p - 1, "attr"), "}")
         /\ Ends(l, "attrValue", p) = Closed(Input, Lists(l, p - 2, "attr"), "}")
         /\ Ends(l, "afterAttr", p) = Rest(Input, l, p, "attr", "}")
         /\ Ends(l, "strings", p) = Closed(Input, Lists(l, p, "string"), "]")
         /\ Ends(l, "numbers", p) = Closed(Input, Lists(l, p, "number"), "]")
         /\ Ends(l, "afterChild", p) = Rest(Input, l, p, "node", "]")
<1>1. Ends(l, "value", p) = NodeEnds(Input, p, l)
  BY Zenon DEF Ends, EndsOf, Lists
<1>2. Ends(l, "members", p) = NodeEnds(Input, p - 1, l)
  BY Zenon DEF Ends, EndsOf, Lists
<1>3. Ends(l, "elements", p) = NodeEnds(Input, p - 1, l)
  BY Zenon DEF Ends, EndsOf, Lists
<1>4. Ends(l, "name", p) = Closed(Input, Lists(l, p, "attr"), "}")
  BY Zenon DEF Ends, EndsOf, Lists
<1>5. Ends(l, "colon", p) = Closed(Input, Lists(l, p - 1, "attr"), "}")
  BY Zenon DEF Ends, EndsOf, Lists
<1>6. Ends(l, "attrValue", p) = Closed(Input, Lists(l, p - 2, "attr"), "}")
  BY Zenon DEF Ends, EndsOf, Lists
<1>7. Ends(l, "afterAttr", p) = Rest(Input, l, p, "attr", "}")
  BY Zenon DEF Ends, EndsOf, Lists
<1>8. Ends(l, "strings", p) = Closed(Input, Lists(l, p, "string"), "]")
  BY Zenon DEF Ends, EndsOf, Lists
<1>9. Ends(l, "numbers", p) = Closed(Input, Lists(l, p, "number"), "]")
  BY Zenon DEF Ends, EndsOf, Lists
<1>10. Ends(l, "afterChild", p) = Rest(Input, l, p, "node", "]")
  BY Zenon DEF Ends, EndsOf, Lists
<1> QED
  BY <1>1, <1>2, <1>3, <1>4, <1>5, <1>6, <1>7, <1>8, <1>9, <1>10, Zenon

\* The input: the text as far as it was sent.
LEMMA InputIs ==
  ASSUME TreeTypeOK
  PROVE  /\ Input \in Seq(Tokens) /\ Len(Input) = size /\ size \in Nat
         /\ \A p \in 1 .. size : Input[p] = text[p]
         /\ \A p, S : Is(Input, p, S) <=> p \in 1 .. size /\ text[p] \in S
         /\ \A p, x : Is(Input, p, {x}) <=> p \in 1 .. size /\ text[p] = x
<1> DEFINE X == Tokens t == Input
<1>1. text \in Seq(X) /\ size \in 0 .. Len(text) /\ t = SubSeq(text, 1, size)
  BY DEF TreeTypeOK, Input
<1> HIDE DEF X, t
<1>2. t \in Seq(X) /\ Len(t) = size /\ size \in Nat /\ \A p \in 1 .. size : t[p] = text[p]
  BY <1>1
<1>3. \A p, S : Is(t, p, S) <=> p \in 1 .. size /\ text[p] \in S
  BY <1>2 DEF Is
<1>4. \A p, x : Is(t, p, {x}) <=> p \in 1 .. size /\ text[p] = x
  BY <1>2 DEF Is
<1> QED
  BY <1>2, <1>3, <1>4 DEF X, t

\* The rest of a list, by what is there.
LEMMA RestIs ==
  ASSUME TreeTypeOK, NEW l, NEW k, NEW kind, NEW b, NEW e, b # ","
  PROVE  e \in Rest(Input, l, k, kind, b) <=>
           \/ k \in 1 .. size /\ text[k] = b /\ e = k + 1
           \/ k \in 1 .. size /\ text[k] = "," /\ e \in Closed(Input, Lists(l, k + 1, kind), b)
<1> DEFINE c == "," M == Lists(l, k + 1, kind) B == {k} \cup (IF Is(Input, k, {c}) THEN M ELSE {})
<1>1. Rest(Input, l, k, kind, b) = Closed(Input, B, b)
  BY Zenon DEF Rest, Lists
<1>2. b # c
  BY Zenon
<1>3. Is(Input, k, {c}) <=> k \in 1 .. size /\ text[k] = c
  BY InputIs, Zenon
<1>4. Is(Input, k, {b}) <=> k \in 1 .. size /\ text[k] = b
  BY InputIs, Zenon
<1> HIDE DEF c, M
<1>5. CASE Is(Input, k, {c})
  <2>1. B = {k} \cup M
    BY <1>5, Zenon
  <2> HIDE DEF B
  <2>2. e \in Closed(Input, B, b) <=> (Is(Input, k, {b}) /\ e = k + 1) \/ e \in Closed(Input, M, b)
    BY <2>1, Zenon DEF Closed
  <2> QED
    BY <1>1, <1>2, <1>3, <1>4, <1>5, <2>2, Zenon DEF c, M
<1>6. CASE ~ Is(Input, k, {c})
  <2>1. B = {k}
    BY <1>6, Zenon
  <2> HIDE DEF B
  <2>2. e \in Closed(Input, B, b) <=> (Is(Input, k, {b}) /\ e = k + 1)
    BY <2>1, Zenon DEF Closed
  <2> QED
    BY <1>1, <1>2, <1>3, <1>4, <1>6, <2>2, Zenon DEF c, M
<1> QED
  BY <1>5, <1>6, Zenon

\* The list that begins at a place of the input.
LEMMA ListsRest ==
  ASSUME TreeTypeOK, NEW l, NEW i \in 1 .. size + 1, NEW kind \in Kinds, NEW b, NEW e
  PROVE  e \in Closed(Input, Lists(l, i, kind), b) <=>
           \E k \in ElementFrom(Input, i, kind, ListEnds(Input, l), l) : e \in Rest(Input, l, k, kind, b)
<1> DEFINE X == Tokens
<1>1. Input \in Seq(X) /\ i \in 1 .. Len(Input) + 1
  BY InputIs
<1> HIDE DEF X
<1> QED
  BY <1>1, ListRest, ZenonT(60) DEF Lists

\* A list of strings: one string and the rest.
LEMMA StringsRest ==
  ASSUME TreeTypeOK, NEW l, NEW i \in 1 .. size, NEW b, NEW e
  PROVE  e \in Closed(Input, Lists(l, i, "string"), b) <=>
           text[i] \in Strings /\ e \in Rest(Input, l, i + 1, "string", b)
<1>1. i \in 1 .. size + 1 /\ "string" \in Kinds
  BY InputIs DEF Kinds
<1>2. e \in Closed(Input, Lists(l, i, "string"), b) <=>
        \E k \in ElementFrom(Input, i, "string", ListEnds(Input, l), l) : e \in Rest(Input, l, k, "string", b)
  BY <1>1, ListsRest
<1>3. ElementFrom(Input, i, "string", ListEnds(Input, l), l) = IF Is(Input, i, Strings) THEN {i + 1} ELSE {}
  BY Zenon DEF ElementFrom
<1>4. Is(Input, i, Strings) <=> text[i] \in Strings
  BY InputIs
<1> QED
  BY <1>2, <1>3, <1>4

\* A list of nodes: one node and the rest.
LEMMA NodesRest ==
  ASSUME TreeTypeOK, NEW l, NEW i \in 1 .. size + 1, NEW b, NEW e
  PROVE  e \in Closed(Input, Lists(l, i, "node"), b) <=>
           \E c \in NodeEnds(Input, i, l) : e \in Rest(Input, l, c, "node", b)
<1>1. "node" \in Kinds
  BY DEF Kinds
<1>2. e \in Closed(Input, Lists(l, i, "node"), b) <=>
        \E k \in ElementFrom(Input, i, "node", ListEnds(Input, l), l) : e \in Rest(Input, l, k, "node", b)
  BY <1>1, ListsRest
<1>3. ElementFrom(Input, i, "node", ListEnds(Input, l), l) = NodeEnds(Input, i, l)
  BY Zenon DEF ElementFrom, NodeEnds
<1> QED
  BY <1>2, <1>3

\* An array element that is a number: all of it, or up to its end.
LEMMA NumbersRest ==
  ASSUME TreeTypeOK, NEW i \in 1 .. size, NEW e
  PROVE  /\ e \in Closed(Input, Lists(TRUE, i, "number"), "]") <=>
              \E k \in Tail1(Input, i + 1, {",", "]"}) : e \in Rest(Input, TRUE, k, "number", "]")
         /\ e \in Closed(Input, Lists(FALSE, i, "number"), "]") <=>
              text[i] \in Numbers /\ e \in Rest(Input, FALSE, i + 1, "number", "]")
<1>1. i \in 1 .. size + 1 /\ "number" \in Kinds
  BY InputIs DEF Kinds
<1>2. \A l : e \in Closed(Input, Lists(l, i, "number"), "]") <=>
        \E k \in ElementFrom(Input, i, "number", ListEnds(Input, l), l) : e \in Rest(Input, l, k, "number", "]")
  BY <1>1, ListsRest
<1>3. ElementFrom(Input, i, "number", ListEnds(Input, TRUE), TRUE) = Tail1(Input, i + 1, {",", "]"})
  BY Zenon DEF ElementFrom
<1>4. ElementFrom(Input, i, "number", ListEnds(Input, FALSE), FALSE) = IF Is(Input, i, Numbers) THEN {i + 1} ELSE {}
  BY Zenon DEF ElementFrom
<1>5. Is(Input, i, Numbers) <=> text[i] \in Numbers
  BY InputIs
<1>6. ElementFrom(Input, i, "number", ListEnds(Input, FALSE), FALSE) = IF text[i] \in Numbers THEN {i + 1} ELSE {}
  BY <1>4, <1>5
<1>7. e \in Closed(Input, Lists(TRUE, i, "number"), "]") <=>
              \E k \in Tail1(Input, i + 1, {",", "]"}) : e \in Rest(Input, TRUE, k, "number", "]")
  BY <1>2, <1>3, Zenon
<1> DEFINE b == "]"
<1>8. \A l : e \in Closed(Input, Lists(l, i, "number"), b) <=>
        \E k \in ElementFrom(Input, i, "number", ListEnds(Input, l), l) : e \in Rest(Input, l, k, "number", b)
  BY <1>2
<1> HIDE DEF b
<1>9. e \in Closed(Input, Lists(FALSE, i, "number"), b) <=>
              text[i] \in Numbers /\ e \in Rest(Input, FALSE, i + 1, "number", b)
  BY <1>6, <1>8
<1> QED
  BY <1>7, <1>9, Zenon DEF b

\* What the value of an attribute is, for the grammar and for the parser.
LEMMA AttrFromIs ==
  ASSUME TreeTypeOK, NEW l, NEW lists, NEW i \in 1 .. size,
         text[i] \in Strings \ {Empty}, i + 2 \in 1 .. size, text[i + 1] = ":"
  PROVE  /\ text[i] \in RunnableKinds /\ text[i + 2] # "{" => AttrFrom(Input, i, lists, l) = {}
         /\ text[i] \notin RunnableKinds /\ text[i + 2] \in Strings
              => AttrFrom(Input, i, lists, l) = {i + 3}
         /\ text[i] \notin RunnableKinds /\ text[i + 2] \in Numbers
              => AttrFrom(Input, i, lists, l) = IF l THEN Tail1(Input, i + 2, {",", "}"}) ELSE {i + 3}
         /\ text[i + 2] \notin Strings \cup Numbers /\ (text[i] \in RunnableKinds => text[i + 2] = "{")
              => AttrFrom(Input, i, lists, l) = NodeFrom(Input, i + 2, lists)
<1>1. i + 1 \in 1 .. size /\ size \in Nat
  BY InputIs
<1>2. Is(Input, i, Strings \ {Empty})
  BY InputIs
<1>3. Is(Input, i + 1, {":"})
  BY <1>1, InputIs, Zenon
<1>4. Input[i] = text[i]
  BY InputIs
<1>5. Is(Input, i + 2, {"{"}) <=> text[i + 2] = "{"
  BY InputIs, Zenon
<1>6. Is(Input, i + 2, Strings) <=> text[i + 2] \in Strings
  BY InputIs, Zenon
<1>7. Is(Input, i + 2, Numbers) <=> text[i + 2] \in Numbers
  BY InputIs, Zenon
<1>8. text[i + 2] \in Strings => text[i + 2] \notin Numbers
  BY TokensDiffer, Zenon
<1> DEFINE T1 == Tail1(Input, i + 2, {",", "}"}) N == NodeFrom(Input, i + 2, lists)
           A == AttrFrom(Input, i, lists, l)
<1>9. A = IF Input[i] \in RunnableKinds
          THEN IF Is(Input, i + 2, {"{"}) THEN N ELSE {}
          ELSE IF Is(Input, i + 2, Numbers)
          THEN IF l THEN T1 ELSE {i + 3}
          ELSE IF Is(Input, i + 2, Strings) THEN {i + 3} ELSE N
  BY <1>2, <1>3, Zenon DEF AttrFrom
<1>10. A = IF text[i] \in RunnableKinds
          THEN IF text[i + 2] = "{" THEN N ELSE {}
          ELSE IF text[i + 2] \in Numbers
          THEN IF l THEN T1 ELSE {i + 3}
          ELSE IF text[i + 2] \in Strings THEN {i + 3} ELSE N
  BY <1>4, <1>5, <1>6, <1>7, <1>9, Zenon
<1> HIDE DEF T1, N, A
<1>11. /\ text[i] \in RunnableKinds /\ text[i + 2] # "{" => A = {}
       /\ text[i] \notin RunnableKinds /\ text[i + 2] \in Strings => A = {i + 3}
       /\ text[i] \notin RunnableKinds /\ text[i + 2] \in Numbers => A = IF l THEN T1 ELSE {i + 3}
       /\ text[i + 2] \notin Strings \cup Numbers /\ (text[i] \in RunnableKinds => text[i + 2] = "{") => A = N
  BY <1>8, <1>10, Zenon
<1> QED
  BY <1>11, Zenon DEF T1, N, A

\* No member starts but with a name and a colon.
LEMMA NoAttr ==
  ASSUME TreeTypeOK, NEW l, NEW lists, NEW i \in 1 .. size,
         ~ (text[i] \in Strings \ {Empty}) \/ ~ Is(Input, i + 1, {":"})
  PROVE  AttrFrom(Input, i, lists, l) = {}
<1>1. Is(Input, i, Strings \ {Empty}) => text[i] \in Strings \ {Empty}
  BY InputIs
<1> QED
  BY <1>1, Zenon DEF AttrFrom

\* The ends of a node that starts with a bracket.
LEMMA NodeEndsAre ==
  ASSUME TreeTypeOK, NEW l, NEW i \in 1 .. size, NEW e
  PROVE  /\ text[i] = "{" =>
              (e \in NodeEnds(Input, i, l) <=>
                 \/ i + 1 \in 1 .. size /\ text[i + 1] = "}" /\ e = i + 2
                 \/ e \in Closed(Input, Lists(l, i + 1, "attr"), "}"))
         /\ text[i] = "[" =>
              (e \in NodeEnds(Input, i, l) <=>
                 \/ i + 1 \in 1 .. size /\ text[i + 1] = "]" /\ e = i + 2
                 \/ e \in Closed(Input, Lists(l, i + 1, "string"), "]")
                 \/ i + 1 \in 1 .. size /\ text[i + 1] \in Numbers \ Minus /\ e \in Closed(Input, Lists(l, i + 1, "number"), "]")
                 \/ e \in Closed(Input, Lists(l, i + 1, "node"), "]"))
         /\ text[i] \notin {"{", "["} => e \notin NodeEnds(Input, i, l)
<1> DEFINE lists == ListEnds(Input, l)
           LA == lists[<<i + 1, "attr">>]
           LS == lists[<<i + 1, "string">>]
           LN == lists[<<i + 1, "number">>]
           LO == lists[<<i + 1, "node">>]
           N == IF Is(Input, i + 1, Numbers \ Minus) THEN LN ELSE {}
           c == "}" d == "]"
<1>1. Is(Input, i, {"{"}) <=> text[i] = "{"
  BY InputIs, Zenon
<1>2. Is(Input, i, {"["}) <=> text[i] = "["
  BY InputIs, Zenon
<1>3. Is(Input, i + 1, Numbers \ Minus) <=> i + 1 \in 1 .. size /\ text[i + 1] \in Numbers \ Minus
  BY InputIs, Zenon
<1>4. NodeEnds(Input, i, l) = IF text[i] = "{" THEN Closed(Input, {i + 1} \cup LA, c)
                              ELSE IF text[i] = "["
                              THEN Closed(Input, {i + 1} \cup LS \cup N \cup LO, d)
                              ELSE {}
  BY <1>1, <1>2, Zenon DEF NodeEnds, NodeFrom
<1>5. Is(Input, i + 1, {c}) <=> i + 1 \in 1 .. size /\ text[i + 1] = c
  BY InputIs, Zenon
<1>6. Is(Input, i + 1, {d}) <=> i + 1 \in 1 .. size /\ text[i + 1] = d
  BY InputIs, Zenon
<1> HIDE DEF lists, LA, LS, LN, LO, c, d
<1>7. i + 1 + 1 = i + 2
  OBVIOUS
<1>8. e \in Closed(Input, {i + 1} \cup LA, c) <=>
        (i + 1 \in 1 .. size /\ text[i + 1] = c /\ e = i + 2) \/ e \in Closed(Input, LA, c)
  BY <1>5, <1>7 DEF Closed
<1>9. e \in Closed(Input, {i + 1} \cup LS \cup N \cup LO, d) <=>
        \/ i + 1 \in 1 .. size /\ text[i + 1] = d /\ e = i + 2
        \/ e \in Closed(Input, LS, d) \/ e \in Closed(Input, N, d) \/ e \in Closed(Input, LO, d)
  <2> HIDE DEF N
  <2> QED
    BY <1>6, <1>7 DEF Closed
<1>10. e \in Closed(Input, N, d) <=>
         i + 1 \in 1 .. size /\ text[i + 1] \in Numbers \ Minus /\ e \in Closed(Input, LN, d)
  <2>1. CASE Is(Input, i + 1, Numbers \ Minus)
    BY <1>3, <2>1
  <2>2. CASE ~ Is(Input, i + 1, Numbers \ Minus)
    BY <1>3, <2>2 DEF Closed
  <2> QED
    BY <2>1, <2>2
<1> HIDE DEF N
<1>11. "{" # "["
  OBVIOUS
<1>12. CASE text[i] = "{"
  BY <1>4, <1>8, <1>11, <1>12, Zenon DEF LA, lists, c, Lists
<1>13. CASE text[i] = "["
  <2>1. NodeEnds(Input, i, l) = Closed(Input, {i + 1} \cup LS \cup N \cup LO, d)
    BY <1>4, <1>11, <1>13, Zenon
  <2> QED
    BY <2>1, <1>9, <1>10, <1>11, <1>13, Zenon DEF LS, LN, LO, lists, d, Lists
<1>14. CASE text[i] \notin {"{", "["}
  BY <1>4, <1>14, Zenon
<1> QED
  BY <1>12, <1>13, <1>14, Zenon

\* The end of a number is where the parser finds it.
LEMMA TailIs ==
  ASSUME TreeTypeOK, NEW p \in Nat \ {0}, NEW toks, NEW k
  PROVE  k \in Tail1(Input, p, toks) <=> Find(p, toks) # 0 /\ k = Find(p, toks)
<1> DEFINE f == Find(p, toks)
<1>0. size \in Nat /\ Len(Input) = size
  BY InputIs
<1>1. \/ f = 0 /\ \A j \in p .. size : text[j] \notin toks
      \/ f \in p .. size /\ text[f] \in toks /\ f # 0 /\ \A j \in p .. f - 1 : text[j] \notin toks
  BY <1>0, FindIs
<1>2. \A j \in p .. size : Is(Input, j, toks) <=> text[j] \in toks
  <2>1. \A j \in p .. size : j \in 1 .. size
    BY <1>0
  <2> QED
    BY <2>1, InputIs, Zenon
<1> HIDE DEF f
<1>3. k \in Tail1(Input, p, toks) <=> k \in p .. size /\ text[k] \in toks /\ \A j \in p .. k - 1 : text[j] \notin toks
  <2>1. \A j : j \in p .. k - 1 /\ k \in p .. size => j \in p .. size
    BY <1>0
  <2>2. k \in Tail1(Input, p, toks) <=> k \in p .. size /\ Is(Input, k, toks) /\ \A j \in p .. k - 1 : ~ Is(Input, j, toks)
    BY <1>0 DEF Tail1
  <2> QED
    BY <1>2, <2>1, <2>2, Zenon
<1>4. CASE f = 0 /\ \A j \in p .. size : text[j] \notin toks
  BY <1>3, <1>4 DEF f
<1>5. CASE f \in p .. size /\ text[f] \in toks /\ f # 0 /\ \A j \in p .. f - 1 : text[j] \notin toks
  <2>1. k \in p .. size /\ k < f => k \in p .. f - 1
    BY <1>0, <1>5
  <2>2. k \in p .. size /\ f < k => f \in p .. k - 1
    BY <1>0, <1>5
  <2>3. k \in p .. size => k < f \/ f < k \/ k = f
    BY <1>0, <1>5
  <2> QED
    BY <1>3, <1>5, <2>1, <2>2, <2>3, Zenon DEF f
<1> QED
  BY <1>1, <1>4, <1>5

\* Where a search that hits at once, or one place further, stops.
LEMMA FirstHit ==
  ASSUME NEW p \in Nat \ {0}, NEW toks, size \in Nat
  PROVE  /\ p <= size /\ text[p] \in toks => Find(p, toks) = p
         /\ p + 1 <= size /\ text[p] \notin toks /\ text[p + 1] \in toks => Find(p, toks) = p + 1
<1> DEFINE f == Find(p, toks)
<1>1. \/ f = 0 /\ \A k \in p .. size : text[k] \notin toks
      \/ /\ f \in p .. size /\ text[f] \in toks /\ f # 0
         /\ \A k \in p .. f - 1 : text[k] \notin toks
  BY FindIs
<1> HIDE DEF f
<1>2. ASSUME p <= size, text[p] \in toks PROVE f = p
  <2>1. p \in p .. size
    BY <1>2
  <2>2. f \in p .. size /\ ~ (p \in p .. f - 1)
    BY <1>1, <1>2, <2>1
  <2> QED
    BY <2>2
<1>3. ASSUME p + 1 <= size, text[p] \notin toks, text[p + 1] \in toks PROVE f = p + 1
  <2>1. p + 1 \in p .. size
    BY <1>3
  <2>2. f \in p .. size /\ text[f] \in toks /\ ~ (p + 1 \in p .. f - 1)
    BY <1>1, <1>3, <2>1
  <2>3. f # p
    BY <1>3, <2>2
  <2> QED
    BY <2>2, <2>3
<1> QED
  BY <1>2, <1>3 DEF f

\* The ends after one step over a token.
LEMMA Ahead ==
  ASSUME TreeTypeOK, NEW l
  PROVE  /\ Ends(l, "members", pos + 1) = NodeEnds(Input, pos, l)
         /\ Ends(l, "elements", pos + 1) = NodeEnds(Input, pos, l)
         /\ Ends(l, "colon", pos + 1) = Closed(Input, Lists(l, pos, "attr"), "}")
         /\ Ends(l, "attrValue", pos + 1) = Closed(Input, Lists(l, pos - 1, "attr"), "}")
<1> DEFINE q == pos + 1
<1>1. q - 1 = pos /\ q - 2 = pos - 1
  BY DEF TreeTypeOK
<1> HIDE DEF q
<1>2. /\ Ends(l, "members", q) = NodeEnds(Input, q - 1, l)
      /\ Ends(l, "elements", q) = NodeEnds(Input, q - 1, l)
      /\ Ends(l, "colon", q) = Closed(Input, Lists(l, q - 1, "attr"), "}")
      /\ Ends(l, "attrValue", q) = Closed(Input, Lists(l, q - 2, "attr"), "}")
  BY EndsAre, Zenon
<1>3. /\ Ends(l, "members", q) = NodeEnds(Input, pos, l)
      /\ Ends(l, "elements", q) = NodeEnds(Input, pos, l)
      /\ Ends(l, "colon", q) = Closed(Input, Lists(l, pos, "attr"), "}")
      /\ Ends(l, "attrValue", q) = Closed(Input, Lists(l, pos - 1, "attr"), "}")
  BY <1>1, <1>2, Zenon
<1> QED
  BY <1>3, Zenon DEF q

\* The ends behind an opening brace.
LEMMA InObject ==
  ASSUME TreeInv, verdict = "parsing", Top.at = "members", NEW l, NEW e
  PROVE  e \in Ends(l, "members", pos) <=>
           \/ text[pos] = "}" /\ e = pos + 1
           \/ e \in Closed(Input, Lists(l, pos, "attr"), "}")
<1> DEFINE i == pos - 1
<1>0. TreeTypeOK
  BY DEF TreeInv
<1>1. pos <= size /\ pos > 1 /\ text[i] = "{"
  BY Zenon DEF TreeInv, Placed
<1>2. i \in 1 .. size /\ i + 1 = pos /\ pos \in 1 .. size /\ i + 2 = pos + 1
  <2>1. pos <= size /\ pos > 1 /\ pos \in Nat /\ size \in Nat
    BY <1>0, <1>1, InputIs, Zenon DEF TreeTypeOK
  <2> QED
    BY <2>1
<1>3. Ends(l, "members", pos) = NodeEnds(Input, i, l)
  BY EndsAre, Zenon
<1> HIDE DEF i
<1>4. e \in NodeEnds(Input, i, l) <=>
                 \/ i + 1 \in 1 .. size /\ text[i + 1] = "}" /\ e = i + 2
                 \/ e \in Closed(Input, Lists(l, i + 1, "attr"), "}")
  BY <1>0, <1>1, <1>2, NodeEndsAre, Zenon
<1> QED
  BY <1>2, <1>3, <1>4, Zenon

\* The ends behind an opening bracket.
LEMMA InArray ==
  ASSUME TreeInv, verdict = "parsing", Top.at = "elements", NEW l, NEW e
  PROVE  e \in Ends(l, "elements", pos) <=>
           \/ text[pos] = "]" /\ e = pos + 1
           \/ e \in Closed(Input, Lists(l, pos, "string"), "]")
           \/ text[pos] \in Numbers \ Minus /\ e \in Closed(Input, Lists(l, pos, "number"), "]")
           \/ e \in Closed(Input, Lists(l, pos, "node"), "]")
<1> DEFINE i == pos - 1
<1>0. TreeTypeOK
  BY DEF TreeInv
<1>1. pos <= size /\ pos > 1 /\ text[i] = "["
  BY Zenon DEF TreeInv, Placed
<1>2. i \in 1 .. size /\ i + 1 = pos /\ pos \in 1 .. size /\ i + 2 = pos + 1
  <2>1. pos <= size /\ pos > 1 /\ pos \in Nat /\ size \in Nat
    BY <1>0, <1>1, InputIs DEF TreeTypeOK
  <2> QED
    BY <2>1
<1>3. Ends(l, "elements", pos) = NodeEnds(Input, i, l)
  BY EndsAre, Zenon
<1> HIDE DEF i
<1>4. e \in NodeEnds(Input, i, l) <=>
                 \/ i + 1 \in 1 .. size /\ text[i + 1] = "]" /\ e = i + 2
                 \/ e \in Closed(Input, Lists(l, i + 1, "string"), "]")
                 \/ i + 1 \in 1 .. size /\ text[i + 1] \in Numbers \ Minus /\ e \in Closed(Input, Lists(l, i + 1, "number"), "]")
                 \/ e \in Closed(Input, Lists(l, i + 1, "node"), "]")
  BY <1>0, <1>1, <1>2, NodeEndsAre, Zenon
<1> QED
  BY <1>2, <1>3, <1>4, Zenon

\* A list of members: one member and the rest.
LEMMA AttrsRest ==
  ASSUME TreeTypeOK, NEW l, NEW i \in 1 .. size, NEW b, NEW e
  PROVE  e \in Closed(Input, Lists(l, i, "attr"), b) <=>
           \E k \in AttrFrom(Input, i, ListEnds(Input, l), l) : e \in Rest(Input, l, k, "attr", b)
<1>1. i \in 1 .. size + 1 /\ "attr" \in Kinds
  BY InputIs DEF Kinds
<1>2. e \in Closed(Input, Lists(l, i, "attr"), b) <=>
        \E k \in ElementFrom(Input, i, "attr", ListEnds(Input, l), l) : e \in Rest(Input, l, k, "attr", b)
  BY <1>1, ListsRest
<1>3. ElementFrom(Input, i, "attr", ListEnds(Input, l), l) = AttrFrom(Input, i, ListEnds(Input, l), l)
  BY Zenon DEF ElementFrom
<1> QED
  BY <1>2, <1>3

\* What the last name says of the node on top.
LEMMA TypeIs ==
  ASSUME Placed, verdict = "parsing", Top.at = "attrValue"
  PROVE  (Type # "NORMAL" <=> text[pos - 2] \in RunnableKinds) /\ LastAttr.name = text[pos - 2]
<1>1. LastAttr.name = text[pos - 2]
  BY Zenon DEF Placed, LastAttr
<1>2. "NORMAL" \notin RunnableKinds
  BY DEF RunnableKinds
<1> QED
  BY <1>1, <1>2 DEF Type, getNodeType

\* The ends at the value of an attribute, by the value's first token.
LEMMA AtValue ==
  ASSUME TreeInv, verdict = "parsing", Top.at = "attrValue", NEW l, NEW e
  PROVE  /\ OnlyNode => e \notin Ends(l, "attrValue", pos)
         /\ ~ OnlyNode /\ text[pos] \in Strings
              => (e \in Ends(l, "attrValue", pos) <=> e \in Rest(Input, l, pos + 1, "attr", "}"))
         /\ ~ OnlyNode /\ text[pos] \in Numbers /\ l = TRUE
              => (e \in Ends(l, "attrValue", pos) <=>
                    EndOfNumber # 0 /\ e \in Rest(Input, l, EndOfNumber, "attr", "}"))
         /\ ~ OnlyNode /\ text[pos] \in Numbers /\ l = FALSE
              => (e \in Ends(l, "attrValue", pos) <=> e \in Rest(Input, l, pos + 1, "attr", "}"))
         /\ ~ OnlyNode /\ text[pos] \notin Strings \cup Numbers
              => (e \in Ends(l, "attrValue", pos) <=>
                    \E c \in NodeEnds(Input, pos, l) : e \in Rest(Input, l, c, "attr", "}"))
<1> DEFINE i == pos - 2 lists == ListEnds(Input, l) A == AttrFrom(Input, i, lists, l)
<1>0. TreeTypeOK /\ Placed
  BY DEF TreeInv
<1>1. pos <= size /\ pos > 2 /\ text[i] \in Strings \ {Empty} /\ text[pos - 1] = ":"
  BY <1>0, Zenon DEF Placed
<1>2. i \in 1 .. size /\ i + 2 = pos /\ i + 2 \in 1 .. size /\ i + 1 = pos - 1 /\ i + 3 = pos + 1 /\ pos \in Nat \ {0}
  <2>1. pos <= size /\ pos > 2 /\ pos \in Nat /\ size \in Nat
    BY <1>0, <1>1, InputIs DEF TreeTypeOK
  <2> QED
    BY <2>1
<1>3. Type # "NORMAL" <=> text[i] \in RunnableKinds
  BY <1>0, TypeIs
<1>4. Ends(l, "attrValue", pos) = Closed(Input, Lists(l, i, "attr"), "}")
  BY EndsAre, Zenon
<1> HIDE DEF i
<1>5. text[i + 1] = ":"
  BY <1>1, <1>2, Zenon
<1>6. e \in Ends(l, "attrValue", pos) <=> \E k \in A : e \in Rest(Input, l, k, "attr", "}")
  <2>1. \A b : e \in Closed(Input, Lists(l, i, "attr"), b) <=>
               \E k \in A : e \in Rest(Input, l, k, "attr", b)
    BY <1>0, <1>2, AttrsRest, Zenon
  <2> HIDE DEF A
  <2> QED
    BY <1>4, <2>1, Zenon
<1>7. /\ text[i] \in RunnableKinds /\ text[i + 2] # "{" => A = {}
      /\ text[i] \notin RunnableKinds /\ text[i + 2] \in Strings => A = {i + 3}
      /\ text[i] \notin RunnableKinds /\ text[i + 2] \in Numbers
           => A = IF l THEN Tail1(Input, i + 2, {",", "}"}) ELSE {i + 3}
      /\ text[i + 2] \notin Strings \cup Numbers /\ (text[i] \in RunnableKinds => text[i + 2] = "{")
           => A = NodeFrom(Input, i + 2, lists)
  BY <1>0, <1>1, <1>2, <1>5, AttrFromIs, Zenon
<1> HIDE DEF A
<1>8. /\ text[i] \in RunnableKinds /\ text[pos] # "{" => A = {}
      /\ text[i] \notin RunnableKinds /\ text[pos] \in Strings => A = {pos + 1}
      /\ text[i] \notin RunnableKinds /\ text[pos] \in Numbers
           => A = IF l THEN Tail1(Input, pos, {",", "}"}) ELSE {pos + 1}
      /\ text[pos] \notin Strings \cup Numbers /\ (text[i] \in RunnableKinds => text[pos] = "{")
           => A = NodeEnds(Input, pos, l)
  BY <1>2, <1>7, Zenon DEF NodeEnds, lists
<1>9. OnlyNode <=> text[i] \in RunnableKinds /\ text[pos] # "{"
  BY <1>3, Zenon DEF OnlyNode
<1>10. text[pos] \in Strings \cup Numbers => text[pos] # "{"
  BY TokensDiffer, Zenon
<1>11. ASSUME OnlyNode PROVE e \notin Ends(l, "attrValue", pos)
  BY <1>6, <1>8, <1>9, <1>11, Zenon
<1>12. ASSUME ~ OnlyNode, text[pos] \in Strings
       PROVE  e \in Ends(l, "attrValue", pos) <=> e \in Rest(Input, l, pos + 1, "attr", "}")
  <2>1. A = {pos + 1}
    BY <1>8, <1>9, <1>10, <1>12, Zenon
  <2> QED
    BY <1>6, <2>1, Zenon
<1>13. ASSUME ~ OnlyNode, text[pos] \in Numbers, l = TRUE
       PROVE  e \in Ends(l, "attrValue", pos) <=>
                    EndOfNumber # 0 /\ e \in Rest(Input, l, EndOfNumber, "attr", "}")
  <2>1. A = Tail1(Input, pos, {",", "}"})
    BY <1>8, <1>9, <1>10, <1>13, Zenon
  <2>2. \A k : k \in A <=> EndOfNumber # 0 /\ k = EndOfNumber
    BY <1>0, <1>2, <2>1, TailIs, Zenon DEF EndOfNumber
  <2> QED
    BY <1>6, <2>2, Zenon
<1>14. ASSUME ~ OnlyNode, text[pos] \in Numbers, l = FALSE
       PROVE  e \in Ends(l, "attrValue", pos) <=> e \in Rest(Input, l, pos + 1, "attr", "}")
  <2>1. A = {pos + 1}
    BY <1>8, <1>9, <1>10, <1>14, Zenon
  <2> QED
    BY <1>6, <2>1, Zenon
<1>15. ASSUME ~ OnlyNode, text[pos] \notin Strings \cup Numbers
       PROVE  e \in Ends(l, "attrValue", pos) <=>
                \E c \in NodeEnds(Input, pos, l) : e \in Rest(Input, l, c, "attr", "}")
  <2>1. A = NodeEnds(Input, pos, l)
    BY <1>8, <1>9, <1>15, Zenon
  <2> QED
    BY <1>6, <2>1, Zenon
<1> QED
  BY <1>11, <1>12, <1>13, <1>14, <1>15, Zenon

\* The strict reading is used for a node that has an end, the lenient one if
\* there is nothing behind the input.
Mode(l) ==
  /\ l \in BOOLEAN
  /\ Top.at = "strings" => pos <= size
  /\ l = TRUE => NothingBehind
  /\ l = FALSE => \E e : e \in Ends(FALSE, Top.at, pos)

\* An interval as an inequality, with no token in sight.
LEMMA Interval == \A j \in Nat \ {0}, z \in Nat : j <= z <=> j \in 1 .. z
OBVIOUS

\* After an element comes the bracket, or a comma and more.
LEMMA RestGoes ==
  ASSUME TreeTypeOK, NEW l, NEW k \in 1 .. size, NEW kind, NEW b, NEW e, b # ","
  PROVE  /\ text[k] = b => (e \in Rest(Input, l, k, kind, b) <=> e = k + 1)
         /\ text[k] = "," => (e \in Rest(Input, l, k, kind, b) <=> e \in Closed(Input, Lists(l, k + 1, kind), b))
<1> DEFINE A == k \in 1 .. size
           B == text[k] = b
           C == text[k] = ","
           D == e = k + 1
           F == e \in Closed(Input, Lists(l, k + 1, kind), b)
           R == e \in Rest(Input, l, k, kind, b)
<1>1. R <=> (A /\ B /\ D) \/ (A /\ C /\ F)
  BY RestIs, Zenon
<1>2. A
  BY Zenon
<1>3. ~ (B /\ C)
  BY Zenon
<1> HIDE DEF A, B, C, D, F, R
<1>4. (B => (R <=> D)) /\ (C => (R <=> F))
  BY <1>1, <1>2, <1>3, Zenon
<1> QED
  BY <1>4, Zenon DEF B, C, D, F, R

\* After an element comes nothing else.
LEMMA RestNeeds ==
  ASSUME TreeTypeOK, NEW l, NEW k, NEW kind, NEW b, NEW e \in Rest(Input, l, k, kind, b), b # ","
  PROVE  k \in 1 .. size /\ text[k] \in {b, ","}
BY RestIs, Zenon

\* A character that the parser sees is in the input.
LEMMA Within ==
  ASSUME TreeTypeOK, NEW l, NEW k \in Nat \ {0}, NEW kind, NEW b, b # ",", Char(k) # Nul,
         NothingBehind \/ \E e : e \in Rest(Input, l, k, kind, b)
  PROVE  k \in 1 .. size /\ text[k] = Char(k)
<1>1. CASE NothingBehind
  <2> DEFINE c == Char(k)
  <2>1. c = IF k <= Len(text) THEN text[k] ELSE Nul
    BY Zenon DEF Char
  <2>2. Len(text) = size /\ size \in Nat
    BY <1>1, InputIs, Zenon DEF NothingBehind
  <2> HIDE DEF c
  <2>3. c # Nul
    BY Zenon DEF c
  <2>4. k <= Len(text) /\ c = text[k]
    BY <2>1, <2>3, Zenon
  <2>5. k <= size
    BY <2>2, <2>4, Zenon
  <2> QED
    BY <2>2, <2>4, <2>5, Interval, Zenon DEF c
<1>2. CASE \E e : e \in Rest(Input, l, k, kind, b)
  <2>1. k \in 1 .. size
    BY <1>2, RestNeeds, Zenon
  <2>3. k <= size
    BY <2>1, Interval, InputIs, Zenon
  <2> QED
    BY <2>1, <2>3, TextIs, Zenon
<1> QED
  BY <1>1, <1>2, Zenon

\* The ends at a string of an array.
LEMMA AtStrings ==
  ASSUME TreeInv, verdict = "parsing", Top.at = "strings", NEW l, Mode(l), NEW e
  PROVE  e \in Ends(l, "strings", pos) <=> e \in Rest(Input, l, pos + 1, "string", "]")
<1>1. TreeTypeOK /\ text[pos] \in Strings /\ pos \in Nat \ {0} /\ pos <= size /\ size \in Nat
  BY InputIs, Zenon DEF TreeInv, TreeTypeOK, Placed, Mode
<1>2. pos \in 1 .. size
  BY <1>1
<1>3. Ends(l, "strings", pos) = Closed(Input, Lists(l, pos, "string"), "]")
  BY EndsAre, Zenon
<1> QED
  BY <1>1, <1>2, <1>3, StringsRest, Zenon

\* The ends at a number of an array.
LEMMA AtNumbers ==
  ASSUME TreeInv, verdict = "parsing", Top.at = "numbers", NEW l, Mode(l), NEW e
  PROVE  e \in Ends(l, "numbers", pos) <=> EndOfElement # 0 /\ e \in Rest(Input, l, EndOfElement, "number", "]")
<1>1. TreeTypeOK /\ pos \in Nat \ {0} /\ pos <= size /\ size \in Nat
  BY InputIs, Zenon DEF TreeInv, TreeTypeOK, Placed
<1>2. pos \in 1 .. size /\ pos + 1 \in Nat \ {0}
  BY <1>1
<1>3. Ends(l, "numbers", pos) = Closed(Input, Lists(l, pos, "number"), "]")
  BY EndsAre, Zenon
<1>4. CASE l = TRUE
  <2>1. e \in Ends(l, "numbers", pos) <=>
          \E k \in Tail1(Input, pos + 1, {",", "]"}) : e \in Rest(Input, TRUE, k, "number", "]")
    BY <1>1, <1>2, <1>3, <1>4, NumbersRest, Zenon
  <2>2. \A k : k \in Tail1(Input, pos + 1, {",", "]"}) <=> EndOfElement # 0 /\ k = EndOfElement
    BY <1>1, <1>2, TailIs, Zenon DEF EndOfElement
  <2> QED
    BY <1>4, <2>1, <2>2, Zenon
<1>5. CASE l = FALSE
  <2>1. \A x : x \in Ends(l, "numbers", pos) <=> text[pos] \in Numbers /\ x \in Rest(Input, l, pos + 1, "number", "]")
    BY <1>1, <1>2, <1>3, <1>5, NumbersRest, Zenon
  <2>2. PICK x : x \in Ends(l, "numbers", pos)
    BY <1>5 DEF Mode
  <2>3. pos + 1 \in 1 .. size /\ text[pos + 1] \in {",", "]"} /\ text[pos] \in Numbers
    BY <1>1, <2>1, <2>2, RestNeeds, Zenon
  <2>7. pos + 1 \in 1 .. size
    BY <2>3, Zenon
  <2>4. pos + 1 <= size
    BY <1>1, <2>7
  <2>5. EndOfElement = pos + 1
    BY <1>1, <1>2, <2>3, <2>4, FirstHit, Zenon DEF EndOfElement
  <2>6. EndOfElement # 0
    BY <1>2, <2>5
  <2> QED
    BY <2>1, <2>3, <2>5, <2>6, Zenon
<1> QED
  BY <1>4, <1>5 DEF Mode

\* The ends at a number that is a value.
LEMMA AtNumber ==
  ASSUME TreeInv, verdict = "parsing", Top.at = "attrValue", NEW l, Mode(l), NEW e,
         ~ OnlyNode, text[pos] \in Numbers
  PROVE  e \in Ends(l, "attrValue", pos) <=> EndOfNumber # 0 /\ e \in Rest(Input, l, EndOfNumber, "attr", "}")
<1>1. TreeTypeOK /\ pos \in Nat \ {0} /\ pos <= size /\ size \in Nat
  BY InputIs, Zenon DEF TreeInv, TreeTypeOK, Placed
<1>2. CASE l = TRUE
  BY <1>2, AtValue, Zenon
<1>3. CASE l = FALSE
  <2>1. \A x : x \in Ends(l, "attrValue", pos) <=> x \in Rest(Input, l, pos + 1, "attr", "}")
    BY <1>3, AtValue, Zenon
  <2>2. PICK x : x \in Ends(l, "attrValue", pos)
    BY <1>3 DEF Mode
  <2>3. pos + 1 \in 1 .. size /\ text[pos + 1] \in {",", "}"}
    BY <1>1, <2>1, <2>2, RestNeeds, Zenon
  <2>7. pos + 1 \in 1 .. size
    BY <2>3, Zenon
  <2>4. pos + 1 <= size /\ pos + 1 # 0
    BY <1>1, <2>7
  <2>5. text[pos] \notin {",", "}"}
    BY TokensDiffer, Zenon
  <2>6. EndOfNumber = pos + 1
    BY <1>1, <2>3, <2>4, <2>5, FirstHit, Zenon DEF EndOfNumber
  <2> QED
    BY <2>1, <2>4, <2>6, Zenon
<1> QED
  BY <1>2, <1>3, Zenon DEF Mode

\* The node on top still ends at the same places.
SameEnds(l, s, p) ==
  /\ s \in States /\ p \in Nat \ {0} /\ (s = "strings" => p <= size)
  /\ \A e : e \in Ends(l, s, p) <=> e \in Ends(l, Top.at, pos)

\* A reading in force sees an end, or the input is all there is.
LEMMA ModeSees ==
  ASSUME NEW l, Mode(l)
  PROVE  NothingBehind \/ \E e : e \in Ends(l, Top.at, pos)
BY DEF Mode

\* Where the parser stands.
LEMMA PosInside ==
  ASSUME TreeInv, verdict = "parsing"
  PROVE  /\ TreeTypeOK /\ Placed /\ pos \in Nat \ {0} /\ size \in Nat
         /\ pos + 1 \in Nat \ {0} /\ pos + 2 \in Nat \ {0}
         /\ pos + 1 + 1 = pos + 2 /\ pos + 1 - 1 = pos /\ pos + 1 - 2 = pos - 1
         /\ Top.at \notin {"strings", "afterAttr", "afterChild"} => pos \in 1 .. size
<1>1. TreeTypeOK /\ Placed
  BY DEF TreeInv
<1>2. pos \in Nat \ {0} /\ size \in Nat
  BY InputIs, <1>1 DEF TreeTypeOK
<1>3. Top.at \notin {"strings", "afterAttr", "afterChild"} => pos <= size
  BY <1>1, Zenon DEF Placed
<1> QED
  BY <1>1, <1>2, <1>3

\* An interval lies in the next one.
LEMMA Wider == \A z \in Nat : \A i \in 1 .. z : i \in 1 .. z + 1
OBVIOUS

\* The same ends in another state.
LEMMA EndsKept ==
  ASSUME NEW l, NEW s, s \in States, s # "strings", NEW p, p \in Nat \ {0},
         \A e : e \in Ends(l, s, p) <=> e \in Ends(l, Top.at, pos)
  PROVE  SameEnds(l, s, p)
BY Zenon DEF SameEnds

\* A list of nodes starts with an opening bracket.
LEMMA NoNode ==
  ASSUME TreeTypeOK, NEW l, NEW i \in 1 .. size, NEW b, NEW e, text[i] \notin {"{", "["}
  PROVE  e \notin Closed(Input, Lists(l, i, "node"), b)
<1>1. i \in 1 .. size + 1
  BY InputIs, Wider, Zenon
<1> QED
  BY <1>1, NodesRest, NodeEndsAre, Zenon

\* A list of strings starts with a string.
LEMMA NoString ==
  ASSUME TreeTypeOK, NEW l, NEW i \in 1 .. size, NEW b, NEW e, text[i] \notin Strings
  PROVE  e \notin Closed(Input, Lists(l, i, "string"), b)
BY StringsRest, Zenon

\* A list of members starts with a name and a colon.
LEMMA NoMember ==
  ASSUME TreeTypeOK, NEW l, NEW i \in 1 .. size, NEW b, NEW e,
         ~ (text[i] \in Strings \ {Empty}) \/ ~ Is(Input, i + 1, {":"})
  PROVE  e \notin Closed(Input, Lists(l, i, "attr"), b)
BY AttrsRest, NoAttr, ZenonT(60)

\* A step that stays in the node keeps the node's ends.
LEMMA OnwardEnds ==
  ASSUME TreeInv, verdict = "parsing", Onward, NEW l, Mode(l)
  PROVE  \E s, p : GoesOn(s, p) /\ SameEnds(l, s, p)
<1>0. TreeTypeOK /\ Placed /\ pos \in Nat \ {0} /\ size \in Nat /\ pos + 1 \in Nat \ {0} /\ pos + 2 \in Nat \ {0}
  BY PosInside
<1>00. Top.at \notin {"strings", "afterAttr", "afterChild"} => pos \in 1 .. size
  BY PosInside
<1>p. pos \in 1 .. size => pos <= size
  BY <1>0
<1>s. /\ {"value", "members", "name", "colon", "attrValue", "afterAttr", "elements", "strings", "numbers", "afterChild"} = States
      /\ "members" # "strings" /\ "elements" # "strings" /\ "name" # "strings" /\ "colon" # "strings"
      /\ "attrValue" # "strings" /\ "afterAttr" # "strings" /\ "numbers" # "strings"
  BY DEF States
<1>a. ASSUME Top.at = "value", GoesOn("members", pos + 1) \/ GoesOn("elements", pos + 1)
      PROVE  SameEnds(l, "members", pos + 1) /\ SameEnds(l, "elements", pos + 1)
  <2>1. Ends(l, "members", pos + 1) = Ends(l, "value", pos) /\ Ends(l, "elements", pos + 1) = Ends(l, "value", pos)
    <3>1. Ends(l, "members", pos + 1) = NodeEnds(Input, pos, l) /\ Ends(l, "elements", pos + 1) = NodeEnds(Input, pos, l)
      BY <1>0, Ahead, Zenon
    <3>2. Ends(l, "value", pos) = NodeEnds(Input, pos, l)
      BY EndsAre, Zenon
    <3> QED
      BY <3>1, <3>2, Zenon
  <2> QED
    BY <2>1, <1>a, <1>0, <1>s, EndsKept, Zenon
<1>c. ASSUME Top.at = "members", text[pos] \in Strings
      PROVE  SameEnds(l, "name", pos)
  <2>1. text[pos] # "}"
    BY <1>c, TokensDiffer, Zenon
  <2>2. Ends(l, "name", pos) = Closed(Input, Lists(l, pos, "attr"), "}")
    BY EndsAre, Zenon
  <2>3. \A e : e \in Ends(l, "name", pos) <=> e \in Ends(l, "members", pos)
    BY <2>1, <2>2, <1>c, InObject, Zenon
  <2> QED
    BY <2>3, <1>c, <1>0, <1>s, EndsKept, Zenon
<1>d. ASSUME Top.at = "name"
      PROVE  SameEnds(l, "colon", pos + 1)
  <2>1. Ends(l, "colon", pos + 1) = Ends(l, "name", pos)
    <3>1. Ends(l, "colon", pos + 1) = Closed(Input, Lists(l, pos, "attr"), "}")
      BY <1>0, Ahead, Zenon
    <3>2. Ends(l, "name", pos) = Closed(Input, Lists(l, pos, "attr"), "}")
      BY EndsAre, Zenon
    <3> QED
      BY <3>1, <3>2, Zenon
  <2> QED
    BY <2>1, <1>d, <1>0, <1>s, EndsKept, Zenon
<1>e. ASSUME Top.at = "colon"
      PROVE  SameEnds(l, "attrValue", pos + 1)
  <2>1. Ends(l, "attrValue", pos + 1) = Ends(l, "colon", pos)
    <3>1. Ends(l, "attrValue", pos + 1) = Closed(Input, Lists(l, pos - 1, "attr"), "}")
      BY <1>0, Ahead, Zenon
    <3>2. Ends(l, "colon", pos) = Closed(Input, Lists(l, pos - 1, "attr"), "}")
      BY EndsAre, Zenon
    <3> QED
      BY <3>1, <3>2, Zenon
  <2> QED
    BY <2>1, <1>e, <1>0, <1>s, EndsKept, Zenon
<1>f. ASSUME Top.at = "attrValue", ~ OnlyNode, text[pos] \in Strings
      PROVE  SameEnds(l, "afterAttr", pos + 1)
  <2>1. Ends(l, "afterAttr", pos + 1) = Rest(Input, l, pos + 1, "attr", "}")
    BY EndsAre, Zenon
  <2>2. \A e : e \in Ends(l, "attrValue", pos) <=> e \in Rest(Input, l, pos + 1, "attr", "}")
    BY <1>f, AtValue, Zenon
  <2> QED
    BY <2>1, <2>2, <1>f, <1>0, <1>s, EndsKept, Zenon
<1>g. ASSUME Top.at = "attrValue", ~ OnlyNode, text[pos] \in Numbers, EndOfNumber # 0
      PROVE  SameEnds(l, "afterAttr", EndOfNumber)
  <2>1. EndOfNumber \in Nat \ {0}
    BY <1>0, <1>g, EndOfNumberIs, Zenon
  <2>2. Ends(l, "afterAttr", EndOfNumber) = Rest(Input, l, EndOfNumber, "attr", "}")
    BY EndsAre, Zenon
  <2>3. \A e : e \in Ends(l, "attrValue", pos) <=> e \in Rest(Input, l, EndOfNumber, "attr", "}")
    BY <1>g, AtNumber, Zenon
  <2> QED
    BY <2>1, <2>2, <2>3, <1>g, <1>0, <1>s, EndsKept, Zenon
<1>h. ASSUME Top.at = "afterAttr", MoreAttrs, pos < size
      PROVE  SameEnds(l, "name", pos + 1)
  <2>1. pos \in 1 .. size /\ pos <= size
    BY <1>0, <1>h
  <2>2. text[pos] = "," /\ "}" # ","
    BY <1>0, <1>h, <2>1, TextIs, Zenon DEF MoreAttrs
  <2>3. \A e : e \in Rest(Input, l, pos, "attr", "}") <=> e \in Closed(Input, Lists(l, pos + 1, "attr"), "}")
    BY <1>0, <2>1, <2>2, RestGoes, Zenon
  <2>4. Ends(l, "name", pos + 1) = Closed(Input, Lists(l, pos + 1, "attr"), "}")
    BY EndsAre, Zenon
  <2>5. Ends(l, "afterAttr", pos) = Rest(Input, l, pos, "attr", "}")
    BY EndsAre, Zenon
  <2> QED
    BY <2>3, <2>4, <2>5, <1>h, <1>0, <1>s, EndsKept, Zenon
<1>i. ASSUME Top.at = "elements", text[pos] \in Strings
      PROVE  SameEnds(l, "strings", pos)
  <2>1. text[pos] \notin {"{", "["} /\ text[pos] # "]" /\ text[pos] \notin Numbers
    BY <1>i, TokensDiffer, Zenon
  <2>2. pos \in 1 .. size /\ pos <= size
    BY <1>00, <1>p, <1>i
  <2>3. \A e : e \notin Closed(Input, Lists(l, pos, "node"), "]")
    BY <1>0, <2>1, <2>2, NoNode, Zenon
  <2> QED
    BY <2>1, <2>2, <2>3, <1>i, <1>0, <1>s, EndsAre, InArray, Zenon DEF SameEnds
<1>j. ASSUME Top.at = "elements", text[pos] \in Numbers \ Minus
      PROVE  SameEnds(l, "numbers", pos)
  <2>1. text[pos] \notin {"{", "["} /\ text[pos] # "]" /\ text[pos] \notin Strings
    BY <1>j, TokensDiffer, Zenon
  <2>2. pos \in 1 .. size /\ pos <= size
    BY <1>00, <1>p, <1>j
  <2>3. \A e : e \notin Closed(Input, Lists(l, pos, "node"), "]") /\ e \notin Closed(Input, Lists(l, pos, "string"), "]")
    BY <1>0, <2>1, <2>2, NoNode, NoString, Zenon
  <2> QED
    BY <2>1, <2>2, <2>3, <1>j, <1>0, <1>s, EndsAre, InArray, Zenon DEF SameEnds
<1>k. ASSUME Top.at = "strings", Char(pos + 1) = ","
      PROVE  SameEnds(l, "strings", pos + 2)
  <2> DEFINE q == pos + 1
  <2>1. q \in Nat \ {0} /\ q + 1 = pos + 2
    BY <1>0
  <2>2. \A e : e \in Ends(l, "strings", pos) <=> e \in Rest(Input, l, q, "string", "]")
    BY <1>k, AtStrings, Zenon
  <2> HIDE DEF q
  <2>3. NothingBehind \/ \E e : e \in Rest(Input, l, q, "string", "]")
    BY <1>k, <2>2, ModeSees, Zenon
  <2>4. Char(q) # Nul /\ Char(q) = "," /\ "]" # ","
    BY <1>k, TreeAssumption, Zenon DEF q, Tokens, Punctuation
  <2>5. q \in 1 .. size /\ text[q] = ","
    BY <1>0, <2>1, <2>3, <2>4, Within, Zenon
  <2>6. q <= size /\ text[q] \notin Shuts
    BY <2>1, <2>5, <1>0, Interval, Zenon DEF Shuts
  <2>7. q + 1 <= size
    BY <1>0, <2>1, <2>6, NotLast, Zenon
  <2>8. \A e : e \in Rest(Input, l, q, "string", "]") <=> e \in Closed(Input, Lists(l, q + 1, "string"), "]")
    BY <1>0, <2>4, <2>5, RestGoes, Zenon
  <2>9. \A e : e \in Rest(Input, l, q, "string", "]") <=> e \in Closed(Input, Lists(l, pos + 2, "string"), "]")
    BY <2>1, <2>8, Zenon
  <2>10. pos + 2 <= size
    BY <2>1, <2>7
  <2>12. Ends(l, "strings", pos + 2) = Closed(Input, Lists(l, pos + 2, "string"), "]")
    BY EndsAre, Zenon
  <2>11. \A e : e \in Ends(l, "strings", pos + 2) <=> e \in Ends(l, "strings", pos)
    BY <2>2, <2>9, <2>12, Zenon
  <2> QED
    BY <2>10, <2>11, <1>k, <1>0, <1>s, Zenon DEF SameEnds
<1>l. ASSUME Top.at = "numbers", EndOfElement # 0, text[EndOfElement] = ","
      PROVE  SameEnds(l, "numbers", EndOfElement + 1)
  <2> DEFINE q == EndOfElement
  <2>1. q \in 1 .. size /\ q + 1 \in Nat \ {0}
    <3>1. q \in pos + 1 .. size /\ q \in Nat \ {0}
      BY <1>0, <1>l, EndOfElementIs, Zenon
    <3> HIDE DEF q
    <3> QED
      BY <3>1, <1>0
  <2>2. \A e : e \in Ends(l, "numbers", pos) <=> e \in Rest(Input, l, q, "number", "]")
    BY <1>l, AtNumbers, Zenon
  <2>3. "]" # "," /\ text[q] = ","
    BY <1>l, Zenon
  <2> HIDE DEF q
  <2>4. \A e : e \in Rest(Input, l, q, "number", "]") <=> e \in Closed(Input, Lists(l, q + 1, "number"), "]")
    BY <1>0, <2>1, <2>3, RestGoes, Zenon
  <2>5. \A e : e \in Ends(l, "numbers", q + 1) <=> e \in Ends(l, "numbers", pos)
    <3>1. Ends(l, "numbers", q + 1) = Closed(Input, Lists(l, q + 1, "number"), "]")
      BY EndsAre, Zenon
    <3> QED
      BY <2>2, <2>4, <3>1, Zenon
  <2>6. SameEnds(l, "numbers", q + 1)
    BY <2>1, <2>5, <1>l, <1>s, Zenon DEF SameEnds
  <2> QED
    BY <2>6 DEF q
<1> QED
  BY <1>a, <1>c, <1>d, <1>e, <1>f, <1>g, <1>h, <1>i, <1>j, <1>k, <1>l, ZenonT(60) DEF Onward, At

\* Behind its closing bracket a list ends.
LEMMA RestShut ==
  ASSUME TreeTypeOK, NEW l, NEW k \in 1 .. size, NEW kind, NEW b, b # ",", text[k] = b
  PROVE  \A e : e \in Rest(Input, l, k, kind, b) <=> e = k + 1
BY RestGoes, Zenon

\* The marks are tokens.
LEMMA Marks == {"{", "}", "[", "]", ",", ":"} \subseteq Tokens
BY Zenon DEF Tokens, Punctuation

\* A place where a mark is seen is not the end of the text.
LEMMA MarksSeen ==
  ASSUME NEW p, NEW c, Char(p) = c, c \in Tokens
  PROVE  Char(p) # Nul
BY TreeAssumption, Zenon

\* The node on top may end where the one of the new frame does, and what
\* waits for it.
LEMMA InwardEnds ==
  ASSUME TreeInv, verdict = "parsing", Inward, NEW l, Mode(l)
  PROVE  \E s, p, type, under :
           /\ s \in {"afterAttr", "afterChild"} /\ p \in Nat \ {0}
           /\ Enters(s, p, type, under) /\ p <= size
           /\ \A e : e \in Ends(l, Top.at, pos) <=> \E c \in NodeEnds(Input, p, l) : e \in Ends(l, s, c)
<1>0. TreeTypeOK /\ Placed /\ pos \in Nat \ {0} /\ size \in Nat /\ pos + 1 \in Nat \ {0}
  BY PosInside
<1>00. Top.at \notin {"strings", "afterAttr", "afterChild"} => pos \in 1 .. size
  BY PosInside
<1>p. pos \in 1 .. size => pos <= size
  BY <1>0
<1>s. \A c : Ends(l, "afterAttr", c) = Rest(Input, l, c, "attr", "}") /\ Ends(l, "afterChild", c) = Rest(Input, l, c, "node", "]")
  BY EndsAre, Zenon
<1>a. ASSUME Top.at = "attrValue", ~ OnlyNode, text[pos] \in {"{", "["}
      PROVE  /\ pos <= size
             /\ \A e : e \in Ends(l, Top.at, pos) <=> \E c \in NodeEnds(Input, pos, l) : e \in Ends(l, "afterAttr", c)
  <2>1. text[pos] \notin Strings \cup Numbers
    BY <1>a, TokensDiffer, Zenon
  <2>2. \A e : e \in Ends(l, "attrValue", pos) <=> \E c \in NodeEnds(Input, pos, l) : e \in Rest(Input, l, c, "attr", "}")
    BY <2>1, <1>a, AtValue, Zenon
  <2>3. pos <= size
    <3>1. "attrValue" \notin {"strings", "afterAttr", "afterChild"}
      OBVIOUS
    <3> QED
      BY <3>1, <1>00, <1>p, <1>a, Zenon
  <2> QED
    BY <2>2, <2>3, <1>a, <1>s, Zenon
<1>b. ASSUME Top.at = "elements", text[pos] \notin Strings \cup (Numbers \ Minus) \cup {"]"}
      PROVE  /\ pos <= size
             /\ \A e : e \in Ends(l, Top.at, pos) <=> \E c \in NodeEnds(Input, pos, l) : e \in Ends(l, "afterChild", c)
  <2>1. pos \in 1 .. size
    <3>1. "elements" \notin {"strings", "afterAttr", "afterChild"}
      OBVIOUS
    <3> QED
      BY <3>1, <1>00, <1>b, Zenon
  <2>2. pos <= size /\ pos \in 1 .. size + 1
    BY <2>1, <1>p, <1>0, Wider, Zenon
  <2>3. \A e : e \in Ends(l, "elements", pos) <=> e \in Closed(Input, Lists(l, pos, "node"), "]")
    BY <1>0, <1>b, <2>1, InArray, NoString, Zenon
  <2>4. \A e : e \in Closed(Input, Lists(l, pos, "node"), "]")
                 <=> \E c \in NodeEnds(Input, pos, l) : e \in Rest(Input, l, c, "node", "]")
    BY <1>0, <2>2, NodesRest, Zenon
  <2> QED
    <3>1. \A e : e \in Ends(l, "elements", pos) <=> \E c \in NodeEnds(Input, pos, l) : e \in Rest(Input, l, c, "node", "]")
      BY <2>3, <2>4, Zenon
    <3> QED
      BY <3>1, <2>2, <1>b, <1>s, ZenonT(60)
<1>c. ASSUME Top.at = "afterChild", MoreChildren, pos < size
      PROVE  /\ pos + 1 <= size
             /\ \A e : e \in Ends(l, Top.at, pos) <=> \E c \in NodeEnds(Input, pos + 1, l) : e \in Ends(l, "afterChild", c)
  <2>1. pos + 1 <= size /\ pos \in 1 .. size /\ pos <= size /\ pos + 1 \in 1 .. size + 1
    BY <1>0, <1>c
  <2>2. text[pos] = "," /\ "]" # ","
    BY <1>0, <1>c, <2>1, TextIs, Zenon DEF MoreChildren
  <2>3. \A e : e \in Rest(Input, l, pos, "node", "]") <=> e \in Closed(Input, Lists(l, pos + 1, "node"), "]")
    BY <1>0, <2>1, <2>2, RestGoes, Zenon
  <2>4. \A e : e \in Closed(Input, Lists(l, pos + 1, "node"), "]")
                 <=> \E c \in NodeEnds(Input, pos + 1, l) : e \in Rest(Input, l, c, "node", "]")
    BY <1>0, <2>1, NodesRest, Zenon
  <2> QED
    BY <2>1, <2>3, <2>4, <1>c, <1>s, ZenonT(60)
<1> QED
  BY <1>a, <1>b, <1>c, <1>0, ZenonT(60) DEF Inward, At

\* The node on top ends behind its last bracket, and nowhere else.
LEMMA OutwardEnds ==
  ASSUME TreeInv, verdict = "parsing", Outward, NEW l, Mode(l)
  PROVE  \E p, under : p \in Nat \ {0} /\ Returns(p, under) /\ \A e : e \in Ends(l, Top.at, pos) <=> e = p
<1>0. /\ TreeTypeOK /\ Placed /\ pos \in Nat \ {0} /\ size \in Nat /\ pos + 1 \in Nat \ {0} /\ pos + 2 \in Nat \ {0}
      /\ pos + 1 + 1 = pos + 2
  BY PosInside
<1>t. TreeTypeOK
  BY <1>0
<1>00. Top.at \notin {"strings", "afterAttr", "afterChild"} => pos \in 1 .. size
  BY PosInside
<1>m. NothingBehind \/ \E e : e \in Ends(l, Top.at, pos)
  BY ModeSees
<1>a. ASSUME Top.at = "members", text[pos] = "}"
      PROVE  \A e : e \in Ends(l, Top.at, pos) <=> e = pos + 1
  <2>1. pos \in 1 .. size
    <3>1. "members" \notin {"strings", "afterAttr", "afterChild"}
      OBVIOUS
    <3> QED
      BY <3>1, <1>00, <1>a, Zenon
  <2>2. ~ (text[pos] \in Strings \ {Empty})
    BY <1>a, TokensDiffer, Zenon
  <2> QED
    BY <1>0, <1>a, <2>1, <2>2, InObject, NoMember, Zenon
<1>b. ASSUME Top.at = "afterAttr", Char(pos) = "}"
      PROVE  \A e : e \in Ends(l, Top.at, pos) <=> e = pos + 1
  <2>1. Ends(l, "afterAttr", pos) = Rest(Input, l, pos, "attr", "}")
    BY EndsAre, Zenon
  <2> QED
    <3>1. NothingBehind \/ \E e : e \in Rest(Input, l, pos, "attr", "}")
      BY <1>b, <1>m, <2>1, Zenon
    <3>2. "}" # "," /\ Char(pos) # Nul
      <4>1. Char(pos) = "}"
        BY <1>0, <1>b, Zenon
      <4>2. "}" \in Tokens
        BY Marks, Zenon
      <4>3. Char(pos) # Nul
        BY <4>1, <4>2, MarksSeen, Zenon
      <4>4. "}" # ","
        BY Zenon
      <4> QED
        BY <4>3, <4>4, Zenon
    <3>3. pos \in 1 .. size /\ text[pos] = "}"
      BY <1>0, <3>1, <3>2, <1>b, Within, Zenon
    <3>4. \A e : e \in Rest(Input, l, pos, "attr", "}") <=> e = pos + 1
      BY <1>t, <3>2, <3>3, RestShut, Zenon
    <3> QED
      BY <1>b, <2>1, <3>4, Zenon
<1>c. ASSUME Top.at = "elements", text[pos] = "]"
      PROVE  \A e : e \in Ends(l, Top.at, pos) <=> e = pos + 1
  <2>1. pos \in 1 .. size
    <3>1. "elements" \notin {"strings", "afterAttr", "afterChild"}
      OBVIOUS
    <3> QED
      BY <3>1, <1>00, <1>c, Zenon
  <2>2. text[pos] \notin Strings /\ text[pos] \notin Numbers /\ text[pos] \notin {"{", "["}
    BY <1>c, TokensDiffer, Zenon
  <2> QED
    BY <1>0, <1>c, <2>1, <2>2, InArray, NoString, NoNode, Zenon
<1>d. ASSUME Top.at = "strings", Char(pos + 1) = "]"
      PROVE  \A e : e \in Ends(l, Top.at, pos) <=> e = pos + 2
  <2> DEFINE q == pos + 1
  <2>1. \A e : e \in Ends(l, "strings", pos) <=> e \in Rest(Input, l, q, "string", "]")
    BY <1>d, AtStrings, Zenon
  <2>2. q \in Nat \ {0} /\ q + 1 = pos + 2 /\ Char(q) = "]"
    BY <1>0, <1>d, Zenon
  <2> HIDE DEF q
  <2> QED
    <3>1. NothingBehind \/ \E e : e \in Rest(Input, l, q, "string", "]")
      BY <1>d, <1>m, <2>1, Zenon
    <3>2. "]" # "," /\ Char(q) # Nul
      <4>1. Char(q) = "]"
        BY <2>2, Zenon
      <4>2. "]" \in Tokens
        BY Marks, Zenon
      <4>3. Char(q) # Nul
        BY <4>1, <4>2, MarksSeen, Zenon
      <4>4. "]" # ","
        BY Zenon
      <4> QED
        BY <4>3, <4>4, Zenon
    <3>3. q \in 1 .. size /\ text[q] = "]"
      BY <1>0, <2>2, <3>1, <3>2, <2>2, Within, Zenon
    <3>4. \A e : e \in Rest(Input, l, q, "string", "]") <=> e = q + 1
      BY <1>t, <3>2, <3>3, RestShut, Zenon
    <3> QED
      BY <1>d, <2>1, <2>2, <3>4, Zenon
<1>e. ASSUME Top.at = "numbers", EndOfElement # 0, text[EndOfElement] = "]"
      PROVE  EndOfElement + 1 \in Nat \ {0} /\ \A e : e \in Ends(l, Top.at, pos) <=> e = EndOfElement + 1
  <2> DEFINE q == EndOfElement
  <2>1. q \in 1 .. size /\ q + 1 \in Nat \ {0}
    <3>1. q \in pos + 1 .. size /\ q \in Nat \ {0}
      BY <1>0, <1>e, EndOfElementIs
    <3> HIDE DEF q
    <3> QED
      BY <3>1, <1>0
  <2>2. \A e : e \in Ends(l, "numbers", pos) <=> e \in Rest(Input, l, q, "number", "]")
    BY <1>e, AtNumbers, Zenon
  <2>3. "]" # "," /\ text[q] = "]"
    BY <1>e, Zenon
  <2> HIDE DEF q
  <2>4. \A e : e \in Rest(Input, l, q, "number", "]") <=> e = q + 1
    BY <1>0, <2>1, <2>3, RestShut, Zenon
  <2> QED
    BY <2>1, <2>2, <2>4, <1>e, Zenon DEF q
<1>f. ASSUME Top.at = "afterChild", Char(pos) = "]"
      PROVE  \A e : e \in Ends(l, Top.at, pos) <=> e = pos + 1
  <2>1. Ends(l, "afterChild", pos) = Rest(Input, l, pos, "node", "]")
    BY EndsAre, Zenon
  <2> QED
    <3>1. NothingBehind \/ \E e : e \in Rest(Input, l, pos, "node", "]")
      BY <1>f, <1>m, <2>1, Zenon
    <3>2. "]" # "," /\ Char(pos) # Nul
      <4>1. Char(pos) = "]"
        BY <1>0, <1>f, Zenon
      <4>2. "]" \in Tokens
        BY Marks, Zenon
      <4>3. Char(pos) # Nul
        BY <4>1, <4>2, MarksSeen, Zenon
      <4>4. "]" # ","
        BY Zenon
      <4> QED
        BY <4>3, <4>4, Zenon
    <3>3. pos \in 1 .. size /\ text[pos] = "]"
      BY <1>0, <3>1, <3>2, <1>f, Within, Zenon
    <3>4. \A e : e \in Rest(Input, l, pos, "node", "]") <=> e = pos + 1
      BY <1>t, <3>2, <3>3, RestShut, Zenon
    <3> QED
      BY <1>f, <2>1, <3>4, Zenon
<1>g. \/ \E under : Returns(pos + 1, under) /\ \A e : e \in Ends(l, Top.at, pos) <=> e = pos + 1
      \/ \E under : Returns(pos + 2, under) /\ \A e : e \in Ends(l, Top.at, pos) <=> e = pos + 2
      \/ /\ EndOfElement + 1 \in Nat \ {0}
         /\ \E under : Returns(EndOfElement + 1, under) /\ \A e : e \in Ends(l, Top.at, pos) <=> e = EndOfElement + 1
  BY <1>a, <1>b, <1>c, <1>d, <1>e, <1>f, <1>0, ZenonT(60) DEF Outward, At
<1> DEFINE Only(q) == \A e : e \in Ends(l, Top.at, pos) <=> e = q
<1>h. \E p, under : p \in Nat \ {0} /\ Returns(p, under) /\ Only(p)
  <2> HIDE DEF Only
  <2>1. \/ \E under : Returns(pos + 1, under) /\ Only(pos + 1)
        \/ \E under : Returns(pos + 2, under) /\ Only(pos + 2)
        \/ /\ EndOfElement + 1 \in Nat \ {0}
           /\ \E under : Returns(EndOfElement + 1, under) /\ Only(EndOfElement + 1)
    BY <1>g, Zenon DEF Only
  <2> QED
    BY <2>1, <1>0, Zenon
<1> QED
  BY <1>h, Zenon

\* What is not the last character of the input is followed by one.
LEMMA Follows ==
  ASSUME TreeInv, verdict = "parsing", NEW q \in Nat \ {0}, q \in 1 .. size, text[q] = ","
  PROVE  q + 1 \in 1 .. size /\ q + 1 <= size /\ q + 1 \in Nat \ {0} /\ Char(q) = "," /\ Char(q + 1) = text[q + 1]
<1>1. TreeTypeOK /\ Placed /\ size \in Nat
  BY PosInside, Zenon
<1>2. q <= size
  BY <1>1, Interval, Zenon
<1>3. text[q] \notin Shuts
  BY Zenon DEF Shuts
<1>4. q + 1 <= size /\ q + 1 \in Nat \ {0}
  BY <1>1, <1>2, <1>3, NotLast, Zenon
<1>5. q + 1 \in 1 .. size
  BY <1>1, <1>4, Interval, Zenon
<1> QED
  BY <1>1, <1>2, <1>4, <1>5, TextIs, Zenon

\* If the node has an end, the parser goes on.
LEMMA NotRefused ==
  ASSUME TreeInv, verdict = "parsing", Mode(FALSE)
  PROVE  ~ Refused
<1>0. /\ TreeTypeOK /\ Placed /\ pos \in Nat \ {0} /\ size \in Nat /\ pos + 1 \in Nat \ {0} /\ pos + 2 \in Nat \ {0}
      /\ pos + 1 + 1 = pos + 2
  BY PosInside
<1>t. TreeTypeOK
  BY <1>0
<1>00. Top.at \notin {"strings", "afterAttr", "afterChild"} => pos \in 1 .. size
  BY PosInside
<1>x. PICK x : x \in Ends(FALSE, Top.at, pos)
  BY DEF Mode
<1>i. Top.at \in {"value", "members", "name", "colon", "attrValue", "elements", "numbers"} => pos \in 1 .. size
  BY <1>00
<1>a. ASSUME Top.at = "value" PROVE text[pos] \in {"{", "["}
  <2>1. x \in NodeEnds(Input, pos, FALSE)
    BY <1>a, <1>x, EndsAre, Zenon
  <2> QED
    BY <2>1, <1>t, <1>i, <1>a, NodeEndsAre, Zenon
<1>b. ASSUME Top.at = "members", text[pos] # "}" PROVE text[pos] \in Strings
  <2>1. x \in Closed(Input, Lists(FALSE, pos, "attr"), "}")
    BY <1>b, <1>x, InObject, Zenon
  <2> QED
    BY <2>1, <1>t, <1>i, <1>b, NoMember, Zenon
<1>c. ASSUME Top.at = "name" PROVE text[pos] # Empty
  <2>1. x \in Closed(Input, Lists(FALSE, pos, "attr"), "}")
    BY <1>c, <1>x, EndsAre, Zenon
  <2> QED
    BY <2>1, <1>t, <1>i, <1>c, NoMember, Zenon
<1>d. ASSUME Top.at = "colon" PROVE text[pos] = ":"
  <2> DEFINE q == pos - 1
  <2>1. x \in Closed(Input, Lists(FALSE, q, "attr"), "}")
    BY <1>d, <1>x, EndsAre, Zenon
  <2>2. pos > 1
    BY <1>0, <1>d, Zenon DEF Placed
  <2>3. q \in 1 .. size /\ q + 1 = pos
    <3>1. pos \in 1 .. size
      BY <1>i, <1>d
    <3> QED
      BY <3>1, <2>2, <1>0
  <2> HIDE DEF q
  <2>4. Is(Input, q + 1, {":"})
    BY <2>1, <2>3, <1>t, NoMember, Zenon
  <2> QED
    BY <2>3, <2>4, <1>t, InputIs, Zenon
<1>e. ASSUME Top.at = "attrValue"
      PROVE  /\ ~ OnlyNode
             /\ text[pos] \in Numbers => EndOfNumber # 0
             /\ text[pos] \notin {"}", "]", ",", ":"}
  <2>1. ~ OnlyNode
    BY <1>e, <1>x, AtValue, Zenon
  <2>2. ASSUME text[pos] \in Numbers PROVE EndOfNumber # 0
    BY <1>e, <1>x, <2>1, <2>2, AtNumber, Zenon
  <2>3. ASSUME text[pos] \in {"}", "]", ",", ":"} PROVE FALSE
    <3>1. text[pos] \notin Strings \cup Numbers /\ text[pos] \notin {"{", "["}
      BY <2>3, TokensDiffer, Zenon
    <3>2. PICK c \in NodeEnds(Input, pos, FALSE) : x \in Rest(Input, FALSE, c, "attr", "}")
      BY <1>e, <1>x, <2>1, <3>1, AtValue, Zenon
    <3> QED
      BY <3>1, <3>2, <1>t, <1>i, <1>e, NodeEndsAre, Zenon
  <2> QED
    BY <2>1, <2>2, <2>3, Zenon
<1>f. ASSUME Top.at = "afterAttr" PROVE MoreAttrs \/ Char(pos) = "}"
  <2>1. x \in Rest(Input, FALSE, pos, "attr", "}")
    BY <1>f, <1>x, EndsAre, Zenon
  <2>2. "}" # ","
    BY Zenon
  <2>3. pos \in 1 .. size /\ text[pos] \in {"}", ","}
    BY <1>t, <2>1, <2>2, RestNeeds, Zenon
  <2>4. Char(pos) = text[pos]
    BY <1>0, <2>3, Interval, TextIs, Zenon
  <2>5. ASSUME text[pos] = "," PROVE MoreAttrs
    <3> DEFINE q == pos + 1
    <3>1. x \in Closed(Input, Lists(FALSE, q, "attr"), "}")
      BY <1>t, <2>1, <2>2, <2>3, <2>5, RestGoes, Zenon
    <3>2. q \in 1 .. size /\ Char(pos) = "," /\ Char(q) = text[q]
      BY <1>0, <2>3, <2>5, Follows, Zenon
    <3>3. MoreAttrs <=> Char(pos) = "," /\ Char(q) \in Strings
      BY Zenon DEF MoreAttrs
    <3> HIDE DEF q
    <3>4. text[q] \in Strings
      BY <1>t, <3>1, <3>2, NoMember, Zenon
    <3> QED
      BY <3>2, <3>3, <3>4, Zenon
  <2> QED
    BY <2>3, <2>4, <2>5, Zenon
<1>g. ASSUME Top.at = "strings"
      PROVE  (Char(pos + 1) = "," /\ Char(pos + 2) \in Strings) \/ Char(pos + 1) = "]"
  <2> DEFINE p == pos + 1
             q == p + 1
  <2>1. x \in Rest(Input, FALSE, p, "string", "]")
    BY <1>g, <1>x, AtStrings, Zenon
  <2>2. "]" # "," /\ q = pos + 2
    BY <1>0, Zenon
  <2>p. p \in Nat \ {0}
    BY <1>0
  <2> HIDE DEF p
  <2>3. p \in 1 .. size /\ text[p] \in {"]", ","}
    BY <1>t, <2>1, <2>2, RestNeeds, Zenon
  <2>4. Char(p) = text[p]
    BY <1>0, <2>p, <2>3, Interval, TextIs, Zenon
  <2>5. ASSUME text[p] = "," PROVE Char(q) \in Strings
    <3>1. x \in Closed(Input, Lists(FALSE, q, "string"), "]")
      BY <1>t, <2>1, <2>2, <2>3, <2>5, RestGoes, Zenon
    <3>2. q \in 1 .. size /\ Char(q) = text[q]
      BY <2>p, <2>3, <2>5, Follows, Zenon
    <3> HIDE DEF q
    <3> QED
      BY <1>t, <3>1, <3>2, NoString, Zenon
  <2> QED
    BY <2>2, <2>3, <2>4, <2>5, Zenon DEF p
<1>h. ASSUME Top.at = "numbers" PROVE EndOfElement # 0
  BY <1>h, <1>x, AtNumbers, Zenon
<1>j. ASSUME Top.at = "afterChild" PROVE MoreChildren \/ Char(pos) = "]"
  <2>1. x \in Rest(Input, FALSE, pos, "node", "]")
    BY <1>j, <1>x, EndsAre, Zenon
  <2>2. "]" # ","
    BY Zenon
  <2>3. pos \in 1 .. size /\ text[pos] \in {"]", ","}
    BY <1>t, <2>1, <2>2, RestNeeds, Zenon
  <2>4. Char(pos) = text[pos]
    BY <1>0, <2>3, Interval, TextIs, Zenon
  <2>5. ASSUME text[pos] = "," PROVE MoreChildren
    <3> DEFINE q == pos + 1
    <3>1. x \in Closed(Input, Lists(FALSE, q, "node"), "]")
      BY <1>t, <2>1, <2>2, <2>3, <2>5, RestGoes, Zenon
    <3>2. q \in 1 .. size /\ Char(pos) = "," /\ Char(q) = text[q]
      BY <1>0, <2>3, <2>5, Follows, Zenon
    <3>3. MoreChildren <=> Char(pos) = "," /\ Char(q) \in {"{", "["}
      BY Zenon DEF MoreChildren
    <3> HIDE DEF q
    <3>4. text[q] \in {"{", "["}
      BY <1>t, <3>1, <3>2, NoNode, Zenon
    <3> QED
      BY <3>2, <3>3, <3>4, Zenon
  <2> QED
    BY <2>3, <2>4, <2>5, Zenon
<1> QED
  <2> SUFFICES ASSUME Refused PROVE FALSE
    OBVIOUS
  <2> QED
    BY <1>a, <1>b, <1>c, <1>d, <1>e, <1>f, <1>g, <1>h, <1>j, ZenonT(60) DEF Refused, At

\* The loops do not end behind the input.
LEMMA NoOverrun ==
  ASSUME TreeInv, verdict = "parsing", NEW l, Mode(l)
  PROVE  ~ Overrun
<1>0. TreeTypeOK /\ Placed /\ pos \in Nat \ {0} /\ size \in Nat
  BY PosInside
<1>m. NothingBehind \/ \E e : e \in Ends(l, Top.at, pos)
  BY ModeSees
<1>1. ASSUME NEW kind, NEW b, b # ",", Char(pos) = ",", pos >= size,
             \A e : e \in Ends(l, Top.at, pos) <=> e \in Rest(Input, l, pos, kind, b)
      PROVE  FALSE
  <2>1. NothingBehind \/ \E e : e \in Rest(Input, l, pos, kind, b)
    BY <1>1, <1>m, Zenon
  <2>2. "," \in Tokens
    BY Marks, Zenon
  <2>3. Char(pos) # Nul
    BY <1>1, <2>2, MarksSeen, Zenon
  <2>4. pos \in 1 .. size /\ text[pos] = Char(pos)
    BY <1>0, <1>1, <2>1, <2>3, Within, Zenon
  <2>5. pos = size
    <3>1. pos >= size /\ pos \in 1 .. size
      BY <1>1, <2>4, Zenon
    <3> HIDE <2>4
    <3> QED
      BY <3>1, <1>0
  <2>6. text[size] \in {"}", "]"}
    BY <1>0, Zenon DEF Placed
  <2> QED
    BY <1>1, <2>4, <2>5, <2>6, Zenon
<1>2. ASSUME Top.at = "afterAttr", MoreAttrs, pos >= size PROVE FALSE
  <2>1. Ends(l, "afterAttr", pos) = Rest(Input, l, pos, "attr", "}")
    BY EndsAre, Zenon
  <2>2. "}" # "," /\ Char(pos) = ","
    BY <1>2, Zenon DEF MoreAttrs
  <2> QED
    BY <1>1, <1>2, <2>1, <2>2, Zenon
<1>3. ASSUME Top.at = "afterChild", MoreChildren, pos >= size PROVE FALSE
  <2>1. Ends(l, "afterChild", pos) = Rest(Input, l, pos, "node", "]")
    BY EndsAre, Zenon
  <2>2. "]" # "," /\ Char(pos) = ","
    BY <1>3, Zenon DEF MoreChildren
  <2> QED
    BY <1>1, <1>3, <2>1, <2>2, Zenon
<1> QED
  BY <1>2, <1>3, Zenon DEF Overrun, At

-----------------------------------------------------------------------------
(* The frames of the stack, by the grammar *)

\* Every frame has an end, from the one on top to the end of the input.
Strict(t, z, stk, p) ==
  /\ Last(stk).at = "strings" => p <= z
  /\ \E e \in [Nat -> Nat] :
       /\ e[1] = z + 1
       /\ e[Len(stk)] \in EndsOf(t, FALSE, stk[Len(stk)].at, p)
       /\ \A k \in 1 .. Len(stk) - 1 : e[k] \in EndsOf(t, FALSE, stk[k].at, e[k + 1])

\* Every end of a frame is one of the node that begins where the frame does.
Lenient(t, stk, p) ==
  \E s \in [Nat -> Nat] :
    /\ s[1] = 1
    /\ \A x \in EndsOf(t, TRUE, stk[Len(stk)].at, p) : x \in NodeEnds(t, s[Len(stk)], TRUE)
    /\ \A k \in 1 .. Len(stk) - 1 : \A c \in NodeEnds(t, s[k + 1], TRUE) :
         \A x \in EndsOf(t, TRUE, stk[k].at, c) : x \in NodeEnds(t, s[k], TRUE)

\* The frames while the parser works.
LEMMA StackIs ==
  ASSUME TreeTypeOK, verdict = "parsing"
  PROVE  Len(stack) \in Nat \ {0} /\ stack[Len(stack)] = Top /\ Last(stack) = Top
BY TopIs DEF Top

\* A chain of ends with one more.
LEMMA Update ==
  ASSUME NEW e \in [Nat -> Nat], NEW n \in Nat, NEW q \in Nat
  PROVE  /\ [e EXCEPT ![n + 1] = q] \in [Nat -> Nat] /\ [e EXCEPT ![n + 1] = q][n + 1] = q
         /\ \A k \in Nat : k # n + 1 => [e EXCEPT ![n + 1] = q][k] = e[k]
OBVIOUS

\* Staying in the node keeps the strict reading.
LEMMA StrictOnward ==
  ASSUME TreeTypeOK, verdict = "parsing", NEW s, NEW p, Stays(s), SameEnds(FALSE, s, p),
         Strict(Input, size, stack, pos)
  PROVE  Strict(Input, size, stack', p)
<1> DEFINE n == Len(stack)
           E(st, q) == EndsOf(Input, FALSE, st, q)
<1>1. n \in Nat \ {0} /\ stack[n] = Top
  BY StackIs
<1>2. /\ Len(stack') = n /\ \A k \in 1 .. n - 1 : stack'[k] = stack[k]
      /\ stack'[n].at = s /\ Last(stack') = stack'[n]
  BY DEF Stays, SameBelow, Last
<1>3. PICK e \in [Nat -> Nat] :
        /\ e[1] = size + 1 /\ e[n] \in E(stack[n].at, pos)
        /\ \A k \in 1 .. n - 1 : e[k] \in E(stack[k].at, e[k + 1])
  BY DEF Strict
<1>4. \A x : x \in E(s, p) <=> x \in E(Top.at, pos)
  BY DEF SameEnds, Ends
<1>5. s = "strings" => p <= size
  BY DEF SameEnds
<1> HIDE DEF E, n
<1>6. e[n] \in E(stack'[n].at, p) /\ \A k \in 1 .. n - 1 : e[k] \in E(stack'[k].at, e[k + 1])
  BY <1>1, <1>2, <1>3, <1>4
<1> QED
  BY <1>2, <1>3, <1>5, <1>6 DEF E, Strict

\* Entering a child keeps the strict reading.
LEMMA StrictInward ==
  ASSUME TreeTypeOK, verdict = "parsing", NEW s, NEW p, Pushes(s), NEW q \in Nat,
         q \in NodeEnds(Input, p, FALSE),
         \A x : x \in Ends(FALSE, Top.at, pos) <=> \E c \in NodeEnds(Input, p, FALSE) : x \in Ends(FALSE, s, c),
         NEW e \in [Nat -> Nat], e[1] = size + 1, e[Len(stack)] \in Ends(FALSE, s, q),
         \A k \in 1 .. Len(stack) - 1 : e[k] \in EndsOf(Input, FALSE, stack[k].at, e[k + 1])
  PROVE  Strict(Input, size, stack', p)
<1> DEFINE n == Len(stack)
           E(st, x) == EndsOf(Input, FALSE, st, x)
           d == [e EXCEPT ![n + 1] = q]
<1>1. n \in Nat \ {0}
  BY StackIs
<1>2. /\ Len(stack') = n + 1 /\ \A k \in 1 .. n - 1 : stack'[k] = stack[k]
      /\ stack'[n].at = s /\ stack'[n + 1].at = "value" /\ Last(stack') = stack'[n + 1]
  BY DEF Pushes, SameBelow, Last
<1>3. e[n] \in E(s, q) /\ \A k \in 1 .. n - 1 : e[k] \in E(stack[k].at, e[k + 1])
  BY DEF Ends
<1>4. q \in E("value", p)
  <2>1. Ends(FALSE, "value", p) = NodeEnds(Input, p, FALSE)
    BY EndsAre, Zenon
  <2> QED
    BY <2>1, Zenon DEF Ends
<1>0. n \in Nat
  BY <1>1
<1> HIDE DEF n
<1>5. /\ d \in [Nat -> Nat] /\ d[n + 1] = q /\ \A k \in Nat : k # n + 1 => d[k] = e[k]
  BY <1>0, Update
<1> HIDE DEF E, n, d
<1>6. d[1] = size + 1
  BY <1>1, <1>5
<1>7. \A k \in 1 .. n : d[k] \in E(stack'[k].at, d[k + 1])
  <2> SUFFICES ASSUME NEW k \in 1 .. n PROVE d[k] \in E(stack'[k].at, d[k + 1])
    OBVIOUS
  <2>1. d[k] = e[k]
    BY <1>1, <1>5
  <2>2. CASE k = n
    BY <1>2, <1>3, <1>5, <2>1, <2>2
  <2>3. CASE k # n
    <3>1. k \in 1 .. n - 1 /\ d[k + 1] = e[k + 1]
      BY <1>1, <1>5, <2>3
    <3> QED
      BY <1>2, <1>3, <2>1, <3>1
  <2> QED
    BY <2>2, <2>3
<1>8. 1 .. n = 1 .. n + 1 - 1
  BY <1>1
<1>9. d[n + 1] \in E(stack'[n + 1].at, p) /\ Last(stack').at # "strings"
  BY <1>2, <1>4, <1>5
<1>10. Len(stack') - 1 = n
  BY <1>1, <1>2
<1> QED
  BY <1>2, <1>5, <1>6, <1>7, <1>9, <1>10, Zenon DEF E, Strict

\* Leaving a node keeps the strict reading.
LEMMA StrictOutward ==
  ASSUME TreeTypeOK, Waiting, verdict = "parsing", NEW p, Pops, Len(stack) > 1,
         \A x : x \in Ends(FALSE, Top.at, pos) <=> x = p,
         Strict(Input, size, stack, pos)
  PROVE  Strict(Input, size, stack', p)
<1> DEFINE n == Len(stack)
           E(st, q) == EndsOf(Input, FALSE, st, q)
<1>1. n \in Nat \ {0} /\ stack[n] = Top /\ n > 1
  BY StackIs
<1>2. /\ Len(stack') = n - 1 /\ \A k \in 1 .. n - 1 : stack'[k] = stack[k]
      /\ Last(stack') = stack[n - 1]
  BY <1>1 DEF Pops, SameBelow, Last
<1>3. PICK e \in [Nat -> Nat] :
        /\ e[1] = size + 1 /\ e[n] \in E(stack[n].at, pos)
        /\ \A k \in 1 .. n - 1 : e[k] \in E(stack[k].at, e[k + 1])
  BY DEF Strict
<1>4. e[n] = p
  BY <1>1, <1>3 DEF Ends
<1>7. n - 1 \in 1 .. n - 1
  BY <1>1
<1>5. stack[n - 1].at # "strings"
  BY <1>7 DEF Waiting
<1> HIDE DEF E, n
<1>8. n - 1 + 1 = n /\ \A k \in 1 .. n - 1 - 1 : k \in 1 .. n - 1
  BY <1>1
<1>6. e[n - 1] \in E(stack'[n - 1].at, p) /\ \A k \in 1 .. n - 1 - 1 : e[k] \in E(stack'[k].at, e[k + 1])
  BY <1>2, <1>3, <1>4, <1>7, <1>8
<1> QED
  BY <1>2, <1>3, <1>5, <1>6 DEF E, Strict

\* Staying in the node keeps the lenient reading.
LEMMA LenientOnward ==
  ASSUME TreeTypeOK, verdict = "parsing", NEW s, NEW p, Stays(s), SameEnds(TRUE, s, p),
         Lenient(Input, stack, pos)
  PROVE  Lenient(Input, stack', p)
<1> DEFINE n == Len(stack)
           E(st, q) == EndsOf(Input, TRUE, st, q)
           N(q) == NodeEnds(Input, q, TRUE)
<1>1. n \in Nat \ {0} /\ stack[n] = Top
  BY StackIs
<1>2. /\ Len(stack') = n /\ \A k \in 1 .. n - 1 : stack'[k] = stack[k]
      /\ stack'[n].at = s
  BY DEF Stays, SameBelow
<1>3. PICK b \in [Nat -> Nat] :
        /\ b[1] = 1 /\ \A x \in E(stack[n].at, pos) : x \in N(b[n])
        /\ \A k \in 1 .. n - 1 : \A c \in N(b[k + 1]) : \A x \in E(stack[k].at, c) : x \in N(b[k])
  BY DEF Lenient
<1>4. \A x : x \in E(s, p) <=> x \in E(Top.at, pos)
  BY DEF SameEnds, Ends
<1> HIDE DEF E, N, n
<1>5. /\ \A x \in E(stack'[n].at, p) : x \in N(b[n])
      /\ \A k \in 1 .. n - 1 : \A c \in N(b[k + 1]) : \A x \in E(stack'[k].at, c) : x \in N(b[k])
  BY <1>1, <1>2, <1>3, <1>4
<1> QED
  BY <1>2, <1>3, <1>5 DEF E, N, Lenient

\* Entering a child keeps the lenient reading.
LEMMA LenientInward ==
  ASSUME TreeTypeOK, verdict = "parsing", NEW s, NEW p \in Nat, Pushes(s),
         \A x : x \in Ends(TRUE, Top.at, pos) <=> \E c \in NodeEnds(Input, p, TRUE) : x \in Ends(TRUE, s, c),
         Lenient(Input, stack, pos)
  PROVE  Lenient(Input, stack', p)
<1> DEFINE n == Len(stack)
           E(st, q) == EndsOf(Input, TRUE, st, q)
           N(q) == NodeEnds(Input, q, TRUE)
<1>1. n \in Nat \ {0} /\ stack[n] = Top
  BY StackIs
<1>2. /\ Len(stack') = n + 1 /\ \A k \in 1 .. n - 1 : stack'[k] = stack[k]
      /\ stack'[n].at = s /\ stack'[n + 1].at = "value"
  BY DEF Pushes, SameBelow
<1>3. PICK b \in [Nat -> Nat] :
        /\ b[1] = 1 /\ \A x \in E(stack[n].at, pos) : x \in N(b[n])
        /\ \A k \in 1 .. n - 1 : \A c \in N(b[k + 1]) : \A x \in E(stack[k].at, c) : x \in N(b[k])
  BY DEF Lenient
<1>4. \A x : x \in E(Top.at, pos) <=> \E c \in N(p) : x \in E(s, c)
  BY DEF Ends
<1>5. \A x : x \in E("value", p) => x \in N(p)
  <2>1. Ends(TRUE, "value", p) = NodeEnds(Input, p, TRUE)
    BY EndsAre, Zenon
  <2> QED
    BY <2>1, Zenon DEF Ends
<1> DEFINE d == [b EXCEPT ![n + 1] = p]
<1>0. n \in Nat
  BY <1>1
<1> HIDE DEF n
<1>6. /\ d \in [Nat -> Nat] /\ d[n + 1] = p /\ \A k \in Nat : k # n + 1 => d[k] = b[k]
  BY <1>0, Update
<1> HIDE DEF E, N, n, d
<1>7. d[1] = 1
  BY <1>1, <1>3, <1>6
<1>8. \A k \in 1 .. n : \A c \in N(d[k + 1]) : \A x \in E(stack'[k].at, c) : x \in N(d[k])
  <2> SUFFICES ASSUME NEW k \in 1 .. n, NEW c \in N(d[k + 1]), NEW x \in E(stack'[k].at, c) PROVE x \in N(d[k])
    OBVIOUS
  <2>1. d[k] = b[k]
    BY <1>1, <1>6
  <2>2. CASE k = n
    BY <1>1, <1>2, <1>3, <1>4, <1>6, <2>1, <2>2
  <2>3. CASE k # n
    <3>1. k \in 1 .. n - 1 /\ d[k + 1] = b[k + 1]
      BY <1>1, <1>6, <2>3
    <3> QED
      BY <1>2, <1>3, <2>1, <3>1
  <2> QED
    BY <2>2, <2>3
<1>9. 1 .. n = 1 .. n + 1 - 1
  BY <1>1
<1>10. \A x \in E(stack'[n + 1].at, p) : x \in N(d[n + 1])
  BY <1>2, <1>5, <1>6
<1>11. Len(stack') - 1 = n
  BY <1>1, <1>2
<1> QED
  BY <1>2, <1>6, <1>7, <1>8, <1>10, <1>11, Zenon DEF E, N, Lenient

\* Leaving a node keeps the lenient reading, and the last one ends the text.
LEMMA LenientOutward ==
  ASSUME TreeTypeOK, verdict = "parsing", NEW p,
         \A x : x \in Ends(TRUE, Top.at, pos) <=> x = p,
         Lenient(Input, stack, pos)
  PROVE  /\ Len(stack) = 1 => p \in NodeEnds(Input, 1, TRUE)
         /\ Len(stack) > 1 /\ Pops => Lenient(Input, stack', p)
<1> DEFINE n == Len(stack)
           E(st, q) == EndsOf(Input, TRUE, st, q)
           N(q) == NodeEnds(Input, q, TRUE)
<1>1. n \in Nat \ {0} /\ stack[n] = Top
  BY StackIs
<1>3. PICK b \in [Nat -> Nat] :
        /\ b[1] = 1 /\ \A x \in E(stack[n].at, pos) : x \in N(b[n])
        /\ \A k \in 1 .. n - 1 : \A c \in N(b[k + 1]) : \A x \in E(stack[k].at, c) : x \in N(b[k])
  BY DEF Lenient
<1>4. p \in E(Top.at, pos)
  BY DEF Ends
<1>5. ASSUME Len(stack) > 1, Pops PROVE Lenient(Input, stack', p)
  <2>1. Len(stack') = n - 1 /\ \A k \in 1 .. n - 1 : stack'[k] = stack[k]
    BY <1>5 DEF Pops, SameBelow
  <2>2. n > 1
    BY <1>5
  <2> HIDE DEF E, N, n
  <2>3. p \in N(b[n])
    BY <1>1, <1>3, <1>4
  <2>4. /\ \A x \in E(stack'[n - 1].at, p) : x \in N(b[n - 1])
        /\ \A k \in 1 .. n - 1 - 1 : \A c \in N(b[k + 1]) : \A x \in E(stack'[k].at, c) : x \in N(b[k])
    <3>1. n - 1 \in 1 .. n - 1 /\ n - 1 + 1 = n /\ \A k \in 1 .. n - 1 - 1 : k \in 1 .. n - 1
      BY <1>1, <2>2
    <3> QED
      BY <1>3, <2>1, <2>3, <3>1
  <2> QED
    BY <1>3, <2>1, <2>4 DEF E, N, Lenient
<1>6. Len(stack) = 1 => p \in NodeEnds(Input, 1, TRUE)
  BY <1>1, <1>3, <1>4
<1> QED
  BY <1>5, <1>6

Viable == verdict = "parsing" /\ Request(Input) => Strict(Input, size, stack, pos)

Leads ==
  /\ verdict = "parsing" /\ NothingBehind => Lenient(Input, stack, pos)
  /\ verdict = "tree" /\ NothingBehind => pos \in NodeEnds(Input, 1, TRUE)

\* Which readings are in force for which inputs.
LEMMA Modes ==
  ASSUME TreeInv, Viable, verdict = "parsing"
  PROVE  /\ Request(Input) => Mode(FALSE)
         /\ NothingBehind => Mode(TRUE)
<1>0. TreeTypeOK /\ Placed /\ Last(stack) = Top /\ stack[Len(stack)] = Top
  BY StackIs DEF TreeInv
<1>1. ASSUME Request(Input) PROVE Mode(FALSE)
  <2>1. Strict(Input, size, stack, pos)
    BY <1>1 DEF Viable
  <2> QED
    BY <1>0, <2>1 DEF Strict, Mode, Ends
<1>2. ASSUME NothingBehind PROVE Mode(TRUE)
  <2>1. Len(text) = size
    BY <1>2 DEF NothingBehind
  <2>2. Top.at = "strings" => pos <= Len(text)
    BY <1>0, Zenon DEF Placed
  <2> QED
    BY <1>2, <2>1, <2>2 DEF Mode
<1> QED
  BY <1>1, <1>2, Zenon

\* The last character of a node is the other bracket.
LEMMA NodeShuts ==
  ASSUME TreeTypeOK, NEW l, 1 \in 1 .. size, size + 1 \in NodeEnds(Input, 1, l)
  PROVE  <<text[1], text[size]>> \in {<<"{", "}">>, <<"[", "]">>}
<1>1. size \in Nat
  BY InputIs
<1>2. \A k : k + 1 = size + 1 /\ k \in 1 .. size => k = size
  BY <1>1
<1>3. ASSUME NEW S, NEW b, size + 1 \in Closed(Input, S, b)
      PROVE  text[size] = b
  <2> DEFINE z == size + 1
  <2>0. z \in Closed(Input, S, b)
    BY <1>3
  <2> HIDE DEF z
  <2>3. PICK k \in S : Is(Input, k, {b}) /\ z = k + 1
    BY <2>0 DEF Closed
  <2>1. Is(Input, k, {b}) /\ size + 1 = k + 1
    BY <2>3 DEF z
  <2>2. k \in 1 .. size /\ text[k] = b
    BY <2>1, InputIs, Zenon
  <2> QED
    BY <1>2, <2>1, <2>2, Zenon
<1>4. size + 1 = 1 + 2 /\ 1 + 1 \in 1 .. size => size = 1 + 1
  BY <1>1
<1>5. CASE text[1] = "{"
  <2>1. \/ 1 + 1 \in 1 .. size /\ text[1 + 1] = "}" /\ size + 1 = 1 + 2
        \/ size + 1 \in Closed(Input, Lists(l, 1 + 1, "attr"), "}")
    BY <1>5, NodeEndsAre, Zenon
  <2>2. text[size] = "}"
    BY <2>1, <1>3, <1>4, Zenon
  <2> QED
    BY <1>5, <2>2, Zenon
<1>6. CASE text[1] = "["
  <2>1. \/ 1 + 1 \in 1 .. size /\ text[1 + 1] = "]" /\ size + 1 = 1 + 2
        \/ \E S : size + 1 \in Closed(Input, S, "]")
    BY <1>6, NodeEndsAre, Zenon
  <2>2. text[size] = "]"
    BY <2>1, <1>3, <1>4, Zenon
  <2> QED
    BY <1>6, <2>2, Zenon
<1> QED
  BY <1>5, <1>6, NodeEndsAre, Zenon

\* A request is not refused.
LEMMA OnlyInitFails ==
  ASSUME TreeInv, Viable, TreeNext, Request(Input), verdict' = "error", fr = Clean
  PROVE  fr'.code = "INIT"
<1>0. TreeTypeOK /\ size \in Nat
  BY InputIs DEF TreeInv
<1>1. CASE verdict = "parsing" /\ Fails
  <2>1. ~ Refused
    BY <1>1, Modes, NotRefused
  <2>2. ParseError("INIT")
    BY <1>1, <2>1 DEF Fails
  <2>3. fr' = Report(Clean, "INIT", Parser)
    BY <2>2 DEF ParseError
  <2> QED
    BY <2>3 DEF Report, AddMessages, SetCode, Clean
<1>2. CASE NoTree
  <2>1. size > 0 /\ <<Char(1), Char(size)>> \notin {<<"{", "}">>, <<"[", "]">>}
    BY <1>2, Zenon DEF NoTree
  <2>2. 1 \in 1 .. size /\ 1 <= size /\ size \in Nat \ {0} /\ size <= size /\ 1 \in Nat \ {0}
    <3>1. size > 0
      BY <2>1, Zenon
    <3> QED
      BY <1>0, <3>1
  <2>3. size + 1 \in NodeEnds(Input, 1, FALSE)
    <3>1. Len(Input) = size
      BY <1>0, InputIs, Zenon
    <3> QED
      BY <3>1, Zenon DEF Request
  <2>4. <<text[1], text[size]>> \in {<<"{", "}">>, <<"[", "]">>}
    BY <1>0, <2>2, <2>3, NodeShuts, Zenon
  <2>5. Char(1) = text[1] /\ Char(size) = text[size]
    BY <1>0, <2>2, TextIs, Zenon
  <2> QED
    BY <2>1, <2>4, <2>5, Zenon
<1>3. CASE verdict = "parsing" /\ (Onward \/ Inward \/ Outward \/ Overrun)
  <2>1. verdict' \in {"parsing", "tree"}
    <3>1. Onward => verdict' = "parsing"
      BY <1>0, <1>3, OnwardGoes DEF GoesOn, TreeInv
    <3>2. Inward => verdict' = "parsing"
      BY <1>0, <1>3, InwardNodes DEF Enters, TreeInv
    <3>3. Outward \/ Overrun => verdict' \in {"parsing", "tree"}
      BY <1>3, OutwardType
    <3> QED
      BY <1>3, <3>1, <3>2, <3>3
  <2> QED
    BY <2>1
<1>4. CASE Starts
  BY <1>4, Zenon DEF Starts
<1> QED
  BY <1>0, <1>1, <1>2, <1>3, <1>4, StepsAre

\* The readings after a step that stays in the node.
LEMMA OnwardViable ==
  ASSUME TreeInv, Viable, Leads, verdict = "parsing", Onward
  PROVE  Viable' /\ Leads'
<1>0. TreeTypeOK /\ verdict' = "parsing" /\ text' = text /\ size' = size
  BY OnwardGoes DEF TreeInv, GoesOn
<1>1. Input' = Input /\ NothingBehind' = NothingBehind
  BY <1>0 DEF Input, NothingBehind
<1>2. ASSUME NEW s, NEW p, NEW l, GoesOn(s, p), SameEnds(l, s, p) PROVE Stays(s) /\ pos' = p
  <2>1. s \in States /\ pos' = p
    BY <1>2 DEF SameEnds, GoesOn
  <2> QED
    BY <2>1, <1>0, <1>2, StaysIs
<1>3. ASSUME Request(Input) PROVE Strict(Input, size, stack', pos')
  <2>1. Mode(FALSE) /\ Strict(Input, size, stack, pos)
    BY <1>3, Modes, Zenon DEF Viable
  <2>2. PICK s, p : GoesOn(s, p) /\ SameEnds(FALSE, s, p)
    BY <2>1, OnwardEnds, Zenon
  <2>3. Stays(s) /\ pos' = p
    BY <1>2, <2>2, Zenon
  <2>4. Strict(Input, size, stack', p)
    BY <1>0, <2>1, <2>2, <2>3, StrictOnward, Zenon
  <2> QED
    BY <2>3, <2>4
<1>4. ASSUME NothingBehind PROVE Lenient(Input, stack', pos')
  <2>1. Mode(TRUE) /\ Lenient(Input, stack, pos)
    BY <1>4, Modes, Zenon DEF Leads
  <2>2. PICK s, p : GoesOn(s, p) /\ SameEnds(TRUE, s, p)
    BY <2>1, OnwardEnds, Zenon
  <2>3. Stays(s) /\ pos' = p
    BY <1>2, <2>2, Zenon
  <2>4. Lenient(Input, stack', p)
    BY <1>0, <2>1, <2>2, <2>3, LenientOnward, Zenon
  <2> QED
    BY <2>3, <2>4
<1> QED
  BY <1>0, <1>1, <1>3, <1>4 DEF Viable, Leads

\* The readings after a step into a child.
LEMMA InwardViable ==
  ASSUME TreeInv, Viable, Leads, verdict = "parsing", Inward
  PROVE  Viable' /\ Leads'
<1>0. TreeTypeOK /\ verdict' = "parsing" /\ text' = text /\ size' = size
  BY InwardNodes DEF TreeInv, Enters
<1>1. Input' = Input /\ NothingBehind' = NothingBehind
  BY <1>0 DEF Input, NothingBehind
<1>2. ASSUME NEW s \in {"afterAttr", "afterChild"}, NEW p, NEW type, NEW under, Enters(s, p, type, under)
      PROVE  Pushes(s) /\ pos' = p
  <2>1. s \in States /\ pos' = p
    BY <1>2 DEF States, Enters
  <2> QED
    BY <2>1, <1>0, <1>2, PushesIs
<1>3. ASSUME Request(Input) PROVE Strict(Input, size, stack', pos')
  <2>1. Mode(FALSE) /\ Strict(Input, size, stack, pos)
    BY <1>3, Modes, Zenon DEF Viable
  <2>2. PICK s, p, type, under :
           /\ s \in {"afterAttr", "afterChild"} /\ p \in Nat \ {0}
           /\ Enters(s, p, type, under)
           /\ \A x : x \in Ends(FALSE, Top.at, pos) <=> \E c \in NodeEnds(Input, p, FALSE) : x \in Ends(FALSE, s, c)
    BY <2>1, InwardEnds
  <2>3. PICK e \in [Nat -> Nat] :
          /\ e[1] = size + 1
          /\ e[Len(stack)] \in EndsOf(Input, FALSE, stack[Len(stack)].at, pos)
          /\ \A k \in 1 .. Len(stack) - 1 : e[k] \in EndsOf(Input, FALSE, stack[k].at, e[k + 1])
    BY <2>1 DEF Strict
  <2>4. e[Len(stack)] \in Ends(FALSE, Top.at, pos)
    BY <1>0, <2>3, StackIs DEF Ends
  <2>5. PICK q \in NodeEnds(Input, p, FALSE) : e[Len(stack)] \in Ends(FALSE, s, q)
    BY <2>2, <2>4
  <2>6. q \in Nat
    <3>1. Input \in Seq(Tokens) /\ p \in Nat
      BY <1>0, <2>2, InputIs
    <3> QED
      BY <3>1, NodesBehind DEF Behind
  <2> QED
    BY <1>0, <1>2, <2>2, <2>3, <2>5, <2>6, StrictInward
<1>4. ASSUME NothingBehind PROVE Lenient(Input, stack', pos')
  <2>1. Mode(TRUE) /\ Lenient(Input, stack, pos)
    BY <1>4, Modes, Zenon DEF Leads
  <2>2. PICK s, p, type, under :
           /\ s \in {"afterAttr", "afterChild"} /\ p \in Nat \ {0}
           /\ Enters(s, p, type, under)
           /\ \A x : x \in Ends(TRUE, Top.at, pos) <=> \E c \in NodeEnds(Input, p, TRUE) : x \in Ends(TRUE, s, c)
    BY <2>1, InwardEnds
  <2>3. p \in Nat
    BY <2>2
  <2> QED
    BY <1>0, <1>2, <2>1, <2>2, <2>3, LenientInward
<1> QED
  BY <1>0, <1>1, <1>3, <1>4 DEF Viable, Leads

\* The readings after a step that leaves the node.
LEMMA OutwardViable ==
  ASSUME TreeInv, Viable, Leads, verdict = "parsing", Outward
  PROVE  Viable' /\ Leads'
<1>0. TreeTypeOK /\ Waiting /\ verdict' \in {"parsing", "tree"} /\ text' = text /\ size' = size
  BY OutwardType DEF TreeInv
<1>1. Input' = Input /\ NothingBehind' = NothingBehind
  BY <1>0 DEF Input, NothingBehind
<1>2. ASSUME NEW p, NEW under, Returns(p, under)
      PROVE  Pops /\ pos' = p /\ verdict' = IF Len(stack) = 1 THEN "tree" ELSE "parsing"
  BY <1>0, <1>2, PopsIs DEF Returns
<1>3. ASSUME Request(Input), verdict' = "parsing" PROVE Strict(Input, size, stack', pos')
  <2>1. Mode(FALSE) /\ Strict(Input, size, stack, pos)
    BY <1>3, Modes, Zenon DEF Viable
  <2>2. PICK p, under : p \in Nat \ {0} /\ Returns(p, under) /\ \A e : e \in Ends(FALSE, Top.at, pos) <=> e = p
    BY <2>1, OutwardEnds
  <2>3. Pops /\ pos' = p /\ Len(stack) > 1
    <3>1. Pops /\ pos' = p /\ verdict' = IF Len(stack) = 1 THEN "tree" ELSE "parsing"
      BY <1>2, <2>2
    <3>2. Len(stack) # 1
      BY <3>1, <1>3
    <3> DEFINE n == Len(stack)
    <3>3. n \in Nat \ {0} /\ n # 1
      BY <1>0, <3>2, StackIs
    <3> HIDE DEF n
    <3>4. n > 1
      BY <3>3
    <3> QED
      BY <3>1, <3>4 DEF n
  <2> QED
    BY <1>0, <2>1, <2>2, <2>3, StrictOutward
<1>4. ASSUME NothingBehind
      PROVE  /\ verdict' = "parsing" => Lenient(Input, stack', pos')
             /\ verdict' = "tree" => pos' \in NodeEnds(Input, 1, TRUE)
  <2>1. Mode(TRUE) /\ Lenient(Input, stack, pos)
    BY <1>4, Modes, Zenon DEF Leads
  <2>2. PICK p, under : p \in Nat \ {0} /\ Returns(p, under) /\ \A e : e \in Ends(TRUE, Top.at, pos) <=> e = p
    BY <2>1, OutwardEnds
  <2>3. /\ Pops /\ pos' = p
        /\ verdict' = "parsing" => Len(stack) > 1
        /\ verdict' = "tree" => Len(stack) = 1
    <3>1. Pops /\ pos' = p /\ verdict' = IF Len(stack) = 1 THEN "tree" ELSE "parsing"
      BY <1>2, <2>2
    <3>2. Len(stack) \in Nat \ {0}
      BY <1>0, StackIs
    <3>3. CASE Len(stack) = 1
      BY <3>1, <3>3
    <3>4. CASE Len(stack) # 1
      <4> DEFINE n == Len(stack)
      <4>0. n \in Nat \ {0} /\ n # 1
        BY <3>2, <3>4
      <4> HIDE DEF n
      <4>a. n > 1
        BY <4>0
      <4>1. Len(stack) > 1
        BY <4>a DEF n
      <4>2. verdict' = "parsing"
        BY <3>1, <3>4
      <4> QED
        BY <3>1, <4>1, <4>2
    <3> QED
      BY <3>3, <3>4
  <2> QED
    BY <1>0, <2>1, <2>2, <2>3, LenientOutward
<1> QED
  BY <1>0, <1>1, <1>3, <1>4 DEF Viable, Leads

\* The readings after a run beyond the end of the text.
LEMMA OverrunViable ==
  ASSUME TreeInv, Viable, Leads, verdict = "parsing", Overrun
  PROVE  Viable' /\ Leads'
<1>1. text' = text /\ size' = size
  BY OutwardType
<1>2. Input' = Input /\ NothingBehind' = NothingBehind
  BY <1>1 DEF Input, NothingBehind
<1>3. ~ Request(Input) /\ ~ NothingBehind
  BY Modes, NoOverrun, Zenon
<1> QED
  BY <1>2, <1>3 DEF Viable, Leads

\* The readings after the first step.
LEMMA StartsViable ==
  ASSUME TreeInv, Starts
  PROVE  Viable' /\ Leads'
<1>0. TreeTypeOK /\ text' = text /\ size' = size /\ pos' = 1 /\ verdict' = "parsing"
      /\ stack' = <<Frame(1)>> /\ Len(Input) = size
  BY InputIs, Zenon DEF TreeInv, Unread, Starts
<1>1. Input' = Input /\ NothingBehind' = NothingBehind
  BY <1>0 DEF Input, NothingBehind
<1>2. Len(stack') = 1 /\ stack'[1].at = "value" /\ Last(stack') = stack'[1] /\ size \in Nat
      /\ 1 .. Len(stack') - 1 = {}
  <2>1. size \in Nat
    BY <1>0, InputIs
  <2> QED
    BY <2>1, <1>0 DEF Frame, Last
<1>3. \A l : EndsOf(Input, l, "value", 1) = NodeEnds(Input, 1, l)
  BY Zenon DEF EndsOf
<1>4. ASSUME Request(Input) PROVE Strict(Input, size, stack', 1)
  <2> DEFINE e == [k \in Nat |-> size + 1]
  <2>1. e \in [Nat -> Nat] /\ e[1] = size + 1
    BY <1>2
  <2>2. e[1] \in EndsOf(Input, FALSE, stack'[1].at, 1)
    BY <1>0, <1>2, <1>3, <1>4, <2>1 DEF Request
  <2> HIDE DEF e
  <2> QED
    BY <1>2, <2>1, <2>2, Zenon DEF Strict
<1>5. Lenient(Input, stack', 1)
  <2> DEFINE s == [k \in Nat |-> 1]
  <2>1. s \in [Nat -> Nat] /\ s[1] = 1
    OBVIOUS
  <2> HIDE DEF s
  <2> QED
    BY <1>2, <1>3, <2>1, Zenon DEF Lenient
<1> QED
  BY <1>0, <1>1, <1>4, <1>5 DEF Viable, Leads

\* The readings are kept by every step of the parser.
LEMMA ViableStep ==
  ASSUME TreeInv, Viable, Leads, TreeNext
  PROVE  Viable' /\ Leads'
<1>1. TreeTypeOK
  BY DEF TreeInv
<1>2. CASE NoTree
  <2>1. verdict' \in {"null", "error"}
    BY <1>2, Zenon DEF NoTree, ParseError
  <2> QED
    BY <2>1 DEF Viable, Leads
<1>3. CASE Fails
  <2>1. verdict' = "error"
    BY <1>3 DEF Fails, ParseError
  <2> QED
    BY <2>1 DEF Viable, Leads
<1> QED
  BY <1>1, <1>2, <1>3, StepsAre, StartsViable, OnwardViable, InwardViable, OutwardViable, OverrunViable

-----------------------------------------------------------------------------
(* The parser in the service *)

ParserInv ==
  /\ TreeInv /\ Viable /\ Leads
  /\ verdict \in {"start", "parsing"} => fr = Clean /\ sts = "NODE_INIT"
  /\ sts = "NODE_RUN" /\ verdict = "error" =>
       plan = <<>> /\ answers = <<>> /\ (Request(Input) => fr.code = "INIT")

\* A text that was not read yet.
Fresh ==
  /\ \E t \in Seq(Tokens), b \in Seq(Tokens) : text = t \o b /\ size = Len(t)
  /\ pos = 1 /\ nodes = <<>> /\ stack = <<>> /\ verdict = "start"
  /\ fr = Clean /\ sts = "NODE_INIT"

\* A text that was not read yet satisfies the parser's invariant.
LEMMA FreshIs == Fresh => ParserInv
<1> SUFFICES ASSUME Fresh PROVE ParserInv
  OBVIOUS
<1>1. text \in Seq(Tokens) /\ size \in 0 .. Len(text)
  <2> DEFINE X == Tokens
  <2>1. PICK t \in Seq(X), b \in Seq(X) : text = t \o b /\ size = Len(t)
    BY DEF Fresh
  <2> HIDE DEF X
  <2>2. text \in Seq(X) /\ size \in 0 .. Len(text)
    BY <2>1
  <2> QED
    BY <2>2 DEF X
<1>2. pos = 1 /\ nodes = <<>> /\ stack = <<>> /\ verdict = "start" /\ DOMAIN stack = {}
  BY DEF Fresh
<1>3. nodes \in Seq(NodeRecs) /\ stack \in Seq(Frames)
  BY <1>2
<1>4. TreeTypeOK
  BY <1>1, <1>2, <1>3 DEF TreeTypeOK
<1>5. TreeInv
  BY <1>2, <1>4 DEF TreeInv, Placed, Waiting, Unread
<1> QED
  BY <1>2, <1>5 DEF ParserInv, Viable, Leads, Fresh

\* The parser does not touch the recorder but to report an error.
LEMMA Reports ==
  ASSUME TreeInv, TreeNext
  PROVE  /\ verdict \in {"start", "parsing"}
         /\ verdict' \in {"parsing", "tree"} => fr' = fr
         /\ verdict' \in {"parsing", "tree", "error", "null"}
<1>0. TreeTypeOK /\ Placed
  BY DEF TreeInv
<1>1. CASE Starts
  BY <1>1, Zenon DEF Starts
<1>2. CASE NoTree
  BY <1>2, Zenon DEF NoTree, ParseError
<1>3. CASE verdict = "parsing" /\ Onward
  <2>1. verdict' = "parsing" /\ fr' = fr
    BY <1>0, <1>3, OnwardGoes DEF GoesOn
  <2> QED
    BY <1>3, <2>1
<1>4. CASE verdict = "parsing" /\ Inward
  <2>1. verdict' = "parsing" /\ fr' = fr
    BY <1>0, <1>4, InwardNodes DEF Enters
  <2> QED
    BY <1>4, <2>1
<1>5. CASE verdict = "parsing" /\ (Outward \/ Overrun)
  <2>1. verdict' \in {"parsing", "tree"} /\ fr' = fr
    BY <1>0, <1>5, OutwardNodes, OutwardType DEF Returns
  <2> QED
    BY <1>5, <2>1
<1>6. CASE verdict = "parsing" /\ Fails
  <2>1. verdict' = "error"
    BY <1>6 DEF Fails, ParseError
  <2> QED
    BY <1>6, <2>1
<1> QED
  BY <1>0, <1>1, <1>2, <1>3, <1>4, <1>5, <1>6, StepsAre

\* The parser does not change the text.
LEMMA SameText ==
  ASSUME TreeInv, TreeNext
  PROVE  text' = text /\ size' = size
<1>0. TreeTypeOK /\ Placed
  BY DEF TreeInv
<1>1. verdict = "parsing" /\ Onward => text' = text /\ size' = size
  BY <1>0, OnwardGoes DEF GoesOn
<1>2. verdict = "parsing" /\ Inward => text' = text /\ size' = size
  BY <1>0, InwardNodes DEF Enters
<1>3. verdict = "parsing" /\ (Outward \/ Overrun) => text' = text /\ size' = size
  BY OutwardType
<1>4. Starts \/ NoTree => text' = text /\ size' = size
  BY Zenon DEF Starts, NoTree
<1> QED
  BY <1>0, <1>1, <1>2, <1>3, <1>4, StepsAre

\* A step of the parser in the service keeps its invariant.
LEMMA ParseKeeps ==
  ASSUME ParserInv, Parse
  PROVE  ParserInv'
<1>1. /\ TreeInv /\ Viable /\ Leads /\ TreeNext /\ sts = "NODE_INIT"
      /\ sts' = CASE verdict' = "null" -> "ERROR_FR"
                  [] verdict' \in {"tree", "error"} -> "NODE_RUN"
                  [] OTHER -> sts
  BY DEF ParserInv, Parse
<1>2. TreeInv' /\ Viable' /\ Leads'
  BY <1>1, TreeInvStep, ViableStep
<1>3. verdict \in {"start", "parsing"} /\ fr = Clean
  BY <1>1, Reports DEF ParserInv
<1>4. verdict' \in {"start", "parsing"} => fr' = Clean /\ sts' = "NODE_INIT"
  <2>1. verdict' \in {"start", "parsing"} => verdict' = "parsing" /\ fr' = fr
    BY <1>1, Reports
  <2>2. verdict' = "parsing" => sts' = sts
    BY <1>1
  <2> QED
    BY <1>1, <1>3, <2>1, <2>2
<1>5. ASSUME verdict' = "error"
      PROVE  plan' = <<>> /\ answers' = <<>> /\ (Request(Input)' => fr'.code = "INIT")
  <2>1. sts' = "NODE_RUN"
    BY <1>1, <1>5
  <2>2. Load(<<>>)
    BY <1>5, <2>1 DEF Parse
  <2>3. text' = text /\ size' = size
    BY <1>1, <1>5, SameText
  <2>4. Input' = Input
    BY <2>3 DEF Input
  <2> QED
    BY <1>1, <1>3, <1>5, <2>2, <2>4, OnlyInitFails DEF Load
<1> QED
  BY <1>2, <1>4, <1>5 DEF ParserInv

\* With nothing to run, the recorder stays.
LEMMA NothingRuns ==
  ASSUME plan = <<>>, answers = <<>>, RunStep
  PROVE  UNCHANGED <<fr, plan, answers>>
<1>1. ~ (Current <= Len(plan))
  BY DEF Current
<1>2. \A kind : ~ Running(kind)
  BY <1>1 DEF Running
<1>3. FinishRequest
  BY <1>2 DEF RunStep, RunCommand, RunRexx, RunShell, RunQshell, RunProgram, RunSql, RunJobInfo
<1> QED
  BY <1>3 DEF FinishRequest

\* What leaves the tree alone keeps the invariant of the tree.
LEMMA TreeKept ==
  ASSUME TreeInv, Viable, Leads, UNCHANGED treeVars
  PROVE  TreeInv' /\ Viable' /\ Leads'
<1>1. text' = text /\ size' = size /\ pos' = pos /\ nodes' = nodes /\ stack' = stack /\ verdict' = verdict
  BY DEF treeVars
<1>2. TreeTypeOK'
  BY <1>1, Zenon DEF TreeInv, TreeTypeOK
<1>3. Placed'
  BY <1>1, Zenon DEF TreeInv, Placed, Top
<1>4. Waiting' /\ Unread'
  BY <1>1, Zenon DEF TreeInv, Waiting, Unread
<1>5. Viable' /\ Leads'
  BY <1>1, Zenon DEF Viable, Leads, Input, NothingBehind
<1> QED
  BY <1>2, <1>3, <1>4, <1>5 DEF TreeInv

\* Every step of the service keeps the parser's invariant.
LEMMA ParserInvStep == ParserInv /\ [DocNext]_docVars => ParserInv'
<1> SUFFICES ASSUME ParserInv, [DocNext]_docVars PROVE ParserInv'
  OBVIOUS
<1>1. CASE Parse
  BY <1>1, ParseKeeps
<1>2. CASE Run
  <2>1. /\ UNCHANGED treeVars /\ sts = "NODE_RUN" /\ RunStep
        /\ TreeInv /\ Viable /\ Leads /\ verdict \notin {"start", "parsing"}
    BY <1>2 DEF Run, ParserInv
  <2>2. TreeInv' /\ Viable' /\ Leads'
    BY <2>1, TreeKept
  <2>3. verdict' = verdict /\ Input' = Input
    BY <2>1 DEF treeVars, Input
  <2>4. ASSUME verdict = "error"
        PROVE  plan' = <<>> /\ answers' = <<>> /\ (Request(Input) => fr'.code = "INIT")
    BY <2>1, <2>4, NothingRuns DEF ParserInv
  <2> QED
    BY <2>1, <2>2, <2>3, <2>4 DEF ParserInv
<1>3. CASE CopyOut \/ ErrorOut
  <2>1. /\ UNCHANGED treeVars /\ fr' = fr /\ sts \in {"NODE_COPYOUT", "ERROR_FR"} /\ sts' = "DONE"
        /\ TreeInv /\ Viable /\ Leads
    BY <1>3 DEF CopyOut, ErrorOut, ParserInv
  <2>2. TreeInv' /\ Viable' /\ Leads'
    BY <2>1, TreeKept
  <2>3. verdict' = verdict
    BY <2>1 DEF treeVars
  <2> QED
    BY <2>1, <2>2, <2>3 DEF ParserInv
<1>4. CASE NextText
  <2>1. Fresh'
    BY <1>4, TreeAssumption, DocAssumption, Zenon DEF NextText, Fresh
  <2>2. (Fresh => ParserInv)'
    BY FreshIs, PTL
  <2> QED
    BY <2>1, <2>2
<1>5. CASE UNCHANGED docVars
  <2>1. /\ UNCHANGED treeVars /\ fr' = fr /\ sts' = sts /\ plan' = plan /\ answers' = answers
        /\ TreeInv /\ Viable /\ Leads
    BY <1>5 DEF docVars, runVars, ParserInv
  <2>2. TreeInv' /\ Viable' /\ Leads'
    BY <2>1, TreeKept
  <2>3. verdict' = verdict /\ Input' = Input
    BY <2>1 DEF treeVars, Input
  <2> QED
    BY <2>1, <2>2, <2>3 DEF ParserInv
<1> QED
  BY <1>1, <1>2, <1>3, <1>4, <1>5 DEF DocNext, DocStep

\* The parser's invariant holds in every state of the service.
LEMMA ParserInductive == DocSpec => []ParserInv
<1>1. DocInit => Fresh
  BY TreeAssumption, Zenon DEF DocInit, TreeInit, Fresh
<1>2. DocInit => ParserInv
  BY <1>1, FreshIs
<1> QED
  BY <1>2, ParserInvStep, PTL DEF DocSpec

\* A request is not refused, and what is accepted is a node.
THEOREM FollowsGrammar == DocSpec => []ParserFollowsGrammar
<1>1. ParserInv => ParserFollowsGrammar
  BY DEF ParserInv, Leads, ParserFollowsGrammar, AcceptsEveryRequest, AcceptsOnlyNodes, JustParsed
<1> QED
  BY <1>1, ParserInductive, PTL

-----------------------------------------------------------------------------
(* What a node has written *)

\* The tokens of lists, as texts.
OpenBrace == <<"{">>
ShutBrace == <<"}">>
OpenBracket == <<"[">>
ShutBracket == <<"]">>
OneComma == <<",">>
OneColon == <<":">>

\* The parts with commas between them.
Separated(parts) == Joined(parts, OneComma)

\* The parts with commas between them and behind the last one.
WithComma(parts) == IF parts = <<>> THEN <<>> ELSE Separated(parts) \o OneComma

\* What is written of attributes and children, if w is what the nodes write.
Member(a, w) == <<a.name, ":">> \o (IF a.node = 0 THEN a.value ELSE w[a.node])
MemberList(list, w) == [i \in DOMAIN list |-> Member(list[i], w)]
ChildList(list, w) == [i \in DOMAIN list |-> w[list[i]]]

\* The output of a node with record r, if that of the others is w.
Written(r, w) ==
  IF r.type = "CONTAINER"
  THEN OpenBracket \o Separated(IF ChildList(r.kids, w) = <<>> THEN r.raw ELSE ChildList(r.kids, w)) \o ShutBracket
  ELSE OpenBrace \o Separated(MemberList(r.attrs, w)) \o ShutBrace

\* What a parser in state s has read of a node that it made r of.  While a
\* child is parsed, a parent is in state "attrValue" or "nextChild".
Part(s, r, w) ==
  IF s \in {"members", "name"} THEN OpenBrace \o WithComma(MemberList(r.attrs, w))
  ELSE IF s = "colon" THEN (OpenBrace \o WithComma(MemberList(Front(r.attrs), w))) \o <<Last(r.attrs).name>>
  ELSE IF s = "attrValue" THEN ((OpenBrace \o WithComma(MemberList(Front(r.attrs), w))) \o <<Last(r.attrs).name>>) \o OneColon
  ELSE IF s = "afterAttr" THEN OpenBrace \o Separated(MemberList(r.attrs, w))
  ELSE IF s \in {"elements", "strings", "numbers"} THEN OpenBracket \o WithComma(r.raw)
  ELSE IF s = "nextChild" THEN OpenBracket \o WithComma(ChildList(Front(r.kids), w))
  ELSE IF s = "afterChild" THEN OpenBracket \o Separated(ChildList(r.kids, w))
  ELSE <<>>

\* What all nodes write.
Words == [Nat -> Seq(Tokens)]

\* Concatenation is associative, and nothing changes nothing.
LEMMA Assoc ==
  ASSUME NEW X, NEW a \in Seq(X), NEW b \in Seq(X), NEW c \in Seq(X)
  PROVE  (a \o b) \o c = a \o (b \o c)
OBVIOUS

\* The empty text changes no other one.
LEMMA Neutral ==
  ASSUME NEW X, NEW a \in Seq(X)
  PROVE  a \o <<>> = a /\ <<>> \o a = a /\ a \in Seq(X)
OBVIOUS

\* Two tokens.
LEMMA Pair == \A x, y : <<x>> \o <<y>> = <<x, y>>
<1> TAKE x, y
<1> DEFINE X == {x, y} a == <<x>> b == <<y>> z == a \o b
<1>1. a \in Seq(X) /\ b \in Seq(X) /\ Len(a) = 1 /\ Len(b) = 1 /\ a[1] = x /\ b[1] = y
  OBVIOUS
<1> HIDE DEF X, a, b, z
<1>2. a \o b \in Seq(X) /\ Len(a \o b) = 2 /\ (a \o b)[1] = x /\ (a \o b)[2] = y
  BY <1>1, Concat
<1>3. z \in Seq(X) /\ Len(z) = 2 /\ z[1] = x /\ z[2] = y
  BY <1>2 DEF z
<1>4. z = <<x, y>>
  BY <1>3
<1> QED
  BY <1>4 DEF z, a, b

\* The marks as texts.
LEMMA MarkTexts ==
  /\ OpenBrace \in Seq(Tokens) /\ ShutBrace \in Seq(Tokens) /\ OpenBracket \in Seq(Tokens)
  /\ ShutBracket \in Seq(Tokens) /\ OneComma \in Seq(Tokens) /\ OneColon \in Seq(Tokens)
<1>1. \A x \in Tokens : <<x>> \in Seq(Tokens)
  OBVIOUS
<1>2. /\ "{" \in Tokens /\ "}" \in Tokens /\ "[" \in Tokens /\ "]" \in Tokens
      /\ "," \in Tokens /\ ":" \in Tokens
  BY Zenon DEF Tokens, Punctuation
<1> QED
  BY <1>1, <1>2, Zenon DEF OpenBrace, ShutBrace, OpenBracket, ShutBracket, OneComma, OneColon

\* The parts, each with the comma before it.
Spaced(parts) == [i \in DOMAIN parts |-> IF i = 1 THEN parts[i] ELSE OneComma \o parts[i]]

\* The commas are put in front of all parts but the first.
LEMMA SeparatedIs ==
  ASSUME NEW parts
  PROVE  Separated(parts) = FlattenSeq(Spaced(parts))
BY Zenon DEF Separated, Joined, Spaced

\* One more part.
LEMMA SpacedAppend ==
  ASSUME NEW parts \in Seq(Seq(Tokens)), NEW x \in Seq(Tokens)
  PROVE  /\ Spaced(parts) \in Seq(Seq(Tokens))
         /\ Spaced(Append(parts, x)) = Append(Spaced(parts), IF parts = <<>> THEN x ELSE OneComma \o x)
<1> DEFINE X == Seq(Tokens)
           n == Len(parts)
           y == IF parts = <<>> THEN x ELSE OneComma \o x
           q == Append(parts, x)
           f == Spaced(parts)
           g == Spaced(q)
           h == Append(f, y)
<1>1. \A z \in X : OneComma \o z \in X
  BY MarkTexts, Concat
<1>2. n \in Nat /\ DOMAIN parts = 1 .. n /\ (\A i \in 1 .. n : parts[i] \in X) /\ x \in X
      /\ (parts = <<>> <=> n = 0)
  OBVIOUS
<1>3. q \in Seq(X) /\ DOMAIN q = 1 .. n + 1 /\ q[n + 1] = x /\ \A i \in 1 .. n : q[i] = parts[i]
  BY <1>2
<1>4. y \in X
  BY <1>1, <1>2
<1> HIDE DEF X, n, q
<1>5. \A i \in 1 .. n : f[i] = IF i = 1 THEN parts[i] ELSE OneComma \o parts[i]
  BY <1>2 DEF Spaced
<1>6. \A i \in 1 .. n : f[i] \in X
  BY <1>1, <1>2, <1>5
<1>7. f = [i \in 1 .. n |-> f[i]]
  BY <1>2 DEF Spaced
<1>8. f \in Seq(X) /\ Len(f) = n
  <2> HIDE DEF f
  <2>1. f \in [1 .. n -> X]
    BY <1>6, <1>7
  <2> QED
    BY <1>2, <2>1, SeqDef
<1>9. g = [i \in 1 .. n + 1 |-> IF i = 1 THEN q[i] ELSE OneComma \o q[i]]
  BY <1>3 DEF Spaced
<1>10. h \in Seq(X) /\ h = [i \in 1 .. n + 1 |-> h[i]] /\ h[n + 1] = y /\ \A i \in 1 .. n : h[i] = f[i]
  <2> HIDE DEF f, y
  <2>1. h \in Seq(X) /\ Len(h) = n + 1 /\ h[n + 1] = y
    BY <1>2, <1>4, <1>8
  <2>2. \A i \in 1 .. n : h[i] = f[i]
    BY <1>2, <1>4, <1>8
  <2> HIDE DEF h
  <2>3. h = [i \in 1 .. n + 1 |-> h[i]]
    BY <2>1
  <2> QED
    BY <2>1, <2>2, <2>3
<1>11. g[n + 1] = y
  <2>1. n + 1 = 1 <=> parts = <<>>
    BY <1>2
  <2>2. g[n + 1] = IF n + 1 = 1 THEN q[n + 1] ELSE OneComma \o q[n + 1]
    BY <1>2, <1>9
  <2> QED
    BY <2>1, <2>2, <1>3
<1>12. \A i \in 1 .. n : g[i] = f[i]
  BY <1>2, <1>3, <1>5, <1>9
<1>13. \A i \in 1 .. n + 1 : i \in 1 .. n \/ i = n + 1
  BY <1>2
<1>14. \A i \in 1 .. n + 1 : g[i] = h[i]
  BY <1>10, <1>11, <1>12, <1>13
<1>15. g = [i \in 1 .. n + 1 |-> g[i]]
  BY <1>9
<1> HIDE DEF f, g, h, y
<1>16. g = h
  BY <1>10, <1>14, <1>15
<1> QED
  BY <1>8, <1>16 DEF f, g, h, q, y, X

\* The types of what is written.
LEMMA SeparatedType ==
  ASSUME NEW parts \in Seq(Seq(Tokens))
  PROVE  Separated(parts) \in Seq(Tokens) /\ WithComma(parts) \in Seq(Tokens)
<1>1. <<>> \in Seq(Tokens)
  OBVIOUS
<1>2. Separated(parts) \in Seq(Tokens)
  BY SpacedAppend, <1>1, FlattenType, SeparatedIs
<1> QED
  BY <1>1, <1>2, MarkTexts, Concat DEF WithComma

\* Nothing separated is nothing.
LEMMA NoneSeparated == Separated(<<>>) = <<>> /\ WithComma(<<>>) = <<>>
<1>1. Spaced(<<>>) = <<>>
  BY DEF Spaced
<1> QED
  BY <1>1, SeparatedIs, FlattenNone DEF WithComma

\* One more part comes behind a comma.
LEMMA SeparatedAppend ==
  ASSUME NEW parts \in Seq(Seq(Tokens)), NEW x \in Seq(Tokens)
  PROVE  /\ Separated(Append(parts, x)) = WithComma(parts) \o x
         /\ WithComma(Append(parts, x)) = (WithComma(parts) \o x) \o OneComma
<1> DEFINE y == IF parts = <<>> THEN x ELSE OneComma \o x
           X == Tokens
<1>1. OneComma \in Seq(X) /\ y \in Seq(X) /\ Separated(parts) \in Seq(X)
  BY MarkTexts, Concat, SeparatedType
<1>2. Separated(Append(parts, x)) = FlattenSeq(Append(Spaced(parts), y))
  BY SpacedAppend, SeparatedIs
<1>3. FlattenSeq(Append(Spaced(parts), y)) = Separated(parts) \o y
  <2> HIDE DEF y
  <2>1. Spaced(parts) \in Seq(Seq(X))
    BY SpacedAppend
  <2> HIDE DEF X
  <2> QED
    BY <1>1, <2>1, FlattenAppend, SeparatedIs
<1>4. Separated(parts) \o y = WithComma(parts) \o x
  <2>1. CASE parts = <<>>
    BY <2>1, NoneSeparated
  <2>2. CASE parts # <<>>
    <3>1. WithComma(parts) = Separated(parts) \o OneComma /\ y = OneComma \o x
      BY <2>2 DEF WithComma
    <3>2. x \in Seq(X)
      OBVIOUS
    <3> HIDE DEF X, y
    <3> QED
      BY <3>1, <3>2, <1>1, Assoc, SMTT(30)
  <2> QED
    BY <2>1, <2>2
<1>5. Append(parts, x) # <<>>
  <2> DEFINE Y == Seq(Tokens) q == Append(parts, x)
  <2>1. parts \in Seq(Y) /\ x \in Y
    OBVIOUS
  <2> HIDE DEF Y
  <2>2. Len(q) = Len(parts) + 1 /\ Len(parts) \in Nat
    BY <2>1
  <2> HIDE DEF q
  <2>3. q # <<>>
    BY <2>2
  <2> QED
    BY <2>3 DEF q
<1> QED
  BY <1>2, <1>3, <1>4, <1>5 DEF WithComma

-----------------------------------------------------------------------------
(* Lists of attributes and of children *)

\* The nodes that are values of attributes, and those that are children.
AttrRefs(list) == {list[i].node : i \in DOMAIN list} \ {0}
KidRefs(list) == {list[i] : i \in DOMAIN list}

\* The nodes that a record refers to.
Refs(r) == AttrRefs(r.attrs) \cup KidRefs(r.kids)

\* Those of them that are complete.
DoneAttrs(s, r) == IF s \in {"colon", "attrValue"} THEN Front(r.attrs) ELSE r.attrs
DoneKids(s, r) == IF s = "nextChild" THEN Front(r.kids) ELSE r.kids
PartRefs(s, r) == AttrRefs(DoneAttrs(s, r)) \cup KidRefs(DoneKids(s, r))

\* A list element by element.
MapsOf(X, Y) == [X -> Y]
Mapped(f, s) == [i \in DOMAIN s |-> f[s[i]]]

\* A list element by element, and one more.
LEMMA MapAppend ==
  ASSUME NEW X, NEW Y, NEW f \in MapsOf(X, Y), NEW s \in Seq(X), NEW x \in X
  PROVE  Mapped(f, s) \in Seq(Y) /\ Mapped(f, Append(s, x)) = Append(Mapped(f, s), f[x])
<1> DEFINE n == Len(s)
           t == Append(s, x)
           g == [i \in DOMAIN s |-> f[s[i]]]
           h == [i \in DOMAIN t |-> f[t[i]]]
           k == Append(g, f[x])
<1> USE DEF MapsOf
<1>1. n \in Nat /\ DOMAIN s = 1 .. n /\ \A i \in 1 .. n : s[i] \in X
  OBVIOUS
<1>2. DOMAIN t = 1 .. n + 1 /\ t[n + 1] = x /\ \A i \in 1 .. n : t[i] = s[i]
  BY <1>1
<1> HIDE DEF n, t
<1>3. g \in [1 .. n -> Y]
  BY <1>1
<1>4. g \in Seq(Y) /\ Len(g) = n /\ \A i \in 1 .. n : g[i] = f[s[i]]
  <2>1. g \in Seq(Y)
    BY <1>1, <1>3, SeqDef
  <2>2. DOMAIN g = 1 .. n /\ \A i \in 1 .. n : g[i] = f[s[i]]
    BY <1>1
  <2> HIDE DEF g
  <2> QED
    BY <1>1, <2>1, <2>2
<1>5. f[x] \in Y
  OBVIOUS
<1>6. k \in Seq(Y) /\ Len(k) = n + 1 /\ k[n + 1] = f[x] /\ \A i \in 1 .. n : k[i] = g[i]
  <2> HIDE DEF g
  <2> QED
    BY <1>1, <1>4, <1>5
<1>7. h = [i \in 1 .. n + 1 |-> h[i]] /\ h[n + 1] = f[x] /\ \A i \in 1 .. n : h[i] = f[s[i]]
  BY <1>1, <1>2
<1> HIDE DEF g, h, k
<1>8. k = [i \in 1 .. n + 1 |-> k[i]]
  BY <1>6
<1>9. \A i \in 1 .. n + 1 : i \in 1 .. n \/ i = n + 1
  BY <1>1
<1>10. h = k
  <2>1. \A i \in 1 .. n : h[i] = k[i]
    BY <1>4, <1>6, <1>7
  <2>2. h[n + 1] = k[n + 1]
    BY <1>6, <1>7
  <2>3. \A i \in 1 .. n + 1 : h[i] = k[i]
    BY <2>1, <2>2, <1>9
  <2> QED
    BY <2>3, <1>7, <1>8
<1> QED
  BY <1>4, <1>10 DEF g, h, k, t, Mapped

\* A member is a text.
LEMMA MemberIs ==
  ASSUME NEW a \in AttrRecs, NEW w \in Words
  PROVE  /\ Member(a, w) \in Seq(Tokens)
         /\ Member(a, w) = (<<a.name>> \o OneColon) \o (IF a.node = 0 THEN a.value ELSE w[a.node])
         /\ <<a.name>> \in Seq(Tokens) /\ (IF a.node = 0 THEN a.value ELSE w[a.node]) \in Seq(Tokens)
<1> DEFINE v == IF a.node = 0 THEN a.value ELSE w[a.node]
<1>1. a.name \in Tokens /\ a.value \in Seq(Tokens) /\ a.node \in Nat
  BY DEF AttrRecs, Tokens
<1>2. v \in Seq(Tokens) /\ <<a.name>> \in Seq(Tokens)
  BY <1>1 DEF Words
<1> HIDE DEF v
<1>3. Member(a, w) = <<a.name, ":">> \o v
  BY Zenon DEF Member, v
<1>4. <<a.name>> \o OneColon = <<a.name, ":">>
  BY Pair, Zenon DEF OneColon
<1>5. Member(a, w) = (<<a.name>> \o OneColon) \o v
  BY <1>3, <1>4, Zenon
<1>6. <<a.name>> \o OneColon \in Seq(Tokens)
  BY <1>2, MarkTexts, Concat
<1>7. Member(a, w) \in Seq(Tokens)
  BY <1>2, <1>5, <1>6, Concat
<1> QED
  BY <1>2, <1>5, <1>7 DEF v

\* The lists that are written, and one more element.
LEMMA MembersAre ==
  ASSUME NEW list \in Seq(AttrRecs), NEW a \in AttrRecs, NEW w \in Words
  PROVE  /\ MemberList(list, w) \in Seq(Seq(Tokens))
         /\ MemberList(Append(list, a), w) = Append(MemberList(list, w), Member(a, w))
<1> DEFINE f == [x \in AttrRecs |-> Member(x, w)]
           X == AttrRecs
           Y == Seq(Tokens)
           t == Append(list, a)
<1>1. f \in [X -> Y] /\ \A x \in X : f[x] = Member(x, w)
  BY MemberIs
<1>2. list \in Seq(X) /\ a \in X /\ t \in Seq(X)
  OBVIOUS
<1> HIDE DEF f, X, Y
<1>3. \A s \in Seq(X) : MemberList(s, w) = Mapped(f, s)
  <2> SUFFICES ASSUME NEW s \in Seq(X) PROVE MemberList(s, w) = Mapped(f, s)
    OBVIOUS
  <2>1. \A i \in DOMAIN s : s[i] \in X
    OBVIOUS
  <2> QED
    BY <1>1, <2>1 DEF MemberList, Mapped
<1>4. Mapped(f, list) \in Seq(Y) /\ Mapped(f, t) = Append(Mapped(f, list), f[a])
  <2>1. f \in MapsOf(X, Y)
    BY <1>1 DEF MapsOf
  <2> QED
    BY <2>1, <1>2, MapAppend
<1>5. MemberList(list, w) = Mapped(f, list) /\ MemberList(t, w) = Mapped(f, t)
  BY <1>2, <1>3
<1> HIDE DEF t
<1>6. MemberList(t, w) = Append(MemberList(list, w), Member(a, w)) /\ MemberList(list, w) \in Seq(Y)
  BY <1>1, <1>2, <1>4, <1>5
<1> QED
  BY <1>6 DEF t, Y

\* One child more, and what is written of it.
LEMMA ChildrenAre ==
  ASSUME NEW list \in Seq(Nat), NEW n \in Nat, NEW w \in Words
  PROVE  /\ ChildList(list, w) \in Seq(Seq(Tokens))
         /\ ChildList(Append(list, n), w) = Append(ChildList(list, w), w[n])
         /\ ChildList(list, w) = <<>> <=> list = <<>>
<1> DEFINE Y == Seq(Tokens)
<1>1. w \in [Nat -> Y]
  BY DEF Words
<1> HIDE DEF Y
<1>2. /\ ChildList(list, w) \in Seq(Y)
      /\ ChildList(Append(list, n), w) = Append(ChildList(list, w), w[n])
  <2> DEFINE X == Nat
  <2>1. w \in MapsOf(X, Y) /\ list \in Seq(X) /\ n \in X
    BY <1>1 DEF MapsOf
  <2> HIDE DEF X
  <2>2. Mapped(w, list) \in Seq(Y) /\ Mapped(w, Append(list, n)) = Append(Mapped(w, list), w[n])
    BY <2>1, MapAppend
  <2>3. ChildList(list, w) = Mapped(w, list) /\ ChildList(Append(list, n), w) = Mapped(w, Append(list, n))
    BY Zenon DEF ChildList, Mapped
  <2> QED
    BY <2>2, <2>3, Zenon
<1>3. DOMAIN ChildList(list, w) = DOMAIN list
  BY DEF ChildList
<1> DEFINE c == ChildList(list, w)
<1>4. c \in Seq(Y) /\ DOMAIN c = DOMAIN list
  BY <1>2, <1>3
<1> HIDE DEF c
<1>5. c = <<>> <=> list = <<>>
  BY <1>4
<1> QED
  BY <1>2, <1>5 DEF c, Y

\* The first elements and the last one.
LEMMA FrontLast ==
  ASSUME NEW X, NEW s \in Seq(X)
  PROVE  /\ s # <<>> => Front(s) \in Seq(X) /\ Last(s) \in X /\ s = Append(Front(s), Last(s))
         /\ \A x \in X : Front(Append(s, x)) = s /\ Last(Append(s, x)) = x /\ Append(s, x) # <<>>
<1>1. ASSUME s # <<>>
      PROVE  Front(s) \in Seq(X) /\ Last(s) \in X /\ s = Append(Front(s), Last(s))
  <2> DEFINE n == Len(s) t == SubSeq(s, 1, n - 1) u == Append(t, s[n])
  <2>1. n \in Nat \ {0} /\ s[n] \in X /\ n = Len(s)
    BY <1>1
  <2> HIDE DEF n
  <2>2. t \in Seq(X) /\ Len(t) = n - 1 /\ \A i \in 1 .. n - 1 : t[i] = s[i]
    BY <2>1
  <2>3. u \in Seq(X) /\ Len(u) = n /\ u[n] = s[n] /\ \A i \in 1 .. n - 1 : u[i] = s[i]
    <3> HIDE DEF t
    <3> QED
      BY <2>1, <2>2
  <2>4. \A i \in 1 .. n : i \in 1 .. n - 1 \/ i = n
    BY <2>1
  <2> HIDE DEF t, u
  <2>5. u = s
    BY <2>1, <2>3, <2>4
  <2> QED
    BY <2>1, <2>2, <2>5 DEF u, t, n, Front, Last
<1>2. ASSUME NEW x \in X
      PROVE  Front(Append(s, x)) = s /\ Last(Append(s, x)) = x /\ Append(s, x) # <<>>
  <2> DEFINE q == Append(s, x) n == Len(s) t == SubSeq(q, 1, n)
  <2>1. n \in Nat /\ q \in Seq(X) /\ Len(q) = n + 1 /\ q[n + 1] = x /\ \A i \in 1 .. n : q[i] = s[i]
    OBVIOUS
  <2> HIDE DEF q
  <2>2. t \in Seq(X) /\ Len(t) = n /\ \A i \in 1 .. n : t[i] = q[i]
    BY <2>1
  <2>3. t = s
    <3> HIDE DEF t
    <3> QED
      BY <2>1, <2>2
  <2>4. Len(q) - 1 = n /\ q # <<>>
    BY <2>1
  <2>5. Front(q) = t /\ Last(q) = x
    BY <2>1, <2>4 DEF Front, Last
  <2> QED
    BY <2>3, <2>4, <2>5 DEF q
<1> QED
  BY <1>1, <1>2

\* The text of a node that is not referred to does not matter.
LEMMA MembersKeep ==
  ASSUME NEW list \in Seq(AttrRecs), NEW w \in Words, NEW m \in Nat \ {0}, NEW v \in Seq(Tokens),
         m \notin AttrRefs(list)
  PROVE  MemberList(list, [w EXCEPT ![m] = v]) = MemberList(list, w)
<1> DEFINE u == [w EXCEPT ![m] = v]
<1>1. ASSUME NEW i \in DOMAIN list PROVE Member(list[i], u) = Member(list[i], w)
  <2>1. list[i].node # m /\ list[i].node \in Nat
    <3>1. list[i] \in AttrRecs
      OBVIOUS
    <3>2. list[i].node \in Nat
      BY <3>1 DEF AttrRecs
    <3>3. list[i].node # m
      BY Zenon DEF AttrRefs
    <3> QED
      BY <3>2, <3>3
  <2>2. u[list[i].node] = w[list[i].node]
    BY <2>1 DEF Words
  <2> HIDE DEF u
  <2> QED
    BY <2>2, Zenon DEF Member
<1> HIDE DEF u
<1>2. MemberList(list, u) = MemberList(list, w)
  BY <1>1, Zenon DEF MemberList
<1> QED
  BY <1>2 DEF u

\* Children do not write what another node does.
LEMMA ChildrenKeep ==
  ASSUME NEW list \in Seq(Nat), NEW w \in Words, NEW m \in Nat, NEW v \in Seq(Tokens),
         m \notin KidRefs(list)
  PROVE  ChildList(list, [w EXCEPT ![m] = v]) = ChildList(list, w)
<1> DEFINE u == [w EXCEPT ![m] = v]
<1>1. ASSUME NEW i \in DOMAIN list PROVE u[list[i]] = w[list[i]]
  <2>1. list[i] # m /\ list[i] \in Nat
    BY DEF KidRefs
  <2> QED
    BY <2>1 DEF Words
<1> HIDE DEF u
<1>2. ChildList(list, u) = ChildList(list, w)
  BY <1>1, Zenon DEF ChildList
<1> QED
  BY <1>2 DEF u

-----------------------------------------------------------------------------
(* What is read of a node, step by step *)

\* The states in an array.
ListStates == {"elements", "strings", "numbers", "nextChild", "afterChild"}

\* What the state says of the record of the node.
Shape(s, r) ==
  /\ s \in {"value", "members", "elements"} => r.attrs = <<>> /\ r.kids = <<>> /\ r.raw = <<>>
  /\ s \in {"strings", "numbers"} => r.kids = <<>>
  /\ s \in {"nextChild", "afterChild"} => r.kids # <<>> /\ r.raw = <<>>
  /\ s \in {"colon", "attrValue", "afterAttr"} => r.attrs # <<>>
  /\ s \in ListStates <=> r.type = "CONTAINER"

\* From a node in state s to the same in state t, with x read and no more
\* nodes referred to but those of M.
Grows(s, r, t, q, x, M) ==
  /\ x \in Seq(Tokens) /\ Shape(t, q) /\ Refs(q) \subseteq Refs(r) \cup M
  /\ \A w \in Words : Part(t, q, w) = Part(s, r, w) \o x
  /\ PartRefs(t, q) \subseteq PartRefs(s, r)

\* What is read in the several states.
LEMMA PartIs ==
  ASSUME NEW r, NEW w
  PROVE  /\ Part("value", r, w) = <<>>
         /\ Part("members", r, w) = OpenBrace \o WithComma(MemberList(r.attrs, w))
         /\ Part("name", r, w) = OpenBrace \o WithComma(MemberList(r.attrs, w))
         /\ Part("colon", r, w) = (OpenBrace \o WithComma(MemberList(Front(r.attrs), w))) \o <<Last(r.attrs).name>>
         /\ Part("attrValue", r, w) = ((OpenBrace \o WithComma(MemberList(Front(r.attrs), w))) \o <<Last(r.attrs).name>>) \o OneColon
         /\ Part("afterAttr", r, w) = OpenBrace \o Separated(MemberList(r.attrs, w))
         /\ Part("elements", r, w) = OpenBracket \o WithComma(r.raw)
         /\ Part("strings", r, w) = OpenBracket \o WithComma(r.raw)
         /\ Part("numbers", r, w) = OpenBracket \o WithComma(r.raw)
         /\ Part("nextChild", r, w) = OpenBracket \o WithComma(ChildList(Front(r.kids), w))
         /\ Part("afterChild", r, w) = OpenBracket \o Separated(ChildList(r.kids, w))
BY DEF Part

\* The fields of a record.
LEMMA FieldTypes ==
  ASSUME NEW r \in NodeRecs
  PROVE  r.attrs \in Seq(AttrRecs) /\ r.kids \in Seq(Nat) /\ r.raw \in Seq(Seq(Tokens)) /\ r.type \in NodeTypes
BY DEF NodeRecs

\* The lists of a node, written.
LEMMA ListTypes ==
  ASSUME NEW list \in Seq(AttrRecs), NEW kids \in Seq(Nat), NEW raw \in Seq(Seq(Tokens)), NEW w \in Words
  PROVE  /\ WithComma(MemberList(list, w)) \in Seq(Tokens) /\ Separated(MemberList(list, w)) \in Seq(Tokens)
         /\ WithComma(ChildList(kids, w)) \in Seq(Tokens) /\ Separated(ChildList(kids, w)) \in Seq(Tokens)
         /\ WithComma(raw) \in Seq(Tokens) /\ Separated(raw) \in Seq(Tokens)
<1>1. MemberList(list, w) \in Seq(Seq(Tokens))
  <2>1. <<>> \in Seq(Tokens) /\ \A a \in AttrRecs : MemberList(list, w) \in Seq(Seq(Tokens))
    BY MembersAre
  <2>2. [name |-> Empty, value |-> <<>>, node |-> 0] \in AttrRecs
    BY TreeAssumption DEF AttrRecs
  <2> QED
    BY <2>1, <2>2
<1>2. ChildList(kids, w) \in Seq(Seq(Tokens))
  BY ChildrenAre
<1> QED
  BY <1>1, <1>2, SeparatedType

\* What is read of a node is a text.
LEMMA PartType ==
  ASSUME NEW r \in NodeRecs, NEW s, Shape(s, r), NEW w \in Words
  PROVE  Part(s, r, w) \in Seq(Tokens)
<1> DEFINE T == Seq(Tokens)
<1>1. r.attrs \in Seq(AttrRecs) /\ r.kids \in Seq(Nat) /\ r.raw \in Seq(Seq(Tokens))
  BY FieldTypes
<1>2. \A a, b \in T : a \o b \in T
  BY Concat
<1>3. <<>> \in T /\ OpenBrace \in T /\ OpenBracket \in T /\ OneColon \in T
  BY MarkTexts
<1>4. s \in {"colon", "attrValue"} => Front(r.attrs) \in Seq(AttrRecs) /\ <<Last(r.attrs).name>> \in T
  <2> SUFFICES ASSUME s \in {"colon", "attrValue"} PROVE Front(r.attrs) \in Seq(AttrRecs) /\ <<Last(r.attrs).name>> \in T
    OBVIOUS
  <2>1. r.attrs # <<>>
    BY DEF Shape
  <2>2. Front(r.attrs) \in Seq(AttrRecs) /\ Last(r.attrs) \in AttrRecs
    BY <1>1, <2>1, FrontLast
  <2>3. Last(r.attrs).name \in Tokens
    BY <2>2 DEF AttrRecs, Tokens
  <2> QED
    BY <2>2, <2>3
<1>5. s = "nextChild" => Front(r.kids) \in Seq(Nat)
  BY <1>1, FrontLast DEF Shape
<1>6. \A x \in Seq(AttrRecs) : WithComma(MemberList(x, w)) \in T /\ Separated(MemberList(x, w)) \in T
  BY <1>1, ListTypes
<1>7. \A x \in Seq(Nat) : WithComma(ChildList(x, w)) \in T /\ Separated(ChildList(x, w)) \in T
  BY <1>1, ListTypes
<1>8. WithComma(r.raw) \in T
  BY <1>1, ListTypes
<1> HIDE DEF T
<1>9. Part(s, r, w) \in T
  BY <1>1, <1>2, <1>3, <1>4, <1>5, <1>6, <1>7, <1>8, Zenon DEF Part
<1> QED
  BY <1>9 DEF T

\* The text of a node that is not referred to does not matter.
LEMMA PartKeeps ==
  ASSUME NEW r \in NodeRecs, NEW s, Shape(s, r), NEW w \in Words,
         NEW m \in Nat \ {0}, NEW v \in Seq(Tokens), m \notin PartRefs(s, r)
  PROVE  Part(s, r, [w EXCEPT ![m] = v]) = Part(s, r, w)
<1> DEFINE u == [w EXCEPT ![m] = v]
<1>1. r.attrs \in Seq(AttrRecs) /\ r.kids \in Seq(Nat)
  BY FieldTypes
<1>2. s \in {"colon", "attrValue"} => Front(r.attrs) \in Seq(AttrRecs)
  BY <1>1, FrontLast DEF Shape
<1>3. s = "nextChild" => Front(r.kids) \in Seq(Nat)
  BY <1>1, FrontLast DEF Shape
<1>4. \A list \in Seq(AttrRecs) : m \notin AttrRefs(list) => MemberList(list, u) = MemberList(list, w)
  BY MembersKeep
<1>5. \A list \in Seq(Nat) : m \notin KidRefs(list) => ChildList(list, u) = ChildList(list, w)
  BY ChildrenKeep
<1>6. m \notin AttrRefs(DoneAttrs(s, r)) /\ m \notin KidRefs(DoneKids(s, r))
  BY Zenon DEF PartRefs
<1> HIDE DEF u
<1>7. s \in {"colon", "attrValue"} => MemberList(Front(r.attrs), u) = MemberList(Front(r.attrs), w)
  BY <1>2, <1>4, <1>6, Zenon DEF DoneAttrs
<1>8. s \notin {"colon", "attrValue"} => MemberList(r.attrs, u) = MemberList(r.attrs, w)
  BY <1>1, <1>4, <1>6, Zenon DEF DoneAttrs
<1>9. s = "nextChild" => ChildList(Front(r.kids), u) = ChildList(Front(r.kids), w)
  BY <1>3, <1>5, <1>6, Zenon DEF DoneKids
<1>10. s # "nextChild" => ChildList(r.kids, u) = ChildList(r.kids, w)
  BY <1>1, <1>5, <1>6, Zenon DEF DoneKids
<1>11. Part(s, r, u) = Part(s, r, w)
  BY <1>7, <1>8, <1>9, <1>10, Zenon DEF Part
<1> QED
  BY <1>11 DEF u

\* The whole of a node does not depend on nodes it does not refer to.
LEMMA WrittenKeeps ==
  ASSUME NEW r \in NodeRecs, NEW w \in Words,
         NEW m \in Nat \ {0}, NEW v \in Seq(Tokens), m \notin Refs(r)
  PROVE  Written(r, [w EXCEPT ![m] = v]) = Written(r, w)
<1> DEFINE u == [w EXCEPT ![m] = v]
<1>1. r.attrs \in Seq(AttrRecs) /\ r.kids \in Seq(Nat)
  BY FieldTypes
<1>2. m \notin AttrRefs(r.attrs) /\ m \notin KidRefs(r.kids)
  BY Zenon DEF Refs
<1>3. MemberList(r.attrs, u) = MemberList(r.attrs, w) /\ ChildList(r.kids, u) = ChildList(r.kids, w)
  BY <1>1, <1>2, MembersKeep, ChildrenKeep
<1> HIDE DEF u
<1>4. Written(r, u) = Written(r, w)
  BY <1>3, Zenon DEF Written
<1> QED
  BY <1>4 DEF u

\* The fields of a record that is put together.
LEMMA RecIs ==
  ASSUME NEW type, NEW attrs, NEW kids, NEW raw, NEW run
  PROVE  LET q == Rec(type, attrs, kids, raw, run)
         IN  q.type = type /\ q.attrs = attrs /\ q.kids = kids /\ q.raw = raw /\ q.run = run
BY DEF Rec

\* What one more element refers to.
LEMMA RefsAppend ==
  /\ \A list \in Seq(AttrRecs), a \in AttrRecs : AttrRefs(Append(list, a)) = AttrRefs(list) \cup ({a.node} \ {0})
  /\ \A list \in Seq(Nat), n \in Nat : KidRefs(Append(list, n)) = KidRefs(list) \cup {n}
  /\ AttrRefs(<<>>) = {} /\ KidRefs(<<>>) = {}
<1> DEFINE Longer(X, s, x) ==
             /\ DOMAIN Append(s, x) = DOMAIN s \cup {Len(s) + 1}
             /\ Append(s, x)[Len(s) + 1] = x /\ \A i \in DOMAIN s : Append(s, x)[i] = s[i]
<1>1. ASSUME NEW X, NEW s \in Seq(X), NEW x \in X
      PROVE  /\ DOMAIN Append(s, x) = DOMAIN s \cup {Len(s) + 1}
             /\ Append(s, x)[Len(s) + 1] = x /\ \A i \in DOMAIN s : Append(s, x)[i] = s[i]
  <2> DEFINE q == Append(s, x) n == Len(s)
  <2>1. n \in Nat /\ DOMAIN s = 1 .. n /\ q \in Seq(X) /\ Len(q) = n + 1 /\ q[n + 1] = x
        /\ \A i \in 1 .. n : q[i] = s[i]
    OBVIOUS
  <2> HIDE DEF q, n
  <2>2. DOMAIN q = 1 .. n + 1
    BY <2>1
  <2>3. 1 .. n + 1 = 1 .. n \cup {n + 1}
    BY <2>1
  <2> QED
    BY <2>1, <2>2, <2>3 DEF q, n
<1>2. ASSUME NEW list \in Seq(AttrRecs), NEW a \in AttrRecs
      PROVE  AttrRefs(Append(list, a)) = AttrRefs(list) \cup ({a.node} \ {0})
  <2> DEFINE q == Append(list, a) n == Len(list) + 1
  <2>1. DOMAIN q = DOMAIN list \cup {n} /\ q[n] = a /\ \A i \in DOMAIN list : q[i] = list[i]
    BY <1>1
  <2> HIDE DEF q, n
  <2>2. {q[i].node : i \in DOMAIN q} = {list[i].node : i \in DOMAIN list} \cup {a.node}
    BY <2>1
  <2> QED
    BY <2>2 DEF q, AttrRefs
<1>3. ASSUME NEW list \in Seq(Nat), NEW m \in Nat
      PROVE  KidRefs(Append(list, m)) = KidRefs(list) \cup {m}
  <2> DEFINE q == Append(list, m) n == Len(list) + 1 X == Nat
  <2>0. list \in Seq(X) /\ m \in X
    OBVIOUS
  <2>1. DOMAIN q = DOMAIN list \cup {n} /\ q[n] = m /\ \A i \in DOMAIN list : q[i] = list[i]
    <3> HIDE DEF X
    <3> QED
      BY <1>1, <2>0
  <2> HIDE DEF q, n
  <2>2. {q[i] : i \in DOMAIN q} = {list[i] : i \in DOMAIN list} \cup {m}
    BY <2>1
  <2> QED
    BY <2>2 DEF q, KidRefs
<1>4. AttrRefs(<<>>) = {} /\ KidRefs(<<>>) = {}
  BY DEF AttrRefs, KidRefs
<1> QED
  BY <1>2, <1>3, <1>4

\* The attributes with the last one assigned.
Assignment(list, v, m) == [name |-> Last(list).name, value |-> v, node |-> m]

\* The list with the value of its last attribute.
LEMMA AssignedAppend ==
  ASSUME NEW list \in Seq(AttrRecs), list # <<>>, NEW v \in Seq(Tokens), NEW m \in Nat
  PROVE  /\ Assigned(list, v, m) = Append(Front(list), Assignment(list, v, m))
         /\ Assignment(list, v, m) \in AttrRecs /\ Front(list) \in Seq(AttrRecs) /\ Last(list) \in AttrRecs
         /\ Assigned(list, v, m) \in Seq(AttrRecs) /\ Assigned(list, v, m) # <<>>
         /\ Front(Assigned(list, v, m)) = Front(list)
         /\ Last(Assigned(list, v, m)) = Assignment(list, v, m)
<1> DEFINE X == AttrRecs a == Assigned(list, v, m) r == Assignment(list, v, m) n == Len(list) f == Front(list)
           b == Append(f, r)
<1>1. f \in Seq(X) /\ Last(list) \in X /\ n \in Nat \ {0} /\ n - 1 \in Nat
  BY FrontLast
<1>2. r \in X
  BY <1>1 DEF Assignment, AttrRecs
<1>3. a \in Seq(X) /\ Len(a) = n /\ a[n] = r /\ \A i \in 1 .. n : i # n => a[i] = list[i]
  BY AssignedIs DEF Assignment
<1>4. f = SubSeq(list, 1, n - 1)
  BY DEF Front
<1>5. list \in Seq(X) /\ Len(list) = n
  OBVIOUS
<1> HIDE DEF X, a, r, n, f
<1>6. Len(f) = n - 1 /\ \A i \in 1 .. n - 1 : f[i] = list[i]
  BY <1>1, <1>4, <1>5
<1>7. b \in Seq(X) /\ Len(b) = n /\ b[n] = r /\ \A i \in 1 .. n - 1 : b[i] = list[i]
  BY <1>1, <1>2, <1>6
<1>8. \A i \in 1 .. n : i \in 1 .. n - 1 \/ i = n
  BY <1>1
<1>9. \A i \in 1 .. n - 1 : i \in 1 .. n /\ i # n
  BY <1>1
<1>10. a = b
  <2> HIDE DEF b
  <2>1. \A i \in 1 .. n : a[i] = b[i]
    BY <1>3, <1>7, <1>8, <1>9
  <2> QED
    BY <2>1, <1>3, <1>7
<1>11. b # <<>> /\ Front(b) = f /\ Last(b) = r
  <2>1. \A x \in X : Front(Append(f, x)) = f /\ Last(Append(f, x)) = x /\ Append(f, x) # <<>>
    BY <1>1, FrontLast
  <2> QED
    BY <2>1, <1>2
<1> QED
  BY <1>1, <1>2, <1>3, <1>10, <1>11 DEF X, a, r, f, b

\* What is written of the attributes, the last one apart.
LEMMA LastMember ==
  ASSUME NEW list \in Seq(AttrRecs), NEW a \in AttrRecs, NEW w \in Words
  PROVE  OpenBrace \o Separated(MemberList(Append(list, a), w))
           = (((OpenBrace \o WithComma(MemberList(list, w))) \o <<a.name>>) \o OneColon)
               \o (IF a.node = 0 THEN a.value ELSE w[a.node])
<1> DEFINE X == Tokens v == IF a.node = 0 THEN a.value ELSE w[a.node]
           m == MemberList(list, w) b == WithComma(m) c == <<a.name>> d == OneColon o == OpenBrace
           e == Member(a, w)
<1>1. e \in Seq(X) /\ e = (c \o d) \o v /\ c \in Seq(X) /\ v \in Seq(X)
  BY MemberIs
<1>2. m \in Seq(Seq(X)) /\ MemberList(Append(list, a), w) = Append(m, e)
  BY MembersAre
<1>3. Separated(Append(m, e)) = b \o e
  BY <1>1, <1>2, SeparatedAppend
<1>4. o \in Seq(X) /\ d \in Seq(X) /\ b \in Seq(X)
  BY <1>2, MarkTexts, SeparatedType
<1> HIDE DEF X, v, m, b, c, d, e, o
<1>7. o \in Seq(X) /\ b \in Seq(X) /\ c \in Seq(X) /\ d \in Seq(X) /\ v \in Seq(X)
  BY <1>1, <1>4
<1>5. o \o (b \o ((c \o d) \o v)) = (((o \o b) \o c) \o d) \o v
  <2> DEFINE S == Seq(X) J(p, q) == p \o q
  <2>6. \A p, q \in S : J(p, q) \in S
    OBVIOUS
  <2>7. \A p, q, r \in S : J(J(p, q), r) = J(p, J(q, r))
    OBVIOUS
  <2>8. o \in S /\ b \in S /\ c \in S /\ d \in S /\ v \in S
    BY <1>7, Zenon
  <2> HIDE DEF S, J
  <2>1. /\ o \in S /\ b \in S /\ c \in S /\ d \in S /\ v \in S
        /\ \A p, q \in S : J(p, q) \in S
        /\ \A p, q, r \in S : J(J(p, q), r) = J(p, J(q, r))
    BY <2>6, <2>7, <2>8, Zenon
  <2>2. J(c, d) \in S /\ J(J(c, d), v) \in S /\ J(o, b) \in S /\ J(J(o, b), c) \in S /\ J(d, v) \in S
    BY <2>1, Zenon
  <2>3. J(J(c, d), v) = J(c, J(d, v)) /\ J(J(o, b), J(c, J(d, v))) = J(o, J(b, J(c, J(d, v))))
    BY <2>1, <2>2, SMT
  <2>4. /\ J(J(J(o, b), c), J(d, v)) = J(J(o, b), J(c, J(d, v)))
        /\ J(J(J(J(o, b), c), d), v) = J(J(J(o, b), c), J(d, v))
    BY <2>1, <2>2, SMT
  <2>5. J(o, J(b, J(J(c, d), v))) = J(J(J(J(o, b), c), d), v)
    BY <2>3, <2>4
  <2> QED
    BY <2>5 DEF J
<1>6. o \o Separated(MemberList(Append(list, a), w)) = (((o \o b) \o c) \o d) \o v
  BY <1>1, <1>2, <1>3, <1>5
<1> QED
  BY <1>6 DEF v, m, b, c, d, o

\* The same of the children.
LEMMA LastChild ==
  ASSUME NEW list \in Seq(Nat), NEW n \in Nat, NEW w \in Words
  PROVE  OpenBracket \o Separated(ChildList(Append(list, n), w))
           = (OpenBracket \o WithComma(ChildList(list, w))) \o w[n]
<1> DEFINE X == Tokens m == ChildList(list, w) b == WithComma(m) o == OpenBracket e == w[n]
<1>1. e \in Seq(X)
  BY DEF Words
<1>2. m \in Seq(Seq(X)) /\ ChildList(Append(list, n), w) = Append(m, e)
  BY ChildrenAre
<1>3. Separated(Append(m, e)) = b \o e
  BY <1>1, <1>2, SeparatedAppend
<1>4. o \in Seq(X) /\ b \in Seq(X)
  BY <1>2, MarkTexts, SeparatedType
<1> HIDE DEF X, m, b, e, o
<1>5. o \o (b \o e) = (o \o b) \o e
  BY <1>1, <1>4, Assoc
<1>6. o \o Separated(ChildList(Append(list, n), w)) = (o \o b) \o e
  BY <1>2, <1>3, <1>5
<1> QED
  BY <1>6 DEF m, b, e, o

-----------------------------------------------------------------------------
(* What a step reads of the node on top *)

\* The references by state.
LEMMA RefsAre ==
  ASSUME NEW r, NEW s
  PROVE  /\ s \notin {"colon", "attrValue", "nextChild"} => PartRefs(s, r) = Refs(r)
         /\ s \in {"colon", "attrValue"} => PartRefs(s, r) = AttrRefs(Front(r.attrs)) \cup KidRefs(r.kids)
         /\ s = "nextChild" => PartRefs(s, r) = AttrRefs(r.attrs) \cup KidRefs(Front(r.kids))
BY Zenon DEF PartRefs, Refs, DoneAttrs, DoneKids

\* A bracket is opened.
LEMMA GrowsOpen ==
  ASSUME NEW r \in NodeRecs, Shape("value", r)
  PROVE  /\ Grows("value", r, "members", r, OpenBrace, {})
         /\ Grows("value", r, "elements", Rec("CONTAINER", r.attrs, r.kids, r.raw, r.run), OpenBracket, {})
<1> DEFINE q == Rec("CONTAINER", r.attrs, r.kids, r.raw, r.run) X == Tokens o == OpenBrace b == OpenBracket
<1>1. r.attrs = <<>> /\ r.kids = <<>> /\ r.raw = <<>> /\ r.type # "CONTAINER"
  BY DEF Shape, ListStates
<1>2. q.type = "CONTAINER" /\ q.attrs = <<>> /\ q.kids = <<>> /\ q.raw = <<>>
  BY <1>1, RecIs
<1>3. Shape("members", r) /\ Shape("elements", q)
  BY <1>1, <1>2 DEF Shape, ListStates
<1>4. o \in Seq(X) /\ b \in Seq(X)
  BY MarkTexts
<1>5. <<>> \o o = o /\ o \o <<>> = o /\ <<>> \o b = b /\ b \o <<>> = b
  <2> HIDE DEF X, o, b
  <2> QED
    BY <1>4, Neutral
<1>6. ASSUME NEW w \in Words
      PROVE  Part("value", r, w) = <<>> /\ Part("members", r, w) = o /\ Part("elements", q, w) = b
  <2>1. MemberList(<<>>, w) = <<>>
    BY DEF MemberList
  <2>2. Part("value", r, w) = <<>> /\ Part("members", r, w) = o \o <<>> /\ Part("elements", q, w) = b \o <<>>
    <3>1. Part("value", r, w) = <<>>
      BY PartIs
    <3>2. Part("members", r, w) = o \o WithComma(MemberList(r.attrs, w))
      BY PartIs
    <3>3. Part("elements", q, w) = b \o WithComma(q.raw)
      BY PartIs
    <3> HIDE DEF q, o, b
    <3> QED
      BY <2>1, <3>1, <3>2, <3>3, <1>1, <1>2, NoneSeparated, Zenon
  <2> QED
    BY <2>2, <1>5, Zenon
<1>7. Refs(q) = Refs(r) /\ PartRefs("members", r) = PartRefs("value", r) /\ PartRefs("elements", q) = PartRefs("value", r)
  <2>1. Refs(q) = Refs(r)
    BY <1>1, <1>2, Zenon DEF Refs
  <2> QED
    BY <2>1, RefsAre
<1> HIDE DEF q, X, o, b
<1>8. \A w \in Words : Part("members", r, w) = Part("value", r, w) \o o /\ Part("elements", q, w) = Part("value", r, w) \o b
  BY <1>5, <1>6, Zenon
<1>9. Grows("value", r, "members", r, o, {})
  BY <1>3, <1>4, <1>7, <1>8 DEF Grows, X
<1>10. Grows("value", r, "elements", q, b, {})
  BY <1>3, <1>4, <1>7, <1>8 DEF Grows, X
<1> QED
  BY <1>9, <1>10 DEF q, o, b

\* A list is found to be one of members, of strings or of numbers.
LEMMA GrowsNothing ==
  ASSUME NEW r \in NodeRecs
  PROVE  /\ Shape("members", r) => Grows("members", r, "name", r, <<>>, {})
         /\ Shape("elements", r) => Grows("elements", r, "strings", r, <<>>, {}) /\ Grows("elements", r, "numbers", r, <<>>, {})
<1>1. \A w \in Words : \A s : Shape(s, r) => Part(s, r, w) = Part(s, r, w) \o <<>>
  BY PartType, Neutral
<1>2. <<>> \in Seq(Tokens)
  OBVIOUS
<1>3. \A w \in Words : /\ Part("name", r, w) = Part("members", r, w)
                      /\ Part("strings", r, w) = Part("elements", r, w)
                      /\ Part("numbers", r, w) = Part("elements", r, w)
  BY PartIs, ZenonT(60)
<1>4. /\ Shape("members", r) => Shape("name", r)
      /\ Shape("elements", r) => Shape("strings", r) /\ Shape("numbers", r)
  BY DEF Shape, ListStates
<1>5. \A s, t \in {"members", "name", "elements", "strings", "numbers"} : PartRefs(s, r) = PartRefs(t, r)
  BY RefsAre
<1>6. Shape("members", r) => Grows("members", r, "name", r, <<>>, {})
  BY <1>1, <1>2, <1>3, <1>4, <1>5 DEF Grows
<1>7. Shape("elements", r) => Grows("elements", r, "strings", r, <<>>, {})
  BY <1>1, <1>2, <1>3, <1>4, <1>5 DEF Grows
<1>8. Shape("elements", r) => Grows("elements", r, "numbers", r, <<>>, {})
  BY <1>1, <1>2, <1>3, <1>4, <1>5 DEF Grows
<1> QED
  BY <1>6, <1>7, <1>8

\* A name and a colon.
LEMMA GrowsName ==
  ASSUME NEW r \in NodeRecs, Shape("name", r), NEW name \in Strings
  PROVE  Grows("name", r, "colon", Rec(r.type, Append(r.attrs, NewAttr(name)), r.kids, r.raw, r.run), <<name>>, {})
<1> DEFINE a == NewAttr(name) q == Rec(r.type, Append(r.attrs, a), r.kids, r.raw, r.run) x == <<name>>
<1>1. a \in AttrRecs /\ a.name = name /\ a.node = 0
  <2>1. <<>> \in Seq(Tokens) /\ 0 \in Nat
    OBVIOUS
  <2> QED
    BY <2>1, Zenon DEF NewAttr, AttrRecs
<1>11. r.attrs \in Seq(AttrRecs)
  BY FieldTypes
<1>2. q.type = r.type /\ q.attrs = Append(r.attrs, a) /\ q.kids = r.kids /\ q.raw = r.raw
  BY DEF Rec
<1> HIDE DEF q, a
<1>3. Front(Append(r.attrs, a)) = r.attrs /\ Last(Append(r.attrs, a)) = a /\ Append(r.attrs, a) # <<>>
  <2> DEFINE X == AttrRecs list == r.attrs
  <2>1. list \in Seq(X) /\ a \in X
    BY <1>1, <1>11
  <2> HIDE DEF X, list
  <2>2. \A y \in X : Front(Append(list, y)) = list /\ Last(Append(list, y)) = y /\ Append(list, y) # <<>>
    BY <2>1, FrontLast
  <2> QED
    BY <2>1, <2>2, Zenon DEF list
<1>4. Shape("colon", q)
  BY <1>2, <1>3 DEF Shape, ListStates
<1>5. x \in Seq(Tokens)
  BY DEF Tokens
<1>6. AttrRefs(Append(r.attrs, a)) = AttrRefs(r.attrs)
  <2>1. AttrRefs(Append(r.attrs, a)) = AttrRefs(r.attrs) \cup ({a.node} \ {0})
    BY <1>1, <1>11, RefsAppend, Zenon
  <2> QED
    BY <2>1, <1>1
<1>7. Refs(q) = Refs(r)
  BY <1>2, <1>6, Zenon DEF Refs
<1>8. PartRefs("colon", q) = PartRefs("name", r)
  <2>1. PartRefs("colon", q) = AttrRefs(r.attrs) \cup KidRefs(r.kids)
    BY <1>2, <1>3, RefsAre
  <2> QED
    BY <2>1, RefsAre DEF Refs
<1>9. \A w \in Words : Part("colon", q, w) = Part("name", r, w) \o x
  <2> SUFFICES ASSUME NEW w \in Words PROVE Part("colon", q, w) = Part("name", r, w) \o x
    OBVIOUS
  <2>1. Part("colon", q, w) = (OpenBrace \o WithComma(MemberList(Front(q.attrs), w))) \o <<Last(q.attrs).name>>
    BY PartIs
  <2>2. Part("name", r, w) = OpenBrace \o WithComma(MemberList(r.attrs, w))
    BY PartIs
  <2> QED
    BY <2>1, <2>2, <1>1, <1>2, <1>3, Zenon
<1> HIDE DEF x
<1>10. Grows("name", r, "colon", q, x, {})
  BY <1>4, <1>5, <1>7, <1>8, <1>9 DEF Grows
<1> QED
  BY <1>10 DEF q, x, a

\* Reading a colon.
LEMMA GrowsColon ==
  ASSUME NEW r \in NodeRecs, Shape("colon", r)
  PROVE  Grows("colon", r, "attrValue", r, OneColon, {})
<1>1. Shape("attrValue", r)
  BY DEF Shape, ListStates
<1>2. PartRefs("colon", r) = PartRefs("attrValue", r)
  BY RefsAre
<1>3. \A w \in Words : Part("attrValue", r, w) = Part("colon", r, w) \o OneColon
  BY PartIs, ZenonT(60)
<1> QED
  BY <1>1, <1>2, <1>3, MarkTexts DEF Grows

\* What the list of attributes refers to, its last one apart.
LEMMA FrontRefs ==
  ASSUME NEW list \in Seq(AttrRecs), list # <<>>
  PROVE  AttrRefs(list) = AttrRefs(Front(list)) \cup ({Last(list).node} \ {0})
<1> DEFINE f == Front(list) a == Last(list)
<1>1. f \in Seq(AttrRecs) /\ a \in AttrRecs /\ list = Append(f, a)
  BY FrontLast
<1> HIDE DEF f, a
<1>2. AttrRefs(Append(f, a)) = AttrRefs(f) \cup ({a.node} \ {0})
  BY <1>1, RefsAppend, Zenon
<1> QED
  BY <1>1, <1>2 DEF f, a

\* The children are the last one and those before it.
LEMMA FrontKids ==
  ASSUME NEW list \in Seq(Nat), list # <<>>
  PROVE  KidRefs(list) = KidRefs(Front(list)) \cup {Last(list)}
<1> DEFINE X == Nat f == Front(list) n == Last(list)
<1>0. list \in Seq(X)
  OBVIOUS
<1> HIDE DEF X
<1>1. f \in Seq(X) /\ n \in X /\ list = Append(f, n)
  BY <1>0, FrontLast
<1> HIDE DEF f, n
<1>2. KidRefs(Append(f, n)) = KidRefs(f) \cup {n}
  BY <1>1, RefsAppend, Zenon DEF X
<1> QED
  BY <1>1, <1>2 DEF f, n

\* A value that is a text.
LEMMA GrowsValue ==
  ASSUME NEW r \in NodeRecs, Shape("attrValue", r), NEW v \in Seq(Tokens)
  PROVE  Grows("attrValue", r, "afterAttr", Rec(r.type, Assigned(r.attrs, v, 0), r.kids, r.raw, r.run), v, {})
<1> DEFINE list == r.attrs b == Assigned(list, v, 0) q == Rec(r.type, b, r.kids, r.raw, r.run)
           a == Assignment(list, v, 0) f == Front(list)
<1>1. list \in Seq(AttrRecs) /\ list # <<>>
  BY FieldTypes DEF Shape
<1>2. q.type = r.type /\ q.attrs = b /\ q.kids = r.kids /\ q.raw = r.raw
  BY DEF Rec
<1>3. b = Append(f, a) /\ a \in AttrRecs /\ f \in Seq(AttrRecs) /\ b \in Seq(AttrRecs) /\ b # <<>>
      /\ Front(b) = f /\ Last(b) = a
  BY <1>1, AssignedAppend
<1>4. a.node = 0 /\ a.value = v /\ a.name = Last(list).name
  BY DEF Assignment
<1> HIDE DEF q, b, a, f
<1>5. Shape("afterAttr", q)
  BY <1>2, <1>3 DEF Shape, ListStates
<1>6. AttrRefs(b) = AttrRefs(f) /\ AttrRefs(f) \subseteq AttrRefs(list)
  BY <1>1, <1>3, <1>4, FrontRefs, ZenonT(60) DEF f
<1>7. Refs(q) = AttrRefs(f) \cup KidRefs(r.kids) /\ Refs(q) \subseteq Refs(r)
  BY <1>2, <1>6 DEF Refs
<1>8. PartRefs("afterAttr", q) = PartRefs("attrValue", r)
  <2>1. PartRefs("attrValue", r) = AttrRefs(f) \cup KidRefs(r.kids)
    BY RefsAre DEF f
  <2>2. PartRefs("afterAttr", q) = Refs(q)
    BY RefsAre
  <2> QED
    BY <1>7, <2>1, <2>2
<1>9. ASSUME NEW w \in Words
      PROVE  Part("afterAttr", q, w) = Part("attrValue", r, w) \o v
  <2>1. Part("afterAttr", q, w) = OpenBrace \o Separated(MemberList(q.attrs, w))
    BY PartIs
  <2>2. Part("attrValue", r, w) = ((OpenBrace \o WithComma(MemberList(f, w))) \o <<Last(list).name>>) \o OneColon
    BY PartIs DEF f
  <2>3. OpenBrace \o Separated(MemberList(Append(f, a), w))
           = (((OpenBrace \o WithComma(MemberList(f, w))) \o <<a.name>>) \o OneColon)
               \o (IF a.node = 0 THEN a.value ELSE w[a.node])
    BY <1>3, LastMember
  <2> QED
    BY <2>1, <2>2, <2>3, <1>2, <1>3, <1>4, Zenon
<1>10. Grows("attrValue", r, "afterAttr", q, v, {})
  BY <1>5, <1>7, <1>8, <1>9 DEF Grows
<1> QED
  BY <1>10 DEF q, b

\* A value that is a node is not written yet.
LEMMA GrowsChild ==
  ASSUME NEW r \in NodeRecs, Shape("attrValue", r), NEW m \in Nat
  PROVE  LET q == Rec(r.type, Assigned(r.attrs, <<>>, m), r.kids, r.raw, r.run)
         IN  Grows("attrValue", r, "attrValue", q, <<>>, {m}) /\ Last(q.attrs).node = m
<1> DEFINE list == r.attrs v == <<>> b == Assigned(list, v, m) q == Rec(r.type, b, r.kids, r.raw, r.run)
           a == Assignment(list, v, m) f == Front(list)
<1>0. v \in Seq(Tokens)
  OBVIOUS
<1>1. list \in Seq(AttrRecs) /\ list # <<>>
  BY FieldTypes DEF Shape
<1>2. q.type = r.type /\ q.attrs = b /\ q.kids = r.kids /\ q.raw = r.raw
  BY DEF Rec
<1> HIDE DEF v
<1>3. b = Append(f, a) /\ a \in AttrRecs /\ f \in Seq(AttrRecs) /\ b \in Seq(AttrRecs) /\ b # <<>>
      /\ Front(b) = f /\ Last(b) = a
  BY <1>0, <1>1, AssignedAppend
<1>4. a.node = m /\ a.name = Last(list).name
  BY DEF Assignment
<1> HIDE DEF q, b, a, f
<1>5. Shape("attrValue", q)
  BY <1>2, <1>3 DEF Shape, ListStates
<1>6. AttrRefs(b) \subseteq AttrRefs(f) \cup {m} /\ AttrRefs(f) \subseteq AttrRefs(list)
  <2>1. AttrRefs(b) = AttrRefs(f) \cup ({m} \ {0})
    BY <1>3, <1>4, FrontRefs, Zenon
  <2>2. AttrRefs(f) \subseteq AttrRefs(list)
    BY <1>1, FrontRefs DEF f
  <2> QED
    BY <2>1, <2>2
<1>7. Refs(q) \subseteq Refs(r) \cup {m}
  BY <1>2, <1>6 DEF Refs
<1>8. PartRefs("attrValue", q) = PartRefs("attrValue", r)
  <2>1. PartRefs("attrValue", r) = AttrRefs(f) \cup KidRefs(r.kids)
    BY RefsAre DEF f
  <2>2. PartRefs("attrValue", q) = AttrRefs(f) \cup KidRefs(q.kids)
    BY <1>2, <1>3, RefsAre
  <2> QED
    BY <1>2, <2>1, <2>2
<1>9. ASSUME NEW w \in Words
      PROVE  Part("attrValue", q, w) = Part("attrValue", r, w) \o <<>>
  <2>1. Part("attrValue", q, w) = ((OpenBrace \o WithComma(MemberList(Front(q.attrs), w))) \o <<Last(q.attrs).name>>) \o OneColon
    BY PartIs
  <2>2. Part("attrValue", r, w) = ((OpenBrace \o WithComma(MemberList(f, w))) \o <<Last(list).name>>) \o OneColon
    BY PartIs DEF f
  <2>3. Part("attrValue", q, w) = Part("attrValue", r, w)
    BY <2>1, <2>2, <1>2, <1>3, <1>4, Zenon
  <2>4. Part("attrValue", r, w) \in Seq(Tokens)
    BY PartType
  <2> QED
    BY <2>3, <2>4, Neutral
<1>10. Grows("attrValue", r, "attrValue", q, <<>>, {m})
  BY <1>0, <1>5, <1>7, <1>8, <1>9 DEF Grows, v
<1>11. Last(q.attrs).node = m
  BY <1>2, <1>3, <1>4
<1> QED
  BY <1>10, <1>11 DEF q, b, v

\* A comma behind a member.
LEMMA GrowsComma ==
  ASSUME NEW r \in NodeRecs, Shape("afterAttr", r)
  PROVE  Grows("afterAttr", r, "name", r, OneComma, {})
<1>1. Shape("name", r)
  BY DEF Shape, ListStates
<1>2. PartRefs("afterAttr", r) = PartRefs("name", r)
  BY RefsAre
<1>3. ASSUME NEW w \in Words
      PROVE  Part("name", r, w) = Part("afterAttr", r, w) \o OneComma
  <2> DEFINE m == MemberList(r.attrs, w) s == Separated(m) o == OpenBrace X == Tokens c == OneComma
  <2>1. r.attrs \in Seq(AttrRecs) /\ r.attrs # <<>>
    BY FieldTypes DEF Shape
  <2>2. m # <<>>
    <3> DEFINE list == r.attrs
    <3>1. DOMAIN m = DOMAIN list
      BY DEF MemberList
    <3> HIDE DEF m, list
    <3>2. list \in Seq(AttrRecs) /\ list # <<>>
      BY <2>1 DEF list
    <3>3. 1 \in DOMAIN list
      BY <3>2
    <3> QED
      BY <3>1, <3>3
  <2>3. s \in Seq(X) /\ o \in Seq(X) /\ c \in Seq(X)
    BY <2>1, ListTypes, MarkTexts, FieldTypes
  <2>4. WithComma(m) = s \o c
    BY <2>2 DEF WithComma
  <2>5. Part("name", r, w) = o \o WithComma(m) /\ Part("afterAttr", r, w) = o \o s
    BY PartIs
  <2> HIDE DEF m, s, o, X, c
  <2>6. (o \o s) \o c = o \o (s \o c)
    BY <2>3, Assoc
  <2> QED
    BY <2>4, <2>5, <2>6 DEF c
<1> QED
  BY <1>1, <1>2, <1>3, MarkTexts DEF Grows

\* One more string or number, with the comma behind it.
LEMMA GrowsElement ==
  ASSUME NEW r \in NodeRecs, NEW s \in {"strings", "numbers"}, Shape(s, r), NEW e \in Seq(Tokens)
  PROVE  Grows(s, r, s, Rec(r.type, r.attrs, r.kids, Append(r.raw, e), r.run), e \o OneComma, {})
<1> DEFINE q == Rec(r.type, r.attrs, r.kids, Append(r.raw, e), r.run) X == Tokens c == OneComma o == OpenBracket
           z == WithComma(r.raw) raw == r.raw
<1>1. q.type = r.type /\ q.attrs = r.attrs /\ q.kids = r.kids /\ q.raw = Append(raw, e)
  BY DEF Rec
<1>2. raw \in Seq(Seq(X))
  BY FieldTypes
<1>3. z \in Seq(X) /\ c \in Seq(X) /\ o \in Seq(X)
  BY <1>2, SeparatedType, MarkTexts
<1>4. WithComma(Append(raw, e)) = (z \o e) \o c
  BY <1>2, SeparatedAppend
<1>5. ASSUME NEW w PROVE Part(s, r, w) = o \o z /\ Part(s, q, w) = o \o WithComma(Append(raw, e))
  <2>1. /\ Part("strings", r, w) = o \o z /\ Part("numbers", r, w) = o \o z
    BY PartIs
  <2>2. /\ Part("strings", q, w) = o \o WithComma(q.raw) /\ Part("numbers", q, w) = o \o WithComma(q.raw)
    BY PartIs
  <2> QED
    BY <2>1, <2>2, <1>1, Zenon
<1>6. Shape(s, q)
  BY <1>1, Zenon DEF Shape, ListStates
<1>7. Refs(q) = Refs(r) /\ PartRefs(s, q) = PartRefs(s, r)
  <2>1. Refs(q) = Refs(r)
    BY <1>1, Zenon DEF Refs
  <2> QED
    BY <2>1, RefsAre
<1>0. e \in Seq(X)
  OBVIOUS
<1> HIDE DEF X, c, o, z, q, raw
<1>8. o \o ((z \o e) \o c) = (o \o z) \o (e \o c)
  <2>1. (z \o e) \o c = z \o (e \o c)
    BY <1>0, <1>3, Assoc
  <2>2. e \o c \in Seq(X)
    BY <1>0, <1>3, Concat
  <2> DEFINE d == e \o c
  <2> HIDE DEF d
  <2>3. d \in Seq(X)
    BY <2>2 DEF d
  <2>4. (o \o z) \o d = o \o (z \o d)
    BY <1>3, <2>3, Assoc
  <2> QED
    BY <2>1, <2>4 DEF d
<1>9. e \o c \in Seq(Tokens)
  BY <1>0, <1>3, Concat DEF X
<1>10. \A w \in Words : Part(s, q, w) = Part(s, r, w) \o (e \o c)
  BY <1>4, <1>5, <1>8, Zenon
<1>11. Grows(s, r, s, q, e \o c, {})
  BY <1>6, <1>7, <1>9, <1>10 DEF Grows
<1> QED
  BY <1>11 DEF q, c, raw

\* A comma behind a child.
LEMMA CommaBehindChildren ==
  ASSUME NEW r \in NodeRecs, Shape("afterChild", r), NEW w \in Words
  PROVE  OpenBracket \o WithComma(ChildList(r.kids, w)) = Part("afterChild", r, w) \o OneComma
<1> DEFINE m == ChildList(r.kids, w) s == Separated(m) o == OpenBracket X == Tokens c == OneComma
<1>1. r.kids \in Seq(Nat) /\ r.kids # <<>>
  BY FieldTypes DEF Shape
<1>2. m # <<>>
  BY <1>1, ChildrenAre
<1>3. s \in Seq(X) /\ o \in Seq(X) /\ c \in Seq(X)
  BY <1>1, ListTypes, MarkTexts, FieldTypes
<1>4. WithComma(m) = s \o c
  BY <1>2 DEF WithComma
<1>5. Part("afterChild", r, w) = o \o s
  BY PartIs
<1> HIDE DEF m, s, o, X, c
<1>6. (o \o s) \o c = o \o (s \o c)
  BY <1>3, Assoc
<1> QED
  BY <1>4, <1>5, <1>6 DEF c, o, m

\* One more child is not written yet.
LEMMA GrowsKid ==
  ASSUME NEW r \in NodeRecs, NEW m \in Nat
  PROVE  LET q == Rec(r.type, r.attrs, Append(r.kids, m), r.raw, r.run)
         IN  /\ Shape("elements", r) => Grows("elements", r, "nextChild", q, <<>>, {m})
             /\ Shape("afterChild", r) => Grows("afterChild", r, "nextChild", q, OneComma, {m})
             /\ Last(q.kids) = m
<1> DEFINE kids == r.kids q == Rec(r.type, r.attrs, Append(kids, m), r.raw, r.run) N == Nat b == Append(kids, m)
<1>1. q.type = r.type /\ q.attrs = r.attrs /\ q.kids = b /\ q.raw = r.raw
  BY DEF Rec
<1>2. kids \in Seq(N) /\ m \in N
  BY FieldTypes
<1> HIDE DEF kids, q, N
<1>3. Front(b) = kids /\ Last(b) = m /\ b # <<>>
  <2>1. \A y \in N : Front(Append(kids, y)) = kids /\ Last(Append(kids, y)) = y /\ Append(kids, y) # <<>>
    BY <1>2, FrontLast
  <2> QED
    BY <1>2, <2>1, Zenon
<1>4. KidRefs(b) = KidRefs(kids) \cup {m}
  BY <1>2, RefsAppend, Zenon DEF N
<1> HIDE DEF b
<1>5. ASSUME NEW w \in Words PROVE Part("nextChild", q, w) = OpenBracket \o WithComma(ChildList(r.kids, w))
  <2>1. Part("nextChild", q, w) = OpenBracket \o WithComma(ChildList(Front(q.kids), w))
    BY PartIs
  <2> QED
    BY <2>1, <1>1, <1>3, Zenon DEF kids
<1>6. /\ Refs(q) = Refs(r) \cup {m}
      /\ PartRefs("nextChild", q) = Refs(r) /\ PartRefs("elements", r) = Refs(r) /\ PartRefs("afterChild", r) = Refs(r)
  <2>1. Refs(q) = Refs(r) \cup {m}
    BY <1>1, <1>4 DEF Refs, kids
  <2>2. PartRefs("nextChild", q) = AttrRefs(q.attrs) \cup KidRefs(Front(q.kids))
    BY RefsAre
  <2>3. PartRefs("elements", r) = Refs(r) /\ PartRefs("afterChild", r) = Refs(r)
    BY RefsAre
  <2> QED
    BY <2>1, <2>2, <2>3, <1>1, <1>3 DEF Refs, kids
<1>7. ASSUME Shape("elements", r)
      PROVE  Grows("elements", r, "nextChild", q, <<>>, {m})
  <2>1. Shape("nextChild", q)
    BY <1>1, <1>3, <1>7 DEF Shape, ListStates
  <2>2. <<>> \in Seq(Tokens)
    OBVIOUS
  <2>3. ASSUME NEW w \in Words
        PROVE  Part("nextChild", q, w) = Part("elements", r, w) \o <<>>
    <3>1. ChildList(r.kids, w) = <<>> /\ r.raw = <<>>
      BY <1>7 DEF Shape, ChildList
    <3>2. Part("elements", r, w) = OpenBracket \o WithComma(r.raw)
      BY PartIs
    <3>3. Part("nextChild", q, w) = Part("elements", r, w)
      BY <3>1, <3>2, <1>5, Zenon
    <3>4. Part("elements", r, w) \in Seq(Tokens)
      BY <1>7, PartType
    <3> QED
      BY <3>3, <3>4, Neutral
  <2> QED
    BY <2>1, <2>2, <2>3, <1>6 DEF Grows
<1>8. ASSUME Shape("afterChild", r)
      PROVE  Grows("afterChild", r, "nextChild", q, OneComma, {m})
  <2>1. Shape("nextChild", q)
    BY <1>1, <1>3, <1>8 DEF Shape, ListStates
  <2>2. \A w \in Words : Part("nextChild", q, w) = Part("afterChild", r, w) \o OneComma
    BY <1>5, <1>8, CommaBehindChildren, Zenon
  <2> QED
    BY <2>1, <2>2, <1>6, MarkTexts DEF Grows
<1>9. Last(q.kids) = m
  BY <1>1, <1>3
<1> QED
  BY <1>7, <1>8, <1>9 DEF q, kids, b

-----------------------------------------------------------------------------
(* A node that is complete *)

\* With x behind it, what was read of r in state s is all of q.
Closes(s, r, q, x) ==
  /\ x \in Seq(Tokens) /\ Refs(q) \subseteq PartRefs(s, r)
  /\ \A w \in Words : Written(q, w) = Part(s, r, w) \o x

\* Records that differ in strings, numbers and the runnable object only.
SameLists(r, q) == q.type = r.type /\ q.attrs = r.attrs /\ q.kids = r.kids

\* The lists written, by type.
LEMMA WrittenIs ==
  ASSUME NEW r, NEW w
  PROVE  /\ r.type # "CONTAINER" => Written(r, w) = (OpenBrace \o Separated(MemberList(r.attrs, w))) \o ShutBrace
         /\ r.type = "CONTAINER" =>
              Written(r, w) = (OpenBracket \o Separated(IF ChildList(r.kids, w) = <<>> THEN r.raw ELSE ChildList(r.kids, w)))
                                \o ShutBracket
BY Zenon DEF Written

\* Objects.
LEMMA ClosesObject ==
  ASSUME NEW r \in NodeRecs, NEW q, SameLists(r, q), NEW s \in {"members", "afterAttr"}, Shape(s, r)
  PROVE  Closes(s, r, q, ShutBrace)
<1>1. r.type # "CONTAINER"
  BY DEF Shape, ListStates
<1>2. Refs(q) = Refs(r) /\ PartRefs(s, r) = Refs(r)
  <2>1. Refs(q) = Refs(r)
    BY DEF Refs, SameLists
  <2> QED
    BY <2>1, RefsAre
<1>3. ASSUME NEW w \in Words PROVE Written(q, w) = Part(s, r, w) \o ShutBrace
  <2>1. Written(q, w) = (OpenBrace \o Separated(MemberList(q.attrs, w))) \o ShutBrace
    BY <1>1, WrittenIs, Zenon DEF SameLists
  <2>2. Part("afterAttr", r, w) = OpenBrace \o Separated(MemberList(r.attrs, w))
    BY PartIs
  <2>3. Part("members", r, w) = OpenBrace \o WithComma(MemberList(r.attrs, w))
    BY PartIs
  <2>4. s = "members" => MemberList(r.attrs, w) = <<>>
    BY DEF Shape, MemberList
  <2> QED
    BY <2>1, <2>2, <2>3, <2>4, NoneSeparated, Zenon DEF SameLists
<1> QED
  BY <1>2, <1>3, MarkTexts DEF Closes

\* Arrays without an element, and those of nodes.
LEMMA ClosesArray ==
  ASSUME NEW r \in NodeRecs, NEW q, SameLists(r, q), q.raw = r.raw, NEW s \in {"elements", "afterChild"}, Shape(s, r)
  PROVE  Closes(s, r, q, ShutBracket)
<1>1. r.type = "CONTAINER"
  BY DEF Shape, ListStates
<1>2. Refs(q) = Refs(r) /\ PartRefs(s, r) = Refs(r)
  <2>1. Refs(q) = Refs(r)
    BY DEF Refs, SameLists
  <2> QED
    BY <2>1, RefsAre
<1>3. ASSUME NEW w \in Words PROVE Written(q, w) = Part(s, r, w) \o ShutBracket
  <2>1. Written(q, w) = (OpenBracket \o Separated(IF ChildList(r.kids, w) = <<>> THEN r.raw ELSE ChildList(r.kids, w)))
                           \o ShutBracket
    BY <1>1, WrittenIs, Zenon DEF SameLists
  <2>2. Part("afterChild", r, w) = OpenBracket \o Separated(ChildList(r.kids, w))
    BY PartIs
  <2>3. Part("elements", r, w) = OpenBracket \o WithComma(r.raw)
    BY PartIs
  <2>4. s = "elements" => ChildList(r.kids, w) = <<>> /\ r.raw = <<>>
    BY DEF Shape, ChildList
  <2>5. s = "afterChild" => ChildList(r.kids, w) # <<>>
    <3> SUFFICES ASSUME s = "afterChild" PROVE ChildList(r.kids, w) # <<>>
      OBVIOUS
    <3>1. r.kids \in Seq(Nat) /\ r.kids # <<>>
      BY FieldTypes DEF Shape
    <3> QED
      BY <3>1, ChildrenAre
  <2> QED
    BY <2>1, <2>2, <2>3, <2>4, <2>5, NoneSeparated, Zenon
<1> QED
  BY <1>2, <1>3, MarkTexts DEF Closes

\* Arrays of strings or numbers.
LEMMA ClosesElements ==
  ASSUME NEW r \in NodeRecs, NEW q, SameLists(r, q), NEW e \in Seq(Tokens), q.raw = Append(r.raw, e),
         NEW s \in {"strings", "numbers"}, Shape(s, r)
  PROVE  Closes(s, r, q, e \o ShutBracket)
<1>1. r.type = "CONTAINER" /\ r.kids = <<>>
  BY DEF Shape, ListStates
<1>2. Refs(q) = Refs(r) /\ PartRefs(s, r) = Refs(r)
  <2>1. Refs(q) = Refs(r)
    BY DEF Refs, SameLists
  <2> QED
    BY <2>1, RefsAre
<1> DEFINE X == Tokens b == ShutBracket o == OpenBracket z == WithComma(r.raw) raw == r.raw
<1>3. z \in Seq(X) /\ b \in Seq(X) /\ o \in Seq(X) /\ e \in Seq(X) /\ raw \in Seq(Seq(X))
  BY FieldTypes, SeparatedType, MarkTexts
<1>4. Separated(Append(raw, e)) = z \o e
  BY <1>3, SeparatedAppend
<1>5. ASSUME NEW w \in Words PROVE Written(q, w) = (o \o (z \o e)) \o b /\ Part(s, r, w) = o \o z
  <2>1. Written(q, w) = (OpenBracket \o Separated(IF ChildList(r.kids, w) = <<>> THEN q.raw ELSE ChildList(r.kids, w)))
                           \o ShutBracket
    BY <1>1, WrittenIs, Zenon DEF SameLists
  <2>2. ChildList(r.kids, w) = <<>>
    BY <1>1 DEF ChildList
  <2>3. Part("strings", r, w) = OpenBracket \o WithComma(r.raw)
    BY PartIs
  <2>4. Part("numbers", r, w) = OpenBracket \o WithComma(r.raw)
    BY PartIs
  <2> HIDE DEF z, raw
  <2> QED
    BY <1>4, <2>1, <2>2, <2>3, <2>4, Zenon DEF z, raw
<1> HIDE DEF X, b, o, z, raw
<1>10. z \in Seq(X) /\ b \in Seq(X) /\ o \in Seq(X) /\ e \in Seq(X)
  BY <1>3
<1>6. (o \o (z \o e)) \o b = (o \o z) \o (e \o b)
  <2>1. (o \o z) \o e = o \o (z \o e)
    BY <1>10, Assoc
  <2> DEFINE d == o \o z
  <2>2. d \in Seq(X)
    BY <1>3, Concat
  <2> HIDE DEF d
  <2>3. (d \o e) \o b = d \o (e \o b)
    BY <1>10, <2>2, Assoc, SMTT(30)
  <2> QED
    BY <2>1, <2>3 DEF d
<1>7. e \o b \in Seq(Tokens)
  BY <1>3, Concat DEF X
<1>8. \A w \in Words : Written(q, w) = Part(s, r, w) \o (e \o b)
  BY <1>5, <1>6, Zenon
<1>9. Closes(s, r, q, e \o b)
  BY <1>2, <1>7, <1>8 DEF Closes
<1> QED
  BY <1>9 DEF b

\* How a frame waits, and for which node.
Back(s) == IF s = "afterAttr" THEN "attrValue" ELSE "nextChild"
Awaited(s, r) == IF s = "afterAttr" THEN Last(r.attrs).node ELSE Last(r.kids)

\* When the node is there, it has been read as well.
LEMMA Resumes ==
  ASSUME NEW r \in NodeRecs, NEW s \in {"afterAttr", "afterChild"}, Shape(Back(s), r), Awaited(s, r) # 0
  PROVE  /\ Shape(s, r)
         /\ PartRefs(s, r) = PartRefs(Back(s), r) \cup {Awaited(s, r)}
         /\ \A w \in Words : Part(s, r, w) = Part(Back(s), r, w) \o w[Awaited(s, r)]
<1>0. r.attrs \in Seq(AttrRecs) /\ r.kids \in Seq(Nat)
  BY FieldTypes
<1>1. CASE s = "afterAttr"
  <2> DEFINE list == r.attrs f == Front(list) a == Last(list)
  <2>1. Back(s) = "attrValue" /\ Awaited(s, r) = a.node /\ a.node # 0
    BY <1>1 DEF Back, Awaited
  <2>2. list \in Seq(AttrRecs) /\ list # <<>>
    BY <1>0, <2>1 DEF Shape
  <2>3. Shape(s, r)
    BY <1>1, <2>1 DEF Shape, ListStates
  <2>4. PartRefs(s, r) = PartRefs(Back(s), r) \cup {a.node}
    <3>1. PartRefs("afterAttr", r) = AttrRefs(list) \cup KidRefs(r.kids)
      BY RefsAre DEF Refs
    <3>2. PartRefs("attrValue", r) = AttrRefs(f) \cup KidRefs(r.kids)
      BY RefsAre
    <3>3. AttrRefs(list) = AttrRefs(f) \cup {a.node}
      BY <2>1, <2>2, FrontRefs
    <3> QED
      BY <1>1, <2>1, <3>1, <3>2, <3>3
  <2>5. ASSUME NEW w \in Words PROVE Part(s, r, w) = Part(Back(s), r, w) \o w[a.node]
    <3>1. f \in Seq(AttrRecs) /\ a \in AttrRecs /\ list = Append(f, a)
      BY <2>2, FrontLast
    <3>2. Part("afterAttr", r, w) = OpenBrace \o Separated(MemberList(list, w))
      BY PartIs
    <3>3. Part("attrValue", r, w) = ((OpenBrace \o WithComma(MemberList(f, w))) \o <<a.name>>) \o OneColon
      BY PartIs
    <3> HIDE DEF f, a, list
    <3>4. OpenBrace \o Separated(MemberList(Append(f, a), w))
           = (((OpenBrace \o WithComma(MemberList(f, w))) \o <<a.name>>) \o OneColon)
               \o (IF a.node = 0 THEN a.value ELSE w[a.node])
      BY <3>1, LastMember
    <3> QED
      BY <1>1, <2>1, <3>1, <3>2, <3>3, <3>4, Zenon
  <2> QED
    BY <2>1, <2>3, <2>4, <2>5
<1>2. CASE s = "afterChild"
  <2> DEFINE list == r.kids f == Front(list) n == Last(list)
  <2>1. Back(s) = "nextChild" /\ Awaited(s, r) = n
    BY <1>2 DEF Back, Awaited
  <2>2. list \in Seq(Nat) /\ list # <<>>
    BY <1>0, <2>1 DEF Shape
  <2>3. Shape(s, r)
    BY <1>2, <2>1 DEF Shape, ListStates
  <2>4. PartRefs(s, r) = PartRefs(Back(s), r) \cup {n}
    <3>1. PartRefs("afterChild", r) = AttrRefs(r.attrs) \cup KidRefs(list)
      BY RefsAre DEF Refs
    <3>2. PartRefs("nextChild", r) = AttrRefs(r.attrs) \cup KidRefs(f)
      BY RefsAre
    <3>3. KidRefs(list) = KidRefs(f) \cup {n}
      BY <2>2, FrontKids
    <3> QED
      BY <1>2, <2>1, <3>1, <3>2, <3>3
  <2>5. ASSUME NEW w \in Words PROVE Part(s, r, w) = Part(Back(s), r, w) \o w[n]
    <3> DEFINE X == Nat
    <3>0. list \in Seq(X)
      BY <2>2
    <3> HIDE DEF X
    <3>1. f \in Seq(X) /\ n \in X /\ list = Append(f, n)
      BY <2>2, <3>0, FrontLast
    <3>2. Part("afterChild", r, w) = OpenBracket \o Separated(ChildList(list, w))
      BY PartIs
    <3>3. Part("nextChild", r, w) = OpenBracket \o WithComma(ChildList(f, w))
      BY PartIs
    <3> HIDE DEF f, n, list
    <3>4. OpenBracket \o Separated(ChildList(Append(f, n), w))
           = (OpenBracket \o WithComma(ChildList(f, w))) \o w[n]
      BY <3>1, LastChild DEF X
    <3> QED
      BY <1>2, <2>1, <3>1, <3>2, <3>3, <3>4, Zenon
  <2> QED
    BY <2>1, <2>3, <2>4, <2>5
<1> QED
  BY <1>1, <1>2

-----------------------------------------------------------------------------
(* What is read of the text *)

\* Two stretches of a sequence, one behind the other, are a stretch.
LEMMA Stretches ==
  ASSUME NEW X, NEW t \in Seq(X), NEW a \in Nat \ {0}, NEW b \in Nat \ {0}, NEW c \in Nat \ {0},
         a <= b, b <= c, c <= Len(t) + 1
  PROVE  /\ SubSeq(t, a, b - 1) \in Seq(X) /\ SubSeq(t, b, c - 1) \in Seq(X)
         /\ SubSeq(t, a, b - 1) \o SubSeq(t, b, c - 1) = SubSeq(t, a, c - 1)
<1> DEFINE p == SubSeq(t, a, b - 1) q == SubSeq(t, b, c - 1) r == SubSeq(t, a, c - 1) s == p \o q
<1>0. Len(t) \in Nat
  OBVIOUS
<1>1. p \in Seq(X) /\ Len(p) = b - a /\ \A i \in 1 .. b - a : p[i] = t[a + i - 1]
  BY <1>0
<1>2. q \in Seq(X) /\ Len(q) = c - b /\ \A i \in 1 .. c - b : q[i] = t[b + i - 1]
  BY <1>0
<1>3. r \in Seq(X) /\ Len(r) = c - a /\ \A i \in 1 .. c - a : r[i] = t[a + i - 1]
  BY <1>0
<1> HIDE DEF p, q, r
<1>4. s \in Seq(X) /\ Len(s) = (b - a) + (c - b) /\ (\A i \in 1 .. b - a : s[i] = p[i])
      /\ \A i \in 1 .. c - b : s[(b - a) + i] = q[i]
  <2>1. p \in Seq(X) /\ q \in Seq(X)
    BY <1>1, <1>2
  <2>2. s \in Seq(X) /\ Len(s) = Len(p) + Len(q) /\ (\A i \in 1 .. Len(p) : s[i] = p[i])
        /\ \A i \in 1 .. Len(q) : s[Len(p) + i] = q[i]
    BY <2>1, Concat
  <2> HIDE DEF s
  <2> QED
    BY <1>1, <1>2, <2>2, Zenon
<1> HIDE DEF s
<1>5. Len(s) = Len(r)
  BY <1>3, <1>4
<1>6. ASSUME NEW i \in 1 .. c - a PROVE s[i] = r[i]
  <2>1. CASE i <= b - a
    <3>1. i \in 1 .. b - a
      BY <2>1
    <3> QED
      BY <1>1, <1>3, <1>4, <3>1
  <2>2. CASE i > b - a
    <3> DEFINE j == i - (b - a)
    <3>1. j \in 1 .. c - b /\ (b - a) + j = i /\ b + j - 1 = a + i - 1
      BY <2>2
    <3> HIDE DEF j
    <3>2. s[i] = q[j] /\ q[j] = t[b + j - 1]
      BY <1>2, <1>4, <3>1
    <3> QED
      BY <1>3, <3>1, <3>2
  <2> QED
    BY <2>1, <2>2
<1>7. s = r
  BY <1>3, <1>4, <1>5, <1>6
<1> QED
  BY <1>1, <1>2, <1>7 DEF p, q, r, s

\* A stretch of one.
LEMMA StretchOfOne ==
  ASSUME NEW X, NEW t \in Seq(X), NEW b \in Nat \ {0}, b <= Len(t)
  PROVE  SubSeq(t, b, b) = <<t[b]>> /\ SubSeq(t, b, b - 1) = <<>>
<1>1. SubSeq(t, b, b) = <<t[b]>>
  <2> DEFINE q == SubSeq(t, b, b)
  <2>1. q \in Seq(X) /\ Len(q) = 1 /\ q[1] = t[b]
    OBVIOUS
  <2> HIDE DEF q
  <2>2. q = <<t[b]>>
    BY <2>1
  <2> QED
    BY <2>2 DEF q
<1>2. SubSeq(t, b, b - 1) = <<>>
  OBVIOUS
<1> QED
  BY <1>1, <1>2

\* x is what is in the text from the parser's place to p.
ReadTo(x, p) ==
  /\ p \in Nat \ {0} /\ pos <= p /\ p <= Len(text) + 1
  /\ x = SubSeq(text, pos, p - 1) /\ x \in Seq(Tokens)

\* Nothing is read.
LEMMA ReadNone ==
  ASSUME TreeTypeOK, pos <= Len(text)
  PROVE  ReadTo(<<>>, pos)
<1> DEFINE X == Tokens
<1>1. text \in Seq(X) /\ pos \in Nat \ {0} /\ Len(text) \in Nat
  BY DEF TreeTypeOK
<1>2. <<>> \in Seq(X)
  OBVIOUS
<1> HIDE DEF X
<1>3. SubSeq(text, pos, pos - 1) = <<>>
  BY <1>1, StretchOfOne
<1>4. pos <= Len(text) + 1 /\ pos <= pos
  BY <1>1
<1> QED
  BY <1>1, <1>2, <1>3, <1>4 DEF ReadTo, X

\* One token more.
LEMMA ReadOne ==
  ASSUME TreeTypeOK, NEW x, NEW p, ReadTo(x, p), p <= Len(text)
  PROVE  ReadTo(x \o <<text[p]>>, p + 1) /\ (pos = p => ReadTo(<<text[p]>>, p + 1))
<1> DEFINE X == Tokens q == p + 1 t == text n == Len(text) y == SubSeq(t, p, p) z == SubSeq(t, pos, p)
<1>1. t \in Seq(X) /\ pos \in Nat \ {0} /\ n \in Nat /\ n = Len(t)
  BY DEF TreeTypeOK
<1>2. p \in Nat \ {0} /\ pos <= p /\ x = SubSeq(t, pos, p - 1)
  BY DEF ReadTo
<1>3. q \in Nat \ {0} /\ p <= q /\ q <= n + 1 /\ q - 1 = p /\ pos <= q
  BY <1>1, <1>2
<1> HIDE DEF X, q, t
<1>4. SubSeq(t, p, q - 1) = <<t[p]>>
  BY <1>1, <1>2, <1>3, StretchOfOne DEF n, t
<1>5. /\ SubSeq(t, pos, p - 1) \o SubSeq(t, p, q - 1) = SubSeq(t, pos, q - 1)
      /\ SubSeq(t, p, q - 1) \in Seq(X)
  BY <1>1, <1>2, <1>3, Stretches
<1>6. SubSeq(t, pos, q - 1) \in Seq(X)
  BY <1>1, <1>2, <1>3, Stretches
<1>7. ReadTo(x \o <<text[p]>>, q)
  BY <1>2, <1>3, <1>4, <1>5, <1>6 DEF ReadTo, X, t, n
<1>8. pos = p => ReadTo(<<text[p]>>, q)
  BY <1>2, <1>3, <1>4, <1>5, <1>6 DEF ReadTo, X, t, n
<1>9. pos = p \/ pos < p
  BY <1>1, <1>2
<1> QED
  BY <1>7, <1>8, <1>9 DEF q

\* What was read before, and this, is what was read.
LEMMA ReadOn ==
  ASSUME TreeTypeOK, NEW x, NEW p, ReadTo(x, p)
  PROVE  SubSeq(text, 1, pos - 1) \o x = SubSeq(text, 1, p - 1) /\ SubSeq(text, 1, pos - 1) \in Seq(Tokens)
<1> DEFINE X == Tokens
<1>1. text \in Seq(X) /\ pos \in Nat \ {0} /\ 1 \in Nat \ {0} /\ 1 <= pos
  BY DEF TreeTypeOK
<1>2. p \in Nat \ {0} /\ pos <= p /\ x = SubSeq(text, pos, p - 1) /\ p <= Len(text) + 1
  BY DEF ReadTo
<1> HIDE DEF X
<1>3. /\ SubSeq(text, 1, pos - 1) \o SubSeq(text, pos, p - 1) = SubSeq(text, 1, p - 1)
      /\ SubSeq(text, 1, pos - 1) \in Seq(X)
  BY <1>1, <1>2, Stretches
<1> QED
  BY <1>2, <1>3 DEF X

\* A token that is seen is in the text.
LEMMA Seen ==
  ASSUME TreeTypeOK, NEW p \in Nat \ {0}, NEW c, Char(p) = c, c \in Tokens
  PROVE  p <= Len(text) /\ text[p] = c
<1>1. Char(p) # Nul
  BY MarksSeen
<1> QED
  BY <1>1, Zenon DEF Char

\* An element of a list, up to a comma or a bracket.
LEMMA ReadElement ==
  ASSUME TreeTypeOK, EndOfElement # 0
  PROVE  /\ ReadTo(SubSeq(text, pos, EndOfElement - 1), EndOfElement)
         /\ ReadTo(SubSeq(text, pos, EndOfElement - 1) \o <<text[EndOfElement]>>, EndOfElement + 1)
<1> DEFINE e == EndOfElement x == SubSeq(text, pos, e - 1)
<1>1. e \in pos + 1 .. size /\ e \in Nat \ {0} /\ x \in Seq(Tokens)
  BY EndOfElementIs, Zenon
<1>2. pos \in Nat \ {0} /\ size \in Nat /\ size <= Len(text) /\ Len(text) \in Nat
  BY TextIs DEF TreeTypeOK
<1> HIDE DEF e
<1>3. pos <= e /\ e <= Len(text) /\ e <= Len(text) + 1
  BY <1>1, <1>2
<1>4. ReadTo(x, e)
  BY <1>1, <1>3 DEF ReadTo
<1> HIDE DEF x
<1>5. ReadTo(x \o <<text[e]>>, e + 1)
  BY <1>3, <1>4, ReadOne
<1> QED
  BY <1>4, <1>5 DEF e, x

\* A number as a value.
LEMMA ReadNumber ==
  ASSUME TreeTypeOK, EndOfNumber # 0
  PROVE  ReadTo(SubSeq(text, pos, EndOfNumber - 1), EndOfNumber)
<1> DEFINE e == EndOfNumber x == SubSeq(text, pos, e - 1)
<1>1. e \in pos .. size /\ e \in Nat \ {0} /\ x \in Seq(Tokens)
  BY EndOfNumberIs, Zenon
<1>2. pos \in Nat \ {0} /\ size \in Nat /\ size <= Len(text) /\ Len(text) \in Nat
  BY TextIs DEF TreeTypeOK
<1> HIDE DEF e
<1>3. pos <= e /\ e <= Len(text) /\ e <= Len(text) + 1
  BY <1>1, <1>2
<1>4. ReadTo(x, e)
  BY <1>1, <1>3 DEF ReadTo
<1> QED
  BY <1>4 DEF e

-----------------------------------------------------------------------------
(* What the parser's steps read *)

\* The nodes as they are.
LEMMA SameNodes ==
  ASSUME TreeTypeOK
  PROVE  Changed(nodes, Now)
BY DEF Changed, Now, TreeTypeOK

\* Where the parser stands in the text.
LEMMA Standing ==
  ASSUME TreeInv, verdict = "parsing"
  PROVE  /\ pos \in Nat \ {0} /\ size \in Nat /\ size <= Len(text) /\ pos + 1 \in Nat \ {0} /\ pos + 2 \in Nat \ {0}
         /\ Top.at \notin {"strings", "afterAttr", "afterChild"} => pos <= Len(text) /\ text[pos] \in Tokens
         /\ Top.at = "strings" => pos <= Len(text) /\ text[pos] \in Strings
         /\ pos < size => pos <= Len(text)
<1>1. pos \in Nat \ {0} /\ size \in Nat /\ size <= Len(text) /\ Len(text) \in Nat
  BY TextIs DEF TreeInv, TreeTypeOK
<1>2. pos <= size => pos <= Len(text) /\ text[pos] \in Tokens
  BY <1>1, TextIs DEF TreeInv
<1>3. Top.at \notin {"strings", "afterAttr", "afterChild"} => pos <= size
  BY Zenon DEF TreeInv, Placed
<1>4. Top.at = "strings" => pos <= Len(text) /\ text[pos] \in Strings
  BY Zenon DEF TreeInv, Placed
<1>5. pos < size => pos <= Len(text)
  BY <1>1
<1>6. pos + 1 \in Nat \ {0} /\ pos + 2 \in Nat \ {0}
  BY <1>1
<1> QED
  BY <1>1, <1>2, <1>3, <1>4, <1>5, <1>6

\* One token more.
LEMMA ReadHere ==
  ASSUME TreeTypeOK, pos <= Len(text)
  PROVE  ReadTo(<<>>, pos) /\ ReadTo(<<text[pos]>>, pos + 1)
BY ReadNone, ReadOne

\* Two of them.
LEMMA ReadTwo ==
  ASSUME TreeTypeOK, pos <= Len(text), NEW c \in Tokens, Char(pos + 1) = c
  PROVE  ReadTo(<<text[pos]>> \o <<c>>, pos + 2)
<1> DEFINE p == pos + 1
<1>1. p \in Nat \ {0} /\ p + 1 = pos + 2
  BY DEF TreeTypeOK
<1>2. ReadTo(<<text[pos]>>, p)
  BY ReadHere
<1> HIDE DEF p
<1>3. Char(p) = c
  BY DEF p
<1>4. p <= Len(text) /\ text[p] = c
  BY <1>1, <1>3, Seen
<1>5. ReadTo(<<text[pos]>> \o <<text[p]>>, p + 1)
  BY <1>2, <1>4, ReadOne
<1> QED
  BY <1>1, <1>4, <1>5

\* A step in the node on top, to state t, after which its record is q.
Reads(t, q, x) ==
  GoesOn(t, pos') /\ Changed(nodes', q) /\ Grows(Top.at, Now, t, q, x, {}) /\ ReadTo(x, pos')

\* Steps in an object.
LEMMA ObjectReads ==
  ASSUME TreeInv, verdict = "parsing", Shape(Top.at, Now), Onward, Top.at \in {"value", "members", "name", "colon"}
  PROVE  \E t, q, x : Reads(t, q, x)
<1>0. TreeTypeOK /\ Now \in NodeRecs /\ pos <= Len(text) /\ text[pos] \in Tokens
  BY TopIs, Standing DEF TreeInv
<1>1. ReadTo(<<>>, pos) /\ ReadTo(<<text[pos]>>, pos + 1) /\ Changed(nodes, Now)
  BY <1>0, ReadHere, SameNodes
<1>2. CASE At("value") /\ text[pos] = "{" /\ nodes' = nodes /\ GoesOn("members", pos + 1)
  <2>1. Top.at = "value"
    BY <1>2, Zenon DEF At
  <2>2. <<text[pos]>> = OpenBrace
    BY <1>2, Zenon DEF OpenBrace
  <2>3. Grows(Top.at, Now, "members", Now, <<text[pos]>>, {})
    BY <1>0, <2>1, <2>2, GrowsOpen
  <2>4. nodes' = nodes /\ GoesOn("members", pos + 1) /\ pos' = pos + 1
    BY <1>2, Zenon DEF GoesOn
  <2>5. Reads("members", Now, <<text[pos]>>)
    BY <1>1, <2>3, <2>4 DEF Reads
  <2> QED
    BY <2>5
<1>3. CASE /\ At("value") /\ text[pos] = "[" /\ GoesOn("elements", pos + 1)
           /\ nodes' = [nodes EXCEPT ![Top.node].type = "CONTAINER"]
  <2> DEFINE q == Rec("CONTAINER", Now.attrs, Now.kids, Now.raw, Now.run)
  <2>1. Top.at = "value"
    BY <1>3, Zenon DEF At
  <2>2. <<text[pos]>> = OpenBracket
    BY <1>3, Zenon DEF OpenBracket
  <2>3. Grows(Top.at, Now, "elements", q, <<text[pos]>>, {})
    BY <1>0, <2>1, <2>2, GrowsOpen
  <2>4. nodes' = [nodes EXCEPT ![Top.node].type = "CONTAINER"] /\ GoesOn("elements", pos + 1) /\ pos' = pos + 1
    BY <1>3, Zenon DEF GoesOn
  <2>6. "CONTAINER" \in NodeTypes
    BY DEF NodeTypes
  <2>7. Changed(nodes', q)
    BY <1>0, <2>4, <2>6, Updates
  <2> HIDE DEF q
  <2>5. Reads("elements", q, <<text[pos]>>)
    BY <1>1, <2>3, <2>4, <2>7 DEF Reads
  <2> QED
    BY <2>5
<1>4. CASE At("members") /\ text[pos] \in Strings /\ nodes' = nodes /\ GoesOn("name", pos)
  <2>1. Grows(Top.at, Now, "name", Now, <<>>, {})
    BY <1>0, <1>4, GrowsNothing DEF At
  <2>2. pos' = pos
    BY <1>4 DEF GoesOn
  <2>5. Reads("name", Now, <<>>)
    BY <1>1, <1>4, <2>1, <2>2 DEF Reads
  <2> QED
    BY <2>5
<1>5. CASE /\ At("name") /\ text[pos] # Empty /\ GoesOn("colon", pos + 1)
           /\ nodes' = [nodes EXCEPT ![Top.node].attrs =
                    Append(@, [name |-> text[pos], value |-> <<>>, node |-> 0])]
  <2> DEFINE q == Rec(Now.type, Append(Now.attrs, NewAttr(text[pos])), Now.kids, Now.raw, Now.run)
  <2>1. Top.at = "name" /\ text[pos] \in Strings
    BY <1>5, Zenon DEF At, TreeInv, Placed
  <2>2. Changed(nodes', q)
    BY <1>0, <1>5, <2>1, NameNodes DEF TreeInv
  <2>3. Grows(Top.at, Now, "colon", q, <<text[pos]>>, {})
    BY <1>0, <2>1, GrowsName
  <2> HIDE DEF q
  <2>4. pos' = pos + 1
    BY <1>5 DEF GoesOn
  <2>5. Reads("colon", q, <<text[pos]>>)
    BY <1>1, <1>5, <2>2, <2>3, <2>4 DEF Reads
  <2> QED
    BY <2>5
<1>6. CASE At("colon") /\ text[pos] = ":" /\ nodes' = nodes /\ GoesOn("attrValue", pos + 1)
  <2>1. Top.at = "colon"
    BY <1>6, Zenon DEF At
  <2>2. <<text[pos]>> = OneColon
    BY <1>6, Zenon DEF OneColon
  <2>3. Grows(Top.at, Now, "attrValue", Now, <<text[pos]>>, {})
    BY <1>0, <2>1, <2>2, GrowsColon
  <2>4. nodes' = nodes /\ GoesOn("attrValue", pos + 1) /\ pos' = pos + 1
    BY <1>6, Zenon DEF GoesOn
  <2>5. Reads("attrValue", Now, <<text[pos]>>)
    BY <1>1, <2>3, <2>4 DEF Reads
  <2> QED
    BY <2>5
<1> QED
  <2>1. /\ "value" \notin {"attrValue", "afterAttr", "elements", "strings", "numbers"}
        /\ "members" \notin {"attrValue", "afterAttr", "elements", "strings", "numbers"}
        /\ "name" \notin {"attrValue", "afterAttr", "elements", "strings", "numbers"}
        /\ "colon" \notin {"attrValue", "afterAttr", "elements", "strings", "numbers"}
    OBVIOUS
  <2> QED
    BY <1>2, <1>3, <1>4, <1>5, <1>6, <2>1, ZenonT(60) DEF Onward, At

\* Values of attributes, and the comma behind one.
LEMMA ValueReads ==
  ASSUME TreeInv, verdict = "parsing", Shape(Top.at, Now), Onward, Top.at \in {"attrValue", "afterAttr"}
  PROVE  \E t, q, x : Reads(t, q, x)
<1>0. TreeTypeOK /\ Now \in NodeRecs
  BY TopIs DEF TreeInv
<1>2. CASE /\ At("attrValue") /\ text[pos] \in Strings
           /\ nodes' = SetValue(<<text[pos]>>, 0) /\ GoesOn("afterAttr", pos + 1)
  <2> DEFINE x == <<text[pos]>> q == Rec(Now.type, Assigned(Now.attrs, x, 0), Now.kids, Now.raw, Now.run)
  <2>1. Top.at = "attrValue" /\ pos <= Len(text) /\ Now.attrs # <<>>
    BY <1>2, Standing DEF At, Shape
  <2>2. ReadTo(x, pos + 1)
    BY <1>0, <2>1, ReadHere
  <2>3. x \in Seq(Tokens)
    BY <2>2 DEF ReadTo
  <2> HIDE DEF x
  <2>4. Changed(SetValue(x, 0), q)
    <3>1. 0 \in Nat
      OBVIOUS
    <3> QED
      BY <1>0, <2>1, <2>3, <3>1, SetValueIs
  <2>5. Grows(Top.at, Now, "afterAttr", q, x, {})
    BY <1>0, <2>1, <2>3, GrowsValue
  <2> HIDE DEF q
  <2>6. pos' = pos + 1 /\ nodes' = SetValue(x, 0)
    BY <1>2 DEF GoesOn, x
  <2>7. Reads("afterAttr", q, x)
    BY <1>2, <2>2, <2>4, <2>5, <2>6 DEF Reads
  <2> QED
    BY <2>7
<1>3. CASE /\ At("attrValue") /\ EndOfNumber # 0
           /\ nodes' = SetValue(SubSeq(text, pos, EndOfNumber - 1), 0)
           /\ GoesOn("afterAttr", EndOfNumber)
  <2> DEFINE x == SubSeq(text, pos, EndOfNumber - 1)
             q == Rec(Now.type, Assigned(Now.attrs, x, 0), Now.kids, Now.raw, Now.run)
  <2>1. Top.at = "attrValue" /\ Now.attrs # <<>>
    BY <1>3 DEF At, Shape
  <2>2. ReadTo(x, EndOfNumber)
    BY <1>0, <1>3, ReadNumber
  <2>3. x \in Seq(Tokens)
    BY <2>2 DEF ReadTo
  <2>6. pos' = EndOfNumber /\ nodes' = SetValue(x, 0)
    BY <1>3 DEF GoesOn
  <2> HIDE DEF x
  <2>4. Changed(SetValue(x, 0), q)
    <3>1. 0 \in Nat
      OBVIOUS
    <3> QED
      BY <1>0, <2>1, <2>3, <3>1, SetValueIs
  <2>5. Grows(Top.at, Now, "afterAttr", q, x, {})
    BY <1>0, <2>1, <2>3, GrowsValue
  <2> HIDE DEF q
  <2>7. Reads("afterAttr", q, x)
    BY <1>3, <2>2, <2>4, <2>5, <2>6 DEF Reads
  <2> QED
    BY <2>7
<1>4. CASE At("afterAttr") /\ MoreAttrs /\ pos < size /\ nodes' = nodes /\ GoesOn("name", pos + 1)
  <2>1. Top.at = "afterAttr"
    BY <1>4, Zenon DEF At
  <2>2. pos \in Nat \ {0} /\ pos <= Len(text)
    BY <1>4, Standing
  <2>3. <<text[pos]>> = OneComma
    <3>1. Char(pos) = "," /\ "," \in Tokens
      BY <1>4, Marks, Zenon DEF MoreAttrs
    <3>2. text[pos] = ","
      BY <1>0, <2>2, <3>1, Seen, Zenon
    <3> QED
      BY <3>2, Zenon DEF OneComma
  <2>4. Grows(Top.at, Now, "name", Now, <<text[pos]>>, {})
    BY <1>0, <2>1, <2>3, GrowsComma
  <2>5. pos' = pos + 1 /\ nodes' = nodes /\ GoesOn("name", pos + 1)
    BY <1>4, Zenon DEF GoesOn
  <2>6. ReadTo(<<text[pos]>>, pos + 1) /\ Changed(nodes, Now)
    BY <1>0, <2>2, ReadHere, SameNodes
  <2>7. Reads("name", Now, <<text[pos]>>)
    BY <2>4, <2>5, <2>6 DEF Reads
  <2> QED
    BY <2>7
<1> QED
  <2>1. /\ "attrValue" \notin {"value", "members", "name", "colon", "elements", "strings", "numbers"}
        /\ "afterAttr" \notin {"value", "members", "name", "colon", "elements", "strings", "numbers"}
    OBVIOUS
  <2> QED
    BY <1>2, <1>3, <1>4, <2>1, ZenonT(60) DEF Onward, At

\* Steps in an array.
LEMMA ArrayReads ==
  ASSUME TreeInv, verdict = "parsing", Shape(Top.at, Now), Onward, Top.at \in {"elements", "strings", "numbers"}
  PROVE  \E t, q, x : Reads(t, q, x)
<1>0. TreeTypeOK /\ Now \in NodeRecs
  BY TopIs DEF TreeInv
<1>c. "," \in Tokens
  BY Marks, Zenon
<1>1. CASE /\ At("elements") /\ nodes' = nodes
           /\ GoesOn("strings", pos) \/ GoesOn("numbers", pos)
  <2>1. Top.at = "elements" /\ pos <= Len(text)
    BY <1>1, Standing DEF At
  <2>2. Grows(Top.at, Now, "strings", Now, <<>>, {}) /\ Grows(Top.at, Now, "numbers", Now, <<>>, {})
    BY <1>0, <2>1, GrowsNothing
  <2>3. ReadTo(<<>>, pos) /\ Changed(nodes, Now) /\ pos' = pos
    BY <1>0, <1>1, <2>1, ReadHere, SameNodes DEF GoesOn
  <2>4. Reads("strings", Now, <<>>) \/ Reads("numbers", Now, <<>>)
    BY <1>1, <2>2, <2>3 DEF Reads
  <2> QED
    BY <2>4
<1>2. CASE /\ At("strings") /\ Char(pos + 1) = ","
           /\ nodes' = AddArrayElement(<<text[pos]>>) /\ GoesOn("strings", pos + 2)
  <2> DEFINE e == <<text[pos]>> q == Rec(Now.type, Now.attrs, Now.kids, Append(Now.raw, e), Now.run)
  <2>1. Top.at = "strings"
    BY <1>2, Zenon DEF At
  <2>2. pos <= Len(text)
    BY <2>1, Standing
  <2>3. e \in Seq(Tokens)
    BY <1>0, <2>2, ReadHere DEF ReadTo
  <2>4. Grows(Top.at, Now, "strings", q, e \o OneComma, {})
    BY <1>0, <2>1, <2>3, GrowsElement
  <2>5. Changed(AddArrayElement(e), q)
    BY <1>0, <2>3, AddArrayElementIs
  <2>6. ReadTo(e \o OneComma, pos + 2)
    BY <1>0, <1>2, <1>c, <2>2, ReadTwo, Zenon DEF OneComma
  <2>7. pos' = pos + 2 /\ nodes' = AddArrayElement(e) /\ GoesOn("strings", pos + 2)
    BY <1>2, Zenon DEF GoesOn
  <2> HIDE DEF e, q
  <2>8. Reads("strings", q, e \o OneComma)
    BY <2>4, <2>5, <2>6, <2>7 DEF Reads
  <2> QED
    BY <2>8
<1>3. CASE /\ At("numbers") /\ EndOfElement # 0 /\ text[EndOfElement] = ","
           /\ nodes' = MoreRaw /\ GoesOn("numbers", EndOfElement + 1)
  <2> DEFINE e == SubSeq(text, pos, EndOfElement - 1)
             q == Rec(Now.type, Now.attrs, Now.kids, Append(Now.raw, e), Now.run)
  <2>1. Top.at = "numbers"
    BY <1>3, Zenon DEF At
  <2>n. EndOfElement # 0
    BY <1>3, Zenon
  <2>2. ReadTo(e, EndOfElement) /\ ReadTo(e \o <<text[EndOfElement]>>, EndOfElement + 1)
    BY <1>0, <2>n, ReadElement
  <2>3. e \in Seq(Tokens)
    BY <2>2 DEF ReadTo
  <2>7. pos' = EndOfElement + 1 /\ nodes' = AddArrayElement(e) /\ GoesOn("numbers", EndOfElement + 1)
    BY <1>3, Zenon DEF GoesOn, MoreRaw
  <2>6. ReadTo(e \o OneComma, EndOfElement + 1)
    BY <1>3, <2>2, Zenon DEF OneComma
  <2> HIDE DEF e
  <2>4. Grows(Top.at, Now, "numbers", q, e \o OneComma, {})
    BY <1>0, <2>1, <2>3, GrowsElement
  <2>5. Changed(AddArrayElement(e), q)
    BY <1>0, <2>3, AddArrayElementIs
  <2> HIDE DEF q
  <2>8. Reads("numbers", q, e \o OneComma)
    BY <2>4, <2>5, <2>6, <2>7 DEF Reads
  <2> QED
    BY <2>8
<1> QED
  <2>1. /\ "elements" \notin {"value", "members", "name", "colon", "attrValue", "afterAttr"}
        /\ "strings" \notin {"value", "members", "name", "colon", "attrValue", "afterAttr"}
        /\ "numbers" \notin {"value", "members", "name", "colon", "attrValue", "afterAttr"}
    OBVIOUS
  <2> QED
    BY <1>1, <1>2, <1>3, <2>1, ZenonT(60) DEF Onward, At

\* A step in the node on top reads what it adds to it.
LEMMA OnwardReads ==
  ASSUME TreeInv, verdict = "parsing", Shape(Top.at, Now), Onward
  PROVE  \E t, q, x : Reads(t, q, x)
<1>1. Top.at \in States \ {"afterChild"}
  BY ZenonT(60) DEF Onward, At, States
<1> QED
  BY <1>1, ObjectReads, ValueReads, ArrayReads, Zenon DEF States

\* A step into a new node, which is the last one its parent refers to.
Descends(s, p, type, under, q, x) ==
  /\ s \in {"afterAttr", "afterChild"} /\ type \in NodeTypes \ {"CONTAINER"}
  /\ Enters(s, p, type, under) /\ Changed(under, q) /\ ReadTo(x, p)
  /\ Grows(Top.at, Now, Back(s), q, x, {Len(nodes) + 1}) /\ Awaited(s, q) = Len(nodes) + 1

\* Every step into a node is such a one.
LEMMA InwardReads ==
  ASSUME TreeInv, verdict = "parsing", Shape(Top.at, Now), Inward
  PROVE  \E s, p, type, under, q, x : Descends(s, p, type, under, q, x)
<1>0. TreeTypeOK /\ Now \in NodeRecs
  BY TopIs DEF TreeInv
<1>b. Back("afterAttr") = "attrValue" /\ Back("afterChild") = "nextChild"
  BY DEF Back
<1> DEFINE m == Len(nodes) + 1
<1>m. m \in Nat
  BY <1>0 DEF TreeTypeOK
<1>1. CASE At("attrValue") /\ Enters("afterAttr", pos, Type, SetValue(<<>>, m))
  <2> DEFINE v == <<>> q == Rec(Now.type, Assigned(Now.attrs, v, m), Now.kids, Now.raw, Now.run)
             under == SetValue(v, m)
  <2>1. Top.at = "attrValue" /\ pos <= Len(text) /\ Now.attrs # <<>>
    BY <1>1, Standing DEF At, Shape
  <2>2. ReadTo(<<>>, pos)
    BY <1>0, <2>1, ReadHere
  <2>3. v \in Seq(Tokens)
    OBVIOUS
  <2>4. Grows(Top.at, Now, "attrValue", q, <<>>, {m}) /\ Last(q.attrs).node = m
    BY <1>0, <1>m, <2>1, GrowsChild
  <2>5. Type \in NodeTypes \ {"CONTAINER"}
    BY DEF Type, getNodeType, NodeTypes, RunnableKinds
  <2> HIDE DEF v, m
  <2>6. Changed(under, q)
    BY <1>0, <1>m, <2>1, <2>3, SetValueIs
  <2>7. Enters("afterAttr", pos, Type, under)
    BY <1>1 DEF v, m
  <2> HIDE DEF q, under
  <2>8. Awaited("afterAttr", q) = m
    BY <2>4 DEF Awaited
  <2>9. Descends("afterAttr", pos, Type, under, q, <<>>)
    BY <1>b, <2>2, <2>4, <2>5, <2>6, <2>7, <2>8 DEF Descends, m
  <2> QED
    BY <2>9
<1> DEFINE q == Rec(Now.type, Now.attrs, Append(Now.kids, m), Now.raw, Now.run)
<1>2. Changed(WithKid, q)
  BY <1>0, WithKidIs
<1>3. /\ Top.at = "elements" => Grows(Top.at, Now, "nextChild", q, <<>>, {m})
      /\ Top.at = "afterChild" => Grows(Top.at, Now, "nextChild", q, OneComma, {m})
      /\ Last(q.kids) = m
  BY <1>0, <1>m, GrowsKid
<1>4. "NORMAL" \in NodeTypes \ {"CONTAINER"}
  BY DEF NodeTypes
<1>5. Awaited("afterChild", q) = m
  BY <1>3 DEF Awaited
<1> HIDE DEF q
<1>6. CASE At("elements") /\ Enters("afterChild", pos, "NORMAL", WithKid)
  <2>1. Top.at = "elements" /\ pos <= Len(text)
    BY <1>6, Standing DEF At
  <2>2. ReadTo(<<>>, pos)
    BY <1>0, <2>1, ReadHere
  <2>3. Descends("afterChild", pos, "NORMAL", WithKid, q, <<>>)
    BY <1>b, <1>2, <1>3, <1>4, <1>5, <1>6, <2>1, <2>2 DEF Descends
  <2> QED
    BY <2>3
<1>7. CASE At("afterChild") /\ MoreChildren /\ pos < size /\ Enters("afterChild", pos + 1, "NORMAL", WithKid)
  <2>1. Top.at = "afterChild"
    BY <1>7, Zenon DEF At
  <2>2. pos \in Nat \ {0} /\ pos <= Len(text)
    BY <1>7, Standing
  <2>3. <<text[pos]>> = OneComma
    <3>1. Char(pos) = "," /\ "," \in Tokens
      BY <1>7, Marks, Zenon DEF MoreChildren
    <3>2. text[pos] = ","
      BY <1>0, <2>2, <3>1, Seen, Zenon
    <3> QED
      BY <3>2, Zenon DEF OneComma
  <2>4. ReadTo(OneComma, pos + 1)
    BY <1>0, <2>2, <2>3, ReadHere
  <2>5. Enters("afterChild", pos + 1, "NORMAL", WithKid)
    BY <1>7, Zenon
  <2>6. Descends("afterChild", pos + 1, "NORMAL", WithKid, q, OneComma)
    BY <1>b, <1>2, <1>3, <1>4, <1>5, <2>1, <2>4, <2>5 DEF Descends
  <2> QED
    BY <2>6
<1> QED
  BY <1>1, <1>6, <1>7, Zenon DEF Inward

\* A step out of the node on top, whatever init makes of it.
Ascends(p, under, q, x) ==
  /\ Returns(p, under) /\ Changed(under, q) /\ ReadTo(x, p) /\ SameLists(Now, q)
  /\ \A z : SameLists(Now, z) /\ z.raw = q.raw => Closes(Top.at, Now, z, x)

\* Every step out of a node is such a one.
LEMMA OutwardReads ==
  ASSUME TreeInv, verdict = "parsing", Shape(Top.at, Now), Outward
  PROVE  \E p, under, q, x : Ascends(p, under, q, x)
<1>0. TreeTypeOK /\ Now \in NodeRecs
  BY TopIs DEF TreeInv
<1>n. Changed(nodes, Now) /\ SameLists(Now, Now)
  BY <1>0, SameNodes DEF SameLists
<1>t. "}" \in Tokens /\ "]" \in Tokens
  BY Marks, Zenon
<1>p. pos \in Nat \ {0}
  BY Standing
<1>1. ASSUME Top.at \in {"members", "afterAttr"}, Char(pos) = "}", Returns(pos + 1, nodes)
      PROVE  Ascends(pos + 1, nodes, Now, ShutBrace)
  <2>1. pos <= Len(text) /\ text[pos] = "}"
    BY <1>0, <1>1, <1>p, <1>t, Seen, Zenon
  <2>2. <<text[pos]>> = ShutBrace
    BY <2>1, Zenon DEF ShutBrace
  <2>3. pos <= Len(text)
    BY <2>1, Zenon
  <2>4. ReadTo(ShutBrace, pos + 1)
    BY <1>0, <2>2, <2>3, ReadHere
  <2>5. \A z : SameLists(Now, z) => Closes(Top.at, Now, z, ShutBrace)
    <3>1. Top.at \in {"members", "afterAttr"}
      BY <1>1, Zenon
    <3> QED
      BY <1>0, <3>1, ClosesObject
  <2> QED
    BY <1>1, <1>n, <2>4, <2>5, Zenon DEF Ascends
<1>2. ASSUME Top.at \in {"elements", "afterChild"}, Char(pos) = "]", Returns(pos + 1, nodes)
      PROVE  Ascends(pos + 1, nodes, Now, ShutBracket)
  <2>1. pos <= Len(text) /\ text[pos] = "]"
    BY <1>0, <1>2, <1>p, <1>t, Seen, Zenon
  <2>2. <<text[pos]>> = ShutBracket
    BY <2>1, Zenon DEF ShutBracket
  <2>3. pos <= Len(text)
    BY <2>1, Zenon
  <2>4. ReadTo(ShutBracket, pos + 1)
    BY <1>0, <2>2, <2>3, ReadHere
  <2>5. \A z : SameLists(Now, z) /\ z.raw = Now.raw => Closes(Top.at, Now, z, ShutBracket)
    <3>1. Top.at \in {"elements", "afterChild"}
      BY <1>2, Zenon
    <3> QED
      BY <1>0, <3>1, ClosesArray
  <2> QED
    BY <1>2, <1>n, <2>4, <2>5, Zenon DEF Ascends
<1>3. ASSUME NEW p, NEW e \in Seq(Tokens), Top.at \in {"strings", "numbers"},
             ReadTo(e \o ShutBracket, p), Returns(p, AddArrayElement(e))
      PROVE  \E q : Ascends(p, AddArrayElement(e), q, e \o ShutBracket)
  <2> DEFINE q == Rec(Now.type, Now.attrs, Now.kids, Append(Now.raw, e), Now.run) x == e \o ShutBracket
             under == AddArrayElement(e)
  <2>1. Changed(under, q)
    BY <1>0, AddArrayElementIs
  <2>2. SameLists(Now, q) /\ q.raw = Append(Now.raw, e)
    BY DEF SameLists, Rec
  <2>3. \A z : SameLists(Now, z) /\ z.raw = Append(Now.raw, e) => Closes(Top.at, Now, z, x)
    BY <1>0, <1>3, ClosesElements
  <2>4. Returns(p, under) /\ ReadTo(x, p)
    BY <1>3
  <2> HIDE DEF q, x, under
  <2>5. Ascends(p, under, q, x)
    BY <2>1, <2>2, <2>3, <2>4, Zenon DEF Ascends
  <2> QED
    BY <2>5 DEF x, under
<1>4. CASE At("members") /\ text[pos] = "}" /\ Returns(pos + 1, nodes)
  <2>1. Top.at = "members"
    BY <1>4, Zenon DEF At
  <2>2. pos <= size
    BY <2>1, Zenon DEF TreeInv, Placed
  <2>3. Char(pos) = text[pos]
    BY <1>0, <1>p, <2>2, TextIs, Zenon
  <2> QED
    BY <1>1, <1>4, <2>1, <2>3, Zenon
<1>5. CASE At("elements") /\ text[pos] = "]" /\ Returns(pos + 1, nodes)
  <2>1. Top.at = "elements"
    BY <1>5, Zenon DEF At
  <2>2. pos <= size
    BY <2>1, Zenon DEF TreeInv, Placed
  <2>3. Char(pos) = text[pos]
    BY <1>0, <1>p, <2>2, TextIs, Zenon
  <2> QED
    BY <1>2, <1>5, <2>1, <2>3, Zenon
<1>6. CASE At("strings") /\ Char(pos + 1) = "]" /\ Returns(pos + 2, AddArrayElement(<<text[pos]>>))
  <2> DEFINE e == <<text[pos]>>
  <2>1. Top.at = "strings"
    BY <1>6, Zenon DEF At
  <2>2. pos <= Len(text)
    BY <2>1, Standing
  <2>3. e \in Seq(Tokens)
    BY <1>0, <2>2, ReadHere DEF ReadTo
  <2>4. ReadTo(e \o ShutBracket, pos + 2)
    BY <1>0, <1>6, <1>t, <2>2, ReadTwo, Zenon DEF ShutBracket
  <2>5. Returns(pos + 2, AddArrayElement(e))
    BY <1>6, Zenon
  <2> HIDE DEF e
  <2>6. \E q : Ascends(pos + 2, AddArrayElement(e), q, e \o ShutBracket)
    BY <1>3, <2>1, <2>3, <2>4, <2>5
  <2> QED
    BY <2>6
<1>7. CASE At("numbers") /\ EndOfElement # 0 /\ text[EndOfElement] = "]" /\ Returns(EndOfElement + 1, MoreRaw)
  <2> DEFINE e == SubSeq(text, pos, EndOfElement - 1)
  <2>1. Top.at = "numbers"
    BY <1>7, Zenon DEF At
  <2>n. EndOfElement # 0
    BY <1>7, Zenon
  <2>2. ReadTo(e, EndOfElement) /\ ReadTo(e \o <<text[EndOfElement]>>, EndOfElement + 1)
    BY <1>0, <2>n, ReadElement
  <2>3. e \in Seq(Tokens)
    BY <2>2 DEF ReadTo
  <2>4. ReadTo(e \o ShutBracket, EndOfElement + 1)
    BY <1>7, <2>2, Zenon DEF ShutBracket
  <2>5. Returns(EndOfElement + 1, AddArrayElement(e))
    BY <1>7, Zenon DEF MoreRaw
  <2> HIDE DEF e
  <2>6. \E q : Ascends(EndOfElement + 1, AddArrayElement(e), q, e \o ShutBracket)
    BY <1>3, <2>1, <2>3, <2>4, <2>5
  <2> QED
    BY <2>6
<1>8. CASE At("afterAttr") /\ Char(pos) = "}" /\ Returns(pos + 1, nodes)
  BY <1>1, <1>8, Zenon DEF At
<1>9. CASE At("afterChild") /\ Char(pos) = "]" /\ Returns(pos + 1, nodes)
  BY <1>2, <1>9, Zenon DEF At
<1> QED
  BY <1>4, <1>5, <1>6, <1>7, <1>8, <1>9, ZenonT(60) DEF Outward

-----------------------------------------------------------------------------
(* The nodes, finished and unfinished *)

\* How far the node of a frame is read: up to the one that waits for a node
\* it is read without that.
Tag(stk, k) == IF k = Len(stk) THEN stk[k].at ELSE Back(stk[k].at)

\* The nodes that are not finished.
OpenOf(stk) == {stk[k].node : k \in 1 .. Len(stk)}

\* Nodes refer to later ones only, frames wait for the node of the next
\* frame, and nothing else refers to a node that is not finished.
Forest(stk, nds) ==
  /\ stk[1].node = 1
  /\ \A j, k \in 1 .. Len(stk) : j < k => stk[j].node < stk[k].node
  /\ \A k \in 1 .. Len(stk) :
       /\ Shape(Tag(stk, k), nds[stk[k].node])
       /\ PartRefs(Tag(stk, k), nds[stk[k].node]) \cap OpenOf(stk) = {}
  /\ \A k \in 1 .. Len(stk) - 1 : Awaited(stk[k].at, nds[stk[k].node]) = stk[k + 1].node
  /\ \A n \in 1 .. Len(nds) : \A m \in Refs(nds[n]) : n < m /\ m <= Len(nds)
  /\ \A n \in 1 .. Len(nds) : n \notin OpenOf(stk) => Refs(nds[n]) \cap OpenOf(stk) = {}

\* Frame by frame what is read is the text up to p; u has it up to each
\* frame, w what the finished nodes write.
Spells(t, stk, nds, p, w, u) ==
  /\ w \in Words /\ u \in Words
  /\ u[1] = <<>> /\ u[Len(stk) + 1] = SubSeq(t, 1, p - 1)
  /\ \A k \in 1 .. Len(stk) : u[k + 1] = u[k] \o Part(Tag(stk, k), nds[stk[k].node], w)
  /\ \A n \in 1 .. Len(nds) : n \notin OpenOf(stk) => w[n] = Written(nds[n], w)

\* The node on top is not that of another frame.
LEMMA FramesDiffer ==
  ASSUME TreeTypeOK, verdict = "parsing", Forest(stack, nodes)
  PROVE  /\ \A k \in 1 .. Len(stack) - 1 : k \in 1 .. Len(stack) /\ stack[k].node # Top.node /\ stack[k].node < Top.node
         /\ Len(stack) \in 1 .. Len(stack) /\ stack[Len(stack)] = Top /\ Tag(stack, Len(stack)) = Top.at
         /\ \A k \in 1 .. Len(stack) - 1 : Tag(stack, k) = Back(stack[k].at)
         /\ \A k \in 1 .. Len(stack) : stack[k].node \in 1 .. Len(nodes) /\ nodes[stack[k].node] \in NodeRecs
         /\ Shape(Top.at, Now) /\ Top.node \in OpenOf(stack)
<1> DEFINE n == Len(stack) F == Frames R == NodeRecs L == Len(nodes)
<1>1. n \in Nat \ {0} /\ stack[n] = Top /\ stack \in Seq(F) /\ nodes \in Seq(R)
      /\ \A k \in 1 .. n : stack[k].node \in 1 .. L
  BY TopIs DEF TreeTypeOK
<1>2. \A j, k \in 1 .. n : j < k => stack[j].node < stack[k].node
  BY DEF Forest
<1>3. \A k \in 1 .. n : Tag(stack, k) = IF k = n THEN stack[k].at ELSE Back(stack[k].at)
  BY DEF Tag
<1>4. \A k \in 1 .. n : Shape(Tag(stack, k), nodes[stack[k].node])
  BY DEF Forest
<1>5. \A k \in 1 .. L : k \in Nat
  OBVIOUS
<1> HIDE DEF n, F, R, L
<1>6. \A k \in 1 .. n - 1 : k \in 1 .. n /\ k < n /\ k # n
  BY <1>1
<1>7. n \in 1 .. n
  BY <1>1
<1>8. \A k \in 1 .. n - 1 : stack[k].node < Top.node /\ stack[k].node \in Nat /\ Top.node \in Nat
  BY <1>1, <1>2, <1>5, <1>6, <1>7
<1>9. \A k \in 1 .. n : nodes[stack[k].node] \in R
  BY <1>1 DEF L
<1>10. Top.node \in OpenOf(stack)
  BY <1>1, <1>7 DEF OpenOf, n
<1>11. Tag(stack, n) = Top.at /\ Shape(Top.at, Now)
  BY <1>1, <1>3, <1>4, <1>7 DEF Now
<1>12. \A k \in 1 .. n - 1 : stack[k].node # Top.node
  BY <1>8
<1>13. \A k \in 1 .. n - 1 : Tag(stack, k) = Back(stack[k].at)
  BY <1>3, <1>6
<1> QED
  BY <1>1, <1>6, <1>7, <1>8, <1>9, <1>10, <1>11, <1>12, <1>13 DEF n, R, L

\* What staying in the node does to frames and nodes.
LEMMA StaysView ==
  ASSUME TreeTypeOK, verdict = "parsing", Forest(stack, nodes), NEW s, Stays(s), NEW q, Changed(nodes', q)
  PROVE  /\ Len(stack') = Len(stack) /\ Len(nodes') = Len(nodes) /\ OpenOf(stack') = OpenOf(stack)
         /\ \A k \in 1 .. Len(stack) : stack'[k].node = stack[k].node
         /\ \A k \in 1 .. Len(stack) - 1 : /\ Tag(stack', k) = Tag(stack, k) /\ stack'[k].at = stack[k].at
                                           /\ nodes'[stack[k].node] = nodes[stack[k].node]
         /\ Tag(stack', Len(stack)) = s /\ nodes'[Top.node] = q
         /\ \A m \in 1 .. Len(nodes) : m # Top.node => nodes'[m] = nodes[m]
<1> DEFINE n == Len(stack)
<1>1. /\ \A k \in 1 .. n - 1 : k \in 1 .. n /\ stack[k].node # Top.node
      /\ n \in 1 .. n /\ stack[n] = Top
      /\ \A k \in 1 .. n - 1 : Tag(stack, k) = Back(stack[k].at)
      /\ \A k \in 1 .. n : stack[k].node \in 1 .. Len(nodes)
  BY FramesDiffer
<1>2. Len(stack') = n /\ (\A k \in 1 .. n - 1 : stack'[k] = stack[k]) /\ stack'[n] = [node |-> Top.node, at |-> s]
  BY DEF Stays, SameBelow
<1>3. Len(nodes') = Len(nodes) /\ nodes'[Top.node] = q /\ \A m \in 1 .. Len(nodes) : m # Top.node => nodes'[m] = nodes[m]
  BY TopIs DEF Changed
<1>0. n \in Nat \ {0}
  BY TopIs
<1> HIDE DEF n
<1>4. \A k \in 1 .. n : k \in 1 .. n - 1 \/ k = n
  BY <1>0
<1>5. \A k \in 1 .. n : stack'[k].node = stack[k].node
  BY <1>1, <1>2, <1>4
<1>6. OpenOf(stack') = OpenOf(stack)
  BY <1>2, <1>5 DEF OpenOf, n
<1>7. \A k \in 1 .. n - 1 : k # n
  BY <1>0
<1>8. \A k \in 1 .. n - 1 : Tag(stack', k) = Tag(stack, k)
  BY <1>1, <1>2, <1>7 DEF Tag
<1>9. Tag(stack', n) = s
  BY <1>2 DEF Tag
<1>10. \A k \in 1 .. n - 1 : stack'[k].at = stack[k].at /\ nodes'[stack[k].node] = nodes[stack[k].node]
  BY <1>1, <1>2, <1>3
<1> QED
  BY <1>2, <1>3, <1>5, <1>6, <1>8, <1>9, <1>10 DEF n

\* Staying in the node keeps the forest.
LEMMA ForestOnward ==
  ASSUME TreeTypeOK, verdict = "parsing", Forest(stack, nodes), NEW s, Stays(s), NEW q, Changed(nodes', q),
         NEW x, Grows(Top.at, Now, s, q, x, {})
  PROVE  Forest(stack', nodes')
<1> DEFINE n == Len(stack) O == OpenOf(stack)
<1>1. /\ Len(stack') = n /\ Len(nodes') = Len(nodes) /\ OpenOf(stack') = O
      /\ \A k \in 1 .. n : stack'[k].node = stack[k].node
      /\ \A k \in 1 .. n - 1 : /\ Tag(stack', k) = Tag(stack, k) /\ stack'[k].at = stack[k].at
                               /\ nodes'[stack[k].node] = nodes[stack[k].node]
      /\ Tag(stack', n) = s /\ nodes'[Top.node] = q
      /\ \A m \in 1 .. Len(nodes) : m # Top.node => nodes'[m] = nodes[m]
  BY StaysView
<1>2. /\ \A k \in 1 .. n - 1 : k \in 1 .. n
      /\ n \in 1 .. n /\ stack[n] = Top /\ Tag(stack, n) = Top.at /\ Top.node \in O
  BY FramesDiffer
<1>3. n \in Nat \ {0} /\ Now = nodes[Top.node]
  BY TopIs DEF Now
<1>4. Shape(s, q) /\ Refs(q) \subseteq Refs(Now) /\ PartRefs(s, q) \subseteq PartRefs(Top.at, Now)
  BY DEF Grows
<1>5. /\ stack[1].node = 1
      /\ \A j, k \in 1 .. n : j < k => stack[j].node < stack[k].node
      /\ \A k \in 1 .. n : /\ Shape(Tag(stack, k), nodes[stack[k].node])
                           /\ PartRefs(Tag(stack, k), nodes[stack[k].node]) \cap O = {}
      /\ \A k \in 1 .. n - 1 : Awaited(stack[k].at, nodes[stack[k].node]) = stack[k + 1].node
      /\ \A i \in 1 .. Len(nodes) : \A m \in Refs(nodes[i]) : i < m /\ m <= Len(nodes)
      /\ \A i \in 1 .. Len(nodes) : i \notin O => Refs(nodes[i]) \cap O = {}
  BY DEF Forest
<1> HIDE DEF n, O
<1>6. 1 \in 1 .. n /\ (\A k \in 1 .. n : k \in 1 .. n - 1 \/ k = n) /\ \A k \in 1 .. n - 1 : k + 1 \in 1 .. n
  BY <1>3
<1>7. stack'[1].node = 1 /\ \A j, k \in 1 .. n : j < k => stack'[j].node < stack'[k].node
  BY <1>1, <1>5, <1>6
<1>8. \A k \in 1 .. n : /\ Shape(Tag(stack', k), nodes'[stack'[k].node])
                        /\ PartRefs(Tag(stack', k), nodes'[stack'[k].node]) \cap O = {}
  <2> SUFFICES ASSUME NEW k \in 1 .. n
               PROVE  /\ Shape(Tag(stack', k), nodes'[stack'[k].node])
                      /\ PartRefs(Tag(stack', k), nodes'[stack'[k].node]) \cap O = {}
    OBVIOUS
  <2>1. CASE k \in 1 .. n - 1
    BY <1>1, <1>5, <2>1
  <2>2. CASE k = n
    <3>1. Tag(stack', k) = s /\ nodes'[stack'[k].node] = q
      BY <1>1, <1>2, <2>2
    <3>2. PartRefs(Top.at, Now) \cap O = {}
      BY <1>2, <1>3, <1>5
    <3> QED
      BY <1>4, <3>1, <3>2
  <2> QED
    BY <1>6, <2>1, <2>2
<1>9. \A k \in 1 .. n - 1 : Awaited(stack'[k].at, nodes'[stack'[k].node]) = stack'[k + 1].node
  BY <1>1, <1>2, <1>5, <1>6
<1>10. \A i \in 1 .. Len(nodes) : \A m \in Refs(nodes'[i]) : i < m /\ m <= Len(nodes)
  BY <1>1, <1>3, <1>4, <1>5
<1>11. \A i \in 1 .. Len(nodes) : i \notin O => Refs(nodes'[i]) \cap O = {}
  BY <1>1, <1>2, <1>5
<1> QED
  BY <1>1, <1>7, <1>8, <1>9, <1>10, <1>11 DEF Forest

\* One word more.
LEMMA OneWord ==
  ASSUME NEW w \in Words, NEW m \in Nat, NEW x \in Seq(Tokens)
  PROVE  /\ [w EXCEPT ![m] = x] \in Words /\ [w EXCEPT ![m] = x][m] = x
         /\ \A k \in Nat : k # m => [w EXCEPT ![m] = x][k] = w[k]
<1> DEFINE X == Seq(Tokens)
<1>1. w \in [Nat -> X] /\ x \in X
  BY DEF Words
<1> HIDE DEF X
<1>2. /\ [w EXCEPT ![m] = x] \in [Nat -> X] /\ [w EXCEPT ![m] = x][m] = x
      /\ \A k \in Nat : k # m => [w EXCEPT ![m] = x][k] = w[k]
  BY <1>1
<1> QED
  BY <1>2 DEF Words, X

\* What is read and one part more.
LEMMA ReadBehind ==
  ASSUME TreeTypeOK, NEW x, NEW p, ReadTo(x, p), NEW a \in Seq(Tokens), NEW b \in Seq(Tokens),
         SubSeq(text, 1, pos - 1) = a \o b
  PROVE  SubSeq(text, 1, p - 1) = a \o (b \o x) /\ SubSeq(text, 1, p - 1) \in Seq(Tokens)
<1> DEFINE X == Tokens before == SubSeq(text, 1, pos - 1) all == SubSeq(text, 1, p - 1)
<1>1. x \in Seq(X) /\ a \in Seq(X) /\ b \in Seq(X)
  BY DEF ReadTo
<1>2. before \o x = all /\ before \in Seq(X)
  BY ReadOn
<1>3. before = a \o b
  OBVIOUS
<1> HIDE DEF X, before, all
<1>4. all \in Seq(X)
  <2>1. before \o x \in Seq(X)
    BY <1>1, <1>2, Concat
  <2> QED
    BY <1>2, <2>1
<1>5. (a \o b) \o x = a \o (b \o x)
  BY <1>1, Assoc
<1> QED
  BY <1>2, <1>3, <1>4, <1>5 DEF X, all

\* Staying in the node, what is read is put behind what was read of it.
LEMMA SpellsOnward ==
  ASSUME TreeTypeOK, verdict = "parsing", Forest(stack, nodes), NEW s, Stays(s), NEW q, Changed(nodes', q),
         NEW x, Grows(Top.at, Now, s, q, x, {}), ReadTo(x, pos'),
         NEW w, NEW u, Spells(text, stack, nodes, pos, w, u)
  PROVE  \E v : Spells(text, stack', nodes', pos', w, v)
<1> DEFINE n == Len(stack) O == OpenOf(stack) all == SubSeq(text, 1, pos' - 1) before == SubSeq(text, 1, pos - 1)
           v == [u EXCEPT ![n + 1] = all] W == Seq(Tokens)
<1>1. /\ Len(stack') = n /\ Len(nodes') = Len(nodes) /\ OpenOf(stack') = O
      /\ \A k \in 1 .. n : stack'[k].node = stack[k].node
      /\ \A k \in 1 .. n - 1 : /\ Tag(stack', k) = Tag(stack, k)
                               /\ nodes'[stack[k].node] = nodes[stack[k].node]
      /\ Tag(stack', n) = s /\ nodes'[Top.node] = q
      /\ \A m \in 1 .. Len(nodes) : m # Top.node => nodes'[m] = nodes[m]
  BY StaysView
<1>2. /\ n \in 1 .. n /\ stack[n] = Top /\ Tag(stack, n) = Top.at /\ Top.node \in O /\ Shape(Top.at, Now)
      /\ \A k \in 1 .. n - 1 : k \in 1 .. n
  BY FramesDiffer
<1>3. n \in Nat \ {0} /\ Now \in NodeRecs /\ Now = nodes[Top.node]
  BY TopIs DEF Now
<1>4. /\ w \in Words /\ u \in Words
      /\ u[1] = <<>> /\ u[n + 1] = before
      /\ \A k \in 1 .. n : u[k + 1] = u[k] \o Part(Tag(stack, k), nodes[stack[k].node], w)
      /\ \A i \in 1 .. Len(nodes) : i \notin O => w[i] = Written(nodes[i], w)
  BY DEF Spells
<1>5. Part(Top.at, Now, w) \in W /\ Part(s, q, w) = Part(Top.at, Now, w) \o x
  BY <1>2, <1>3, <1>4, PartType DEF Grows
<1>6. u[n] \in W
  BY <1>3, <1>4 DEF Words
<1>7. before = u[n] \o Part(Top.at, Now, w)
  BY <1>2, <1>3, <1>4
<1>8. all = u[n] \o (Part(Top.at, Now, w) \o x) /\ all \in W
  BY <1>5, <1>6, <1>7, ReadBehind
<1> HIDE DEF n, O, all, before, W
<1>9. /\ v \in Words /\ v[n + 1] = all /\ \A k \in Nat : k # n + 1 => v[k] = u[k]
  <2>1. n + 1 \in Nat
    BY <1>3
  <2>2. all \in Seq(Tokens) /\ u \in Words
    BY <1>4, <1>8 DEF W
  <2> DEFINE m == n + 1
  <2> HIDE DEF m
  <2>3. m \in Nat
    BY <2>1 DEF m
  <2>4. /\ [u EXCEPT ![m] = all] \in Words /\ [u EXCEPT ![m] = all][m] = all
        /\ \A k \in Nat : k # m => [u EXCEPT ![m] = all][k] = u[k]
    BY <2>2, <2>3, OneWord
  <2> QED
    BY <2>4 DEF m
<1> HIDE DEF v
<1>10. 1 # n + 1 /\ 1 \in Nat /\ n # n + 1 /\ n \in Nat /\ (\A k \in 1 .. n : k \in 1 .. n - 1 \/ k = n)
       /\ \A k \in 1 .. n - 1 : k \in Nat /\ k + 1 \in Nat /\ k # n + 1 /\ k + 1 # n + 1
  BY <1>3
<1>11. ASSUME NEW k \in 1 .. n PROVE v[k + 1] = v[k] \o Part(Tag(stack', k), nodes'[stack'[k].node], w)
  <2>1. CASE k \in 1 .. n - 1
    <3>1. v[k + 1] = u[k + 1] /\ v[k] = u[k]
      BY <1>9, <1>10, <2>1
    <3>2. Part(Tag(stack', k), nodes'[stack'[k].node], w) = Part(Tag(stack, k), nodes[stack[k].node], w)
      BY <1>1, <2>1
    <3> QED
      BY <1>4, <3>1, <3>2
  <2>2. CASE k = n
    <3>1. Part(Tag(stack', k), nodes'[stack'[k].node], w) = Part(s, q, w)
      BY <1>1, <1>2, <2>2
    <3>2. v[k + 1] = all /\ v[k] = u[n]
      BY <1>9, <1>10, <2>2
    <3> QED
      BY <1>5, <1>8, <3>1, <3>2
  <2> QED
    BY <1>10, <2>1, <2>2
<1>12. \A i \in 1 .. Len(nodes) : i \notin O => w[i] = Written(nodes'[i], w)
  BY <1>1, <1>2, <1>4
<1>13. v[1] = <<>>
  BY <1>4, <1>9, <1>10
<1>14. Spells(text, stack', nodes', pos', w, v)
  BY <1>1, <1>4, <1>9, <1>11, <1>12, <1>13 DEF Spells, all
<1> QED
  BY <1>14

\* One element more.
LEMMA AppendIs ==
  ASSUME NEW X, NEW s \in Seq(X), NEW x \in X
  PROVE  /\ Append(s, x) \in Seq(X) /\ Len(Append(s, x)) = Len(s) + 1 /\ Append(s, x)[Len(s) + 1] = x
         /\ \A i \in 1 .. Len(s) : Append(s, x)[i] = s[i]
OBVIOUS

\* A new node.
LEMMA NewNodeIs ==
  ASSUME NEW type \in NodeTypes \ {"CONTAINER"}
  PROVE  /\ NewNode(type) \in NodeRecs /\ Shape("value", NewNode(type))
         /\ Refs(NewNode(type)) = {} /\ PartRefs("value", NewNode(type)) = {}
         /\ \A w : Part("value", NewNode(type), w) = <<>>
<1> DEFINE r == NewNode(type)
<1>1. r.type = type /\ r.attrs = <<>> /\ r.kids = <<>> /\ r.raw = <<>> /\ type # "CONTAINER"
  BY DEF NewNode
<1>2. r \in NodeRecs
  <2>1. /\ <<>> \in Seq(AttrRecs) /\ <<>> \in Seq(Nat) /\ <<>> \in Seq(Seq(Tokens)) /\ NoRun \in Nodes \cup {NoRun}
        /\ type \in NodeTypes
    OBVIOUS
  <2> QED
    BY <2>1 DEF NewNode, NodeRecs
<1> HIDE DEF r
<1>3. Shape("value", r)
  BY <1>1 DEF Shape, ListStates
<1>4. Refs(r) = {}
  BY <1>1, RefsAppend DEF Refs
<1>5. PartRefs("value", r) = Refs(r)
  BY RefsAre
<1>6. \A w : Part("value", r, w) = <<>>
  BY PartIs
<1> QED
  BY <1>2, <1>3, <1>4, <1>5, <1>6 DEF r

\* What going to a new node does to frames and nodes.
LEMMA PushesView ==
  ASSUME TreeTypeOK, verdict = "parsing", Forest(stack, nodes),
         NEW s, NEW p, NEW type, NEW under, NEW q, NEW x, Descends(s, p, type, under, q, x)
  PROVE  /\ Len(stack') = Len(stack) + 1 /\ Len(nodes') = Len(nodes) + 1
         /\ OpenOf(stack') = OpenOf(stack) \cup {Len(nodes) + 1}
         /\ \A k \in 1 .. Len(stack) : stack'[k].node = stack[k].node
         /\ \A k \in 1 .. Len(stack) - 1 : /\ Tag(stack', k) = Tag(stack, k) /\ stack'[k].at = stack[k].at
                                           /\ nodes'[stack[k].node] = nodes[stack[k].node]
         /\ Tag(stack', Len(stack)) = Back(s) /\ stack'[Len(stack)].at = s /\ nodes'[Top.node] = q
         /\ stack'[Len(stack) + 1].node = Len(nodes) + 1 /\ Tag(stack', Len(stack) + 1) = "value"
         /\ nodes'[Len(nodes) + 1] = NewNode(type)
         /\ \A m \in 1 .. Len(nodes) : m # Top.node => nodes'[m] = nodes[m]
<1> DEFINE n == Len(stack) L == Len(nodes)
<1>1. /\ \A k \in 1 .. n - 1 : k \in 1 .. n /\ stack[k].node # Top.node
      /\ n \in 1 .. n /\ stack[n] = Top
      /\ \A k \in 1 .. n - 1 : Tag(stack, k) = Back(stack[k].at)
      /\ \A k \in 1 .. n : stack[k].node \in 1 .. L
  BY FramesDiffer
<1>2. s \in States /\ Enters(s, p, type, under) /\ Changed(under, q) /\ type \in NodeTypes \ {"CONTAINER"}
  BY DEF Descends, States
<1>3. Pushes(s)
  BY <1>2, PushesIs
<1>4. /\ Len(stack') = n + 1 /\ (\A k \in 1 .. n - 1 : stack'[k] = stack[k]) /\ stack'[n] = [node |-> Top.node, at |-> s]
      /\ stack'[n + 1] = [node |-> L + 1, at |-> "value"]
  BY <1>3 DEF Pushes, SameBelow
<1>5. /\ Len(under) = L /\ under[Top.node] = q /\ (\A m \in 1 .. L : m # Top.node => under[m] = nodes[m])
      /\ under \in Seq(NodeRecs) /\ Top.node \in 1 .. L
  BY <1>2, TopIs DEF Changed
<1>6. nodes' = Append(under, NewNode(type)) /\ NewNode(type) \in NodeRecs
  BY <1>2, NewNodeIs DEF Enters
<1>0. n \in Nat \ {0} /\ L \in Nat
  BY TopIs DEF TreeTypeOK
<1> DEFINE R == NodeRecs node == NewNode(type)
<1>7. under \in Seq(R) /\ node \in R /\ nodes' = Append(under, node)
  BY <1>5, <1>6
<1> HIDE DEF n, L, R, node
<1>8. Len(nodes') = L + 1 /\ nodes'[L + 1] = node /\ \A i \in 1 .. L : nodes'[i] = under[i]
  BY <1>5, <1>7, AppendIs
<1>9. (\A k \in 1 .. n : k \in 1 .. n - 1 \/ k = n) /\ (\A k \in 1 .. n + 1 : k \in 1 .. n \/ k = n + 1) /\ n # n + 1
      /\ (\A k \in 1 .. n - 1 : k # n /\ k # n + 1) /\ (\A k \in 1 .. n : k \in 1 .. n + 1) /\ n + 1 \in 1 .. n + 1
  BY <1>0
<1>10. \A k \in 1 .. n : stack'[k].node = stack[k].node
  BY <1>1, <1>4, <1>9
<1>11. stack'[n + 1].node = L + 1 /\ stack'[n + 1].at = "value" /\ stack'[n].at = s
  BY <1>4
<1>12. OpenOf(stack') = OpenOf(stack) \cup {L + 1}
  <2>1. OpenOf(stack') = {stack'[k].node : k \in 1 .. n + 1}
    BY <1>4 DEF OpenOf
  <2>2. OpenOf(stack) = {stack[k].node : k \in 1 .. n}
    BY DEF OpenOf, n
  <2> QED
    BY <1>9, <1>10, <1>11, <2>1, <2>2
<1>13. \A k \in 1 .. n - 1 : Tag(stack', k) = Tag(stack, k)
  BY <1>1, <1>4, <1>9 DEF Tag
<1>14. Tag(stack', n) = Back(s) /\ Tag(stack', n + 1) = "value"
  BY <1>4, <1>9, <1>11 DEF Tag
<1>15. nodes'[Top.node] = q /\ \A m \in 1 .. L : m # Top.node => nodes'[m] = nodes[m]
  BY <1>5, <1>8
<1>16. \A k \in 1 .. n - 1 : stack'[k].at = stack[k].at /\ nodes'[stack[k].node] = nodes[stack[k].node]
  BY <1>1, <1>4, <1>15
<1> QED
  BY <1>4, <1>8, <1>10, <1>11, <1>12, <1>13, <1>14, <1>15, <1>16 DEF n, L, node

\* The complete nodes referred to are some of those referred to.
LEMMA PartOfRefs ==
  ASSUME NEW r \in NodeRecs, NEW s, Shape(s, r)
  PROVE  PartRefs(s, r) \subseteq Refs(r)
<1>1. r.attrs \in Seq(AttrRecs) /\ r.kids \in Seq(Nat)
  BY FieldTypes
<1>2. CASE s \notin {"colon", "attrValue", "nextChild"}
  BY <1>2, RefsAre
<1>3. CASE s \in {"colon", "attrValue"}
  <2>2. r.attrs # <<>>
    BY <1>3 DEF Shape
  <2>3. AttrRefs(r.attrs) = AttrRefs(Front(r.attrs)) \cup ({Last(r.attrs).node} \ {0})
    BY <1>1, <2>2, FrontRefs
  <2> QED
    BY <1>3, <2>3, RefsAre DEF Refs
<1>4. CASE s = "nextChild"
  <2>1. r.kids # <<>>
    BY <1>4 DEF Shape
  <2>2. KidRefs(r.kids) = KidRefs(Front(r.kids)) \cup {Last(r.kids)}
    BY <1>1, <2>1, FrontKids
  <2> QED
    BY <1>4, <2>2, RefsAre DEF Refs
<1> QED
  BY <1>2, <1>3, <1>4

\* They are numbers.
LEMMA RefsAreNumbers ==
  ASSUME NEW r \in NodeRecs
  PROVE  Refs(r) \subseteq Nat
<1>1. r.attrs \in Seq(AttrRecs) /\ r.kids \in Seq(Nat)
  BY FieldTypes
<1> DEFINE a == r.attrs b == r.kids A == AttrRecs
<1>2. a \in Seq(A) /\ b \in Seq(Nat)
  BY <1>1
<1> HIDE DEF a, b, A
<1>3. \A i \in DOMAIN a : a[i] \in A
  BY <1>2
<1>4. \A i \in DOMAIN b : b[i] \in Nat
  BY <1>2
<1>5. AttrRefs(a) \subseteq Nat
  BY <1>3 DEF AttrRefs, A, AttrRecs
<1>6. KidRefs(b) \subseteq Nat
  BY <1>4 DEF KidRefs
<1> QED
  BY <1>5, <1>6 DEF Refs, a, b

\* Going to a new node keeps the forest.
LEMMA ForestInward ==
  ASSUME TreeTypeOK, verdict = "parsing", Forest(stack, nodes),
         NEW s, NEW p, NEW type, NEW under, NEW q, NEW x, Descends(s, p, type, under, q, x)
  PROVE  Forest(stack', nodes')
<1> DEFINE n == Len(stack) O == OpenOf(stack) L == Len(nodes) m == L + 1
<1>1. /\ Len(stack') = n + 1 /\ Len(nodes') = L + 1 /\ OpenOf(stack') = O \cup {m}
      /\ \A k \in 1 .. n : stack'[k].node = stack[k].node
      /\ \A k \in 1 .. n - 1 : /\ Tag(stack', k) = Tag(stack, k) /\ stack'[k].at = stack[k].at
                               /\ nodes'[stack[k].node] = nodes[stack[k].node]
      /\ Tag(stack', n) = Back(s) /\ stack'[n].at = s /\ nodes'[Top.node] = q
      /\ stack'[n + 1].node = m /\ Tag(stack', n + 1) = "value" /\ nodes'[m] = NewNode(type)
      /\ \A i \in 1 .. L : i # Top.node => nodes'[i] = nodes[i]
  BY PushesView
<1>2. /\ \A k \in 1 .. n - 1 : k \in 1 .. n
      /\ n \in 1 .. n /\ stack[n] = Top /\ Tag(stack, n) = Top.at /\ Top.node \in O /\ Shape(Top.at, Now)
      /\ \A k \in 1 .. n : stack[k].node \in 1 .. L
  BY FramesDiffer
<1>3. n \in Nat \ {0} /\ Now = nodes[Top.node] /\ L \in Nat /\ Top.node \in 1 .. L
  BY TopIs DEF Now, TreeTypeOK
<1>4. /\ Shape(Back(s), q) /\ Refs(q) \subseteq Refs(Now) \cup {m} /\ PartRefs(Back(s), q) \subseteq PartRefs(Top.at, Now)
      /\ Awaited(s, q) = m /\ type \in NodeTypes \ {"CONTAINER"}
  BY DEF Grows, Descends
<1>5. /\ stack[1].node = 1
      /\ \A j, k \in 1 .. n : j < k => stack[j].node < stack[k].node
      /\ \A k \in 1 .. n : /\ Shape(Tag(stack, k), nodes[stack[k].node])
                           /\ PartRefs(Tag(stack, k), nodes[stack[k].node]) \cap O = {}
      /\ \A k \in 1 .. n - 1 : Awaited(stack[k].at, nodes[stack[k].node]) = stack[k + 1].node
      /\ \A i \in 1 .. L : \A j \in Refs(nodes[i]) : i < j /\ j <= L
      /\ \A i \in 1 .. L : i \notin O => Refs(nodes[i]) \cap O = {}
  BY DEF Forest
<1>6. /\ Shape("value", NewNode(type)) /\ Refs(NewNode(type)) = {} /\ PartRefs("value", NewNode(type)) = {}
  BY <1>4, NewNodeIs
<1>7. \A k \in 1 .. n : PartRefs(Tag(stack, k), nodes[stack[k].node]) \subseteq Refs(nodes[stack[k].node])
  <2> SUFFICES ASSUME NEW k \in 1 .. n
               PROVE  PartRefs(Tag(stack, k), nodes[stack[k].node]) \subseteq Refs(nodes[stack[k].node])
    OBVIOUS
  <2> DEFINE r == nodes[stack[k].node] t == Tag(stack, k)
  <2>1. r \in NodeRecs /\ Shape(t, r)
    BY <1>5, FramesDiffer
  <2> HIDE DEF r, t
  <2>2. PartRefs(t, r) \subseteq Refs(r)
    BY <2>1, PartOfRefs
  <2> QED
    BY <2>2 DEF r, t
<1>17. \A i \in 1 .. L : \A j \in Refs(nodes[i]) : j \in Nat
  BY RefsAreNumbers DEF TreeTypeOK
<1> HIDE DEF n, O, L
<1>8. L + 1 \in Nat /\ ~ (L + 1 <= L) /\ m = L + 1 /\ \A i \in 1 .. L : i < m
  BY <1>3
<1> HIDE DEF m
<1>9. \A i \in 1 .. L : m \notin Refs(nodes[i])
  BY <1>5, <1>8
<1>10. \A k \in 1 .. n : m \notin PartRefs(Tag(stack, k), nodes[stack[k].node])
  BY <1>2, <1>7, <1>9
<1>11. /\ 1 \in 1 .. n /\ (\A k \in 1 .. n : k \in 1 .. n - 1 \/ k = n) /\ (\A k \in 1 .. n - 1 : k + 1 \in 1 .. n)
       /\ (\A k \in 1 .. n + 1 : k \in 1 .. n \/ k = n + 1) /\ (n + 1) - 1 = n
       /\ (\A k \in 1 .. n : n + 1 > k) /\ (\A j, k \in 1 .. n + 1 : j < k => j \in 1 .. n)
  BY <1>3
<1>12. stack'[1].node = 1 /\ \A j, k \in 1 .. n + 1 : j < k => stack'[j].node < stack'[k].node
  <2>1. \A j, k \in 1 .. n : j < k => stack'[j].node < stack'[k].node
    BY <1>1, <1>5
  <2>2. \A j \in 1 .. n : stack'[j].node < stack'[n + 1].node
    BY <1>1, <1>2, <1>8
  <2> QED
    BY <1>1, <1>5, <1>11, <2>1, <2>2
<1>13. \A k \in 1 .. n + 1 : /\ Shape(Tag(stack', k), nodes'[stack'[k].node])
                             /\ PartRefs(Tag(stack', k), nodes'[stack'[k].node]) \cap (O \cup {m}) = {}
  <2> SUFFICES ASSUME NEW k \in 1 .. n + 1
               PROVE  /\ Shape(Tag(stack', k), nodes'[stack'[k].node])
                      /\ PartRefs(Tag(stack', k), nodes'[stack'[k].node]) \cap (O \cup {m}) = {}
    OBVIOUS
  <2>1. CASE k \in 1 .. n - 1
    <3>1. k \in 1 .. n /\ Tag(stack', k) = Tag(stack, k) /\ nodes'[stack'[k].node] = nodes[stack[k].node]
      BY <1>1, <1>2, <2>1
    <3> QED
      BY <1>5, <1>10, <3>1
  <2>2. CASE k = n
    <3>1. Tag(stack', k) = Back(s) /\ nodes'[stack'[k].node] = q
      BY <1>1, <1>2, <2>2
    <3>2. PartRefs(Top.at, Now) \cap O = {} /\ m \notin PartRefs(Top.at, Now)
      BY <1>2, <1>3, <1>5, <1>10
    <3> QED
      BY <1>4, <3>1, <3>2
  <2>3. CASE k = n + 1
    BY <1>1, <1>6, <2>3
  <2> QED
    BY <1>11, <2>1, <2>2, <2>3
<1>14. \A k \in 1 .. n : Awaited(stack'[k].at, nodes'[stack'[k].node]) = stack'[k + 1].node
  <2> SUFFICES ASSUME NEW k \in 1 .. n PROVE Awaited(stack'[k].at, nodes'[stack'[k].node]) = stack'[k + 1].node
    OBVIOUS
  <2>1. CASE k \in 1 .. n - 1
    <3>1. k \in 1 .. n /\ k + 1 \in 1 .. n
      BY <1>2, <1>11, <2>1
    <3>2. stack'[k].at = stack[k].at /\ nodes'[stack'[k].node] = nodes[stack[k].node]
      BY <1>1, <2>1, <3>1
    <3>3. stack'[k + 1].node = stack[k + 1].node
      BY <1>1, <3>1
    <3> QED
      BY <1>5, <2>1, <3>2, <3>3
  <2>2. CASE k = n
    BY <1>1, <1>2, <1>4, <2>2
  <2> QED
    BY <1>11, <2>1, <2>2
<1>15. \A i \in 1 .. L + 1 : \A j \in Refs(nodes'[i]) : i < j /\ j <= L + 1
  <2> SUFFICES ASSUME NEW i \in 1 .. L + 1, NEW j \in Refs(nodes'[i]) PROVE i < j /\ j <= L + 1
    OBVIOUS
  <2>1. CASE i \in 1 .. L /\ i # Top.node
    <3>1. i < j /\ j <= L /\ j \in Nat
      <4>1. j \in Refs(nodes[i])
        BY <1>1, <2>1
      <4> QED
        BY <1>5, <1>17, <2>1, <4>1
    <3> QED
      BY <1>3, <3>1
  <2>2. CASE i = Top.node
    <3>1. j \in Refs(nodes[i]) \/ j = m
      BY <1>1, <1>3, <1>4, <2>2
    <3>2. j \in Refs(nodes[i]) => i < j /\ j <= L /\ j \in Nat
      BY <1>3, <1>5, <1>17, <2>2
    <3> QED
      BY <1>3, <1>8, <2>2, <3>1, <3>2
  <2>3. CASE i = L + 1
    BY <1>1, <1>6, <1>8, <2>3
  <2>4. i \in 1 .. L \/ i = L + 1
    BY <1>3
  <2> QED
    BY <2>1, <2>2, <2>3, <2>4
<1>16. \A i \in 1 .. L + 1 : i \notin O \cup {m} => Refs(nodes'[i]) \cap (O \cup {m}) = {}
  <2> SUFFICES ASSUME NEW i \in 1 .. L + 1, i \notin O \cup {m} PROVE Refs(nodes'[i]) \cap (O \cup {m}) = {}
    OBVIOUS
  <2>1. i \in 1 .. L /\ i # Top.node
    BY <1>2, <1>3, <1>8
  <2> QED
    BY <1>1, <1>5, <1>9, <2>1
<1> QED
  BY <1>1, <1>11, <1>12, <1>13, <1>14, <1>15, <1>16 DEF Forest

\* Going to a new node, what is read is read of the node above it; of the new
\* one nothing is read yet.
LEMMA SpellsInward ==
  ASSUME TreeTypeOK, verdict = "parsing", Forest(stack, nodes),
         NEW s, NEW p, NEW type, NEW under, NEW q, NEW x, Descends(s, p, type, under, q, x),
         NEW w, NEW u, Spells(text, stack, nodes, pos, w, u)
  PROVE  \E v : Spells(text, stack', nodes', p, w, v)
<1> DEFINE n == Len(stack) O == OpenOf(stack) L == Len(nodes) m == L + 1
           all == SubSeq(text, 1, p - 1) before == SubSeq(text, 1, pos - 1)
           a == n + 1 b == n + 2 y == [u EXCEPT ![a] = all] v == [y EXCEPT ![b] = all] W == Seq(Tokens)
<1>1. /\ Len(stack') = n + 1 /\ Len(nodes') = L + 1 /\ OpenOf(stack') = O \cup {m}
      /\ \A k \in 1 .. n : stack'[k].node = stack[k].node
      /\ \A k \in 1 .. n - 1 : /\ Tag(stack', k) = Tag(stack, k)
                               /\ nodes'[stack[k].node] = nodes[stack[k].node]
      /\ Tag(stack', n) = Back(s) /\ nodes'[Top.node] = q
      /\ stack'[n + 1].node = m /\ Tag(stack', n + 1) = "value" /\ nodes'[m] = NewNode(type)
      /\ \A i \in 1 .. L : i # Top.node => nodes'[i] = nodes[i]
  BY PushesView
<1>2. /\ n \in 1 .. n /\ stack[n] = Top /\ Tag(stack, n) = Top.at /\ Top.node \in O /\ Shape(Top.at, Now)
      /\ \A k \in 1 .. n - 1 : k \in 1 .. n
  BY FramesDiffer
<1>3. n \in Nat \ {0} /\ Now \in NodeRecs /\ Now = nodes[Top.node] /\ L \in Nat
  BY TopIs DEF Now, TreeTypeOK
<1>4. /\ w \in Words /\ u \in Words
      /\ u[1] = <<>> /\ u[n + 1] = before
      /\ \A k \in 1 .. n : u[k + 1] = u[k] \o Part(Tag(stack, k), nodes[stack[k].node], w)
      /\ \A i \in 1 .. L : i \notin O => w[i] = Written(nodes[i], w)
  BY DEF Spells
<1>5. Part(Top.at, Now, w) \in W /\ Part(Back(s), q, w) = Part(Top.at, Now, w) \o x /\ ReadTo(x, p)
  BY <1>2, <1>3, <1>4, PartType DEF Grows, Descends
<1>6. u[n] \in W
  BY <1>3, <1>4 DEF Words
<1>7. before = u[n] \o Part(Top.at, Now, w)
  BY <1>2, <1>3, <1>4
<1>8. all = u[n] \o (Part(Top.at, Now, w) \o x) /\ all \in W
  BY <1>5, <1>6, <1>7, ReadBehind
<1>9. Part("value", NewNode(type), w) = <<>>
  BY NewNodeIs DEF Descends
<1>10. /\ a \in Nat /\ b \in Nat /\ 1 \in Nat /\ 1 # a /\ 1 # b /\ a # b /\ n # a /\ n # b /\ n \in Nat
       /\ (\A k \in 1 .. n + 1 : k \in 1 .. n - 1 \/ k = n \/ k = n + 1)
       /\ (\A k \in 1 .. n - 1 : k \in Nat /\ k + 1 \in Nat /\ k # a /\ k + 1 # a /\ k # b /\ k + 1 # b)
       /\ a = n + 1 /\ b = a + 1 /\ b = (n + 1) + 1
  BY <1>3
<1>11. all \in Seq(Tokens) /\ u \in Words
  BY <1>4, <1>8
<1> HIDE DEF n, O, L, m, all, before, W, a, b
<1>12. /\ y \in Words /\ y[a] = all /\ \A k \in Nat : k # a => y[k] = u[k]
  BY <1>10, <1>11, OneWord
<1> HIDE DEF y
<1>13. /\ v \in Words /\ v[b] = all /\ \A k \in Nat : k # b => v[k] = y[k]
  BY <1>10, <1>11, <1>12, OneWord
<1> HIDE DEF v
<1>14. /\ v[a] = all /\ \A k \in Nat : k # a /\ k # b => v[k] = u[k]
  BY <1>10, <1>12, <1>13
<1>15. ASSUME NEW k \in 1 .. n + 1 PROVE v[k + 1] = v[k] \o Part(Tag(stack', k), nodes'[stack'[k].node], w)
  <2>1. CASE k \in 1 .. n - 1
    <3>1. v[k + 1] = u[k + 1] /\ v[k] = u[k]
      BY <1>10, <1>14, <2>1
    <3>2. Part(Tag(stack', k), nodes'[stack'[k].node], w) = Part(Tag(stack, k), nodes[stack[k].node], w)
      BY <1>1, <1>2, <2>1
    <3> QED
      BY <1>2, <1>4, <2>1, <3>1, <3>2
  <2>2. CASE k = n
    <3>1. Part(Tag(stack', k), nodes'[stack'[k].node], w) = Part(Back(s), q, w)
      BY <1>1, <1>2, <2>2
    <3>2. v[k + 1] = all /\ v[k] = u[n]
      BY <1>10, <1>14, <2>2
    <3> QED
      BY <1>5, <1>8, <3>1, <3>2
  <2>3. CASE k = n + 1
    <3>1. Part(Tag(stack', k), nodes'[stack'[k].node], w) = <<>>
      BY <1>1, <1>9, <2>3
    <3>2. v[k + 1] = all /\ v[k] = all
      BY <1>10, <1>13, <1>14, <2>3
    <3>3. all \o <<>> = all
      BY <1>11, Neutral
    <3> QED
      BY <3>1, <3>2, <3>3
  <2> QED
    BY <1>10, <2>1, <2>2, <2>3
<1>16. \A i \in 1 .. L + 1 : i \notin O \cup {m} => w[i] = Written(nodes'[i], w)
  <2> SUFFICES ASSUME NEW i \in 1 .. L + 1, i \notin O \cup {m} PROVE w[i] = Written(nodes'[i], w)
    OBVIOUS
  <2>1. i \in 1 .. L /\ i # Top.node
    BY <1>2, <1>3 DEF m
  <2> QED
    BY <1>1, <1>4, <2>1
<1>17. v[1] = <<>> /\ v[(n + 1) + 1] = all
  BY <1>4, <1>10, <1>13, <1>14
<1>18. Spells(text, stack', nodes', p, w, v)
  BY <1>1, <1>4, <1>13, <1>15, <1>16, <1>17 DEF Spells, all
<1> QED
  BY <1>18

\* What the end of a node does to frames and nodes.
LEMMA PopsView ==
  ASSUME TreeTypeOK, verdict = "parsing", Forest(stack, nodes),
         NEW p, NEW under, NEW q, NEW x, Ascends(p, under, q, x)
  PROVE  /\ Len(stack') = Len(stack) - 1 /\ Len(nodes') = Len(nodes)
         /\ OpenOf(stack') = OpenOf(stack) \ {Top.node}
         /\ \A k \in 1 .. Len(stack) - 1 : stack'[k] = stack[k] /\ nodes'[stack[k].node] = nodes[stack[k].node]
         /\ \A k \in 1 .. Len(stack) - 2 : Tag(stack', k) = Tag(stack, k)
         /\ Len(stack) > 1 => Tag(stack', Len(stack) - 1) = stack[Len(stack) - 1].at
         /\ nodes'[Top.node] \in NodeRecs /\ Closes(Top.at, Now, nodes'[Top.node], x)
         /\ \A m \in 1 .. Len(nodes) : m # Top.node => nodes'[m] = nodes[m]
<1> DEFINE n == Len(stack) L == Len(nodes) t == Top.node z == nodes'[t] R == NodeRecs
<1>1. /\ \A k \in 1 .. n - 1 : k \in 1 .. n /\ stack[k].node # t
      /\ n \in 1 .. n /\ stack[n] = Top
      /\ \A k \in 1 .. n - 1 : Tag(stack, k) = Back(stack[k].at)
      /\ \A k \in 1 .. n : stack[k].node \in 1 .. L
  BY FramesDiffer
<1>2. /\ Returns(p, under) /\ Changed(under, q) /\ SameLists(Now, q)
      /\ \A y : SameLists(Now, y) /\ y.raw = q.raw => Closes(Top.at, Now, y, x)
  BY Zenon DEF Ascends
<1>3. Pops
  BY <1>2, PopsIs DEF Returns
<1>4. Len(stack') = n - 1 /\ (\A k \in 1 .. n - 1 : stack'[k] = stack[k])
  BY <1>3 DEF Pops, SameBelow
<1>5. under \in Seq(R) /\ Len(under) = L /\ under[t] = q /\ \A m \in 1 .. L : m # t => under[m] = nodes[m]
  BY <1>2, TopIs DEF Changed
<1>6. nodes' \in Seq(R) /\ Len(nodes') = L /\ t \in 1 .. L /\ DOMAIN nodes = 1 .. L
  BY <1>2, <1>5, TopIs, RunChanges
<1>7. PICK obj \in InitOutcomes(t) : z = [q EXCEPT !.run = obj] /\ \A m \in 1 .. L : m # t => nodes'[m] = under[m]
  <2>1. \E obj \in InitOutcomes(Top.node) :
          /\ nodes'[Top.node] = [under[Top.node] EXCEPT !.run = obj]
          /\ \A m \in DOMAIN nodes : m # Top.node => nodes'[m] = under[m]
    <3>1. under \in Seq(NodeRecs) /\ Len(under) = Len(nodes)
      BY <1>5
    <3>2. PICK obj \in InitOutcomes(Top.node) :
            /\ nodes'[Top.node] = [under[Top.node] EXCEPT !.run = obj]
            /\ \A m \in DOMAIN nodes : m # Top.node => nodes'[m] = under[m]
      BY <1>2, <3>1, RunChanges
    <3> QED
      BY <3>2
  <2> QED
    BY <1>5, <1>6, <2>1
<1>8. q \in NodeRecs /\ z \in NodeRecs
  <2> HIDE DEF R, z, L, t
  <2>1. q \in R /\ nodes'[t] \in R
    BY <1>5, <1>6
  <2> QED
    BY <2>1 DEF R, z, t
<1>9. z.type = q.type /\ z.attrs = q.attrs /\ z.kids = q.kids /\ z.raw = q.raw
  <2>1. q \in NodeRecs /\ z = [q EXCEPT !.run = obj]
    BY <1>7, <1>8
  <2> HIDE DEF z
  <2> QED
    BY <2>1 DEF NodeRecs
<1>10. Closes(Top.at, Now, z, x)
  BY <1>2, <1>9 DEF SameLists
<1>0. n \in Nat \ {0}
  BY TopIs
<1> HIDE DEF n, L, R, z, t
<1>11. /\ (\A k \in 1 .. n : k \in 1 .. n - 1 \/ k = n)
       /\ (\A k \in 1 .. n - 2 : k \in 1 .. n - 1 /\ k # n - 1) /\ (n > 1 => n - 1 \in 1 .. n - 1)
  BY <1>0
<1>12. OpenOf(stack') = OpenOf(stack) \ {t}
  <2>1. OpenOf(stack') = {stack'[k].node : k \in 1 .. n - 1}
    BY <1>4 DEF OpenOf
  <2>2. OpenOf(stack) = {stack[k].node : k \in 1 .. n}
    BY DEF OpenOf, n
  <2>3. stack[n].node = t
    BY <1>1 DEF t
  <2>4. \A k \in 1 .. n - 1 : stack'[k].node = stack[k].node /\ stack[k].node # t /\ k \in 1 .. n
    BY <1>1, <1>4
  <2> QED
    BY <1>11, <2>1, <2>2, <2>3, <2>4
<1>13. \A k \in 1 .. n - 2 : Tag(stack', k) = Tag(stack, k)
  BY <1>1, <1>4, <1>11 DEF Tag
<1>14. n > 1 => Tag(stack', n - 1) = stack[n - 1].at
  BY <1>4, <1>11 DEF Tag
<1>15. \A m \in 1 .. L : m # t => nodes'[m] = nodes[m]
  BY <1>5, <1>7
<1>16. \A k \in 1 .. n - 1 : stack'[k] = stack[k] /\ nodes'[stack[k].node] = nodes[stack[k].node]
  BY <1>1, <1>4, <1>15
<1> QED
  BY <1>4, <1>6, <1>8, <1>10, <1>12, <1>13, <1>14, <1>15, <1>16 DEF n, L, z, t

\* What the frame below goes on with.
LEMMA Below ==
  ASSUME TreeTypeOK, Waiting, verdict = "parsing", Forest(stack, nodes), Len(stack) > 1,
         NEW k, k = Len(stack) - 1
  PROVE  LET t == stack[k].at
             r == nodes[stack[k].node]
         IN  /\ k \in 1 .. Len(stack) - 1 /\ k \in 1 .. Len(stack)
             /\ Shape(t, r) /\ PartRefs(t, r) = PartRefs(Tag(stack, k), r) \cup {Top.node} /\ r \in NodeRecs
             /\ \A w \in Words : Part(t, r, w) = Part(Tag(stack, k), r, w) \o w[Top.node]
<1> DEFINE n == Len(stack) t == stack[k].at r == nodes[stack[k].node]
<1>1. /\ \A j \in 1 .. n - 1 : Tag(stack, j) = Back(stack[j].at)
      /\ \A j \in 1 .. n : nodes[stack[j].node] \in NodeRecs
      /\ stack[n] = Top /\ Top.node \in 1 .. Len(nodes)
  BY FramesDiffer, TopIs
<1>2. n \in Nat \ {0} /\ n > 1 /\ k = n - 1
  BY TopIs
<1>3. /\ \A j \in 1 .. n - 1 : Awaited(stack[j].at, nodes[stack[j].node]) = stack[j + 1].node
      /\ \A j \in 1 .. n : Shape(Tag(stack, j), nodes[stack[j].node])
      /\ \A j \in 1 .. n - 1 : stack[j].at \in {"afterAttr", "afterChild"}
  BY DEF Forest, Waiting
<1> HIDE DEF n
<1>4. k \in 1 .. n - 1 /\ k \in 1 .. n /\ k + 1 = n
  BY <1>2
<1>5. /\ Tag(stack, k) = Back(t) /\ r \in NodeRecs /\ t \in {"afterAttr", "afterChild"}
      /\ Awaited(t, r) = Top.node /\ Shape(Tag(stack, k), r) /\ Top.node # 0
  BY <1>1, <1>3, <1>4
<1> HIDE DEF t, r
<1>6. Shape(Back(t), r) /\ Awaited(t, r) # 0
  BY <1>5
<1>7. /\ Shape(t, r)
      /\ PartRefs(t, r) = PartRefs(Back(t), r) \cup {Awaited(t, r)}
      /\ \A w \in Words : Part(t, r, w) = Part(Back(t), r, w) \o w[Awaited(t, r)]
  BY <1>5, <1>6, Resumes
<1> QED
  BY <1>4, <1>5, <1>7 DEF n, t, r

\* The end of a node under another one keeps the forest.
LEMMA ForestOutward ==
  ASSUME TreeTypeOK, Waiting, verdict = "parsing", Forest(stack, nodes), Len(stack) > 1,
         NEW p, NEW under, NEW q, NEW x, Ascends(p, under, q, x)
  PROVE  Forest(stack', nodes')
<1> DEFINE n == Len(stack) O == OpenOf(stack) L == Len(nodes) m == Top.node z == nodes'[m] h == n - 1
<1>1. /\ Len(stack') = h /\ Len(nodes') = L /\ OpenOf(stack') = O \ {m}
      /\ \A k \in 1 .. h : stack'[k] = stack[k] /\ nodes'[stack[k].node] = nodes[stack[k].node]
      /\ \A k \in 1 .. n - 2 : Tag(stack', k) = Tag(stack, k)
      /\ Tag(stack', h) = stack[h].at
      /\ \A i \in 1 .. L : i # m => nodes'[i] = nodes[i]
      /\ z \in NodeRecs /\ Closes(Top.at, Now, z, x)
  BY PopsView
<1>2. /\ n \in 1 .. n /\ stack[n] = Top /\ Tag(stack, n) = Top.at /\ m \in O /\ Shape(Top.at, Now)
      /\ \A k \in 1 .. h : k \in 1 .. n
  BY FramesDiffer
<1>3. n \in Nat \ {0} /\ n > 1 /\ Now = nodes[m] /\ Now \in NodeRecs /\ L \in Nat /\ m \in 1 .. L
  BY TopIs DEF Now, TreeTypeOK
<1>4. /\ stack[1].node = 1
      /\ \A j, k \in 1 .. n : j < k => stack[j].node < stack[k].node
      /\ \A k \in 1 .. n : /\ Shape(Tag(stack, k), nodes[stack[k].node])
                           /\ PartRefs(Tag(stack, k), nodes[stack[k].node]) \cap O = {}
      /\ \A k \in 1 .. h : Awaited(stack[k].at, nodes[stack[k].node]) = stack[k + 1].node
      /\ \A i \in 1 .. L : \A j \in Refs(nodes[i]) : i < j /\ j <= L
      /\ \A i \in 1 .. L : i \notin O => Refs(nodes[i]) \cap O = {}
  BY DEF Forest
<1>5. Refs(z) \subseteq PartRefs(Top.at, Now)
  BY <1>1 DEF Closes
<1>6. PartRefs(Top.at, Now) \subseteq Refs(Now)
  BY <1>2, <1>3, PartOfRefs
<1>7. /\ Shape(stack[h].at, nodes[stack[h].node])
      /\ PartRefs(stack[h].at, nodes[stack[h].node]) = PartRefs(Tag(stack, h), nodes[stack[h].node]) \cup {m}
  <2> DEFINE j == h
  <2>1. j = Len(stack) - 1
    OBVIOUS
  <2> HIDE DEF j
  <2>2. /\ Shape(stack[j].at, nodes[stack[j].node])
        /\ PartRefs(stack[j].at, nodes[stack[j].node]) = PartRefs(Tag(stack, j), nodes[stack[j].node]) \cup {m}
    BY <1>3, <2>1, Below
  <2> QED
    BY <2>2 DEF j
<1> HIDE DEF n, O, L, m, z
<1>8. /\ 1 \in 1 .. h /\ h \in 1 .. n /\ h \in 1 .. h
      /\ (\A k \in 1 .. h : k \in 1 .. n - 2 \/ k = h) /\ (\A k \in 1 .. h - 1 : k \in 1 .. h /\ k + 1 \in 1 .. h)
  BY <1>3
<1> HIDE DEF h
<1>9. stack'[1].node = 1 /\ \A j, k \in 1 .. h : j < k => stack'[j].node < stack'[k].node
  BY <1>1, <1>2, <1>4, <1>8, ZenonT(60)
<1>10. \A k \in 1 .. h : /\ Shape(Tag(stack', k), nodes'[stack'[k].node])
                         /\ PartRefs(Tag(stack', k), nodes'[stack'[k].node]) \cap (O \ {m}) = {}
  <2> SUFFICES ASSUME NEW k \in 1 .. h
               PROVE  /\ Shape(Tag(stack', k), nodes'[stack'[k].node])
                      /\ PartRefs(Tag(stack', k), nodes'[stack'[k].node]) \cap (O \ {m}) = {}
    OBVIOUS
  <2>1. nodes'[stack'[k].node] = nodes[stack[k].node] /\ k \in 1 .. n
    BY <1>1, <1>2
  <2>2. CASE k \in 1 .. n - 2
    <3>1. Tag(stack', k) = Tag(stack, k)
      BY <1>1, <2>2
    <3> QED
      BY <1>4, <2>1, <3>1
  <2>3. CASE k = h
    <3>1. PartRefs(Tag(stack, k), nodes[stack[k].node]) \cap O = {}
      BY <1>4, <2>1
    <3> QED
      BY <1>1, <1>7, <2>1, <2>3, <3>1
  <2> QED
    BY <1>8, <2>2, <2>3
<1>11. \A k \in 1 .. h - 1 : Awaited(stack'[k].at, nodes'[stack'[k].node]) = stack'[k + 1].node
  <2> SUFFICES ASSUME NEW k \in 1 .. h - 1 PROVE Awaited(stack'[k].at, nodes'[stack'[k].node]) = stack'[k + 1].node
    OBVIOUS
  <2>1. k \in 1 .. h /\ k + 1 \in 1 .. h
    BY <1>8
  <2>2. stack'[k] = stack[k] /\ nodes'[stack'[k].node] = nodes[stack[k].node] /\ stack'[k + 1] = stack[k + 1]
    BY <1>1, <2>1
  <2> QED
    BY <1>4, <2>1, <2>2
<1>12. \A i \in 1 .. L : \A j \in Refs(nodes'[i]) : i < j /\ j <= L
  <2> SUFFICES ASSUME NEW i \in 1 .. L, NEW j \in Refs(nodes'[i]) PROVE i < j /\ j <= L
    OBVIOUS
  <2>1. j \in Refs(nodes[i])
    BY <1>1, <1>3, <1>5, <1>6 DEF z
  <2> QED
    BY <1>4, <2>1
<1>13. \A i \in 1 .. L : i \notin O \ {m} => Refs(nodes'[i]) \cap (O \ {m}) = {}
  <2> SUFFICES ASSUME NEW i \in 1 .. L, i \notin O \ {m} PROVE Refs(nodes'[i]) \cap (O \ {m}) = {}
    OBVIOUS
  <2>1. CASE i = m
    <3>1. PartRefs(Top.at, Now) \cap O = {}
      BY <1>2, <1>3, <1>4 DEF m
    <3> QED
      BY <1>5, <2>1, <3>1 DEF z
  <2>2. CASE i # m
    BY <1>1, <1>4, <2>2
  <2> QED
    BY <2>1, <2>2
<1> QED
  BY <1>1, <1>8, <1>9, <1>10, <1>11, <1>12, <1>13 DEF Forest, h

\* What all nodes write, once the one on top does.
Fills(v, w) == v = [w EXCEPT ![Top.node] = Written(nodes'[Top.node], w)]

\* A node that has ended: what it writes is the text from where it began, and
\* nothing that was read before depends on it.
LEMMA Finished ==
  ASSUME TreeTypeOK, verdict = "parsing", Forest(stack, nodes),
         NEW p, NEW under, NEW q, NEW x, Ascends(p, under, q, x),
         NEW w, NEW u, Spells(text, stack, nodes, pos, w, u),
         NEW v, Fills(v, w)
  PROVE  /\ v \in Words
         /\ SubSeq(text, 1, p - 1) = u[Len(stack)] \o v[Top.node] /\ SubSeq(text, 1, p - 1) \in Seq(Tokens)
         /\ \A k \in 1 .. Len(stack) - 1 : Part(Tag(stack, k), nodes[stack[k].node], v) = Part(Tag(stack, k), nodes[stack[k].node], w)
         /\ \A i \in 1 .. Len(nodes) : i \notin OpenOf(stack) \ {Top.node} => v[i] = Written(nodes'[i], v)
<1> DEFINE n == Len(stack) O == OpenOf(stack) L == Len(nodes) m == Top.node z == nodes'[m] y == Written(z, w)
           all == SubSeq(text, 1, p - 1) before == SubSeq(text, 1, pos - 1)
<1>1. /\ \A i \in 1 .. L : i # m => nodes'[i] = nodes[i]
      /\ z \in NodeRecs /\ Closes(Top.at, Now, z, x)
  BY PopsView
<1>2. /\ n \in 1 .. n /\ stack[n] = Top /\ Tag(stack, n) = Top.at /\ m \in O /\ Shape(Top.at, Now)
      /\ \A k \in 1 .. n - 1 : k \in 1 .. n
      /\ \A k \in 1 .. n : stack[k].node \in 1 .. L /\ nodes[stack[k].node] \in NodeRecs
  BY FramesDiffer
<1>3. n \in Nat \ {0} /\ Now = nodes[m] /\ Now \in NodeRecs /\ L \in Nat /\ m \in 1 .. L /\ m \in Nat \ {0}
      /\ nodes \in Seq(NodeRecs)
  BY TopIs DEF Now, TreeTypeOK
<1>4. /\ \A k \in 1 .. n : /\ Shape(Tag(stack, k), nodes[stack[k].node])
                           /\ PartRefs(Tag(stack, k), nodes[stack[k].node]) \cap O = {}
      /\ \A i \in 1 .. L : i \notin O => Refs(nodes[i]) \cap O = {}
  BY DEF Forest
<1>5. /\ w \in Words /\ u \in Words /\ u[n + 1] = before
      /\ \A k \in 1 .. n : u[k + 1] = u[k] \o Part(Tag(stack, k), nodes[stack[k].node], w)
      /\ \A i \in 1 .. L : i \notin O => w[i] = Written(nodes[i], w)
  BY DEF Spells
<1>6. y = Part(Top.at, Now, w) \o x /\ x \in Seq(Tokens) /\ Refs(z) \subseteq PartRefs(Top.at, Now)
  BY <1>1, <1>5 DEF Closes
<1>7. Part(Top.at, Now, w) \in Seq(Tokens) /\ u[n] \in Seq(Tokens)
  BY <1>2, <1>3, <1>5, PartType DEF Words
<1>8. y \in Seq(Tokens)
  <2> DEFINE X == Tokens a == Part(Top.at, Now, w)
  <2>1. a \in Seq(X) /\ x \in Seq(X) /\ y = a \o x
    BY <1>6, <1>7
  <2> HIDE DEF X, a, y
  <2>2. y \in Seq(X)
    BY <2>1, Concat
  <2> QED
    BY <2>2 DEF X
<1>9. before = u[n] \o Part(Top.at, Now, w)
  BY <1>2, <1>3, <1>5
<1>10. all = u[n] \o (Part(Top.at, Now, w) \o x) /\ all \in Seq(Tokens)
  <2>1. ReadTo(x, p)
    BY Zenon DEF Ascends
  <2> QED
    BY <1>7, <1>9, <2>1, ReadBehind
<1> HIDE DEF n, O, L, m, z, all, before, y
<1>11. v = [w EXCEPT ![m] = y]
  BY DEF Fills, m, y, z
<1>16. m \in Nat /\ m \in Nat \ {0} /\ w \in Words /\ y \in Seq(Tokens)
  BY <1>3, <1>5, <1>8
<1>12. v \in Words /\ v[m] = y /\ \A k \in Nat : k # m => v[k] = w[k]
  <2>1. /\ [w EXCEPT ![m] = y] \in Words /\ [w EXCEPT ![m] = y][m] = y
        /\ \A k \in Nat : k # m => [w EXCEPT ![m] = y][k] = w[k]
    BY <1>16, OneWord
  <2> QED
    BY <1>11, <2>1
<1>13. \A k \in 1 .. n - 1 : Part(Tag(stack, k), nodes[stack[k].node], v) = Part(Tag(stack, k), nodes[stack[k].node], w)
  <2> SUFFICES ASSUME NEW k \in 1 .. n - 1
               PROVE  Part(Tag(stack, k), nodes[stack[k].node], v) = Part(Tag(stack, k), nodes[stack[k].node], w)
    OBVIOUS
  <2> DEFINE r == nodes[stack[k].node] t == Tag(stack, k)
  <2>1. r \in NodeRecs /\ Shape(t, r) /\ m \notin PartRefs(t, r)
    BY <1>2, <1>4
  <2> HIDE DEF r, t
  <2>2. Part(t, r, [w EXCEPT ![m] = y]) = Part(t, r, w)
    BY <1>16, <2>1, PartKeeps
  <2> QED
    BY <1>11, <2>2 DEF r, t
<1>14. ASSUME NEW i \in 1 .. L, i \notin O \ {m} PROVE v[i] = Written(nodes'[i], v)
  <2>1. CASE i = m
    <3>1. m \notin Refs(z)
      BY <1>2, <1>3, <1>4, <1>6 DEF m
    <3>2. Written(z, [w EXCEPT ![m] = y]) = Written(z, w)
      BY <1>1, <1>3, <1>5, <1>8, <3>1, WrittenKeeps
    <3>3. Written(z, v) = y
      BY <1>11, <3>2 DEF y
    <3> QED
      BY <1>12, <2>1, <3>3 DEF z
  <2>2. CASE i # m
    <3> DEFINE r == nodes[i]
    <3>1. r \in NodeRecs /\ m \notin Refs(r) /\ nodes'[i] = r /\ w[i] = Written(r, w) /\ i \in Nat
        <4>1. r \in NodeRecs /\ i \in Nat
        BY <1>3 DEF L
      <4>2. i \notin O
        BY <1>14, <2>2
      <4> QED
        BY <1>1, <1>2, <1>4, <1>5, <2>2, <4>1, <4>2
    <3> HIDE DEF r
    <3>2. Written(r, [w EXCEPT ![m] = y]) = Written(r, w)
      BY <1>16, <3>1, WrittenKeeps, ZenonT(60)
    <3> QED
      BY <1>11, <1>12, <2>2, <3>1, <3>2
  <2> QED
    BY <2>1, <2>2
<1>15. all = u[n] \o v[m]
  BY <1>6, <1>10, <1>12
<1> QED
  BY <1>10, <1>12, <1>13, <1>14, <1>15 DEF n, O, L, m, all

\* At the end of a node under another one, the text up to there is read.
LEMMA SpellsOutward ==
  ASSUME TreeTypeOK, Waiting, verdict = "parsing", Forest(stack, nodes), Len(stack) > 1,
         NEW p, NEW under, NEW q, NEW x, Ascends(p, under, q, x),
         NEW w, NEW u, Spells(text, stack, nodes, pos, w, u)
  PROVE  \E v, y : Spells(text, stack', nodes', p, v, y)
<1> DEFINE n == Len(stack) O == OpenOf(stack) L == Len(nodes) m == Top.node h == n - 1
           all == SubSeq(text, 1, p - 1)
           v == [w EXCEPT ![m] = Written(nodes'[m], w)]
           y == [u EXCEPT ![n] = all]
           W == Seq(Tokens)
<1>1. /\ Len(stack') = h /\ Len(nodes') = L /\ OpenOf(stack') = O \ {m}
      /\ \A k \in 1 .. h : stack'[k] = stack[k] /\ nodes'[stack[k].node] = nodes[stack[k].node]
      /\ \A k \in 1 .. n - 2 : Tag(stack', k) = Tag(stack, k)
      /\ Tag(stack', h) = stack[h].at
  BY PopsView
<1>2. /\ \A k \in 1 .. h : k \in 1 .. n
      /\ \A k \in 1 .. n : nodes[stack[k].node] \in NodeRecs
  BY FramesDiffer
<1>3. n \in Nat \ {0} /\ n > 1
  BY TopIs
<1>4. /\ v \in Words /\ all = u[n] \o v[m] /\ all \in Seq(Tokens)
      /\ \A k \in 1 .. h : Part(Tag(stack, k), nodes[stack[k].node], v) = Part(Tag(stack, k), nodes[stack[k].node], w)
      /\ \A i \in 1 .. L : i \notin O \ {m} => v[i] = Written(nodes'[i], v)
  <2> HIDE DEF v
  <2>1. Fills(v, w)
    BY DEF Fills, v
  <2>2. /\ v \in Words
        /\ SubSeq(text, 1, p - 1) = u[Len(stack)] \o v[Top.node] /\ SubSeq(text, 1, p - 1) \in Seq(Tokens)
        /\ \A k \in 1 .. Len(stack) - 1 : Part(Tag(stack, k), nodes[stack[k].node], v) = Part(Tag(stack, k), nodes[stack[k].node], w)
        /\ \A i \in 1 .. Len(nodes) : i \notin OpenOf(stack) \ {Top.node} => v[i] = Written(nodes'[i], v)
    BY <2>1, Finished
  <2> QED
    BY <2>2
<1>5. /\ w \in Words /\ u \in Words /\ u[1] = <<>>
      /\ \A k \in 1 .. n : u[k + 1] = u[k] \o Part(Tag(stack, k), nodes[stack[k].node], w)
  BY DEF Spells
<1>6. /\ Part(stack[h].at, nodes[stack[h].node], v) = Part(Tag(stack, h), nodes[stack[h].node], v) \o v[m]
      /\ Shape(Tag(stack, h), nodes[stack[h].node])
  <2> DEFINE j == h
  <2>1. j = Len(stack) - 1
    OBVIOUS
  <2> HIDE DEF j, v
  <2>2. /\ \A f \in Words : Part(stack[j].at, nodes[stack[j].node], f) = Part(Tag(stack, j), nodes[stack[j].node], f) \o f[m]
        /\ j \in 1 .. Len(stack)
    BY <1>3, <2>1, Below
  <2> QED
    BY <1>4, <2>2 DEF j, Forest
<1>7. m \in Nat
  BY TopIs DEF TreeTypeOK
<1> HIDE DEF n, O, L, m, all, v, W
<1>8. /\ 1 \in 1 .. h /\ h \in 1 .. n /\ h \in 1 .. h /\ h + 1 = n /\ n \in Nat /\ 1 # n /\ 1 \in Nat /\ h \in Nat /\ h # n
      /\ (\A k \in 1 .. h : k \in 1 .. n - 2 \/ k = h)
      /\ (\A k \in 1 .. n - 2 : k \in Nat /\ k + 1 \in Nat /\ k # n /\ k + 1 # n)
  BY <1>3
<1>9. y \in Words /\ y[n] = all /\ \A k \in Nat : k # n => y[k] = u[k]
  <2>1. n \in Nat /\ u \in Words /\ all \in Seq(Tokens)
    BY <1>4, <1>5, <1>8
  <2> QED
    BY <2>1, OneWord
<1> HIDE DEF h, y
<1>10. all = u[h] \o Part(stack[h].at, nodes[stack[h].node], v)
  <2> DEFINE a == u[h] b == Part(Tag(stack, h), nodes[stack[h].node], w) c == v[m] X == Tokens
  <2>1. a \in Seq(X) /\ c \in Seq(X)
    BY <1>4, <1>5, <1>7, <1>8 DEF Words
  <2>2. b \in Seq(X)
    BY <1>2, <1>5, <1>6, <1>8, PartType
  <2>3. all = (a \o b) \o c
    <3>1. u[n] = a \o b
      BY <1>5, <1>8
    <3> QED
      BY <1>4, <3>1
  <2>4. Part(stack[h].at, nodes[stack[h].node], v) = b \o c
    BY <1>4, <1>6, <1>8
  <2> HIDE DEF a, b, c, X
  <2>5. (a \o b) \o c = a \o (b \o c)
    BY <2>1, <2>2, Assoc, SMTT(30)
  <2> QED
    BY <2>3, <2>4, <2>5 DEF a
<1>11. ASSUME NEW k \in 1 .. h PROVE y[k + 1] = y[k] \o Part(Tag(stack', k), nodes'[stack'[k].node], v)
  <2>1. nodes'[stack'[k].node] = nodes[stack[k].node]
    BY <1>1
  <2>2. CASE k \in 1 .. n - 2
    <3>1. y[k + 1] = u[k + 1] /\ y[k] = u[k]
      BY <1>8, <1>9, <2>2
    <3>2. Tag(stack', k) = Tag(stack, k)
      BY <1>1, <2>2
    <3> QED
      BY <1>2, <1>4, <1>5, <2>1, <3>1, <3>2
  <2>3. CASE k = h
    <3>1. y[k + 1] = all /\ y[k] = u[h]
      BY <1>8, <1>9, <2>3
    <3> QED
      BY <1>1, <1>10, <2>1, <2>3, <3>1
  <2> QED
    BY <1>8, <2>2, <2>3
<1>12. y[1] = <<>> /\ y[h + 1] = all
  BY <1>5, <1>8, <1>9
<1>13. Spells(text, stack', nodes', p, v, y)
  BY <1>1, <1>4, <1>9, <1>11, <1>12 DEF Spells, all
<1> QED
  BY <1>13

\* The nodes refer to later ones, and w is what they write: the first one
\* the text up to p.
Spelt(t, nds, p, w) ==
  /\ w \in Words /\ w[1] = SubSeq(t, 1, p - 1)
  /\ \A n \in 1 .. Len(nds) : w[n] = Written(nds[n], w)
  /\ \A n \in 1 .. Len(nds) : \A m \in Refs(nds[n]) : n < m /\ m <= Len(nds)

\* At the end of the first node, the text up to there is that of the tree.
LEMMA SpellsLast ==
  ASSUME TreeTypeOK, verdict = "parsing", Forest(stack, nodes), Len(stack) = 1,
         NEW p, NEW under, NEW q, NEW x, Ascends(p, under, q, x),
         NEW w, NEW u, Spells(text, stack, nodes, pos, w, u)
  PROVE  \E v : Spelt(text, nodes', p, v)
<1> DEFINE O == OpenOf(stack) L == Len(nodes) m == Top.node z == nodes'[m]
           all == SubSeq(text, 1, p - 1)
           v == [w EXCEPT ![m] = Written(nodes'[m], w)]
<1>1. /\ Len(nodes') = L /\ z \in NodeRecs /\ Closes(Top.at, Now, z, x)
      /\ \A i \in 1 .. L : i # m => nodes'[i] = nodes[i]
  BY PopsView
<1>2. stack[1] = Top /\ Shape(Top.at, Now) /\ Now = nodes[m] /\ Now \in NodeRecs /\ m \in 1 .. L
  BY FramesDiffer, TopIs DEF Now
<1>3. stack[1].node = 1 /\ \A i \in 1 .. L : \A j \in Refs(nodes[i]) : i < j /\ j <= L
  BY DEF Forest
<1>4. m = 1
  BY <1>2, <1>3
<1>5. O = {m}
  <2>1. O = {stack[k].node : k \in 1 .. 1}
    BY DEF OpenOf
  <2> QED
    BY <1>2, <2>1
<1>6. /\ v \in Words /\ all = u[1] \o v[m] /\ all \in Seq(Tokens)
      /\ \A i \in 1 .. L : i \notin O \ {m} => v[i] = Written(nodes'[i], v)
  <2> HIDE DEF v
  <2>1. Fills(v, w)
    BY DEF Fills, v
  <2>2. /\ v \in Words
        /\ SubSeq(text, 1, p - 1) = u[Len(stack)] \o v[Top.node] /\ SubSeq(text, 1, p - 1) \in Seq(Tokens)
        /\ \A k \in 1 .. Len(stack) - 1 : Part(Tag(stack, k), nodes[stack[k].node], v) = Part(Tag(stack, k), nodes[stack[k].node], w)
        /\ \A i \in 1 .. Len(nodes) : i \notin OpenOf(stack) \ {Top.node} => v[i] = Written(nodes'[i], v)
    BY <2>1, Finished, ZenonT(30)
  <2> QED
    BY <2>2
<1>7. u[1] = <<>>
  BY DEF Spells
<1>8. Refs(z) \subseteq Refs(nodes[m])
  <2>1. Refs(z) \subseteq PartRefs(Top.at, Now)
    BY <1>1 DEF Closes
  <2>2. PartRefs(Top.at, Now) \subseteq Refs(Now)
    BY <1>2, PartOfRefs
  <2> QED
    BY <1>2, <2>1, <2>2
<1> HIDE DEF O, L, m, z, all, v
<1>9. \A i \in 1 .. L : \A j \in Refs(nodes'[i]) : i < j /\ j <= L
  <2> SUFFICES ASSUME NEW i \in 1 .. L, NEW j \in Refs(nodes'[i]) PROVE i < j /\ j <= L
    OBVIOUS
  <2>1. j \in Refs(nodes[i])
    BY <1>1, <1>8 DEF z
  <2> QED
    BY <1>3, <2>1
<1>10. v[1] = all
  <2>1. v[m] \in Seq(Tokens)
    BY <1>4, <1>6 DEF Words
  <2>2. <<>> \o v[m] = v[m]
    BY <2>1, Neutral
  <2> QED
    BY <1>4, <1>6, <1>7, <2>2
<1>11. \A i \in 1 .. L : v[i] = Written(nodes'[i], v)
  BY <1>5, <1>6
<1>12. Spelt(text, nodes', p, v)
  BY <1>1, <1>6, <1>9, <1>10, <1>11 DEF Spelt, all
<1> QED
  BY <1>12

\* The parser's frames and nodes tell the text up to p, the nodes of a tree do.
Tells(t, stk, nds, p) == Forest(stk, nds) /\ \E w, u : Spells(t, stk, nds, p, w, u)
Told(t, nds, p) == \E w : Spelt(t, nds, p, w)

\* So it is from the first token to the last, if nothing behind the input is
\* taken for a part of it.
TextInv ==
  NothingBehind \/ Request(Input) =>
    /\ verdict = "parsing" => Tells(text, stack, nodes, pos)
    /\ verdict = "tree" => Told(text, nodes, pos)

\* The state that a step goes on with is one.
LEMMA OneState ==
  ASSUME TreeTypeOK, verdict = "parsing", NEW s \in States, NEW t, NEW p, NEW r, GoesOn(s, p), GoesOn(t, r)
  PROVE  t = s
<1> DEFINE n == Len(stack) F == Frames
<1>1. n \in Nat \ {0} /\ stack \in Seq(F) /\ n \in 1 .. n /\ stack[n] = Top /\ Top \in F
  BY TopIs DEF TreeTypeOK
<1>2. stack' = [stack EXCEPT ![n].at = s] /\ stack' = [stack EXCEPT ![n].at = t]
  BY DEF GoesOn
<1> DEFINE x == [stack[n] EXCEPT !.at = s] y == [stack[n] EXCEPT !.at = t]
<1>3. x.at = s /\ y.at = t
  BY <1>1 DEF Frames
<1>4. stack' = [stack EXCEPT ![n] = x] /\ stack' = [stack EXCEPT ![n] = y]
  BY <1>2
<1>5. n \in DOMAIN stack
  BY <1>1
<1> HIDE DEF n, F, x, y
<1>6. stack'[n] = x /\ stack'[n] = y
  BY <1>4, <1>5
<1> QED
  BY <1>3, <1>6

\* Staying in the node.
LEMMA TellsOnward ==
  ASSUME TreeInv, verdict = "parsing", Tells(text, stack, nodes, pos), Onward
  PROVE  verdict' = "parsing" /\ Tells(text, stack', nodes', pos')
<1>1. TreeTypeOK /\ Placed /\ Forest(stack, nodes)
  BY DEF TreeInv, Tells
<1>2. PICK w, u : Spells(text, stack, nodes, pos, w, u)
  BY DEF Tells
<1>3. PICK s \in States, p \in Nat \ {0} : GoesOn(s, p)
  BY <1>1, OnwardGoes
<1>4. Shape(Top.at, Now)
  BY <1>1, FramesDiffer
<1>5. PICK t, q, x : Reads(t, q, x)
  BY <1>4, OnwardReads
<1>6. GoesOn(t, pos') /\ Changed(nodes', q) /\ Grows(Top.at, Now, t, q, x, {}) /\ ReadTo(x, pos')
  BY <1>5, Zenon DEF Reads
<1>7. t = s
  BY <1>1, <1>3, <1>6, OneState
<1>8. Stays(t)
  BY <1>1, <1>3, <1>7, StaysIs
<1>9. Forest(stack', nodes')
  BY <1>1, <1>6, <1>8, ForestOnward
<1>10. \E v : Spells(text, stack', nodes', pos', w, v)
  BY <1>1, <1>2, <1>6, <1>8, SpellsOnward
<1>11. verdict' = "parsing"
  BY <1>6 DEF GoesOn
<1> QED
  BY <1>9, <1>10, <1>11 DEF Tells

\* Going to a new node.
LEMMA TellsInward ==
  ASSUME TreeInv, verdict = "parsing", Tells(text, stack, nodes, pos), Inward
  PROVE  verdict' = "parsing" /\ Tells(text, stack', nodes', pos')
<1>1. TreeTypeOK /\ Forest(stack, nodes)
  BY DEF TreeInv, Tells
<1>2. PICK w, u : Spells(text, stack, nodes, pos, w, u)
  BY DEF Tells
<1>4. Shape(Top.at, Now)
  BY <1>1, FramesDiffer
<1>5. PICK s, p, type, under, q, x : Descends(s, p, type, under, q, x)
  BY <1>4, InwardReads
<1>6. Forest(stack', nodes')
  BY <1>1, <1>5, ForestInward
<1>7. \E v : Spells(text, stack', nodes', p, w, v)
  BY <1>1, <1>2, <1>5, SpellsInward
<1>8. verdict' = "parsing" /\ pos' = p
  BY <1>5 DEF Descends, Enters
<1> QED
  BY <1>6, <1>7, <1>8 DEF Tells

\* The end of a node.
LEMMA TellsOutward ==
  ASSUME TreeInv, verdict = "parsing", Tells(text, stack, nodes, pos), Outward
  PROVE  /\ verdict' = "parsing" => Tells(text, stack', nodes', pos')
         /\ verdict' = "tree" => Told(text, nodes', pos')
<1>1. TreeTypeOK /\ Waiting /\ Forest(stack, nodes)
  BY DEF TreeInv, Tells
<1>2. PICK w, u : Spells(text, stack, nodes, pos, w, u)
  BY DEF Tells
<1>4. Shape(Top.at, Now)
  BY <1>1, FramesDiffer
<1>5. PICK p, under, q, x : Ascends(p, under, q, x)
  BY <1>4, OutwardReads
<1>6. pos' = p /\ verdict' = IF Len(stack) = 1 THEN "tree" ELSE "parsing"
  BY <1>5, Zenon DEF Ascends, Returns
<1>7. ASSUME Len(stack) > 1 PROVE Tells(text, stack', nodes', pos')
  <2>1. Forest(stack', nodes')
    BY <1>1, <1>5, <1>7, ForestOutward
  <2>2. \E v, y : Spells(text, stack', nodes', p, v, y)
    BY <1>1, <1>2, <1>5, <1>7, SpellsOutward
  <2> QED
    BY <1>6, <2>1, <2>2 DEF Tells
<1>8. ASSUME Len(stack) = 1 PROVE Told(text, nodes', pos')
  <2>1. \E v : Spelt(text, nodes', p, v)
    BY <1>1, <1>2, <1>5, <1>8, SpellsLast
  <2> QED
    BY <1>6, <2>1 DEF Told
<1>9. Len(stack) = 1 \/ Len(stack) > 1
  BY <1>1, TopIs
<1> QED
  BY <1>6, <1>7, <1>8, <1>9

\* Before the first token nothing is read, of one node.
LEMMA TellsStarts ==
  ASSUME TreeInv, Starts
  PROVE  Tells(text, stack', nodes', pos')
<1> DEFINE node == NewNode("NORMAL") frame == Frame(1) X == Tokens e == [i \in Nat |-> <<>>]
<1>1. stack' = <<frame>> /\ nodes' = <<node>> /\ pos' = 1
  <2>1. verdict = "start" /\ pos' = pos
    BY Zenon DEF Starts
  <2>2. stack' = <<frame>> /\ nodes' = <<node>>
    BY Zenon DEF Starts
  <2> QED
    BY <2>1, <2>2 DEF TreeInv, Unread
<1>2. frame.node = 1 /\ frame.at = "value"
  BY DEF Frame
<1>3. "NORMAL" \in NodeTypes \ {"CONTAINER"}
  BY DEF NodeTypes
<1>4. /\ Shape("value", node) /\ Refs(node) = {} /\ PartRefs("value", node) = {}
      /\ \A w : Part("value", node, w) = <<>>
  BY <1>3, NewNodeIs
<1> HIDE DEF node, frame
<1>5. /\ Len(stack') = 1 /\ stack'[1] = frame /\ Len(nodes') = 1 /\ nodes'[1] = node
      /\ \A k \in 1 .. 1 : k = 1
  BY <1>1
<1>6. Tag(stack', 1) = "value"
  BY <1>2, <1>5 DEF Tag
<1>7. OpenOf(stack') = {1}
  <2>1. OpenOf(stack') = {stack'[k].node : k \in 1 .. 1}
    BY <1>5 DEF OpenOf
  <2> QED
    BY <1>2, <1>5, <2>1
<1>8. Forest(stack', nodes')
  <2>1. stack'[1].node = 1
    BY <1>2, <1>5
  <2>2. \A j, k \in 1 .. 1 : ~ (j < k)
    OBVIOUS
  <2>3. \A k \in 1 .. 1 : /\ Shape(Tag(stack', k), nodes'[stack'[k].node])
                          /\ PartRefs(Tag(stack', k), nodes'[stack'[k].node]) \cap OpenOf(stack') = {}
    BY <1>4, <1>5, <1>6, <2>1
  <2>4. \A k \in 1 .. 1 - 1 : FALSE
    OBVIOUS
  <2>5. \A n \in 1 .. 1 : Refs(nodes'[n]) = {}
    BY <1>4, <1>5
  <2> QED
    BY <1>5, <2>1, <2>2, <2>3, <2>4, <2>5 DEF Forest
<1>9. e \in Words /\ e[1] = <<>> /\ e[2] = <<>>
  <2>1. \A i \in Nat : <<>> \in Seq(X)
    OBVIOUS
  <2>2. e \in [Nat -> Seq(X)] /\ e[1] = <<>> /\ e[2] = <<>>
    BY <2>1
  <2> QED
    BY <2>2 DEF Words, X
<1> HIDE DEF e
<1>10. Spells(text, stack', nodes', pos', e, e)
  <2>1. SubSeq(text, 1, 1 - 1) = <<>>
    BY DEF TreeInv, TreeTypeOK
  <2>2. Part(Tag(stack', 1), nodes'[stack'[1].node], e) = <<>>
    BY <1>2, <1>4, <1>5, <1>6
  <2>3. <<>> \o <<>> = <<>>
    OBVIOUS
  <2>4. e[Len(stack') + 1] = <<>>
    BY <1>5, <1>9
  <2>5. \A k \in 1 .. Len(stack') : e[k + 1] = e[k] \o Part(Tag(stack', k), nodes'[stack'[k].node], e)
    <3> SUFFICES ASSUME NEW k \in 1 .. Len(stack')
                 PROVE  e[k + 1] = e[k] \o Part(Tag(stack', k), nodes'[stack'[k].node], e)
      OBVIOUS
    <3>1. k = 1
      BY <1>5
    <3>2. k + 1 = 2
      BY <3>1
    <3> QED
      BY <1>9, <2>2, <2>3, <3>1, <3>2, Zenon
  <2>6. \A n \in 1 .. Len(nodes') : n \in OpenOf(stack')
    BY <1>5, <1>7
  <2> QED
    BY <1>1, <1>9, <2>1, <2>4, <2>5, <2>6 DEF Spells
<1> QED
  BY <1>8, <1>10 DEF Tells

\* A step of the parser keeps what is read and what the nodes tell the same.
LEMMA TextInvStep ==
  ASSUME TreeInv, Viable, TextInv, TreeNext
  PROVE  TextInv'
<1>0. TreeTypeOK
  BY DEF TreeInv
<1>1. text' = text /\ size' = size
  BY SameText
<1>2. Input' = Input /\ NothingBehind' = NothingBehind
  BY <1>1 DEF Input, NothingBehind
<1>3. CASE ~ (NothingBehind \/ Request(Input))
  BY <1>2, <1>3 DEF TextInv
<1>4. CASE NothingBehind \/ Request(Input)
  <2> SUFFICES /\ verdict' = "parsing" => Tells(text, stack', nodes', pos')
               /\ verdict' = "tree" => Told(text, nodes', pos')
    BY <1>1 DEF TextInv
  <2>1. CASE Starts
    <3>1. verdict' = "parsing"
      BY <2>1, Zenon DEF Starts
    <3> QED
      BY <2>1, <3>1, TellsStarts
  <2>2. CASE NoTree
    <3>1. verdict' \in {"null", "error"}
      BY <2>2, Zenon DEF NoTree, ParseError
    <3> QED
      BY <3>1
  <2>3. verdict = "parsing" => Tells(text, stack, nodes, pos)
    BY <1>4 DEF TextInv
  <2>4. CASE verdict = "parsing" /\ Onward
    BY <2>3, <2>4, TellsOnward
  <2>5. CASE verdict = "parsing" /\ Inward
    BY <2>3, <2>5, TellsInward
  <2>6. CASE verdict = "parsing" /\ Outward
    BY <2>3, <2>6, TellsOutward
  <2>7. verdict = "parsing" => ~ Overrun
    BY <1>4, Modes, NoOverrun, Zenon
  <2>8. CASE verdict = "parsing" /\ Fails
    <3>1. verdict' = "error"
      BY <2>8 DEF Fails, ParseError
    <3> QED
      BY <3>1
  <2> QED
    BY <1>0, <2>1, <2>2, <2>4, <2>5, <2>6, <2>7, <2>8, StepsAre
<1> QED
  BY <1>3, <1>4

\* What leaves the tree alone keeps that.
LEMMA TextInvKept ==
  ASSUME TextInv, UNCHANGED treeVars
  PROVE  TextInv'
<1>1. text' = text /\ size' = size /\ pos' = pos /\ nodes' = nodes /\ stack' = stack /\ verdict' = verdict
  BY DEF treeVars
<1>2. Input' = Input /\ NothingBehind' = NothingBehind
  BY <1>1 DEF Input, NothingBehind
<1> QED
  BY <1>1, <1>2, Zenon DEF TextInv

\* Every step of the service does.
LEMMA TextInvNext == ParserInv /\ TextInv /\ [DocNext]_docVars => TextInv'
<1> SUFFICES ASSUME ParserInv, TextInv, [DocNext]_docVars PROVE TextInv'
  OBVIOUS
<1>1. CASE Parse
  <2>1. TreeInv /\ Viable /\ TreeNext
    BY <1>1 DEF ParserInv, Parse
  <2> QED
    BY <2>1, TextInvStep
<1>2. CASE NextText
  <2>1. verdict' = "start"
    BY <1>2, Zenon DEF NextText
  <2> QED
    BY <2>1 DEF TextInv
<1>3. CASE Run \/ CopyOut \/ ErrorOut \/ UNCHANGED docVars
  <2>1. UNCHANGED treeVars
    BY <1>3 DEF Run, CopyOut, ErrorOut, docVars
  <2> QED
    BY <2>1, TextInvKept
<1> QED
  BY <1>1, <1>2, <1>3 DEF DocNext, DocStep

\* So it holds in every state of the service.
LEMMA TextInductive == DocSpec => []TextInv
<1>1. DocInit => TextInv
  BY Zenon DEF DocInit, TreeInit, TextInv
<1> QED
  BY <1>1, ParserInductive, TextInvNext, PTL DEF DocSpec

-----------------------------------------------------------------------------
(* The output of the tree *)

\* What a node writes depends on the nodes it refers to only.
LEMMA WrittenSame ==
  ASSUME NEW r, NEW f, NEW g, \A m \in Refs(r) : f[m] = g[m]
  PROVE  Written(r, f) = Written(r, g)
<1>1. \A i \in DOMAIN r.attrs : Member(r.attrs[i], f) = Member(r.attrs[i], g)
  <2> SUFFICES ASSUME NEW i \in DOMAIN r.attrs PROVE Member(r.attrs[i], f) = Member(r.attrs[i], g)
    OBVIOUS
  <2>1. r.attrs[i].node # 0 => r.attrs[i].node \in Refs(r)
    BY Zenon DEF Refs, AttrRefs
  <2>2. r.attrs[i].node # 0 => f[r.attrs[i].node] = g[r.attrs[i].node]
    BY <2>1
  <2> QED
    BY <2>2, Zenon DEF Member
<1>2. MemberList(r.attrs, f) = MemberList(r.attrs, g)
  BY <1>1, Zenon DEF MemberList
<1>3. \A i \in DOMAIN r.kids : f[r.kids[i]] = g[r.kids[i]]
  <2> SUFFICES ASSUME NEW i \in DOMAIN r.kids PROVE f[r.kids[i]] = g[r.kids[i]]
    OBVIOUS
  <2>1. r.kids[i] \in Refs(r)
    BY Zenon DEF Refs, KidRefs
  <2> QED
    BY <2>1
<1>4. ChildList(r.kids, f) = ChildList(r.kids, g)
  BY <1>3, Zenon DEF ChildList
<1> QED
  BY <1>2, <1>4, Zenon DEF Written

\* f has for every node what it writes.
Writes(L, nds, f) == \A n \in 1 .. L : f[n] = Written(nds[n], f)

\* Nodes refer to later ones.
Ordered(L, nds) == \A n \in 1 .. L : \A m \in Refs(nds[n]) : m \in Nat /\ n < m /\ m <= L

\* A function that has for every node what it writes is the one that Output
\* takes: nodes refer to later ones only.
LEMMA OneOutput ==
  ASSUME NEW L \in Nat, NEW nds, NEW w, NEW f,
         Writes(L, nds, w), Writes(L, nds, f), Ordered(L, nds)
  PROVE  \A n \in 1 .. L : f[n] = w[n]
<1> DEFINE S == {k \in Nat : \A n \in 1 .. L : L < n + k => f[n] = w[n]}
<1>1. 0 \in S
  OBVIOUS
<1>2. ASSUME NEW k \in Nat, k \in S PROVE k + 1 \in S
  <2>1. ASSUME NEW n \in 1 .. L, L < n + (k + 1) PROVE f[n] = w[n]
    <3>1. \A m \in Refs(nds[n]) : f[m] = w[m]
      <4> SUFFICES ASSUME NEW m \in Refs(nds[n]) PROVE f[m] = w[m]
        OBVIOUS
      <4>1. m \in 1 .. L /\ L < m + k
        <5>1. m \in Nat /\ n < m /\ m <= L
          BY DEF Ordered
        <5> QED
          BY <2>1, <5>1
      <4> QED
        BY <1>2, <4>1
    <3>2. Written(nds[n], f) = Written(nds[n], w)
      BY <3>1, WrittenSame
    <3> QED
      BY <3>2 DEF Writes
  <2> QED
    BY <2>1
<1> HIDE DEF S
<1>3. Nat \subseteq S
  BY <1>1, <1>2, Induction
<1>4. L \in S
  BY <1>3
<1> QED
  BY <1>4 DEF S

Pieces == [tok : Tokens, quoted : BOOLEAN]

\* What Output writes of attributes, of elements and of a list of parts.
PieceMember(a, out) ==
  AsRead(<<a.name, ":">>) \o (IF a.node = 0 THEN AsString(a.value) ELSE out[a.node])
PieceMembers(list, out) == [i \in DOMAIN list |-> PieceMember(list[i], out)]
PieceElements(raw) == [i \in DOMAIN raw |-> AsRead(raw[i])]
Between(o, parts, c) == AsRead(o) \o Joined(parts, AsRead(OneComma)) \o AsRead(c)

\* What it writes of a node with record r, if out is what it writes of others.
Pieced(r, out) ==
  IF r.type = "CONTAINER"
  THEN Between(OpenBracket,
               IF ChildList(r.kids, out) = <<>> THEN PieceElements(r.raw) ELSE ChildList(r.kids, out),
               ShutBracket)
  ELSE Between(OpenBrace, PieceMembers(r.attrs, out), ShutBrace)

\* Output writes a node as it does the others.
LEMMA OutputOfIs ==
  ASSUME NEW n, NEW out
  PROVE  OutputOf(n, out) = Pieced(nodes[n], out)
BY Zenon DEF OutputOf, Pieced, Between, OpenBrace, ShutBrace, OpenBracket, ShutBracket, OneComma,
             PieceMembers, PieceMember, PieceElements, ChildList

\* The tokens of pieces are a text, that of parts one behind the other is
\* that of the parts.
LEMMA ToksAre ==
  /\ \A a \in Seq(Pieces) : Toks(a) \in Seq(Tokens) /\ Len(Toks(a)) = Len(a)
  /\ \A a, b \in Seq(Pieces) : a \o b \in Seq(Pieces) /\ Toks(a \o b) = Toks(a) \o Toks(b)
  /\ Toks(<<>>) = <<>>
<1> DEFINE P == Pieces
<1>1. \A p \in P : p.tok \in Tokens
  BY DEF Pieces
<1> HIDE DEF P
<1>2. \A a \in Seq(P) : Toks(a) \in Seq(Tokens) /\ Len(Toks(a)) = Len(a)
                       /\ \A k \in 1 .. Len(a) : Toks(a)[k] = a[k].tok
  BY <1>1 DEF Toks
<1>3. ASSUME NEW a \in Seq(P), NEW b \in Seq(P)
      PROVE  a \o b \in Seq(P) /\ Toks(a \o b) = Toks(a) \o Toks(b)
  <2> DEFINE c == a \o b x == Toks(a) y == Toks(b) z == Toks(c)
  <2>1. /\ c \in Seq(P) /\ Len(c) = Len(a) + Len(b)
        /\ \A k \in 1 .. Len(a) : c[k] = a[k]
        /\ \A k \in 1 .. Len(b) : c[Len(a) + k] = b[k]
    BY Concat
  <2> HIDE DEF c
  <2>2. /\ x \in Seq(Tokens) /\ Len(x) = Len(a) /\ y \in Seq(Tokens) /\ Len(y) = Len(b)
        /\ z \in Seq(Tokens) /\ Len(z) = Len(a) + Len(b)
        /\ \A k \in 1 .. Len(a) : x[k] = a[k].tok
        /\ \A k \in 1 .. Len(b) : y[k] = b[k].tok
        /\ \A k \in 1 .. Len(c) : z[k] = c[k].tok
    BY <1>2, <2>1
  <2>3. Len(a) \in Nat /\ Len(b) \in Nat
    OBVIOUS
  <2> HIDE DEF x, y, z
  <2>4. \A k \in 1 .. Len(x) : z[k] = x[k]
    <3> SUFFICES ASSUME NEW k \in 1 .. Len(x) PROVE z[k] = x[k]
      OBVIOUS
    <3>1. k \in 1 .. Len(a) /\ k \in 1 .. Len(c)
      BY <2>1, <2>2, <2>3
    <3> QED
      BY <2>1, <2>2, <3>1
  <2>5. \A k \in 1 .. Len(y) : z[Len(x) + k] = y[k]
    <3> SUFFICES ASSUME NEW k \in 1 .. Len(y) PROVE z[Len(x) + k] = y[k]
      OBVIOUS
    <3>1. k \in 1 .. Len(b) /\ Len(a) + k \in 1 .. Len(c)
      BY <2>1, <2>2, <2>3
    <3>2. z[Len(a) + k] = y[k]
      BY <2>1, <2>2, <3>1
    <3> QED
      BY <2>2, <3>2
  <2>6. x \in Seq(Tokens) /\ y \in Seq(Tokens) /\ z \in Seq(Tokens) /\ Len(z) = Len(x) + Len(y)
    BY <2>2
  <2>7. z = x \o y
    BY <2>4, <2>5, <2>6, IsConcat, Zenon
  <2> QED
    BY <2>1, <2>7 DEF c, x, y, z
<1>4. Toks(<<>>) = <<>>
  <2> DEFINE e == <<>>
  <2>1. e \in Seq(P) /\ Len(e) = 0
    OBVIOUS
  <2> HIDE DEF e
  <2>2. Toks(e) \in Seq(Tokens) /\ Len(Toks(e)) = 0
    BY <1>2, <2>1
  <2>3. Toks(e) = <<>>
    BY <2>2
  <2> QED
    BY <2>3 DEF e
<1> QED
  BY <1>2, <1>3, <1>4 DEF P

\* The tokens of a text are that text, with or without quotes.
LEMMA TextToks ==
  ASSUME NEW x \in Seq(Tokens)
  PROVE  /\ AsRead(x) \in Seq(Pieces) /\ Toks(AsRead(x)) = x
         /\ AsString(x) \in Seq(Pieces) /\ Toks(AsString(x)) = x
<1>1. \A t \in Tokens, q \in BOOLEAN :
        [tok |-> t, quoted |-> q] \in Pieces /\ [tok |-> t, quoted |-> q].tok = t
  BY DEF Pieces
<1>2. ASSUME NEW q \in [DOMAIN x -> BOOLEAN], NEW a, a = [k \in DOMAIN x |-> [tok |-> x[k], quoted |-> q[k]]]
      PROVE  a \in Seq(Pieces) /\ Toks(a) = x
  <2> DEFINE P == Pieces
  <2>1. \A k \in DOMAIN x : a[k] \in P /\ a[k].tok = x[k]
    BY <1>1, <1>2
  <2>2. a \in [1 .. Len(x) -> P] /\ Len(x) \in Nat
    BY <1>2, <2>1
  <2> HIDE DEF P
  <2>3. a \in Seq(P) /\ Len(a) = Len(x)
    BY <2>2
  <2>4. Toks(a) = [k \in DOMAIN x |-> a[k].tok]
    BY <1>2, Zenon DEF Toks
  <2>5. Toks(a) = x
    BY <2>1, <2>4
  <2> QED
    BY <2>3, <2>5 DEF P
<1>3. AsRead(x) \in Seq(Pieces) /\ Toks(AsRead(x)) = x
  <2> DEFINE q == [k \in DOMAIN x |-> x[k] \in Strings]
  <2>1. \A k \in DOMAIN x : (x[k] \in Strings) \in BOOLEAN
    OBVIOUS
  <2>2. q \in [DOMAIN x -> BOOLEAN]
    BY <2>1
  <2>3. AsRead(x) = [k \in DOMAIN x |-> [tok |-> x[k], quoted |-> q[k]]]
    BY Zenon DEF AsRead
  <2> HIDE DEF q
  <2> QED
    BY <1>2, <2>2, <2>3
<1>4. AsString(x) \in Seq(Pieces) /\ Toks(AsString(x)) = x
  <2> DEFINE q == [k \in DOMAIN x |-> TRUE]
  <2>1. q \in [DOMAIN x -> BOOLEAN]
    OBVIOUS
  <2>2. AsString(x) = [k \in DOMAIN x |-> [tok |-> x[k], quoted |-> q[k]]]
    BY Zenon DEF AsString
  <2> HIDE DEF q
  <2> QED
    BY <1>2, <2>1, <2>2
<1> QED
  BY <1>3, <1>4

\* Parts with commas between them: the tokens are those of the parts.
LEMMA JoinedToks ==
  ASSUME NEW parts \in Seq(Seq(Pieces)), NEW texts \in Seq(Seq(Tokens)), Len(texts) = Len(parts),
         \A i \in 1 .. Len(parts) : texts[i] = Toks(parts[i])
  PROVE  /\ Joined(parts, AsRead(OneComma)) \in Seq(Pieces)
         /\ Toks(Joined(parts, AsRead(OneComma))) = Separated(texts)
<1> DEFINE P == Pieces c == AsRead(OneComma)
           s == [i \in DOMAIN parts |-> IF i = 1 THEN parts[i] ELSE c \o parts[i]]
           t == [i \in DOMAIN texts |-> IF i = 1 THEN texts[i] ELSE OneComma \o texts[i]]
           H == [a \in Seq(P) |-> Toks(a)]
<1>1. c \in Seq(P) /\ Toks(c) = OneComma /\ OneComma \in Seq(Tokens)
  BY MarkTexts, TextToks
<1>2. /\ Translates(P, Tokens, H)
      /\ \A a \in Seq(P) : H[a] = Toks(a)
  <2>1. <<>> \in Seq(P)
    OBVIOUS
  <2> QED
    BY <2>1, ToksAre DEF Translates
<1> HIDE DEF c
<1>3. /\ Len(parts) \in Nat /\ DOMAIN parts = 1 .. Len(parts) /\ DOMAIN texts = 1 .. Len(parts)
      /\ \A i \in 1 .. Len(parts) : parts[i] \in Seq(P) /\ texts[i] \in Seq(Tokens)
  OBVIOUS
<1>4. \A i \in 1 .. Len(parts) : c \o parts[i] \in Seq(P) /\ Toks(c \o parts[i]) = OneComma \o texts[i]
  BY <1>1, <1>3, ToksAre
<1>5. \A i \in 1 .. Len(parts) : OneComma \o texts[i] \in Seq(Tokens)
  BY <1>1, <1>3, Concat
<1>6. \A i \in 1 .. Len(parts) : s[i] \in Seq(P) /\ t[i] \in Seq(Tokens) /\ t[i] = Toks(s[i])
  BY <1>3, <1>4, <1>5
<1>7. DOMAIN s = 1 .. Len(parts) /\ DOMAIN t = 1 .. Len(parts)
  BY <1>3
<1>8. s = [i \in 1 .. Len(parts) |-> s[i]] /\ t = [i \in 1 .. Len(parts) |-> t[i]]
  BY <1>7
<1>9. Joined(parts, c) = FlattenSeq(s) /\ Separated(texts) = FlattenSeq(t)
  BY Zenon DEF Joined, Separated
<1> HIDE DEF s, t, H, P
<1>10. s \in Seq(Seq(P)) /\ t \in Seq(Seq(Tokens)) /\ Len(s) = Len(parts) /\ Len(t) = Len(parts)
  <2> DEFINE X == Seq(P) Y == Seq(Tokens)
  <2>a. \A i \in 1 .. Len(parts) : s[i] \in X /\ t[i] \in Y
    BY <1>6
  <2> HIDE DEF X, Y
  <2>1. s \in [1 .. Len(parts) -> X] /\ t \in [1 .. Len(parts) -> Y]
    BY <1>8, <2>a
  <2> DEFINE n == Len(parts)
  <2>b. n \in Nat /\ s \in [1 .. n -> X] /\ t \in [1 .. n -> Y]
    BY <1>3, <2>1
  <2> HIDE DEF n
  <2>c. s \in Seq(X) /\ t \in Seq(Y) /\ Len(s) = n /\ Len(t) = n
    BY <2>b
  <2>2. s \in Seq(X) /\ t \in Seq(Y) /\ Len(s) = Len(parts) /\ Len(t) = Len(parts)
    BY <2>c DEF n
  <2> QED
    BY <2>2 DEF X, Y
<1>11. FlattenSeq(s) \in Seq(P)
  BY <1>10, FlattenType
<1>12. \A i \in 1 .. Len(s) : t[i] = H[s[i]]
  BY <1>2, <1>6, <1>10
<1>13. FlattenSeq(t) = H[FlattenSeq(s)]
  BY <1>2, <1>10, <1>12, FlattenTranslated
<1>14. H[FlattenSeq(s)] = Toks(FlattenSeq(s))
  BY <1>2, <1>11
<1> QED
  BY <1>9, <1>11, <1>13, <1>14 DEF c, P

\* A list of n elements; a list of the tokens of the parts of another.
NoPart(f) == f = <<>>
Listed(n, f) == f = [i \in 1 .. n |-> f[i]]
TextsOf(parts, texts) ==
  /\ parts \in Seq(Seq(Pieces)) /\ texts \in Seq(Seq(Tokens)) /\ Len(texts) = Len(parts)
  /\ \A i \in 1 .. Len(parts) : texts[i] = Toks(parts[i])

\* The same between brackets.
LEMMA BetweenToks ==
  ASSUME NEW parts, NEW texts, TextsOf(parts, texts), NEW o \in Seq(Tokens), NEW c \in Seq(Tokens)
  PROVE  /\ Between(o, parts, c) \in Seq(Pieces)
         /\ Toks(Between(o, parts, c)) = o \o Separated(texts) \o c
<1> DEFINE j == Joined(parts, AsRead(OneComma)) p == AsRead(o) q == AsRead(c)
<1>1. j \in Seq(Pieces) /\ Toks(j) = Separated(texts)
  BY JoinedToks DEF TextsOf
<1>2. p \in Seq(Pieces) /\ Toks(p) = o /\ q \in Seq(Pieces) /\ Toks(q) = c
  BY TextToks
<1>3. Between(o, parts, c) = (p \o j) \o q
  BY DEF Between
<1> HIDE DEF j, p, q
<1>4. p \o j \in Seq(Pieces) /\ Toks(p \o j) = o \o Separated(texts)
  BY <1>1, <1>2, ToksAre
<1>5. (p \o j) \o q \in Seq(Pieces) /\ Toks((p \o j) \o q) = (o \o Separated(texts)) \o c
  BY <1>2, <1>4, ToksAre
<1> QED
  BY <1>3, <1>5

\* Lists of pieces and of their tokens.
LEMMA PartsAre ==
  ASSUME NEW n \in Nat, NEW parts, NEW texts, Listed(n, parts), Listed(n, texts),
         \A i \in 1 .. n : parts[i] \in Seq(Pieces) /\ texts[i] = Toks(parts[i])
  PROVE  TextsOf(parts, texts) /\ (NoPart(parts) <=> NoPart(texts))
<1> DEFINE X == Seq(Pieces) Y == Seq(Tokens)
<1>1. \A i \in 1 .. n : parts[i] \in X /\ texts[i] \in Y
  BY ToksAre
<1> HIDE DEF X, Y
<1>2. parts \in [1 .. n -> X] /\ texts \in [1 .. n -> Y]
  BY <1>1 DEF Listed
<1>3. /\ parts \in Seq(X) /\ texts \in Seq(Y) /\ Len(parts) = n /\ Len(texts) = n
      /\ parts = <<>> <=> texts = <<>>
  BY <1>2
<1> QED
  BY <1>3 DEF X, Y, TextsOf, NoPart

\* A node whose children are written in pieces is.
LEMMA PiecedToks ==
  ASSUME NEW r \in NodeRecs, NEW out, NEW w,
         \A m \in Refs(r) : out[m] \in Seq(Pieces) /\ w[m] = Toks(out[m])
  PROVE  Pieced(r, out) \in Seq(Pieces) /\ Toks(Pieced(r, out)) = Written(r, w)
<1> DEFINE attrs == r.attrs kids == r.kids raw == r.raw A == AttrRecs T == Seq(Tokens)
<1>1. attrs \in Seq(A) /\ kids \in Seq(Nat) /\ raw \in Seq(T)
  BY FieldTypes
<1>2. \A a \in A : a.name \in Strings /\ a.value \in Seq(Tokens) /\ a.node \in Nat
  BY DEF AttrRecs
<1>3. \A s \in Strings : <<s, ":">> \in Seq(Tokens)
  <2>1. ":" \in Tokens /\ Strings \subseteq Tokens
    BY Zenon DEF Tokens, Punctuation
  <2> QED
    BY <2>1
<1> HIDE DEF A, T
<1>4. /\ Len(attrs) \in Nat /\ Len(kids) \in Nat /\ Len(raw) \in Nat
      /\ DOMAIN attrs = 1 .. Len(attrs) /\ DOMAIN kids = 1 .. Len(kids) /\ DOMAIN raw = 1 .. Len(raw)
      /\ \A i \in 1 .. Len(attrs) : attrs[i] \in A
      /\ \A i \in 1 .. Len(raw) : raw[i] \in T
  BY <1>1
<1> DEFINE ms == PieceMembers(attrs, out) mt == MemberList(attrs, w)
           ks == ChildList(kids, out) kt == ChildList(kids, w)
           es == PieceElements(raw)
<1>5. ASSUME NEW i \in 1 .. Len(attrs)
      PROVE  ms[i] \in Seq(Pieces) /\ mt[i] = Toks(ms[i])
  <2> DEFINE a == attrs[i] h == <<a.name, ":">> p == IF a.node = 0 THEN AsString(a.value) ELSE out[a.node]
             v == IF a.node = 0 THEN a.value ELSE w[a.node]
  <2>1. ms[i] = AsRead(h) \o p /\ mt[i] = h \o v
    BY <1>4, Zenon DEF PieceMembers, PieceMember, MemberList, Member
  <2>2. a.name \in Strings /\ a.value \in Seq(Tokens)
    BY <1>2, <1>4
  <2>3. h \in Seq(Tokens)
    BY <1>3, <2>2
  <2>4. AsRead(h) \in Seq(Pieces) /\ Toks(AsRead(h)) = h
    BY <2>3, TextToks
  <2>5. p \in Seq(Pieces) /\ v = Toks(p)
    <3>1. CASE a.node = 0
      BY <2>2, <3>1, TextToks
    <3>2. CASE a.node # 0
      <4>1. a.node \in Refs(r)
        BY <1>4, <3>2, Zenon DEF Refs, AttrRefs
      <4> QED
        BY <3>2, <4>1
    <3> QED
      BY <3>1, <3>2
  <2> HIDE DEF p, v, h
  <2> QED
    BY <2>1, <2>4, <2>5, ToksAre
<1>6. ASSUME NEW i \in 1 .. Len(kids)
      PROVE  ks[i] \in Seq(Pieces) /\ kt[i] = Toks(ks[i])
  <2>1. ks[i] = out[kids[i]] /\ kt[i] = w[kids[i]]
    BY <1>4, Zenon DEF ChildList
  <2>2. kids[i] \in Refs(r)
    BY <1>4, Zenon DEF Refs, KidRefs
  <2> QED
    BY <2>1, <2>2
<1>7. ASSUME NEW i \in 1 .. Len(raw)
      PROVE  es[i] \in Seq(Pieces) /\ raw[i] = Toks(es[i])
  <2>1. es[i] = AsRead(raw[i])
    BY <1>4, Zenon DEF PieceElements
  <2>2. raw[i] \in Seq(Tokens)
    BY <1>4 DEF T
  <2> QED
    BY <2>1, <2>2, TextToks
<1>8. /\ Listed(Len(attrs), ms) /\ Listed(Len(attrs), mt) /\ Listed(Len(kids), ks)
      /\ Listed(Len(kids), kt) /\ Listed(Len(raw), es) /\ Listed(Len(raw), raw)
  <2>1. /\ DOMAIN ms = 1 .. Len(attrs) /\ DOMAIN mt = 1 .. Len(attrs)
        /\ DOMAIN ks = 1 .. Len(kids) /\ DOMAIN kt = 1 .. Len(kids) /\ DOMAIN es = 1 .. Len(raw)
    BY <1>4 DEF PieceMembers, MemberList, ChildList, PieceElements
  <2>2. /\ ms = [i \in DOMAIN ms |-> ms[i]] /\ mt = [i \in DOMAIN mt |-> mt[i]]
        /\ ks = [i \in DOMAIN ks |-> ks[i]] /\ kt = [i \in DOMAIN kt |-> kt[i]]
        /\ es = [i \in DOMAIN es |-> es[i]]
    BY Zenon DEF PieceMembers, MemberList, ChildList, PieceElements
  <2>3. raw = [i \in 1 .. Len(raw) |-> raw[i]]
    BY <1>1, <1>4
  <2> HIDE DEF ms, mt, ks, kt, es
  <2> QED
    BY <2>1, <2>2, <2>3 DEF Listed
<1>9. Pieced(r, out) = IF r.type = "CONTAINER"
                       THEN Between(OpenBracket, IF ks = <<>> THEN es ELSE ks, ShutBracket)
                       ELSE Between(OpenBrace, ms, ShutBrace)
  BY Zenon DEF Pieced
<1>10. Written(r, w) = IF r.type = "CONTAINER"
                       THEN OpenBracket \o Separated(IF kt = <<>> THEN raw ELSE kt) \o ShutBracket
                       ELSE OpenBrace \o Separated(mt) \o ShutBrace
  BY Zenon DEF Written
<1> HIDE DEF ms, mt, ks, kt, es, attrs, kids, raw
<1>11. TextsOf(ms, mt)
  BY <1>4, <1>5, <1>8, PartsAre
<1>12. TextsOf(es, raw)
  BY <1>4, <1>7, <1>8, PartsAre
<1>13. TextsOf(ks, kt) /\ (ks = <<>> <=> kt = <<>>)
  <2>1. /\ Listed(Len(kids), ks) /\ Listed(Len(kids), kt) /\ Len(kids) \in Nat
        /\ \A i \in 1 .. Len(kids) : ks[i] \in Seq(Pieces) /\ kt[i] = Toks(ks[i])
    BY <1>4, <1>6, <1>8
  <2>2. TextsOf(ks, kt)
    BY <2>1, PartsAre
  <2>3. NoPart(ks) <=> NoPart(kt)
    BY <2>1, PartsAre
  <2> QED
    BY <2>2, <2>3 DEF NoPart
<1>14. CASE r.type # "CONTAINER"
  <2>1. /\ Between(OpenBrace, ms, ShutBrace) \in Seq(Pieces)
        /\ Toks(Between(OpenBrace, ms, ShutBrace)) = OpenBrace \o Separated(mt) \o ShutBrace
    <3>1. OpenBrace \in Seq(Tokens) /\ ShutBrace \in Seq(Tokens)
      BY MarkTexts
    <3> QED
      BY <1>11, <3>1, BetweenToks, Zenon
  <2> QED
    BY <1>9, <1>10, <1>14, <2>1
<1>15. CASE r.type = "CONTAINER"
  <2> DEFINE p == IF ks = <<>> THEN es ELSE ks x == IF kt = <<>> THEN raw ELSE kt
  <2>1. TextsOf(p, x)
    BY <1>12, <1>13
  <2>2. /\ Pieced(r, out) = Between(OpenBracket, p, ShutBracket)
        /\ Written(r, w) = OpenBracket \o Separated(x) \o ShutBracket
    BY <1>9, <1>10, <1>15
  <2> HIDE DEF p, x
  <2>3. /\ Between(OpenBracket, p, ShutBracket) \in Seq(Pieces)
        /\ Toks(Between(OpenBracket, p, ShutBracket)) = OpenBracket \o Separated(x) \o ShutBracket
    <3>1. OpenBracket \in Seq(Tokens) /\ ShutBracket \in Seq(Tokens)
      BY MarkTexts
    <3> QED
      BY <2>1, <3>1, BetweenToks, Zenon
  <2> QED
    BY <2>2, <2>3
<1> QED
  BY <1>14, <1>15

\* What is written of a node depends on the nodes it refers to only.
LEMMA PiecedSame ==
  ASSUME NEW r, NEW f, NEW g, \A m \in Refs(r) : f[m] = g[m]
  PROVE  Pieced(r, f) = Pieced(r, g)
<1>1. \A i \in DOMAIN r.attrs : PieceMember(r.attrs[i], f) = PieceMember(r.attrs[i], g)
  <2> SUFFICES ASSUME NEW i \in DOMAIN r.attrs
               PROVE  PieceMember(r.attrs[i], f) = PieceMember(r.attrs[i], g)
    OBVIOUS
  <2>1. r.attrs[i].node # 0 => r.attrs[i].node \in Refs(r)
    BY Zenon DEF Refs, AttrRefs
  <2>2. r.attrs[i].node # 0 => f[r.attrs[i].node] = g[r.attrs[i].node]
    BY <2>1
  <2> QED
    BY <2>2, Zenon DEF PieceMember
<1>2. PieceMembers(r.attrs, f) = PieceMembers(r.attrs, g)
  BY <1>1, Zenon DEF PieceMembers
<1>3. \A i \in DOMAIN r.kids : f[r.kids[i]] = g[r.kids[i]]
  <2> SUFFICES ASSUME NEW i \in DOMAIN r.kids PROVE f[r.kids[i]] = g[r.kids[i]]
    OBVIOUS
  <2>1. r.kids[i] \in Refs(r)
    BY Zenon DEF Refs, KidRefs
  <2> QED
    BY <2>1
<1>4. ChildList(r.kids, f) = ChildList(r.kids, g)
  BY <1>3, Zenon DEF ChildList
<1> QED
  BY <1>2, <1>4, Zenon DEF Pieced

\* Output takes a function that has for every node what it writes in pieces.
LEMMA OutputIsMade ==
  ASSUME TreeTypeOK, nodes # <<>>, Ordered(Len(nodes), nodes)
  PROVE  \E h : /\ Output = h[1]
                /\ \A n \in 1 .. Len(nodes) : h[n] \in Seq(Pieces) /\ h[n] = Pieced(nodes[n], h)
<1> DEFINE n == Len(nodes) D == DOMAIN nodes X == Seq(Pieces) G == [D -> X]
           F == [g \in G |-> [x \in D |-> OutputOf(x, g)]]
           L == [k \in 0 .. n |-> {x \in D : x > n - k}]
           h == CHOOSE out : out = [x \in D |-> OutputOf(x, out)]
<1>1. D = 1 .. n /\ n \in Nat /\ 1 \in D /\ \A x \in D : nodes[x] \in NodeRecs
  <2> DEFINE R == NodeRecs
  <2>1. nodes \in Seq(R) /\ nodes # <<>>
    BY DEF TreeTypeOK
  <2> HIDE DEF R
  <2>2. D = 1 .. n /\ n \in Nat /\ 1 \in D /\ \A x \in D : nodes[x] \in R
    BY <2>1
  <2> QED
    BY <2>2 DEF R
<1>2. \A x \in D : \A m \in Refs(nodes[x]) : m \in D /\ x < m
  <2> SUFFICES ASSUME NEW x \in D, NEW m \in Refs(nodes[x]) PROVE m \in D /\ x < m
    OBVIOUS
  <2>1. m \in Nat /\ x < m /\ m <= n
    BY <1>1 DEF Ordered
  <2> QED
    BY <1>1, <2>1
<1>3. Output = h[1]
  BY DEF Output
<1>4. ASSUME NEW g, NEW x \in D, \A m \in Refs(nodes[x]) : g[m] \in X
      PROVE  OutputOf(x, g) \in X
  <2> DEFINE w == [m \in Refs(nodes[x]) |-> Toks(g[m])]
  <2>1. \A m \in Refs(nodes[x]) : g[m] \in Seq(Pieces) /\ w[m] = Toks(g[m])
    BY <1>4
  <2> HIDE DEF w
  <2>2. Pieced(nodes[x], g) \in Seq(Pieces)
    BY <1>1, <2>1, PiecedToks, Zenon
  <2> QED
    BY <2>2, OutputOfIs
<1> HIDE DEF X
<1>5. ASSUME NEW g \in G, NEW x \in D
      PROVE  OutputOf(x, g) \in X
  <2>1. \A m \in Refs(nodes[x]) : g[m] \in X
    BY <1>2
  <2> QED
    BY <1>4, <2>1
<1> HIDE DEF n, D
<1>6. F \in [G -> G] /\ \A g \in G : F[g] = [x \in D |-> OutputOf(x, g)]
  BY <1>5
<1>7. G # {} /\ \A g \in G : g = [x \in D |-> g[x]]
  <2>1. <<>> \in X
    BY DEF X
  <2>2. [x \in D |-> <<>>] \in G
    BY <2>1
  <2> QED
    BY <2>2
<1>8. \A k \in 0 .. n : L[k] = {x \in D : x > n - k}
  OBVIOUS
<1> HIDE DEF G, F, L, h
<1>9. \A x \in D : x \notin L[0] /\ x \in L[n]
  BY <1>1, <1>8
<1>10. ASSUME NEW k \in Nat, k + 1 <= n, NEW g \in G, NEW f \in G,
             \A y \in D : y \in L[k] => g[y] = f[y],
             NEW x \in D, x \in L[k + 1]
      PROVE  F[g][x] = F[f][x]
  <2>1. \A m \in Refs(nodes[x]) : g[m] = f[m]
    <3> SUFFICES ASSUME NEW m \in Refs(nodes[x]) PROVE g[m] = f[m]
      OBVIOUS
    <3>1. m \in D /\ x < m
      BY <1>2
    <3>2. k \in 0 .. n /\ k + 1 \in 0 .. n
      BY <1>1, <1>10
    <3>3. x > n - (k + 1)
      BY <1>8, <1>10, <3>2
    <3>4. m > n - k
      BY <1>1, <3>1, <3>2, <3>3
    <3>5. m \in L[k]
      BY <1>8, <3>1, <3>2, <3>4
    <3> QED
      BY <1>10, <3>1, <3>5
  <2>2. Pieced(nodes[x], g) = Pieced(nodes[x], f)
    BY <2>1, PiecedSame
  <2>3. OutputOf(x, g) = OutputOf(x, f)
    BY <2>2, OutputOfIs
  <2> QED
    BY <1>6, <2>3
<1>11. Layered(D, G, F, n, L)
  BY <1>1, <1>6, <1>7, <1>9, <1>10 DEF Layered
<1>12. PICK f \in G : f = F[f]
  BY <1>11, Recursion
<1>13. h = [x \in D |-> OutputOf(x, h)]
  <2>1. f = [x \in D |-> OutputOf(x, f)]
    BY <1>6, <1>12
  <2>2. h = CHOOSE out : out = [x \in D |-> OutputOf(x, out)]
    BY Zenon DEF h
  <2> QED
    BY <2>1, <2>2, Zenon
<1>14. \A x \in D : h[x] = OutputOf(x, h)
  BY <1>13, Zenon
<1> DEFINE S == {k \in Nat : \A x \in D : n < x + k => h[x] \in X}
<1>15. 0 \in S
  BY <1>1
<1>16. ASSUME NEW k \in Nat, k \in S PROVE k + 1 \in S
  <2>1. ASSUME NEW x \in D, n < x + (k + 1) PROVE h[x] \in X
    <3>1. \A m \in Refs(nodes[x]) : h[m] \in X
      <4> SUFFICES ASSUME NEW m \in Refs(nodes[x]) PROVE h[m] \in X
        OBVIOUS
      <4>1. m \in D /\ x < m
        BY <1>2
      <4>2. n < m + k
        BY <1>1, <2>1, <4>1
      <4> QED
        BY <1>16, <4>1, <4>2
    <3> QED
      BY <1>4, <1>14, <3>1
  <2> QED
    BY <2>1
<1> HIDE DEF S
<1>17. Nat \subseteq S
  BY <1>15, <1>16, Induction
<1>18. n \in S
  BY <1>1, <1>17
<1>19. \A x \in D : h[x] \in X
  BY <1>1, <1>18 DEF S
<1>20. \A x \in D : h[x] = Pieced(nodes[x], h)
  BY <1>14, OutputOfIs
<1>21. \A x \in 1 .. n : h[x] \in X /\ h[x] = Pieced(nodes[x], h)
  BY <1>1, <1>19, <1>20
<1> QED
  BY <1>3, <1>21, Zenon DEF n, X

\* The output of a tree whose nodes tell the text has the tokens of the text.
LEMMA OutputIs ==
  ASSUME TreeTypeOK, nodes # <<>>, Told(text, nodes, pos)
  PROVE  Toks(Output) = SubSeq(text, 1, pos - 1)
<1>1. PICK w : Spelt(text, nodes, pos, w)
  BY DEF Told
<1> DEFINE L == Len(nodes)
<1>2. /\ w[1] = SubSeq(text, 1, pos - 1)
      /\ \A n \in 1 .. L : w[n] = Written(nodes[n], w)
      /\ \A n \in 1 .. L : \A m \in Refs(nodes[n]) : n < m /\ m <= L
  BY <1>1 DEF Spelt
<1>3. L \in Nat /\ 1 \in 1 .. L /\ \A n \in 1 .. L : nodes[n] \in NodeRecs
  <2> DEFINE R == NodeRecs
  <2>1. nodes \in Seq(R) /\ nodes # <<>>
    BY DEF TreeTypeOK
  <2> HIDE DEF R
  <2>2. L \in Nat /\ 1 \in 1 .. L /\ \A n \in 1 .. L : nodes[n] \in R
    BY <2>1
  <2> QED
    BY <2>2 DEF R
<1>4. \A n \in 1 .. L : \A m \in Refs(nodes[n]) : m \in Nat
  BY RefsAreNumbers DEF TreeTypeOK
<1>5. Ordered(L, nodes)
  BY <1>2, <1>4 DEF Ordered
<1>6. PICK h : /\ Output = h[1]
               /\ \A n \in 1 .. L : h[n] \in Seq(Pieces) /\ h[n] = Pieced(nodes[n], h)
  BY <1>5, OutputIsMade
<1> DEFINE e == [n \in 1 .. L |-> Toks(h[n])]
<1>7. \A n \in 1 .. L : e[n] = Toks(h[n])
  OBVIOUS
<1> HIDE DEF e, L
<1>8. ASSUME NEW n \in 1 .. L PROVE e[n] = Written(nodes[n], e)
  <2>1. \A m \in Refs(nodes[n]) : h[m] \in Seq(Pieces) /\ e[m] = Toks(h[m])
    <3> SUFFICES ASSUME NEW m \in Refs(nodes[n]) PROVE m \in 1 .. L
      BY <1>6, <1>7
    <3>1. m \in Nat /\ n < m /\ m <= L
      BY <1>2, <1>4
    <3> QED
      BY <1>3, <3>1
  <2>2. Toks(Pieced(nodes[n], h)) = Written(nodes[n], e)
    BY <1>3, <2>1, PiecedToks, Zenon
  <2> QED
    BY <1>6, <1>7, <2>2
<1>9. Writes(L, nodes, w) /\ Writes(L, nodes, e)
  BY <1>2, <1>8 DEF Writes
<1>10. e[1] = w[1]
  BY <1>3, <1>5, <1>9, OneOutput
<1> QED
  BY <1>2, <1>3, <1>6, <1>7, <1>10

\* The tree of a request, or of any text with nothing like JSON behind it,
\* is written with the tokens of the text that it was made of: nothing of it
\* is lost or added.  (That numbers come back in quotes is left to TLC.)
THEOREM TreeHoldsTheText == DocSpec => []HoldsTheText
<1>1. ParserInv /\ TextInv => HoldsTheText
  <2> SUFFICES ASSUME ParserInv, TextInv, JustParsed, NothingBehind \/ Request(Input)
               PROVE  Toks(Output) = SubSeq(text, 1, pos - 1)
    BY DEF HoldsTheText
  <2>1. verdict = "tree"
    BY DEF JustParsed
  <2>2. TreeTypeOK /\ nodes # <<>>
    BY <2>1 DEF ParserInv, TreeInv, TreeTypeOK
  <2>3. Told(text, nodes, pos)
    BY <2>1 DEF TextInv
  <2> QED
    BY <2>2, <2>3, OutputIs
<1> QED
  BY <1>1, ParserInductive, TextInductive, PTL
=============================================================================
