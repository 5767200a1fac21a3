--------------------------- MODULE SqlPoolProofs ---------------------------
(***************************************************************************)
(* Machine-checked proofs about SqlPool, for any labels, databases and     *)
(* requests and any number of them.                                        *)
(***************************************************************************)
EXTENDS SqlPool, TLAPS, WellFoundedInduction

-----------------------------------------------------------------------------
(* The first connection of some                                            *)

\* A set of natural numbers that is not empty has a least one.
LEMMA Least ==
  ASSUME NEW T, T \subseteq Nat, T # {}
  PROVE  \E m \in T : \A n \in T : m <= n
<1> DEFINE R == OpToRel(<, Nat)
<1>1. IsWellFoundedOn(R, Nat)
  BY NatLessThanWellFounded
<1>2. PICK m \in T : \A n \in T : ~ (<<n, m>> \in R)
  BY <1>1, WFMin
<1>3. \A n \in T : ~ (n < m)
  BY <1>2 DEF OpToRel
<1>4. \A n \in T : m <= n
  BY <1>3
<1>5. QED
  BY <1>4

\* Among connections there is one with the least number.
LEMMA FirstConn ==
  ASSUME NEW P, P \subseteq Conns, P # {}
  PROVE  \E x \in P : \A y \in P : x.no <= y.no
<1> DEFINE T == {x.no : x \in P}
<1>1. T \subseteq Nat /\ T # {}
  BY DEF Conns
<1>2. PICK m \in T : \A n \in T : m <= n
  BY <1>1, Least
<1>3. PICK x \in P : x.no = m
  OBVIOUS
<1>4. \A y \in P : x.no <= y.no
  BY <1>2, <1>3
<1>5. QED
  BY <1>4

\* getConnection returns a connection of the pool that the label matches.
LEMMA GetConnectionFinds ==
  ASSUME TypeOK, NEW label, Found(label)
  PROVE  /\ GetConnection(label) \in pool
         /\ Matches(GetConnection(label), label)
         /\ \A y \in pool : Matches(y, label) => GetConnection(label).no <= y.no
<1> DEFINE P == {x \in pool : Matches(x, label)}
<1>1. P \subseteq Conns /\ P # {}
  BY DEF TypeOK, Found
<1>2. PICK x \in P : \A y \in P : x.no <= y.no
  BY <1>1, FirstConn
<1>3. \E z \in pool :
        Matches(z, label) /\ \A y \in pool : Matches(y, label) => z.no <= y.no
  BY <1>2
<1>4. QED
  BY <1>3 DEF GetConnection

\* The loop of SqlUtil::run takes a connection of the pool.
LEMMA FirstToConnect ==
  ASSUME TypeOK, ToConnect # {}
  PROVE  /\ First \in pool /\ First.no >= at
         /\ \A y \in pool : y.no >= at => First.no <= y.no
<1>1. ToConnect \subseteq Conns
  BY DEF TypeOK, ToConnect
<1>2. \E x \in ToConnect : \A y \in ToConnect : x.no <= y.no
  BY <1>1, FirstConn
<1>3. First \in ToConnect /\ \A y \in ToConnect : First.no <= y.no
  BY <1>2 DEF First
<1>4. QED
  BY <1>3 DEF ToConnect

-----------------------------------------------------------------------------
(* Adding and releasing connections                                        *)

\* A new connection is the last, and no label becomes ambiguous by it.
LEMMA AddKeepsPool ==
  ASSUME TypeOK, NumbersInv, LabelsInv,
         NEW label \in Labels, NEW gen \in Labels, NEW auto \in BOOLEAN,
         ~ Found(label), AddConnection(label, gen, auto), refused' = refused
  PROVE  /\ pool' \subseteq Conns /\ made' \in Nat /\ made <= made'
         /\ NumbersInv' /\ LabelsInv'
         /\ Numbers' = Numbers \cup {made + 1}
<1> DEFINE x == [no |-> made + 1, label |-> label, gen |-> gen, auto |-> auto]
<1>1. made' = made + 1 /\ pool' = pool \cup {x} /\ made \in Nat
  BY DEF AddConnection, TypeOK
<1>2. x \in Conns /\ x.no = made + 1 /\ x.label = label
  BY <1>1 DEF Conns
<1>3. pool \subseteq Conns /\ \A y \in pool : y.no \in Nat /\ y.no <= made
  BY DEF TypeOK, Conns, NumbersInv
<1>4. \A y \in pool : y.no # x.no /\ ~ (x.no < y.no)
  BY <1>1, <1>2, <1>3
<1>5. \A y \in pool : ~ Matches(y, x.label)
  BY <1>2 DEF Found
<1> HIDE DEF x
<1>6. NumbersInv'
  <2>1. x.no \notin refused
    BY <1>1, <1>2 DEF TypeOK
  <2>2. QED
    BY <2>1, <1>1, <1>2, <1>3, <1>4 DEF NumbersInv
<1>7. LabelsInv'
  <2>1. \A y, z \in pool : y.no < z.no => ~ Matches(y, z.label)
    BY DEF LabelsInv
  <2>2. ~ (x.no < x.no)
    BY <1>1, <1>2
  <2>3. \A y, z \in pool \cup {x} : y.no < z.no => ~ Matches(y, z.label)
    BY <2>1, <2>2, <1>4, <1>5
  <2>4. QED
    BY <2>3, <1>1 DEF LabelsInv, Matches
<1>8. Numbers' = Numbers \cup {made + 1}
  BY <1>1, <1>2 DEF Numbers
<1>9. QED
  BY <1>1, <1>2, <1>3, <1>6, <1>7, <1>8

\* What is released is gone with its handle, or with a handle that the database
\* has refused to free, and nothing else is.
LEMMA ReleaseKeepsPool ==
  ASSUME TypeOK, NumbersInv, LabelsInv, NoHandleLeak,
         NEW gone, gone \subseteq pool, Release(gone), made' = made
  PROVE  /\ pool' = pool \ gone
         /\ hdbc' \subseteq hdbc /\ live' \subseteq hdbc' /\ refused' \subseteq hdbc'
         /\ hstmt' \subseteq hdbc' \X Nat \X Nat \X Nat
         /\ NumbersInv' /\ LabelsInv' /\ NoHandleLeak'
         /\ hdbc = refused => hdbc' = refused'
<1> DEFINE nos == {x.no : x \in gone}
<1>1. PICK kept \in SUBSET (nos \cap hdbc) :
        /\ pool' = pool \ gone /\ hdbc' = hdbc \ (nos \ kept) /\ live' = live \ nos
        /\ hstmt' = {s \in hstmt : s[1] \notin nos \ kept}
        /\ refused' = refused \cup kept
  BY DEF Release
<1>2. nos \subseteq Numbers /\ nos \cap refused = {}
  BY DEF Numbers, NumbersInv
<1>3. \A x \in pool \ gone : x.no \notin nos
  BY DEF NumbersInv
<1>4. Numbers' = Numbers \ nos
  BY <1>1, <1>3 DEF Numbers
<1> HIDE DEF nos
<1>5. live \subseteq hdbc /\ refused \subseteq hdbc
  BY DEF TypeOK
<1>6. hdbc' \subseteq hdbc /\ live' \subseteq hdbc' /\ refused' \subseteq hdbc'
  BY <1>1, <1>2, <1>5
<1>7. hstmt' \subseteq hdbc' \X Nat \X Nat \X Nat
  <2>1. hstmt \subseteq hdbc \X Nat \X Nat \X Nat
    BY DEF TypeOK
  <2>2. \A s \in hdbc \X Nat \X Nat \X Nat :
          s[1] \notin nos \ kept => s \in (hdbc \ (nos \ kept)) \X Nat \X Nat \X Nat
    OBVIOUS
  <2>3. QED
    BY <1>1, <2>1, <2>2
<1>8. NumbersInv' /\ LabelsInv'
  <2>1. \A x \in pool \ gone : x.no \notin refused \cup kept
    BY <1>1, <1>3 DEF NumbersInv
  <2>2. QED
    BY <1>1, <2>1 DEF NumbersInv, LabelsInv, Matches
<1>9. NoHandleLeak'
  BY <1>1, <1>4 DEF NoHandleLeak
<1>10. hdbc = refused => hdbc' = refused'
  BY <1>1, <1>2
<1>11. QED
  BY <1>1, <1>6, <1>7, <1>8, <1>9, <1>10
-----------------------------------------------------------------------------
(* The SqlUtil objects of the request                                      *)

\* The request at work is one that may come, with its nodes as they may be.
LEMMA RequestType ==
  ASSUME TypeOK, req # <<>>
  PROVE  req \in Seq(Nodes) /\ Len(req) >= 1
<1>1. req \in Requests
  BY DEF TypeOK
<1>2. req \in Seq(Nodes)
  BY <1>1, PoolAssumption
<1>3. QED
  BY <1>2

\* One is constructed for each node.
LEMMA NewUtil ==
  ASSUME TypeOK,
         utils' = Append(utils, [ops |-> <<>>, free_all |-> TRUE, conns2free |-> {}])
  PROVE  /\ utils' \in Seq(Utils) /\ Len(utils') = Len(utils) + 1
         /\ \A i \in DOMAIN utils' :
              /\ i \in DOMAIN utils => utils'[i] = utils[i]
              /\ i \notin DOMAIN utils => utils'[i].ops = <<>>
<1> DEFINE u == [ops |-> <<>>, free_all |-> TRUE, conns2free |-> {}]
<1>1. u \in Utils
  BY DEF Utils
<1>2. utils \in Seq(Utils)
  BY DEF TypeOK
<1>3. u.ops = <<>> /\ utils' = Append(utils, u)
  OBVIOUS
<1> HIDE DEF u
<1>4. utils' \in Seq(Utils) /\ Len(utils') = Len(utils) + 1
  BY <1>1, <1>2, <1>3
<1>5. /\ DOMAIN utils = 1 .. Len(utils) /\ DOMAIN utils' = 1 .. Len(utils) + 1
      /\ Len(utils) \in Nat
  BY <1>2, <1>4
<1>6. /\ \A i \in 1 .. Len(utils) : utils'[i] = utils[i]
      /\ utils'[Len(utils) + 1] = u
  BY <1>1, <1>2, <1>3
<1>7. QED
  BY <1>3, <1>4, <1>5, <1>6

\* An operation of the node gets the connection no, all others keep theirs.
LEMMA AddOpKeeps ==
  ASSUME TypeOK, ni \in DOMAIN utils, NEW o \in OpSpecs, NEW no \in Nat, AddOp(o, no)
  PROVE  /\ utils' \in Seq(Utils) /\ Len(utils') = Len(utils)
         /\ \A i \in DOMAIN utils' : \A j \in DOMAIN utils'[i].ops :
              \/ utils'[i].ops[j].conn = no
              \/ j \in DOMAIN utils[i].ops /\ utils'[i].ops[j] = utils[i].ops[j]
<1> DEFINE p == [type |-> o.type, conn |-> no]
           q == Append(utils[ni].ops, p)
           u == [utils[ni] EXCEPT !.ops = q]
<1>1. utils \in Seq(Utils) /\ utils[ni] \in Utils
  BY DEF TypeOK
<1>2. utils[ni].ops \in Seq([type : {"EXEC", "COMMIT"}, conn : Nat])
  BY <1>1 DEF Utils
<1>3. p \in [type : {"EXEC", "COMMIT"}, conn : Nat] /\ p.conn = no
  BY DEF OpSpecs
<1>4. utils' = [utils EXCEPT ![ni] = u]
  BY DEF AddOp
<1> HIDE DEF p
<1>5. /\ q \in Seq([type : {"EXEC", "COMMIT"}, conn : Nat])
      /\ \A j \in DOMAIN q :
           q[j] = p \/ (j \in DOMAIN utils[ni].ops /\ q[j] = utils[ni].ops[j])
  <2> DEFINE os == utils[ni].ops
  <2>1. os \in Seq([type : {"EXEC", "COMMIT"}, conn : Nat]) /\ q = Append(os, p)
    BY <1>2
  <2> HIDE DEF os, q
  <2>2. /\ q \in Seq([type : {"EXEC", "COMMIT"}, conn : Nat])
        /\ Len(q) = Len(os) + 1 /\ Len(os) \in Nat
        /\ DOMAIN os = 1 .. Len(os) /\ DOMAIN q = 1 .. Len(os) + 1
    BY <2>1, <1>3
  <2>3. q[Len(os) + 1] = p /\ \A j \in 1 .. Len(os) : q[j] = os[j]
    BY <2>1, <1>3
  <2>4. \A j \in DOMAIN q : q[j] = p \/ (j \in DOMAIN os /\ q[j] = os[j])
    <3> SUFFICES ASSUME NEW j \in DOMAIN q
                 PROVE  q[j] = p \/ (j \in DOMAIN os /\ q[j] = os[j])
      OBVIOUS
    <3>1. j = Len(os) + 1 \/ j \in 1 .. Len(os)
      BY <2>2
    <3>2. CASE j = Len(os) + 1
      BY <3>2, <2>3
    <3>3. CASE j \in 1 .. Len(os)
      BY <3>3, <2>2, <2>3
    <3>4. QED
      BY <3>1, <3>2, <3>3
  <2>5. QED
    BY <2>2, <2>4 DEF os
<1> HIDE DEF q
<1>6. u \in Utils /\ u.ops = q
  BY <1>1, <1>5 DEF Utils
<1> HIDE DEF u
<1>7. /\ utils' \in Seq(Utils) /\ Len(utils') = Len(utils)
      /\ DOMAIN utils' = DOMAIN utils
      /\ \A i \in DOMAIN utils : utils'[i] = IF i = ni THEN u ELSE utils[i]
  BY <1>1, <1>4, <1>6
<1>8. QED
  BY <1>3, <1>5, <1>6, <1>7

\* "free" is noted; the operations stay.
LEMMA SetFree ==
  ASSUME TypeOK, ni \in DOMAIN utils,
         NEW all \in BOOLEAN, NEW labels \in SUBSET Labels,
         utils' = [utils EXCEPT ![ni].free_all = all, ![ni].conns2free = labels]
  PROVE  /\ utils' \in Seq(Utils) /\ Len(utils') = Len(utils)
         /\ \A i \in DOMAIN utils : utils'[i].ops = utils[i].ops
<1> DEFINE u == [utils[ni] EXCEPT !.free_all = all, !.conns2free = labels]
<1>1. utils \in Seq(Utils) /\ utils[ni] \in Utils
  BY DEF TypeOK
<1>2. utils' = [utils EXCEPT ![ni] = u]
  BY <1>1
<1>3. u \in Utils /\ u.ops = utils[ni].ops
  BY <1>1 DEF Utils
<1> HIDE DEF u
<1>4. utils' \in Seq(Utils) /\ Len(utils') = Len(utils)
  <2>1. [utils EXCEPT ![ni] = u] \in Seq(Utils)
    BY <1>1, <1>3
  <2>2. Len([utils EXCEPT ![ni] = u]) = Len(utils)
    BY <1>1, <1>3
  <2>3. QED
    BY <1>2, <2>1, <2>2
<1>5. \A i \in DOMAIN utils : utils'[i] = IF i = ni THEN u ELSE utils[i]
  BY <1>1, <1>2
<1>6. QED
  BY <1>3, <1>4, <1>5

-----------------------------------------------------------------------------
(* Steps that only move on                                                 *)

\* The next node, or the end of parsing.
LEMMA NextInitPlace ==
  ASSUME TypeOK, PlaceInv, pc \in {"CONNECT", "OPERATION"}, NextInit,
         req' = req, Len(utils') = Len(utils)
  PROVE  PlaceInv' /\ pc' \in {"INIT", "PARSED"} /\ ni' \in Nat /\ at' \in Nat /\ code' = code
<1>1. req \in Seq(Nodes) /\ Len(req) >= 1 /\ ni \in Nat /\ ni >= 1
      /\ ni <= Len(req) /\ Len(utils) = ni /\ req # <<>>
  BY RequestType DEF PlaceInv, TypeOK
<1>2. CASE ni < Len(req)
  BY <1>1, <1>2 DEF NextInit, PlaceInv, Running
<1>3. CASE ~ (ni < Len(req))
  BY <1>1, <1>3 DEF NextInit, PlaceInv, Running
<1>4. QED
  BY <1>2, <1>3

\* The next node is run, or the objects are deleted.
LEMMA EndNodePlace ==
  ASSUME TypeOK, PlaceInv, pc \in Running, EndNode, req' = req, utils' = utils
  PROVE  PlaceInv' /\ pc' \in {"RUN", "DELETE"} /\ ni' \in Nat /\ at' \in Nat
         /\ (pc' = "DELETE" => ni' = 1)
<1>1. req \in Seq(Nodes) /\ Len(req) >= 1 /\ ni \in Nat /\ ni >= 1
      /\ ni <= Len(req) /\ Len(utils) = Len(req) /\ req # <<>>
  BY RequestType DEF PlaceInv, TypeOK, Running
<1>2. CASE code' = "OK" /\ ni < Len(req)
  BY <1>1, <1>2 DEF EndNode, PlaceInv, Running
<1>3. CASE ~ (code' = "OK" /\ ni < Len(req))
  BY <1>1, <1>3 DEF EndNode, PlaceInv, Running
<1>4. QED
  BY <1>2, <1>3

-----------------------------------------------------------------------------
(* The invariant                                                           *)

LEMMA InitInv == Init => IInv
<1> SUFFICES ASSUME Init PROVE IInv
  OBVIOUS
<1> USE PoolAssumption DEF Init
<1>1. TypeOK
  <2>1. pool \subseteq Conns /\ hdbc \subseteq 1 .. made /\ live \subseteq hdbc
        /\ hstmt \subseteq hdbc \X Nat \X Nat \X Nat /\ ran \subseteq Nat \X Nat
    OBVIOUS
  <2>2. utils \in Seq(Utils)
    OBVIOUS
  <2>3. reqNo \in 0 .. MaxReq /\ made \in Nat /\ ni \in Nat /\ at \in Nat
    OBVIOUS
  <2>4. QED
    BY <2>1, <2>2, <2>3 DEF TypeOK
<1>2. NumbersInv /\ LabelsInv /\ PlaceInv /\ EnvInv /\ OpsInv
  BY DEF NumbersInv, LabelsInv, PlaceInv, EnvInv, OpsInv, Parsing, Running
<1>3. ConnectedInv /\ FreeInv /\ NoHandleLeak /\ HandlesHaveEnv
  BY DEF ConnectedInv, FreeInv, NoHandleLeak, HandlesHaveEnv, Numbers
<1>4. QED
  BY <1>1, <1>2, <1>3 DEF IInv

\* A request comes.
LEMMA StartRequestInv ==
  ASSUME IInv, StartRequest
  PROVE  IInv'
<1> USE DEF IInv
<1>1. TypeOK'
  <2>1. req' \in Requests /\ reqNo' \in 0 .. MaxReq
    BY PoolAssumption DEF TypeOK, StartRequest
  <2>2. utils' \in Seq(Utils) /\ ran' \subseteq Nat \X Nat
    BY DEF StartRequest
  <2>3. QED
    BY <2>1, <2>2 DEF TypeOK, StartRequest, env, handles, Parsing, Running
<1>2. NumbersInv' /\ LabelsInv' /\ NoHandleLeak' /\ HandlesHaveEnv'
  BY DEF StartRequest, env, handles, NumbersInv, LabelsInv, NoHandleLeak,
         HandlesHaveEnv, Numbers, Matches
<1>3. PlaceInv'
  <2>1. req' \in Seq(Nodes) /\ req' # <<>>
    BY PoolAssumption DEF StartRequest
  <2>2. QED
    BY <2>1 DEF StartRequest, PlaceInv, Running
<1>4. EnvInv' /\ OpsInv' /\ ConnectedInv' /\ FreeInv'
  BY DEF StartRequest, env, handles, EnvInv, OpsInv, ConnectedInv, FreeInv,
         Parsing, Running
<1>5. QED
  BY <1>1, <1>2, <1>3, <1>4

\* A request is not well formed.
LEMMA ParseFailsInv ==
  ASSUME IInv, ParseFails
  PROVE  IInv'
<1> USE DEF IInv
<1>1. TypeOK'
  BY DEF TypeOK, ParseFails, Abort, env, handles, Parsing, Running
<1>2. NumbersInv' /\ LabelsInv' /\ NoHandleLeak' /\ HandlesHaveEnv'
  BY DEF ParseFails, env, handles, NumbersInv, LabelsInv, NoHandleLeak,
         HandlesHaveEnv, Numbers, Matches
<1>3. PlaceInv'
  BY DEF ParseFails, Abort, PlaceInv, Running
<1>4. EnvInv' /\ OpsInv' /\ ConnectedInv' /\ FreeInv'
  <2>1. pc' = "DELETE" /\ ni' = 1
    BY DEF ParseFails, Abort
  <2>2. \A i \in DOMAIN utils : ~ (i < 1)
    BY DEF TypeOK
  <2>3. QED
    BY <2>1, <2>2 DEF ParseFails, env, handles, EnvInv, OpsInv, ConnectedInv,
       FreeInv, Parsing, Running
<1>5. QED
  BY <1>1, <1>2, <1>3, <1>4

\* An SqlUtil is constructed.
LEMMA InitNodeInv ==
  ASSUME IInv, InitNode
  PROVE  IInv'
<1> USE DEF IInv
<1>1. /\ utils' \in Seq(Utils) /\ Len(utils') = Len(utils) + 1
      /\ \A i \in DOMAIN utils' :
           /\ i \in DOMAIN utils => utils'[i] = utils[i]
           /\ i \notin DOMAIN utils => utils'[i].ops = <<>>
  BY NewUtil DEF InitNode
<1>2. /\ pc = "INIT" /\ listed' = TRUE /\ req' = req
      /\ pool' = pool /\ henv' = henv /\ made' = made
      /\ hdbc' = hdbc /\ live' = live /\ refused' = refused /\ hstmt' = hstmt
      /\ reqNo' = reqNo /\ ran' = ran
  BY DEF InitNode, handles
<1>3. \/ pc' = "DELETE" /\ code' = "INIT" /\ ni' = 1 /\ at' = 1
      \/ pc' = "CONNECT" /\ code' = code /\ ni' = ni /\ at' = at
  BY DEF InitNode, Abort
<1>4. serverMode' \in BOOLEAN
  BY DEF InitNode, TypeOK
<1>5. TypeOK'
  BY <1>1, <1>2, <1>3, <1>4 DEF TypeOK, Parsing, Running
<1>6. NumbersInv' /\ LabelsInv' /\ NoHandleLeak' /\ HandlesHaveEnv'
  BY <1>2 DEF NumbersInv, LabelsInv, NoHandleLeak, HandlesHaveEnv, Numbers, Matches
<1>7. PlaceInv'
  BY <1>1, <1>2, <1>3 DEF PlaceInv, TypeOK, Running
<1>8. EnvInv' /\ ConnectedInv'
  BY <1>2, <1>3 DEF EnvInv, ConnectedInv
<1>9. OpsInv'
  BY <1>1, <1>2 DEF OpsInv, Parsing, Running, Numbers
<1>10. FreeInv'
  <2>1. \A i \in DOMAIN utils' : ~ (i < 1)
    BY <1>1
  <2>2. QED
    BY <1>3, <2>1 DEF FreeInv
<1>11. QED
  BY <1>1, <1>2, <1>3, <1>4, <1>5, <1>6, <1>7, <1>8, <1>9, <1>10

\* A connection is added, or the node or the request is left.
LEMMA InitConnInv ==
  ASSUME IInv, InitConn
  PROVE  IInv'
<1> USE DEF IInv
<1> DEFINE c == Node.connect[at]
<1>1. /\ pc = "CONNECT" /\ utils' = utils /\ listed' = listed /\ henv' = henv
      /\ serverMode' = serverMode /\ hdbc' = hdbc /\ live' = live
      /\ refused' = refused /\ hstmt' = hstmt
      /\ req' = req /\ reqNo' = reqNo /\ ran' = ran
  BY DEF InitConn, env, handles
<1>2. utils # <<>> /\ ni \in DOMAIN req /\ utils \in Seq(Utils) /\ Len(utils) = ni
  BY <1>1, RequestType DEF PlaceInv, TypeOK
<1>3. c.conn \in Labels /\ c.db \in Labels /\ Gen[c.db] \in Labels /\ c.autocommit \in BOOLEAN
  <2>1. req[ni] \in Nodes /\ at \in DOMAIN req[ni].connect
    <3>1. req \in Seq(Nodes)
      BY <1>1, RequestType DEF PlaceInv
    <3>2. req[ni] \in Nodes
      BY <1>2, <3>1
    <3>3. req[ni].connect \in Seq(ConnSpecs)
      BY <3>2 DEF Nodes
    <3>4. at \in 1 .. Len(req[ni].connect)
      BY <1>1, <3>3 DEF InitConn, PlaceInv, TypeOK, Node
    <3>5. QED
      BY <3>2, <3>3, <3>4
  <2>2. c \in ConnSpecs
    BY <2>1 DEF Nodes, Node
  <2>3. QED
    BY <2>2, PoolAssumption DEF ConnSpecs
<1>4. \/ /\ Abort("INIT") /\ pool' = pool /\ made' = made
      \/ /\ NextInit /\ pool' = pool /\ made' = made
      \/ /\ ~ Found(c.conn)
         /\ AddConnection(c.conn, IF serverMode THEN Gen[c.db] ELSE c.db, c.autocommit)
         /\ at' = at + 1 /\ pc' = pc /\ ni' = ni /\ code' = code
  BY DEF InitConn
<1> HIDE DEF c
<1>5. CASE Abort("INIT") /\ pool' = pool /\ made' = made
  <2>1. pc' = "DELETE" /\ ni' = 1 /\ at' = 1 /\ code' = "INIT"
    BY <1>5 DEF Abort
  <2>2. TypeOK'
    BY <1>1, <1>5, <2>1 DEF TypeOK
  <2>3. NumbersInv' /\ LabelsInv' /\ NoHandleLeak' /\ HandlesHaveEnv'
    BY <1>1, <1>5 DEF NumbersInv, LabelsInv, NoHandleLeak, HandlesHaveEnv, Numbers, Matches
  <2>4. PlaceInv' /\ EnvInv' /\ OpsInv' /\ ConnectedInv'
    BY <1>1, <1>5, <2>1 DEF PlaceInv, EnvInv, OpsInv, ConnectedInv, Parsing, Running
  <2>5. FreeInv'
    <3>1. \A i \in DOMAIN utils : ~ (i < 1)
      BY <1>2
    <3>2. QED
      BY <1>1, <2>1, <3>1 DEF FreeInv
  <2>6. QED
    BY <2>2, <2>3, <2>4, <2>5
<1>6. CASE NextInit /\ pool' = pool /\ made' = made
  <2>1. PlaceInv' /\ pc' \in {"INIT", "PARSED"} /\ ni' \in Nat /\ at' \in Nat /\ code' = code
    BY <1>1, <1>6, NextInitPlace
  <2>2. TypeOK'
    BY <1>1, <1>6, <2>1 DEF TypeOK, Parsing
  <2>3. NumbersInv' /\ LabelsInv' /\ NoHandleLeak' /\ HandlesHaveEnv'
    BY <1>1, <1>6 DEF NumbersInv, LabelsInv, NoHandleLeak, HandlesHaveEnv, Numbers, Matches
  <2>4. EnvInv' /\ OpsInv' /\ ConnectedInv' /\ FreeInv'
    BY <1>1, <1>6, <2>1 DEF EnvInv, OpsInv, ConnectedInv, FreeInv, Parsing, Running, Numbers
  <2>5. QED
    BY <2>1, <2>2, <2>3, <2>4
<1>7. CASE /\ ~ Found(c.conn)
           /\ AddConnection(c.conn, IF serverMode THEN Gen[c.db] ELSE c.db, c.autocommit)
           /\ at' = at + 1 /\ pc' = pc /\ ni' = ni /\ code' = code
  <2>1. /\ pool' \subseteq Conns /\ made' \in Nat /\ made <= made'
        /\ NumbersInv' /\ LabelsInv' /\ Numbers' = Numbers \cup {made + 1}
    BY <1>1, <1>3, <1>7, AddKeepsPool
  <2>2. TypeOK'
    BY <1>1, <1>7, <2>1 DEF TypeOK, Parsing
  <2>3. NoHandleLeak' /\ HandlesHaveEnv' /\ PlaceInv'
    BY <1>1, <1>7, <2>1 DEF NoHandleLeak, HandlesHaveEnv, PlaceInv, TypeOK, Running
  <2>4. EnvInv' /\ OpsInv' /\ ConnectedInv' /\ FreeInv'
    BY <1>1, <1>2, <1>7, <2>1 DEF EnvInv, OpsInv, ConnectedInv, FreeInv, Parsing, Running
  <2>5. QED
    BY <2>1, <2>2, <2>3, <2>4
<1>8. QED
  BY <1>4, <1>5, <1>6, <1>7

\* All connections of the node are added.
LEMMA ConnsDoneInv ==
  ASSUME IInv, ConnsDone
  PROVE  IInv'
<1> USE DEF IInv
<1>1. TypeOK'
  BY DEF ConnsDone, env, handles, TypeOK, Parsing, Running
<1>2. NumbersInv' /\ LabelsInv' /\ NoHandleLeak' /\ HandlesHaveEnv'
  BY DEF ConnsDone, env, handles, NumbersInv, LabelsInv, NoHandleLeak,
         HandlesHaveEnv, Numbers, Matches
<1>3. PlaceInv'
  BY DEF ConnsDone, PlaceInv, TypeOK, Running
<1>4. EnvInv' /\ OpsInv' /\ ConnectedInv' /\ FreeInv'
  BY DEF ConnsDone, env, handles, EnvInv, OpsInv, ConnectedInv, FreeInv,
         Parsing, Running, Numbers, TypeOK
<1>5. QED
  BY <1>1, <1>2, <1>3, <1>4

\* The first node is run.
LEMMA ParsedInv ==
  ASSUME IInv, Parsed
  PROVE  IInv'
<1> USE DEF IInv
<1>1. TypeOK'
  BY DEF Parsed, env, handles, TypeOK, Parsing, Running
<1>2. NumbersInv' /\ LabelsInv' /\ NoHandleLeak' /\ HandlesHaveEnv'
  BY DEF Parsed, env, handles, NumbersInv, LabelsInv, NoHandleLeak,
         HandlesHaveEnv, Numbers, Matches
<1>3. PlaceInv'
  BY DEF Parsed, PlaceInv, TypeOK, Running
<1>4. EnvInv' /\ OpsInv' /\ ConnectedInv' /\ FreeInv'
  BY DEF Parsed, env, handles, EnvInv, OpsInv, ConnectedInv, FreeInv,
         Parsing, Running, Numbers, TypeOK
<1>5. QED
  BY <1>1, <1>2, <1>3, <1>4

\* An operation finds its connection, or the request is left.
LEMMA InitOpInv ==
  ASSUME IInv, InitOp
  PROVE  IInv'
<1> USE DEF IInv
<1> DEFINE o == Node.operation[at]
<1>1. /\ pc = "OPERATION" /\ pool' = pool /\ listed' = listed /\ henv' = henv
      /\ serverMode' = serverMode /\ made' = made
      /\ hdbc' = hdbc /\ live' = live /\ refused' = refused /\ hstmt' = hstmt
      /\ req' = req /\ reqNo' = reqNo /\ ran' = ran
  BY DEF InitOp, env, handles
<1>2. /\ utils # <<>> /\ ni \in DOMAIN req /\ ni \in DOMAIN utils
      /\ utils \in Seq(Utils) /\ Len(utils) = ni
  BY <1>1, RequestType DEF PlaceInv, TypeOK
<1>3. o \in OpSpecs
  <2>1. req \in Seq(Nodes)
    BY <1>1, RequestType DEF PlaceInv
  <2>2. req[ni] \in Nodes
    BY <1>2, <2>1
  <2>3. req[ni].operation \in Seq(OpSpecs)
    BY <2>2 DEF Nodes
  <2>4. at \in 1 .. Len(req[ni].operation)
    BY <1>1, <2>3 DEF InitOp, PlaceInv, TypeOK, Node
  <2>5. QED
    BY <2>3, <2>4 DEF Node
<1>4. \/ Found(o.conn) /\ AddOp(o, GetConnection(o.conn).no)
      \/ Abort("INIT") /\ utils' = utils
  BY DEF InitOp
<1> HIDE DEF o
<1>5. CASE Abort("INIT") /\ utils' = utils
  <2>1. pc' = "DELETE" /\ ni' = 1 /\ at' = 1 /\ code' = "INIT"
    BY <1>5 DEF Abort
  <2>2. TypeOK'
    BY <1>1, <1>5, <2>1 DEF TypeOK
  <2>3. NumbersInv' /\ LabelsInv' /\ NoHandleLeak' /\ HandlesHaveEnv'
    BY <1>1, <1>5 DEF NumbersInv, LabelsInv, NoHandleLeak, HandlesHaveEnv, Numbers, Matches
  <2>4. PlaceInv' /\ EnvInv' /\ OpsInv' /\ ConnectedInv'
    BY <1>1, <1>5, <2>1 DEF PlaceInv, EnvInv, OpsInv, ConnectedInv, Parsing, Running
  <2>5. FreeInv'
    <3>1. \A i \in DOMAIN utils : ~ (i < 1)
      BY <1>2
    <3>2. QED
      BY <1>1, <1>5, <2>1, <3>1 DEF FreeInv
  <2>6. QED
    BY <2>2, <2>3, <2>4, <2>5
<1>6. CASE Found(o.conn) /\ AddOp(o, GetConnection(o.conn).no)
  <2> DEFINE no == GetConnection(o.conn).no
  <2>1. GetConnection(o.conn) \in pool
    BY <1>6, GetConnectionFinds
  <2>2. no \in Nat /\ no \in Numbers
    BY <2>1 DEF Numbers, TypeOK, Conns
  <2> HIDE DEF no
  <2>3. /\ utils' \in Seq(Utils) /\ Len(utils') = Len(utils)
        /\ \A i \in DOMAIN utils' : \A j \in DOMAIN utils'[i].ops :
             \/ utils'[i].ops[j].conn = no
             \/ j \in DOMAIN utils[i].ops /\ utils'[i].ops[j] = utils[i].ops[j]
    BY <1>2, <1>3, <1>6, <2>2, AddOpKeeps DEF no
  <2>4. at' = at + 1 /\ pc' = pc /\ ni' = ni /\ code' = code
    BY <1>6 DEF AddOp
  <2>5. TypeOK'
    BY <1>1, <2>3, <2>4 DEF TypeOK, Parsing
  <2>6. NumbersInv' /\ LabelsInv' /\ NoHandleLeak' /\ HandlesHaveEnv'
    BY <1>1 DEF NumbersInv, LabelsInv, NoHandleLeak, HandlesHaveEnv, Numbers, Matches
  <2>7. PlaceInv' /\ EnvInv' /\ ConnectedInv' /\ FreeInv'
    BY <1>1, <1>2, <2>3, <2>4 DEF PlaceInv, EnvInv, ConnectedInv, FreeInv, TypeOK, Parsing, Running
  <2>8. OpsInv'
    <3>1. \A i \in DOMAIN utils' : i \in DOMAIN utils
      BY <1>2, <2>3
    <3>2. \A i \in DOMAIN utils : \A j \in DOMAIN utils[i].ops :
            utils[i].ops[j].conn \in Numbers
      BY <1>1 DEF OpsInv, Parsing
    <3>3. Numbers' = Numbers
      BY <1>1 DEF Numbers
    <3>4. QED
      BY <2>2, <2>3, <3>1, <3>2, <3>3 DEF OpsInv
  <2>9. QED
    BY <2>5, <2>6, <2>7, <2>8
<1>7. QED
  BY <1>4, <1>5, <1>6

\* An operation gets the connection *LOCAL, or the request is left.
LEMMA InitOpLocalInv ==
  ASSUME IInv, InitOpLocal
  PROVE  IInv'
<1> USE DEF IInv
<1> DEFINE o == Node.operation[at]
           no == IF Found(Local) THEN GetConnection(Local).no ELSE made + 1
<1>1. /\ pc = "OPERATION" /\ listed' = listed /\ henv' = henv
      /\ serverMode' = serverMode
      /\ hdbc' = hdbc /\ live' = live /\ refused' = refused /\ hstmt' = hstmt
      /\ req' = req /\ reqNo' = reqNo /\ ran' = ran
  BY DEF InitOpLocal, env, handles
<1>2. /\ utils # <<>> /\ ni \in DOMAIN req /\ ni \in DOMAIN utils
      /\ utils \in Seq(Utils) /\ Len(utils) = ni
  BY <1>1, RequestType DEF PlaceInv, TypeOK
<1>3. o \in OpSpecs
  <2>1. req \in Seq(Nodes)
    BY <1>1, RequestType DEF PlaceInv
  <2>2. req[ni] \in Nodes
    BY <1>2, <2>1
  <2>3. req[ni].operation \in Seq(OpSpecs)
    BY <2>2 DEF Nodes
  <2>4. at \in 1 .. Len(req[ni].operation)
    BY <1>1, <2>3 DEF InitOpLocal, PlaceInv, TypeOK, Node
  <2>5. QED
    BY <2>3, <2>4 DEF Node
<1>4. \/ o.valid /\ AddOp(o, no)
      \/ ~ o.valid /\ Abort("INIT") /\ UNCHANGED utils
  BY DEF InitOpLocal
<1>5. /\ pool' \subseteq Conns /\ made' \in Nat /\ made <= made'
      /\ NumbersInv' /\ LabelsInv' /\ Numbers \subseteq Numbers'
      /\ no \in Numbers' /\ no \in Nat
  <2>1. CASE Found(Local)
    <3>1. pool' = pool /\ made' = made
      BY <2>1 DEF InitOpLocal
    <3>2. GetConnection(Local) \in pool
      BY <2>1, GetConnectionFinds
    <3>3. no \in Numbers /\ no \in Nat
      BY <2>1, <3>2 DEF Numbers, TypeOK, Conns
    <3>4. Numbers' = Numbers
      BY <3>1 DEF Numbers
    <3>5. QED
      BY <1>1, <3>1, <3>3, <3>4 DEF TypeOK, NumbersInv, LabelsInv, Matches
  <2>2. CASE ~ Found(Local)
    <3>1. AddConnection(Local, Local, TRUE)
      BY <2>2 DEF InitOpLocal
    <3>2. /\ pool' \subseteq Conns /\ made' \in Nat /\ made <= made'
          /\ NumbersInv' /\ LabelsInv' /\ Numbers' = Numbers \cup {made + 1}
      BY <1>1, <2>2, <3>1, PoolAssumption, AddKeepsPool
    <3>3. QED
      BY <2>2, <3>2 DEF TypeOK
  <2>3. QED
    BY <2>1, <2>2
<1> HIDE DEF o, no
<1>6. NoHandleLeak' /\ HandlesHaveEnv'
  BY <1>1, <1>5 DEF NoHandleLeak, HandlesHaveEnv
<1>7. hdbc \subseteq 1 .. made'
  BY <1>5 DEF TypeOK
<1>8. CASE ~ o.valid /\ Abort("INIT") /\ UNCHANGED utils
  <2>1. pc' = "DELETE" /\ ni' = 1 /\ at' = 1 /\ code' = "INIT" /\ utils' = utils
    BY <1>8 DEF Abort
  <2>2. TypeOK'
    BY <1>1, <1>5, <1>7, <2>1 DEF TypeOK
  <2>3. PlaceInv' /\ EnvInv' /\ OpsInv' /\ ConnectedInv'
    BY <1>1, <1>2, <2>1 DEF PlaceInv, EnvInv, OpsInv, ConnectedInv, Parsing, Running
  <2>4. FreeInv'
    <3>1. \A i \in DOMAIN utils : ~ (i < 1)
      BY <1>2
    <3>2. QED
      BY <2>1, <3>1 DEF FreeInv
  <2>5. QED
    BY <1>5, <1>6, <2>2, <2>3, <2>4
<1>9. CASE o.valid /\ AddOp(o, no)
  <2>1. /\ utils' \in Seq(Utils) /\ Len(utils') = Len(utils)
        /\ \A i \in DOMAIN utils' : \A j \in DOMAIN utils'[i].ops :
             \/ utils'[i].ops[j].conn = no
             \/ j \in DOMAIN utils[i].ops /\ utils'[i].ops[j] = utils[i].ops[j]
    BY <1>2, <1>3, <1>5, <1>9, AddOpKeeps
  <2>2. at' = at + 1 /\ pc' = pc /\ ni' = ni /\ code' = code
    BY <1>9 DEF AddOp
  <2>3. TypeOK'
    BY <1>1, <1>5, <1>7, <2>1, <2>2 DEF TypeOK, Parsing
  <2>4. PlaceInv' /\ EnvInv' /\ ConnectedInv' /\ FreeInv'
    BY <1>1, <1>2, <2>1, <2>2 DEF PlaceInv, EnvInv, ConnectedInv, FreeInv, TypeOK, Parsing, Running
  <2>5. OpsInv'
    <3>1. \A i \in DOMAIN utils' : i \in DOMAIN utils
      BY <1>2, <2>1
    <3>2. \A i \in DOMAIN utils : \A j \in DOMAIN utils[i].ops :
            utils[i].ops[j].conn \in Numbers
      BY <1>1 DEF OpsInv, Parsing
    <3>3. QED
      BY <1>5, <2>1, <3>1, <3>2 DEF OpsInv
  <2>6. QED
    BY <1>5, <1>6, <2>3, <2>4, <2>5
<1>10. QED
  BY <1>4, <1>8, <1>9

\* The node is parsed, or the request is left.
LEMMA InitFreeInv ==
  ASSUME IInv, InitFree
  PROVE  IInv'
<1> USE DEF IInv
<1>1. /\ pc = "OPERATION" /\ pool' = pool /\ listed' = listed /\ henv' = henv
      /\ serverMode' = serverMode /\ made' = made
      /\ hdbc' = hdbc /\ live' = live /\ refused' = refused /\ hstmt' = hstmt
      /\ req' = req /\ reqNo' = reqNo /\ ran' = ran
  BY DEF InitFree, env, handles
<1>2. /\ utils # <<>> /\ ni \in DOMAIN req /\ ni \in DOMAIN utils
      /\ utils \in Seq(Utils) /\ Len(utils) = ni
  BY <1>1, RequestType DEF PlaceInv, TypeOK
<1> DEFINE all == Node.free.kind = "array" /\ Node.free.labels = {}
           labels == {Upper[l] : l \in Node.free.labels}
<1>3. all \in BOOLEAN /\ labels \in SUBSET Labels
  <2>1. req \in Seq(Nodes)
    BY <1>1, RequestType DEF PlaceInv
  <2>2. req[ni] \in Nodes
    BY <1>2, <2>1
  <2>3. req[ni].free \in FreeSpecs
    BY <2>2 DEF Nodes
  <2>4. Node.free.labels \in SUBSET Labels
    BY <2>3 DEF FreeSpecs, Node
  <2>5. QED
    BY <2>4, PoolAssumption
<1>4. \/ Abort("INIT") /\ utils' = utils
      \/ NextInit /\ utils' = utils
      \/ NextInit /\ utils' = [utils EXCEPT ![ni].free_all = all, ![ni].conns2free = labels]
  BY DEF InitFree
<1> HIDE DEF all, labels
<1>5. CASE Abort("INIT") /\ utils' = utils
  <2>1. pc' = "DELETE" /\ ni' = 1 /\ at' = 1 /\ code' = "INIT"
    BY <1>5 DEF Abort
  <2>2. TypeOK'
    BY <1>1, <1>5, <2>1 DEF TypeOK
  <2>3. NumbersInv' /\ LabelsInv' /\ NoHandleLeak' /\ HandlesHaveEnv'
    BY <1>1, <1>5 DEF NumbersInv, LabelsInv, NoHandleLeak, HandlesHaveEnv, Numbers, Matches
  <2>4. PlaceInv' /\ EnvInv' /\ OpsInv' /\ ConnectedInv'
    BY <1>1, <1>5, <2>1 DEF PlaceInv, EnvInv, OpsInv, ConnectedInv, Parsing, Running
  <2>5. FreeInv'
    <3>1. \A i \in DOMAIN utils : ~ (i < 1)
      BY <1>2
    <3>2. QED
      BY <1>1, <1>5, <2>1, <3>1 DEF FreeInv
  <2>6. QED
    BY <2>2, <2>3, <2>4, <2>5
<1>6. ASSUME NextInit,
             utils' \in Seq(Utils), Len(utils') = Len(utils),
             \A i \in DOMAIN utils : utils'[i].ops = utils[i].ops
      PROVE  IInv'
  <2>1. PlaceInv' /\ pc' \in {"INIT", "PARSED"} /\ ni' \in Nat /\ at' \in Nat /\ code' = code
    BY <1>1, <1>6, NextInitPlace
  <2>2. TypeOK'
    BY <1>1, <1>6, <2>1 DEF TypeOK, Parsing
  <2>3. NumbersInv' /\ LabelsInv' /\ NoHandleLeak' /\ HandlesHaveEnv'
    BY <1>1, <1>6 DEF NumbersInv, LabelsInv, NoHandleLeak, HandlesHaveEnv, Numbers, Matches
  <2>4. EnvInv' /\ ConnectedInv' /\ FreeInv'
    BY <1>1, <1>2, <2>1 DEF EnvInv, ConnectedInv, FreeInv, Parsing, Running
  <2>5. OpsInv'
    <3>1. \A i \in DOMAIN utils' : i \in DOMAIN utils
      BY <1>2, <1>6
    <3>2. \A i \in DOMAIN utils : \A j \in DOMAIN utils[i].ops :
            utils[i].ops[j].conn \in Numbers
      BY <1>1 DEF OpsInv, Parsing
    <3>3. Numbers' = Numbers
      BY <1>1 DEF Numbers
    <3>4. QED
      BY <1>6, <3>1, <3>2, <3>3 DEF OpsInv
  <2>6. QED
    BY <2>1, <2>2, <2>3, <2>4, <2>5
<1>7. CASE NextInit /\ utils' = utils
  BY <1>2, <1>6, <1>7
<1>8. CASE NextInit /\ utils' = [utils EXCEPT ![ni].free_all = all, ![ni].conns2free = labels]
  BY <1>2, <1>3, <1>6, <1>8, SetFree
<1>9. QED
  BY <1>4, <1>5, <1>7, <1>8

\* The environment is there, or the request is left.
LEMMA InitEnvInv ==
  ASSUME IInv, InitEnv
  PROVE  IInv'
<1> USE DEF IInv
<1>1. /\ pc = "RUN" /\ pool' = pool /\ listed' = listed
      /\ serverMode' = serverMode /\ made' = made
      /\ hdbc' = hdbc /\ live' = live /\ refused' = refused /\ hstmt' = hstmt
      /\ req' = req /\ reqNo' = reqNo /\ ran' = ran /\ utils' = utils
      /\ henv' \in BOOLEAN /\ (henv => henv')
  BY DEF InitEnv, handles
<1>2. NumbersInv' /\ LabelsInv' /\ NoHandleLeak' /\ HandlesHaveEnv'
  BY <1>1 DEF NumbersInv, LabelsInv, NoHandleLeak, HandlesHaveEnv, Numbers, Matches
<1>3. listed
  <2>1. req \in Seq(Nodes) /\ Len(req) >= 1 /\ Len(utils) = Len(req) /\ utils \in Seq(Utils)
    BY <1>1, RequestType DEF PlaceInv, TypeOK, Running
  <2>2. utils # <<>>
    BY <2>1
  <2>3. QED
    BY <1>1, <2>2 DEF EnvInv, Running
<1>4. CASE henv' = TRUE /\ pc' = "POOL" /\ at' = 1 /\ ni' = ni /\ code' = code
  <2>1. TypeOK'
    BY <1>1, <1>4 DEF TypeOK, Running
  <2>2. PlaceInv' /\ EnvInv' /\ OpsInv' /\ FreeInv'
    BY <1>1, <1>3, <1>4 DEF PlaceInv, EnvInv, OpsInv, FreeInv, Parsing, Running, Numbers
  <2>3. ConnectedInv'
    BY <1>1, <1>4 DEF ConnectedInv, TypeOK, Conns
  <2>4. QED
    BY <1>2, <2>1, <2>2, <2>3
<1>5. CASE code' = "INIT" /\ EndNode
  <2>1. PlaceInv' /\ pc' \in {"RUN", "DELETE"} /\ ni' \in Nat /\ at' \in Nat
        /\ (pc' = "DELETE" => ni' = 1)
    BY <1>1, <1>5, EndNodePlace DEF Running
  <2>2. \A i \in DOMAIN utils : ~ (i < 1)
    BY DEF TypeOK
  <2>3. TypeOK'
    BY <1>1, <1>5, <2>1 DEF TypeOK, Running
  <2>4. EnvInv' /\ OpsInv' /\ ConnectedInv' /\ FreeInv'
    BY <1>1, <1>3, <2>1, <2>2 DEF EnvInv, OpsInv, ConnectedInv, FreeInv, Parsing, Running, Numbers
  <2>5. QED
    BY <1>2, <2>1, <2>3, <2>4
<1>6. QED
  BY <1>4, <1>5 DEF InitEnv

\* A connection that has a handle is passed over.
LEMMA ConnActiveInv ==
  ASSUME IInv, ConnActive
  PROVE  IInv'
<1> USE DEF IInv
<1>1. First \in pool /\ First.no >= at /\ (\A y \in pool : y.no >= at => First.no <= y.no)
  BY FirstToConnect DEF ConnActive
<1>2. /\ First.no \in Nat /\ First.no >= 1 /\ First.no \in Numbers
      /\ First.no <= made /\ made \in Nat /\ at \in Nat
  BY <1>1 DEF TypeOK, Conns, Numbers, NumbersInv
<1>3. /\ pc = "POOL" /\ hdbc' = hdbc /\ live' = live /\ refused' = refused
      /\ at' = First.no + 1 /\ pool' = pool /\ listed' = listed /\ henv' = henv
      /\ serverMode' = serverMode /\ made' = made /\ hstmt' = hstmt
      /\ req' = req /\ reqNo' = reqNo /\ pc' = pc /\ ni' = ni
      /\ utils' = utils /\ code' = code /\ ran' = ran /\ First.no \in hdbc
  BY DEF ConnActive, env, handles
<1> HIDE DEF First
<1>4. TypeOK'
  <2>1. hdbc' \subseteq 1 .. made' /\ live' \subseteq hdbc' /\ at' \in Nat
    BY <1>2, <1>3 DEF TypeOK
  <2>2. hstmt' \subseteq hdbc' \X Nat \X Nat \X Nat
    BY <1>3 DEF TypeOK
  <2>3. QED
    BY <1>3, <2>1, <2>2 DEF TypeOK
<1>5. NumbersInv' /\ LabelsInv' /\ NoHandleLeak' /\ HandlesHaveEnv'
  BY <1>2, <1>3 DEF NumbersInv, LabelsInv, NoHandleLeak, HandlesHaveEnv, Numbers, Matches, EnvInv
<1>6. PlaceInv' /\ EnvInv' /\ OpsInv' /\ FreeInv'
  BY <1>2, <1>3 DEF PlaceInv, EnvInv, OpsInv, FreeInv, Parsing, Running, Numbers
<1>7. ConnectedInv'
  <2>1. SUFFICES ASSUME NEW x \in pool, x.no < First.no + 1
                 PROVE  x.no \in hdbc'
    BY <1>3 DEF ConnectedInv
  <2>2. x.no \in Nat
    BY DEF TypeOK, Conns
  <2>3. CASE x.no < at
    BY <1>3, <2>3 DEF ConnectedInv
  <2>4. CASE ~ (x.no < at)
    <3>1. x.no = First.no
      BY <1>1, <1>2, <2>1, <2>2, <2>4
    <3>2. QED
      BY <1>3, <3>1
  <2>5. QED
    BY <2>3, <2>4
<1>8. QED
  BY <1>4, <1>5, <1>6, <1>7

\* A connection is made.
LEMMA ConnectInv ==
  ASSUME IInv, Connect
  PROVE  IInv'
<1> USE DEF IInv
<1>1. First \in pool /\ First.no >= at /\ (\A y \in pool : y.no >= at => First.no <= y.no)
  BY FirstToConnect DEF Connect
<1>2. /\ First.no \in Nat /\ First.no >= 1 /\ First.no \in Numbers
      /\ First.no <= made /\ made \in Nat /\ at \in Nat
  BY <1>1 DEF TypeOK, Conns, Numbers, NumbersInv
<1>3. /\ pc = "POOL" /\ hdbc' = hdbc \cup {First.no} /\ live' = live \cup {First.no}
      /\ refused' = refused
      /\ at' = First.no + 1 /\ pool' = pool /\ listed' = listed /\ henv' = henv
      /\ serverMode' = serverMode /\ made' = made /\ hstmt' = hstmt
      /\ req' = req /\ reqNo' = reqNo /\ pc' = pc /\ ni' = ni
      /\ utils' = utils /\ code' = code /\ ran' = ran
  BY DEF Connect, env, handles
<1> HIDE DEF First
<1>4. TypeOK'
  <2>1. hdbc' \subseteq 1 .. made' /\ live' \subseteq hdbc' /\ at' \in Nat
    <3>1. hdbc \subseteq 1 .. made /\ live \subseteq hdbc /\ First.no \in 1 .. made
      BY <1>2 DEF TypeOK
    <3>2. live' \subseteq hdbc'
      BY <1>3, <3>1
    <3>3. hdbc' \subseteq 1 .. made'
      BY <1>3, <3>1
    <3>4. at' \in Nat
      BY <1>2, <1>3
    <3>5. QED
      BY <3>2, <3>3, <3>4
  <2>2. hstmt' \subseteq hdbc' \X Nat \X Nat \X Nat
    BY <1>3 DEF TypeOK
  <2>3. QED
    BY <1>3, <2>1, <2>2 DEF TypeOK
<1>5. NumbersInv' /\ LabelsInv' /\ NoHandleLeak' /\ HandlesHaveEnv'
  BY <1>2, <1>3 DEF NumbersInv, LabelsInv, NoHandleLeak, HandlesHaveEnv, Numbers, Matches, EnvInv
<1>6. PlaceInv' /\ EnvInv' /\ OpsInv' /\ FreeInv'
  BY <1>2, <1>3 DEF PlaceInv, EnvInv, OpsInv, FreeInv, Parsing, Running, Numbers
<1>7. ConnectedInv'
  <2>1. SUFFICES ASSUME NEW x \in pool, x.no < First.no + 1
                 PROVE  x.no \in hdbc'
    BY <1>3 DEF ConnectedInv
  <2>2. x.no \in Nat
    BY DEF TypeOK, Conns
  <2>3. CASE x.no < at
    BY <1>3, <2>3 DEF ConnectedInv
  <2>4. CASE ~ (x.no < at)
    <3>1. x.no = First.no
      BY <1>1, <1>2, <2>1, <2>2, <2>4
    <3>2. QED
      BY <1>3, <3>1
  <2>5. QED
    BY <2>3, <2>4
<1>8. QED
  BY <1>4, <1>5, <1>6, <1>7

\* A connection cannot be made.
LEMMA ConnectFailsInv ==
  ASSUME IInv, ConnectFails
  PROVE  IInv'
<1> USE DEF IInv
<1>1. First \in pool /\ First.no >= at /\ (\A y \in pool : y.no >= at => First.no <= y.no)
  BY FirstToConnect DEF ConnectFails
<1>2. /\ First.no \in Nat /\ First.no >= 1 /\ First.no \in Numbers
      /\ First.no <= made /\ made \in Nat /\ at \in Nat
  BY <1>1 DEF TypeOK, Conns, Numbers, NumbersInv
<1>3. /\ pc = "POOL" /\ hdbc' \in {hdbc, hdbc \cup {First.no}} /\ live' = live
      /\ refused' = refused
      /\ pool' = pool /\ listed' = listed /\ henv' = henv
      /\ serverMode' = serverMode /\ made' = made /\ hstmt' = hstmt
      /\ req' = req /\ reqNo' = reqNo /\ utils' = utils /\ code' = "RUN" /\ ran' = ran
      /\ EndNode
  BY DEF ConnectFails, env
<1> HIDE DEF First
<1>4. NumbersInv' /\ LabelsInv' /\ NoHandleLeak' /\ HandlesHaveEnv'
  BY <1>2, <1>3 DEF NumbersInv, LabelsInv, NoHandleLeak, HandlesHaveEnv, Numbers, Matches, EnvInv
<1>5. PlaceInv' /\ TypeOK' /\ EnvInv' /\ OpsInv' /\ ConnectedInv' /\ FreeInv'
  <2>1. PlaceInv' /\ pc' \in {"RUN", "DELETE"} /\ ni' \in Nat /\ at' \in Nat
        /\ (pc' = "DELETE" => ni' = 1)
    BY <1>3, EndNodePlace DEF Running
  <2>2. \A i \in DOMAIN utils : ~ (i < 1)
    BY DEF TypeOK
  <2>3. TypeOK'
    <3>1. hdbc' \subseteq 1 .. made' /\ live' \subseteq hdbc'
      BY <1>2, <1>3 DEF TypeOK
    <3>2. hstmt' \subseteq hdbc' \X Nat \X Nat \X Nat
      BY <1>3 DEF TypeOK
    <3>3. QED
      BY <1>3, <2>1, <3>1, <3>2 DEF TypeOK, Running
  <2>4. EnvInv' /\ OpsInv' /\ ConnectedInv' /\ FreeInv'
    BY <1>3, <2>1, <2>2 DEF EnvInv, OpsInv, ConnectedInv, FreeInv, Parsing, Running, Numbers
  <2>5. QED
    BY <2>1, <2>3, <2>4
<1>6. QED
  BY <1>4, <1>5

\* All connections of the pool have a handle.
LEMMA PoolDoneInv ==
  ASSUME IInv, PoolDone
  PROVE  IInv'
<1> USE DEF IInv
<1>1. /\ pc = "POOL" /\ pc' = "EXEC" /\ at' = 1 /\ pool' = pool /\ listed' = listed
      /\ henv' = henv /\ serverMode' = serverMode /\ made' = made
      /\ hdbc' = hdbc /\ live' = live /\ refused' = refused /\ hstmt' = hstmt
      /\ req' = req /\ reqNo' = reqNo /\ ni' = ni
      /\ utils' = utils /\ code' = code /\ ran' = ran /\ ToConnect = {}
  BY DEF PoolDone, env, handles
<1>2. TypeOK'
  BY <1>1 DEF TypeOK, Running
<1>3. NumbersInv' /\ LabelsInv' /\ NoHandleLeak' /\ HandlesHaveEnv'
  BY <1>1 DEF NumbersInv, LabelsInv, NoHandleLeak, HandlesHaveEnv, Numbers, Matches
<1>4. PlaceInv' /\ EnvInv' /\ OpsInv' /\ FreeInv'
  BY <1>1 DEF PlaceInv, EnvInv, OpsInv, FreeInv, Parsing, Running, Numbers
<1>5. ConnectedInv'
  <2>1. \A x \in pool : x.no < at
    BY <1>1 DEF ToConnect, TypeOK, Conns
  <2>2. \A x \in pool : x.no \in hdbc
    BY <1>1, <2>1 DEF ConnectedInv
  <2>3. QED
    BY <1>1, <2>2 DEF ConnectedInv, Numbers
<1>6. QED
  BY <1>2, <1>3, <1>4, <1>5

\* A statement is run.
LEMMA ExecInv ==
  ASSUME IInv, Exec
  PROVE  IInv'
<1> USE DEF IInv
<1>1. /\ pc = "EXEC" /\ pool' = pool /\ listed' = listed /\ henv' = henv
      /\ serverMode' = serverMode /\ made' = made
      /\ hdbc' = hdbc /\ live' = live
      /\ refused' = refused /\ req' = req /\ reqNo' = reqNo
      /\ utils' = utils /\ code' = code /\ ran' = ran \cup {<<ni, at>>}
      /\ hstmt' = hstmt
      /\ at' = at + 1 /\ pc' = pc /\ ni' = ni
  BY DEF Exec, AtOp, env, handles, NextOp
<1>2. NumbersInv' /\ LabelsInv' /\ NoHandleLeak' /\ HandlesHaveEnv'
  BY <1>1 DEF NumbersInv, LabelsInv, NoHandleLeak, HandlesHaveEnv, Numbers, Matches
<1>3. ran' \subseteq Nat \X Nat
  BY <1>1 DEF TypeOK
<1>4. hstmt' \subseteq hdbc' \X Nat \X Nat \X Nat
  BY <1>1 DEF TypeOK
<1>5. PlaceInv' /\ TypeOK' /\ EnvInv' /\ OpsInv' /\ ConnectedInv' /\ FreeInv'
  <2>1. TypeOK' /\ PlaceInv'
    BY <1>1, <1>3, <1>4 DEF TypeOK, PlaceInv, Running
  <2>2. EnvInv' /\ OpsInv' /\ ConnectedInv' /\ FreeInv'
    BY <1>1 DEF EnvInv, OpsInv, ConnectedInv, FreeInv, Parsing, Running, Numbers
  <2>3. QED
    BY <2>1, <2>2
<1>6. QED
  BY <1>2, <1>5

\* A statement fails.
LEMMA ExecFailsInv ==
  ASSUME IInv, ExecFails
  PROVE  IInv'
<1> USE DEF IInv
<1>1. /\ pc = "EXEC" /\ pool' = pool /\ listed' = listed /\ henv' = henv
      /\ serverMode' = serverMode /\ made' = made
      /\ hdbc' = hdbc /\ live' = live
      /\ refused' = refused /\ req' = req /\ reqNo' = reqNo
      /\ utils' = utils /\ code' = "RUN" /\ ran' = ran
      /\ hstmt' \in {hstmt, hstmt \cup {<<Util.ops[at].conn, reqNo, ni, at>>}}
      /\ EndNode
  BY DEF ExecFails, AtOp, env, handles, NextOp
<1>2. NumbersInv' /\ LabelsInv' /\ NoHandleLeak' /\ HandlesHaveEnv'
  BY <1>1 DEF NumbersInv, LabelsInv, NoHandleLeak, HandlesHaveEnv, Numbers, Matches
<1>3. ran' \subseteq Nat \X Nat
  BY <1>1 DEF TypeOK
<1>4. hstmt' \subseteq hdbc' \X Nat \X Nat \X Nat
  <2>1. Util.ops[at].conn \in hdbc
    <3>1. req \in Seq(Nodes) /\ ni \in DOMAIN utils
      BY <1>1, RequestType DEF PlaceInv, TypeOK, Running
    <3>2. utils[ni] \in Utils
      BY <3>1 DEF TypeOK
    <3>3. utils[ni].ops \in Seq([type : {"EXEC", "COMMIT"}, conn : Nat])
      BY <3>2 DEF Utils
    <3>4. at \in 1 .. Len(utils[ni].ops)
      BY <3>3 DEF ExecFails, AtOp, Util, PlaceInv, TypeOK
    <3>5. at \in DOMAIN utils[ni].ops
      BY <3>3, <3>4
    <3>6. utils[ni].ops[at].conn \in Numbers
      BY <1>1, <3>1, <3>5 DEF OpsInv, Running
    <3>7. QED
      BY <1>1, <3>6 DEF ConnectedInv, Util
  <2>2. reqNo \in Nat /\ ni \in Nat /\ at \in Nat
    BY PoolAssumption DEF TypeOK
  <2>3. <<Util.ops[at].conn, reqNo, ni, at>> \in hdbc \X Nat \X Nat \X Nat
    BY <2>1, <2>2
  <2>4. hstmt \subseteq hdbc \X Nat \X Nat \X Nat
    BY DEF TypeOK
  <2>5. QED
    BY <1>1, <2>3, <2>4
<1>5. PlaceInv' /\ TypeOK' /\ EnvInv' /\ OpsInv' /\ ConnectedInv' /\ FreeInv'
  <2>1. PlaceInv' /\ pc' \in {"RUN", "DELETE"} /\ ni' \in Nat /\ at' \in Nat
        /\ (pc' = "DELETE" => ni' = 1)
    BY <1>1, EndNodePlace DEF Running
  <2>2. \A i \in DOMAIN utils : ~ (i < 1)
    BY DEF TypeOK
  <2>3. TypeOK'
    BY <1>1, <1>3, <1>4, <2>1 DEF TypeOK, Running
  <2>4. EnvInv' /\ OpsInv' /\ ConnectedInv' /\ FreeInv'
    BY <1>1, <2>1, <2>2 DEF EnvInv, OpsInv, ConnectedInv, FreeInv, Parsing, Running, Numbers
  <2>5. QED
    BY <2>1, <2>3, <2>4
<1>6. QED
  BY <1>2, <1>5

\* A transaction is ended.
LEMMA CommitTranctInv ==
  ASSUME IInv, CommitTranct
  PROVE  IInv'
<1> USE DEF IInv
<1>1. /\ pc = "EXEC" /\ pool' = pool /\ listed' = listed /\ henv' = henv
      /\ serverMode' = serverMode /\ made' = made
      /\ hdbc' = hdbc /\ live' = live
      /\ refused' = refused /\ req' = req /\ reqNo' = reqNo
      /\ utils' = utils /\ code' = code /\ ran' = ran \cup {<<ni, at>>}
      /\ hstmt' = hstmt
      /\ EndNode
  BY DEF CommitTranct, AtOp, env, handles, NextOp
<1>2. NumbersInv' /\ LabelsInv' /\ NoHandleLeak' /\ HandlesHaveEnv'
  BY <1>1 DEF NumbersInv, LabelsInv, NoHandleLeak, HandlesHaveEnv, Numbers, Matches
<1>3. ran' \subseteq Nat \X Nat
  BY <1>1 DEF TypeOK
<1>4. hstmt' \subseteq hdbc' \X Nat \X Nat \X Nat
  BY <1>1 DEF TypeOK
<1>5. PlaceInv' /\ TypeOK' /\ EnvInv' /\ OpsInv' /\ ConnectedInv' /\ FreeInv'
  <2>1. PlaceInv' /\ pc' \in {"RUN", "DELETE"} /\ ni' \in Nat /\ at' \in Nat
        /\ (pc' = "DELETE" => ni' = 1)
    BY <1>1, EndNodePlace DEF Running
  <2>2. \A i \in DOMAIN utils : ~ (i < 1)
    BY DEF TypeOK
  <2>3. TypeOK'
    BY <1>1, <1>3, <1>4, <2>1 DEF TypeOK, Running
  <2>4. EnvInv' /\ OpsInv' /\ ConnectedInv' /\ FreeInv'
    BY <1>1, <2>1, <2>2 DEF EnvInv, OpsInv, ConnectedInv, FreeInv, Parsing, Running, Numbers
  <2>5. QED
    BY <2>1, <2>3, <2>4
<1>6. QED
  BY <1>2, <1>5

\* A transaction cannot be ended.
LEMMA CommitFailsInv ==
  ASSUME IInv, CommitFails
  PROVE  IInv'
<1> USE DEF IInv
<1>1. /\ pc = "EXEC" /\ pool' = pool /\ listed' = listed /\ henv' = henv
      /\ serverMode' = serverMode /\ made' = made
      /\ hdbc' = hdbc /\ live' = live
      /\ refused' = refused /\ req' = req /\ reqNo' = reqNo
      /\ utils' = utils /\ code' = "RUN" /\ ran' = ran
      /\ hstmt' = hstmt
      /\ at' = at + 1 /\ pc' = pc /\ ni' = ni
  BY DEF CommitFails, AtOp, env, handles, NextOp
<1>2. NumbersInv' /\ LabelsInv' /\ NoHandleLeak' /\ HandlesHaveEnv'
  BY <1>1 DEF NumbersInv, LabelsInv, NoHandleLeak, HandlesHaveEnv, Numbers, Matches
<1>3. ran' \subseteq Nat \X Nat
  BY <1>1 DEF TypeOK
<1>4. hstmt' \subseteq hdbc' \X Nat \X Nat \X Nat
  BY <1>1 DEF TypeOK
<1>5. PlaceInv' /\ TypeOK' /\ EnvInv' /\ OpsInv' /\ ConnectedInv' /\ FreeInv'
  <2>1. TypeOK' /\ PlaceInv'
    BY <1>1, <1>3, <1>4 DEF TypeOK, PlaceInv, Running
  <2>2. EnvInv' /\ OpsInv' /\ ConnectedInv' /\ FreeInv'
    BY <1>1 DEF EnvInv, OpsInv, ConnectedInv, FreeInv, Parsing, Running, Numbers
  <2>3. QED
    BY <2>1, <2>2
<1>6. QED
  BY <1>2, <1>5

\* The node is over.
LEMMA OpsDoneInv ==
  ASSUME IInv, OpsDone
  PROVE  IInv'
<1> USE DEF IInv
<1>1. /\ pc = "EXEC" /\ pool' = pool /\ listed' = listed /\ henv' = henv
      /\ serverMode' = serverMode /\ made' = made
      /\ hdbc' = hdbc /\ live' = live
      /\ refused' = refused /\ req' = req /\ reqNo' = reqNo
      /\ utils' = utils /\ code' = code /\ ran' = ran
      /\ hstmt' = hstmt
      /\ EndNode
  BY DEF OpsDone, Running, env, handles, NextOp
<1>2. NumbersInv' /\ LabelsInv' /\ NoHandleLeak' /\ HandlesHaveEnv'
  BY <1>1 DEF NumbersInv, LabelsInv, NoHandleLeak, HandlesHaveEnv, Numbers, Matches
<1>3. ran' \subseteq Nat \X Nat
  BY <1>1 DEF TypeOK
<1>4. hstmt' \subseteq hdbc' \X Nat \X Nat \X Nat
  BY <1>1 DEF TypeOK
<1>5. PlaceInv' /\ TypeOK' /\ EnvInv' /\ OpsInv' /\ ConnectedInv' /\ FreeInv'
  <2>1. PlaceInv' /\ pc' \in {"RUN", "DELETE"} /\ ni' \in Nat /\ at' \in Nat
        /\ (pc' = "DELETE" => ni' = 1)
    BY <1>1, EndNodePlace DEF Running
  <2>2. \A i \in DOMAIN utils : ~ (i < 1)
    BY DEF TypeOK
  <2>3. TypeOK'
    BY <1>1, <1>3, <1>4, <2>1 DEF TypeOK, Running
  <2>4. EnvInv' /\ OpsInv' /\ ConnectedInv' /\ FreeInv'
    BY <1>1, <2>1, <2>2 DEF EnvInv, OpsInv, ConnectedInv, FreeInv, Parsing, Running, Numbers
  <2>5. QED
    BY <2>1, <2>3, <2>4
<1>6. QED
  BY <1>2, <1>5

\* An SqlUtil frees what it has to.
LEMMA DeleteUtilInv ==
  ASSUME IInv, DeleteUtil
  PROVE  IInv'
<1> USE DEF IInv
<1>1. /\ pc = "DELETE" /\ pc' = pc /\ ni' = ni + 1 /\ made' = made /\ req' = req
      /\ reqNo' = reqNo /\ at' = at /\ utils' = utils /\ code' = code /\ ran' = ran
      /\ ni \in Nat /\ utils \in Seq(Utils) /\ ni <= Len(utils) /\ ni >= 1
  BY DEF DeleteUtil, TypeOK, PlaceInv
<1>2. PlaceInv' /\ OpsInv' /\ ConnectedInv'
  BY <1>1 DEF PlaceInv, OpsInv, ConnectedInv, Parsing, Running
<1>3. \A i \in DOMAIN utils : i < ni + 1 => i < ni \/ i = ni
  BY <1>1
<1>4. CASE ~ listed /\ UNCHANGED <<pool, env, serverMode, handles>>
  <2>1. TypeOK' /\ NumbersInv' /\ LabelsInv'
    BY <1>1, <1>4 DEF TypeOK, NumbersInv, LabelsInv, Matches, env, handles
  <2>2. EnvInv' /\ FreeInv' /\ NoHandleLeak' /\ HandlesHaveEnv'
    BY <1>1, <1>4 DEF EnvInv, FreeInv, NoHandleLeak, HandlesHaveEnv, Numbers, env, handles,
                      Parsing, Running
  <2>3. QED
    BY <1>2, <2>1, <2>2
<1>5. CASE listed /\ Util.free_all /\ Clear
  <2>1. Release(pool) /\ listed' = FALSE /\ henv' = FALSE /\ serverMode' = FALSE
    BY <1>5 DEF Clear
  <2>2. /\ pool' = {} /\ hdbc' \subseteq hdbc /\ live' \subseteq hdbc'
        /\ refused' \subseteq hdbc'
        /\ hstmt' \subseteq hdbc' \X Nat \X Nat \X Nat
        /\ NumbersInv' /\ LabelsInv' /\ NoHandleLeak'
    BY <1>1, <2>1, ReleaseKeepsPool
  <2>3. TypeOK'
    <3>1. hdbc' \subseteq 1 .. made' /\ pool' \subseteq Conns
      BY <1>1, <2>2 DEF TypeOK
    <3>2. listed' \in BOOLEAN /\ henv' \in BOOLEAN /\ serverMode' \in BOOLEAN
      BY <2>1, Zenon
    <3>3. ni' \in Nat
      BY <1>1
    <3>4. QED
      BY <1>1, <2>2, <3>1, <3>2, <3>3 DEF TypeOK
  <2>4. EnvInv' /\ FreeInv' /\ HandlesHaveEnv'
    BY <1>1, <2>1, <2>2 DEF EnvInv, FreeInv, NoHandleLeak, HandlesHaveEnv, Numbers,
                            Parsing, Running
  <2>5. QED
    BY <1>2, <2>2, <2>3, <2>4
<1>6. ASSUME listed, ~ Util.free_all, NEW gone, gone \subseteq pool, Release(gone),
             UNCHANGED <<env, serverMode>>
      PROVE  IInv'
  <2>1. listed' = listed /\ henv' = henv /\ serverMode' = serverMode
    BY <1>6 DEF env
  <2>2. /\ pool' = pool \ gone /\ hdbc' \subseteq hdbc /\ live' \subseteq hdbc'
        /\ refused' \subseteq hdbc' /\ (hdbc = refused => hdbc' = refused')
        /\ hstmt' \subseteq hdbc' \X Nat \X Nat \X Nat
        /\ NumbersInv' /\ LabelsInv' /\ NoHandleLeak'
    BY <1>1, <1>6, ReleaseKeepsPool
  <2>3. TypeOK'
    BY <1>1, <2>1, <2>2 DEF TypeOK
  <2>4. EnvInv' /\ HandlesHaveEnv'
    BY <1>1, <1>6, <2>1, <2>2 DEF EnvInv, HandlesHaveEnv, Parsing, Running
  <2>5. FreeInv'
    BY <1>1, <1>3, <1>6, <2>1 DEF FreeInv, Util
  <2>6. QED
    BY <1>2, <2>2, <2>3, <2>4, <2>5
<1>7. CASE /\ listed /\ ~ Util.free_all
           /\ Release({x \in pool : x.label \in Util.conns2free /\ FirstOfLabel(x)})
           /\ UNCHANGED <<env, serverMode>>
  BY <1>6, <1>7
<1>8. QED
  BY <1>4, <1>5, <1>7 DEF DeleteUtil

\* All objects of the request are deleted.
LEMMA EndRequestInv ==
  ASSUME IInv, EndRequest
  PROVE  IInv'
<1> USE DEF IInv
<1>1. /\ pc = "DELETE" /\ pc' = "IDLE" /\ ni' = 1 /\ ni > Len(utils)
      /\ ni \in Nat /\ utils \in Seq(Utils)
      /\ pool' = pool /\ listed' = listed /\ henv' = henv
      /\ serverMode' = serverMode /\ made' = made
      /\ hdbc' = hdbc /\ live' = live
      /\ refused' = refused /\ hstmt' = hstmt /\ req' = req
      /\ reqNo' = reqNo /\ at' = at /\ utils' = utils /\ code' = code /\ ran' = ran
  BY DEF EndRequest, env, handles, TypeOK
<1>2. TypeOK' /\ NumbersInv' /\ LabelsInv'
  BY <1>1 DEF TypeOK, NumbersInv, LabelsInv, Matches
<1>3. PlaceInv' /\ EnvInv' /\ OpsInv' /\ ConnectedInv' /\ NoHandleLeak' /\ HandlesHaveEnv'
  BY <1>1 DEF PlaceInv, EnvInv, OpsInv, ConnectedInv, NoHandleLeak, HandlesHaveEnv,
              Numbers, Parsing, Running
<1>4. FreeInv'
  <2>1. \A i \in DOMAIN utils : i < ni
    BY <1>1
  <2>2. QED
    BY <1>1, <2>1 DEF FreeInv
<1>5. QED
  BY <1>2, <1>3, <1>4

\* No step, and no stuttering, leaves the invariant.
LEMMA NextInv == IInv /\ [Next]_vars => IInv'
<1> SUFFICES ASSUME IInv, [Next]_vars
             PROVE  IInv'
  OBVIOUS
<1>1. CASE StartRequest
  BY <1>1, StartRequestInv
<1>2. CASE ParseFails
  BY <1>2, ParseFailsInv
<1>3. CASE InitNode
  BY <1>3, InitNodeInv
<1>4. CASE InitConn
  BY <1>4, InitConnInv
<1>5. CASE ConnsDone
  BY <1>5, ConnsDoneInv
<1>6. CASE InitOp
  BY <1>6, InitOpInv
<1>7. CASE InitOpLocal
  BY <1>7, InitOpLocalInv
<1>8. CASE InitFree
  BY <1>8, InitFreeInv
<1>9. CASE Parsed
  BY <1>9, ParsedInv
<1>10. CASE InitEnv
  BY <1>10, InitEnvInv
<1>11. CASE ConnActive
  BY <1>11, ConnActiveInv
<1>12. CASE Connect
  BY <1>12, ConnectInv
<1>13. CASE ConnectFails
  BY <1>13, ConnectFailsInv
<1>14. CASE PoolDone
  BY <1>14, PoolDoneInv
<1>15. CASE Exec
  BY <1>15, ExecInv
<1>16. CASE ExecFails
  BY <1>16, ExecFailsInv
<1>17. CASE CommitTranct
  BY <1>17, CommitTranctInv
<1>18. CASE CommitFails
  BY <1>18, CommitFailsInv
<1>19. CASE OpsDone
  BY <1>19, OpsDoneInv
<1>20. CASE DeleteUtil
  BY <1>20, DeleteUtilInv
<1>21. CASE EndRequest
  BY <1>21, EndRequestInv
<1>22. CASE UNCHANGED vars
  <2>1. /\ UNCHANGED <<pool, listed, henv, serverMode, made, hdbc, live, hstmt, refused>>
        /\ UNCHANGED <<req, reqNo, pc, ni, at, utils, code, ran>>
    BY <1>22 DEF vars, env, handles, place
  <2>2. TypeOK' /\ NumbersInv' /\ LabelsInv' /\ PlaceInv' /\ EnvInv'
    BY <2>1 DEF IInv, TypeOK, NumbersInv, LabelsInv, PlaceInv, EnvInv, Matches
  <2>3. OpsInv' /\ ConnectedInv' /\ FreeInv' /\ NoHandleLeak' /\ HandlesHaveEnv'
    BY <2>1 DEF IInv, OpsInv, ConnectedInv, FreeInv, NoHandleLeak, HandlesHaveEnv, Numbers
  <2>4. QED
    BY <2>2, <2>3 DEF IInv
<1>23. QED
  BY <1>1, <1>2, <1>3, <1>4, <1>5, <1>6, <1>7, <1>8, <1>9, <1>10, <1>11, <1>12, <1>13, <1>14, <1>15, <1>16, <1>17, <1>18, <1>19, <1>20, <1>21, <1>22 DEF Next, Quiescent

-----------------------------------------------------------------------------
(* The properties                                                          *)

LEMMA InvLabels == IInv => LabelResolves
<1> SUFFICES ASSUME IInv, NEW x \in pool, x.label # Empty
             PROVE  GetConnection(x.label) = x
  BY DEF LabelResolves
<1> DEFINE y == GetConnection(x.label)
<1>1. Matches(x, x.label)
  BY DEF Matches
<1>2. TypeOK /\ Found(x.label)
  BY <1>1 DEF IInv, Found
<1>3. y \in pool /\ Matches(y, x.label) /\ y.no <= x.no
  BY <1>1, <1>2, GetConnectionFinds
<1> HIDE DEF y
<1>4. ~ (y.no < x.no)
  BY <1>3 DEF IInv, LabelsInv
<1>5. y.no = x.no
  BY <1>2, <1>3, <1>4 DEF TypeOK, Conns
<1>6. y = x
  BY <1>3, <1>5 DEF IInv, NumbersInv
<1>7. QED
  BY <1>6 DEF y

LEMMA InvDangling == IInv => NoDanglingConn
BY DEF IInv, NoDanglingConn, OpsInv, ConnectedInv

LEMMA InvFree == IInv => FreeAllLeavesNothing
<1> SUFFICES ASSUME IInv, pc = "IDLE", NEW i \in DOMAIN utils, utils[i].free_all
             PROVE  pool = {} /\ hdbc \subseteq refused /\ ~ listed /\ ~ henv
  BY DEF FreeAllLeavesNothing
<1>1. ~ listed
  BY DEF IInv, FreeInv
<1>2. pool = {} /\ ~ henv
  BY <1>1 DEF IInv, EnvInv
<1>3. hdbc \subseteq refused
  BY <1>2 DEF IInv, HandlesHaveEnv
<1>4. QED
  BY <1>1, <1>2, <1>3

\* All that is said below holds because of the one invariant.
THEOREM Invariance == Spec => []IInv
<1>1. QED
  BY InitInv, NextInv, PTL DEF Spec

\* All variables keep their types: no handle belongs to a connection that was
\* never made.
THEOREM TypeCorrect == Spec => []TypeOK
<1>1. IInv => TypeOK
  BY DEF IInv
<1>2. QED
  BY <1>1, Invariance, PTL

\* Whatever requests come and fail, a connection that has a label is found by it.
THEOREM LabelsUnambiguous == Spec => []LabelResolves
<1>1. IInv => LabelResolves
  BY InvLabels
<1>2. QED
  BY <1>1, Invariance, PTL

\* The connection an operation points to is in the pool until it is run, and has
\* a handle then.
THEOREM PointersGood == Spec => []NoDanglingConn
<1>1. IInv => NoDanglingConn
  BY InvDangling
<1>2. QED
  BY <1>1, Invariance, PTL

\* Every handle belongs to a connection of the pool, or the database has refused
\* to free it when its connection was deleted.
THEOREM HandlesOwned == Spec => []NoHandleLeak
<1>1. IInv => NoHandleLeak
  BY DEF IInv
<1>2. QED
  BY <1>1, Invariance, PTL

\* There is no handle without an environment but those the database kept.
THEOREM HandlesInEnv == Spec => []HandlesHaveEnv
<1>1. IInv => HandlesHaveEnv
  BY DEF IInv
<1>2. QED
  BY <1>1, Invariance, PTL

\* After a request with a node that frees all there is nothing left but what the
\* database has refused to free.
THEOREM FreeAllFrees == Spec => []FreeAllLeavesNothing
<1>1. IInv => FreeAllLeavesNothing
  BY InvFree
<1>2. QED
  BY <1>1, Invariance, PTL
=============================================================================
