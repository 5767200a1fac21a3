----------------------------- MODULE MCSqlPool -----------------------------
(* Instances of SqlPool for TLC.  The labels of connections without one of *)
(* their own are those of user "U" without a password.                     *)
EXTENDS SqlPool, TLC

CONSTANT None

MCLabels == {"", "*LOCAL", "a", "A", "AU", "*LOCALU"}
MCGen == [db \in {"*LOCAL", "A"} |-> IF db = "A" THEN "AU" ELSE "*LOCALU"]
MCUpper == [l \in MCLabels |-> IF l = "a" THEN "A" ELSE l]

Conn(l, db, cred, auto) ==
  [conn |-> l, db |-> db, cred |-> cred, autocommit |-> auto, valid |-> TRUE]
Op(type, l) == [type |-> type, conn |-> l, valid |-> TRUE]
Bad(x) == [x EXCEPT !.valid = FALSE]
Free(kind) == [kind |-> kind, labels |-> {}]
FreeOf(ls) == [kind |-> "array", labels |-> ls]
N(mode, connect, operation, free) ==
  [servermode |-> mode, connect |-> connect, operation |-> operation, free |-> free]

\* Nodes with which connections are made, kept, shared and freed.
A1 == N("on", <<Conn("a", "*LOCAL", TRUE, FALSE), Conn("", "A", TRUE, TRUE)>>,
        <<Op("EXEC", "AU"), Op("COMMIT", "a")>>, Free("none"))
A2 == N("off", <<Conn("A", "A", FALSE, FALSE)>>, <<Op("COMMIT", "A"), Op("EXEC", "a")>>,
        FreeOf({"a"}))
A3 == N("unset", <<>>, <<Op("EXEC", None), Op("EXEC", "*LOCAL")>>, Free("unset"))
A4 == N("unset", <<Conn("a", "*LOCAL", TRUE, TRUE)>>, <<Op("EXEC", "a")>>, Free("all"))
A5 == N("unset", <<Conn("AU", "*LOCAL", FALSE, TRUE)>>, <<Op("EXEC", None)>>,
        FreeOf({"", "AU"}))
A6 == N("unset", <<>>, <<Bad(Op("EXEC", None))>>, Free("none"))
A7 == N("unset", <<Bad(Conn("a", "A", TRUE, TRUE))>>, <<>>, FreeOf({}))
A8 == N("invalid", <<>>, <<>>, Free("none"))
A9 == N("off", <<Conn("", "A", TRUE, TRUE)>>, <<Op("COMMIT", "A")>>, Free("invalid"))
B1 == N("off", <<Conn("", "A", TRUE, FALSE)>>, <<>>, Free("invalid"))
B2 == N("unset", <<>>, <<Op("COMMIT", None)>>, FreeOf({}))

PoolNodes == {A1, A2, A3, A4, A5, A6, A7, A8, A9, B1, B2}
PoolRequests ==
  {<<n>> : n \in PoolNodes} \cup {<<m, n>> : m \in {A1, A2, A5}, n \in PoolNodes}

NoneNode == N("unset", <<>>, <<Op("EXEC", None)>>, Free("none"))

\* Requests for which a claim of the documentation does not hold: one whose
\* connection dies, a default mode, a commit, a label in small
\* letters, and a name without a password.
ClaimRequests ==
  {<<NoneNode>>,
   <<N("unset", <<>>, <<Op("EXEC", None)>>, Free("unset"))>>,
   <<N("unset", <<Conn("A", "A", TRUE, FALSE)>>,
       <<Op("COMMIT", "A"), Op("EXEC", "A")>>, Free("all"))>>,
   <<N("unset", <<Conn("a", "A", TRUE, TRUE)>>, <<>>, FreeOf({"a"}))>>,
   <<N("unset", <<Conn("A", "A", FALSE, TRUE)>>, <<>>, Free("all")), NoneNode>>}

\* A job that never asks for anything to be freed.
KeepRequests == {<<N("unset", <<Conn("A", "A", TRUE, TRUE)>>, <<>>, Free("none"))>>}
=============================================================================
