--------------------------- MODULE MCControlFlags ---------------------------
(* Instances of ControlFlags for TLC.  The CCSIDs 37 and 819 are ints;     *)
(* IntSize + 37 is not, and the cast makes 37 of it.                       *)
EXTENDS ControlFlags, TLC

CONSTANTS c1, c2, k1, k2, n1, n2

DefaultNames == [svr |-> n1, job |-> <<n1, n1, n1>>]

Fl(f, v) == [flag |-> f, val |-> v]
On(f) == Fl(f, NoValue)

\* Strings with which clients of one server may disturb each other.
SharedStrings ==
  {<<>>,
   <<Fl("IPC", k1)>>,
   <<Fl("IPC", k1), On("ENDIPC")>>,
   <<Fl("IPC", k1), Fl("WAITCLIENT", 0), Fl("AFTER", 37)>>,
   <<Fl("IPC", k1), Fl("WAITDATA", -1)>>,
   <<Fl("BEFORE", 819), Fl("WAITCLIENT", -1)>>,
   <<On("JAVA"), Fl("AFTER", 819), Fl("AFTER", 37)>>,
   <<On("UNKNOWN"), Fl("IPC", k1), Fl("AFTER", 819)>>,
   <<Fl("IPC", Blank)>>}

\* All strings of one flag, and of two from a choice of flags.
OneFlag ==
  {On(f) : f \in Switches \cup TimerFlags \cup CcsidFlags
                   \cup {"IPC", "IPCSVR", "SBMJOB", "UNKNOWN"}}
  \cup {Fl("AFTER", Overflow), Fl("BEFORE", Overflow), Fl("IPCSVR", n2),
        Fl("SBMJOB", <<n2>>), Fl("SBMJOB", <<n2, n2, n2>>),
        Fl("WAITDATA", 0), Fl("WAITSERVER", 2), Fl("WAITSERVER", 0)}
Two == {Fl("AFTER", 37), Fl("BEFORE", 819), Fl("IPC", k1), Fl("IPC", k2),
        On("ENDIPC"), Fl("AFTER", Overflow), Fl("IPC", Blank),
        Fl("AFTER", IntSize + 37)}
KeyStrings ==
  {<<>>, <<Fl("IPC", k1), On("ENDIPC"), On("JAVA")>>,
   <<On("ENDIPC"), Fl("IPC", k1), Fl("WAITCLIENT", 0)>>}
    \cup {<<t>> : t \in OneFlag \cup Two} \cup {<<s, t>> : s, t \in Two}

DefaultStrings == {<<>>, <<Fl("IPC", k1)>>}
WaitStrings == {<<Fl("IPC", k1)>>, <<Fl("IPC", k1), Fl("WAITSERVER", 0)>>}
=============================================================================
