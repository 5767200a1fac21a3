---------------------------- MODULE MCDocument ----------------------------
(* Instances of Document for TLC: all texts of a few tokens, a number of   *)
(* larger requests, and these with one token dropped, put in or changed.   *)
EXTENDS Document

MCStrings == {"CMD", "SH", "QSH", "PGM", "SQL", "JOBINFO", "VALUE", "ERROR", "EXEC",
              "NAME", "LIB", "IGNORE", "ON", "REXX", "s", ""}
MCNumbers == {"1", "-1"}

Value(v) == <<"VALUE", ":", v>>
With(n, v) == <<",", n, ":", v>>
Object(name, members) == <<name, ":", "{">> \o members \o <<"}">>
Doc(parts) == <<"{">> \o Joined(parts, <<",">>) \o <<"}">>
Array(parts) == <<"[">> \o Joined(parts, <<",">>) \o <<"]">>

Cmd == Object("CMD", Value("s"))
Ignored == Object("CMD", Value("s") \o With("ERROR", "IGNORE"))
Rexx == Object("CMD", Value("s") \o With("EXEC", "REXX") \o With("ERROR", "ON"))
Sh == Object("SH", Value("s"))
Qsh == Object("QSH", Value("s"))
QshOn == Object("QSH", Value("s") \o With("ERROR", "ON"))
Pgm == Object("PGM", <<"NAME", ":", "s", ",", "LIB", ":", "s">>)
Sql == Object("SQL", <<"s", ":", "[", "1", ",", "1", "]">>)
JobInfo == Object("JOBINFO", <<"NAME", ":", "s">>)

\* Requests that are parsed only once ...
Shapes ==
  {Doc(<<Ignored, Sh>>),
   Array(<<Doc(<<Sql>>), Doc(<<JobInfo>>)>>),
   Doc(<<Object("CMD", Value("s") \o <<",">> \o Cmd)>>),
   Doc(<<<<"s", ":", "1">>, <<"s", ":">> \o Array(<<<<"s">>, <<"s">>>>), Qsh>>),
   Array(<<<<"1">>, <<"-1">>>>)}

\* ... and requests for which the job's past matters.
Works ==
  {Doc(<<Ignored, Sh, Pgm>>), Doc(<<Rexx, Rexx>>), Doc(<<Qsh, QshOn>>),
   Array(<<Doc(<<Sql, JobInfo>>), Doc(<<Ignored, Rexx>>)>>), Doc(<<Cmd, Qsh, Rexx>>)}

Few == {"{", "}", "[", "]", ",", ":", "CMD", "s", "1"}
Put == {"{", "}", "[", "]", ",", ":", "CMD", "s", "1", "-1", ""}

Edits(t) ==
  {RemoveAt(t, i) : i \in DOMAIN t}
    \cup {[t EXCEPT ![i] = k] : i \in DOMAIN t, k \in Put}
    \cup {InsertAt(t, i, k) : i \in 1 .. Len(t) + 1, k \in Put}

MCTexts ==
  Shapes \cup Works \cup UNION {Edits(t) : t \in Shapes}
    \cup UNION {[1 .. n -> Few] : n \in 0 .. 4}

MCBeyond == {<<>>, <<"}", "]">>, <<",", "s">>, <<",", "{">>}
=============================================================================
