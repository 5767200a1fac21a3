--------------------------- MODULE MCProgramCall ---------------------------
(* Instances of ProgramCall for TLC. *)
EXTENDS ProgramCall

Scalar(type, n, by, io, value) ==
  [type |-> type, n |-> n, by |-> by, io |-> io, value |-> value, entries |-> <<>>]
Good(type, n, by, io) == Scalar(type, n, by, io, "good")
Ds(io, entries) ==
  [type |-> "ds", n |-> 0, by |-> "none", io |-> io, value |-> "good", entries |-> entries]

Sizes == [char |-> 3, hex |-> 3, int |-> 4, uint |-> 2, float |-> 4, double |-> 8,
          packed |-> 6, zoned |-> 5]
Ios == {"none", "in", "out", "both"}

\* One parameter of every type, way and direction; and with every value.
Plain == {Good(t, Sizes[t], by, io) : t \in Scalars, by \in {"none", "val", "ref"}, io \in Ios}
Wrong == {Scalar(t, Sizes[t], "none", io, v) : t \in Scalars, io \in {"none", "out"},
                                               v \in {"range", "misfit", "nothex"}}
Refused == {Good("int", 3, "none", "none"), Good("char", 3, "other", "none"),
            Good("char", 3, "none", "other"), Ds("none", <<>>)}

\* Data structures of two entries, which may be structures themselves.
Entries == {Good("char", 3, "none", "none"), Good("int", 8, "ref", "none"),
            Good("int", 4, "none", "in"), Good("packed", 5, "none", "out"),
            Scalar("double", 8, "none", "none", "range")}
Flat == {Ds(io, <<a, b>>) : io \in Ios, a, b \in Entries}
DeepDs == {Ds(outer, <<e, Ds(inner, <<a, e>>), e>>) :
             outer, inner \in Ios, e \in {Good("char", 3, "none", "none"), Good("int", 8, "ref", "none")},
             a \in {Good("int", 4, "none", "in"), Good("packed", 5, "none", "out")}}

\* Lists of two and three.
Mixed == {Good("char", 3, "val", "none"), Good("int", 2, "val", "none"), Good("double", 8, "val", "none"),
          Good("int", 4, "none", "out"), Good("uint", 2, "none", "out"), Good("packed", 5, "none", "both"),
          Good("hex", 3, "none", "none"), Ds("both", <<Good("zoned", 5, "none", "none")>>),
          Scalar("float", 4, "none", "none", "range")}

Node(parms, func, where, result) ==
  [parms |-> parms, func |-> func, pase |-> where, return |-> result]

MCNodes ==
  {Node(<<a>>, f, p, "none") : a \in Plain \cup Wrong \cup Refused \cup Flat \cup DeepDs,
                               f \in BOOLEAN, p \in {"none", "on"}}
    \cup {Node(<<a, b>>, TRUE, "off", r) : a, b \in Mixed, r \in {"none", "integer"}}
    \cup {Node(<<a, b, c>>, TRUE, "none", "none") : a, b, c \in Mixed}
    \cup {Node(<<>>, f, p, r) : f \in BOOLEAN, p \in {"none", "on"},
                                r \in {"none", "integer", "decimal", "invalid"}}
    \cup {Node(<<Good("int", 4, "none", "both")>>, f, "none", r) :
             f \in BOOLEAN, r \in {"integer", "decimal", "invalid"}}

MCSequels ==
  {Node(<<Good(t, Sizes[t], "none", "none")>>, f, p, "none") :
     t \in {"int", "uint", "hex"}, f \in BOOLEAN, p \in {"none", "on"}}
    \cup {Node(<<Scalar(t, Sizes[t], "none", "none", "range")>>, TRUE, "none", "none") : t \in {"int", "uint"}}
    \cup {Node(<<>>, TRUE, "none", "integer")}
=============================================================================
