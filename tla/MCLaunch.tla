------------------------------ MODULE MCLaunch ------------------------------
EXTENDS Launch

CONSTANT MaxText   \* the longest argument

Texts(n) == UNION {[1 .. k -> Chars] : k \in 0 .. n}
IO(kind, input) ==
  CASE kind = "capture" -> {<<IF input = "nul" THEN "nul" ELSE "stdinR", "outW", "errW">>}
    [] kind = "pty" -> {<<"none", "none", "none">>}
    [] kind = "detach" -> {<<"nul", "nul", "nul">>}
    [] kind = "inherit" -> {<<"con1", "con2", "con3">>, <<"nul", "con2", "con2">>, <<"con1", "nul", "con1">>}
Request(kind, batch, input, stream, io, caps, rel, argv) ==
  [kind |-> kind, batch |-> batch, input |-> input, stream |-> stream, io |-> io, caps |-> caps,
   rel |-> rel, argv |-> argv]

\* Every way to start something with one argument of no interest, and every
\* argument, alone and before another, handed to one program and one script.
Plain == <<<<"x">>, <<"x", "s">>>>
Modes == {<<k, i, s>> \in Kinds \X Inputs \X BOOLEAN :
            IF k = "capture" THEN i = "channels" => ~s ELSE i = "nul" /\ ~s}
ByKind == UNION {{Request(m[1], b, m[2], m[3], io, c, r, Plain) :
                    b \in BOOLEAN, c \in BOOLEAN \ {m[1] = "detach"}, r \in BOOLEAN, io \in IO(m[1], m[2])} :
                  m \in Modes}
Odd == {<<"x">>, <<"x", "s", "x">>, <<"p", "x", "p">>, <<"x", "m">>}
ByText == {Request("detach", b, "nul", FALSE, <<"nul", "nul", "nul">>, FALSE, FALSE, argv) : b \in BOOLEAN,
           argv \in {<<<<"x">>, t>> : t \in Texts(MaxText)}
                      \cup {<<p, t, u>> : p \in Odd, t \in Texts(2), u \in Texts(1)}}
AllRequests == ByKind \cup ByText
==============================================================================
