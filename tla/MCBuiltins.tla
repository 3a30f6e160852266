----------------------------- MODULE MCBuiltins -----------------------------
(* A small instance of Builtins for TLC. *)
EXTENDS Builtins

Root == <<"/">>
D    == <<"/", "d">>
Up   == <<".", ".">>
Link == <<"/", "e">>
MCDirs  == {Root, D}

\* The link may lead to either, and change.
Path(from, path, to) == [from |-> from, path |-> path, to |-> to]
MCPaths == {Path(Root, <<"d">>, D), Path(D, Up, Root), Path(Root, Up, Root)}
               \cup {Path(from, to, to) : from, to \in MCDirs}
               \cup {Path(from, Link, to) : from, to \in MCDirs}

Entry(key, val) == [key |-> key, val |-> val]
A == <<"A">>
B == <<"B">>

\* Nothing; a home that is a link; a name that is no identifier; an entry without "=", with a
\* name twice; PWD twice, after another name.
MCEnvirons == {
    <<>>,
    <<Entry(HOME, Link), Entry(A, <<"x">>)>>,
    <<Entry(<<"-">>, <<"x">>), Entry(PWD, D), Entry(OLDPWD, <<>>)>>,
    <<Entry(A, <<"x">>), Entry(B, NULL), Entry(A, <<"y">>)>>,
    <<Entry(B, <<"x">>), Entry(PWD, <<"x">>), Entry(PWD, <<"y">>)>>}

MCNames == {A, B, <<"A", "1">>, <<"-">>, HOME, PWD, OLDPWD}

Cmd(name, args) == [name |-> name, args |-> args]

\* export A=x, A+=y B, 1=x B=, B A=y A+=x, HOME=.. A1=x
Exports == {Cmd("export", <<<<"A", "=", "x">>>>),
            Cmd("export", <<<<"A", "+", "=", "y">>, B>>),
            Cmd("export", <<<<"1", "=", "x">>, <<"B", "=">>>>),
            Cmd("export", <<B, <<"A", "=", "y">>, <<"A", "+", "=", "x">>>>),
            Cmd("export", <<<<"HOME", "=", ".", ".">>, <<"A", "1", "=", "x">>>>)}
Unsets  == {Cmd("unset", <<A>>), Cmd("unset", <<B, A>>), Cmd("unset", <<<<"-">>, A>>),
            Cmd("unset", <<<<"A", "=", "x">>, <<"PWD">>>>), Cmd("unset", <<>>)}
Cds     == {Cmd("cd", <<>>), Cmd("cd", <<<<"d">>>>), Cmd("cd", <<Up>>),
            Cmd("cd", <<Link>>), Cmd("cd", <<D, Up>>)}
Others  == {Cmd("export", <<>>), Cmd("env", <<>>), Cmd("env", <<A>>),
            Cmd("exit", <<>>), Cmd("exit", <<<<"1">>, <<"2">>>>)}

\* Every word of up to three of these characters, given to export.
OddWords == UNION {[1..n -> {"A", "1", "=", "+", "-"}] : n \in 0..3}
                \cup {<<"A", "+", "=", c>> : c \in {"+", "=", "x"}}

\* Numbers around the largest and the smallest long of 6 bits, 31 and -32,
\* with signs, spaces and other characters around them.
Numbers == LET digits == UNION {[1..n -> {"0", "1", "2", "3", "9"}] : n \in 0..3}
           IN {s \o d \o t : s \in {<<>>, <<"-">>, <<"+">>, <<" ", "-">>}, d \in digits,
                             t \in {<<>>, <<" ">>, <<"x">>}}
              \cup {<<"-", "+", "1">>, <<"-", " ", "1">>, <<"1", " ", "1">>}

Scripts == {<<a, b, c>> : a \in Exports \cup Unsets, b \in Exports \cup {Cmd("unset", <<B, A>>), Cmd("cd", <<Link>>)},
                          c \in Exports \cup Unsets \cup Cds \cup Others}
      \cup {<<a, b>> : a \in Others \cup Cds, b \in Cds}
Words1  == {<<Cmd("export", <<w>>)>> : w \in OddWords}
      \cup {<<Cmd("exit", <<w>>)>> : w \in Numbers}
      \cup {<<Cmd("exit", <<w, A>>)>> : w \in {<<"1">>, <<"x">>}}

MCSessions == [environ : MCEnvirons, script : Scripts]
         \cup [environ : {<<>>}, script : Words1]
=============================================================================
