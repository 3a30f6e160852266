------------------------------ MODULE MCShell ------------------------------
(* Small instances of Shell for TLC. *)
EXTENDS Shell

Line(kind, count, argv, redirs) ==
    [kind |-> kind, count |-> count, argv |-> argv, redirs |-> redirs]
Cmd(count, argv, redirs) == Line("cmd", count, argv, redirs)

Cd     == Cmd(1, "parent", <<"out", "heredoc", "in">>)      \* cd > f << E < g
Export == Cmd(1, "parent", <<"heredoc", "heredoc">>)        \* export << E << E
Exit   == Cmd(1, "exit", <<"heredoc">>)                     \* exit << E
Cat    == Cmd(1, "other", <<"heredoc">>)                    \* cat << E
Pipe3  == Cmd(3, "other", <<"heredoc", "out">>)             \* a << E | b | c > f
Bare   == Cmd(1, "none", <<"in">>)                          \* < f
Null   == Cmd(1, "none", <<>>)                              \* $EMPTY

MCLines == {Cd, Export, Exit, Cat, Pipe3, Bare, Null,
            Line("blank", 1, "none", <<>>), Line("quote", 1, "none", <<>>),
            Line("syntax", 1, "other", <<>>),
            Line("ambiguous", 1, "other", <<"out">>)}

\* Every line alone, an empty input, and a paste of two lines.
MCInputs == {<<l>> : l \in MCLines} \cup {<<>>, <<Cat, Cd>>}

\* The lines with here-documents only, for the runs that show a violation.
MCHeredocLines  == {Cd, Export, Exit, Cat, Pipe3}
MCHeredocInputs == {<<l>> : l \in MCHeredocLines}

MCOutcomes == {0, 3}
=============================================================================
