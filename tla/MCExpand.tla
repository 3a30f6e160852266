------------------------------ MODULE MCExpand ------------------------------
(* A small instance of Expand for TLC. *)
EXTENDS Expand, SequencesExt

MCName   == <<"a">>
MCValues == {NULL, <<>>, <<"a">>, <<"blank">>, <<"blank", "a", "blank">>,
             <<"a", "blank", "blank", "1">>, <<"single", "a", "double">>, <<"$", "a">>}

\* What the lexer takes for a word: no quote open, no blank outside quotes.
IsWord(s) == /\ s # <<>> /\ OpenQuote(s, Len(s) + 1) = "none"
             /\ \A p \in DOMAIN s : s[p] = "blank" => OpenQuote(s, p) # "none"

AnyWords == {s \in BoundedSeq({"a", "1", "single", "double", "$", "?", "blank"}, 5) : IsWord(s)}

Quoted(q, s) == <<q>> \o s \o <<q>>
Var   == <<"$", "a">>
Words == {<<"u">>, Var, Var \o Var, <<"1">> \o Var, <<"$", "a", "1">>, <<"$", "u", "?">>,
          Quoted("double", Var), Quoted("single", Var), Quoted("double", <<>>),
          Var \o Quoted("double", Var), Quoted("single", <<"double">>) \o Var \o <<"$", "?">>,
          Quoted("double", Quoted("single", Var)) \o Quoted("single", Var)}

Cmd(argv, redirs)  == [argv |-> argv, redirs |-> redirs]
File(target)    == [type |-> "file", target |-> target]
Heredoc(target) == [type |-> "heredoc", target |-> target]

\* One command of any one word; of two words; with redirects; two commands.
MCPipelines ==
    {<<Cmd(<<w>>, <<>>)>> : w \in AnyWords}
    \cup {<<Cmd(<<v, w>>, <<>>)>> : v, w \in Words}
    \cup {<<Cmd(<<w>>, <<File(v)>>)>> : w \in {<<"u">>, Var}, v \in Words}
    \cup {<<Cmd(<<>>, <<Heredoc(v), File(w)>>)>> : v \in Words, w \in {<<"u">>, Var}}
    \cup {<<Cmd(<<v, <<"u">>>>, <<>>), Cmd(<<w>>, <<Heredoc(v)>>)>> : v, w \in Words}

MCBodyLines == {<<>>, Var, Quoted("single", Var), Quoted("double", Var) \o <<"blank", "$">>}
=============================================================================
