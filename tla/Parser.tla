------------------------------- MODULE Parser -------------------------------
(***************************************************************************)
(* parse_pipeline and what it calls: parser/parser.c, parser/parser_cmd.c. *)
(* A token is its type; its place in the list stands for its text, and     *)
(* place Len(toks) + 1 for the NULL at the end.  argv is sized by one walk *)
(* over the tokens of a command (count_argc) and filled by another         *)
(* (fill_cmd), each with its own rule for what follows a redirect.         *)
(***************************************************************************)
EXTENDS Integers, Sequences, FiniteSets

CONSTANT TokenLists     \* the lists lex_line may hand over

\* enum e_tok_type and enum e_redirect_type, in their order.
TokOrder == <<"word", "pipe", "in", "rw", "out", "append", "heredoc">>

\* Mutant: the two enumerations disagree about their order.
RedirectOrder_RwLast == <<"in", "out", "append", "rw", "heredoc">>

RedirectOrder == <<"in", "rw", "out", "append", "heredoc">>

TokTypes == {TokOrder[t] : t \in DOMAIN TokOrder}

ASSUME ParserAssumption == TokenLists \subseteq Seq(TokTypes)

\* r->type = tok->type - TOK_REDIRECT_IN
RedirectType(type) ==
    LET at(x) == CHOOSE t \in DOMAIN TokOrder : TokOrder[t] = x
    IN RedirectOrder[at(type) - at("in") + 1]

IsRedirect(type) == type \in {"in", "rw", "out", "append", "heredoc"}

VARIABLES
    toks,       \* the list of tokens
    pc,         \* where the parser is
    count,      \* pl->count
    i,          \* the command being parsed
    cur,        \* the token fill_cmd and parse_cmds are at
    walk,       \* the token count_argc is at
    visited,    \* history: the tokens count_argc has been at
    counted,    \* the words count_argc has counted, for every command: as many
                \* as argv has room for
    argv,       \* the words put into argv
    redirs,     \* the redirects: their type and the place of their target
    result      \* "none" yet, "ok", "empty" or "error" ($? becomes 2)

input == <<toks, count>>
out   == <<argv, redirs>>
vars  == <<input, pc, i, cur, walk, visited, counted, out, result>>

Places == 1..(Len(toks) + 1)

InCommand(p) == p <= Len(toks) /\ toks[p] # "pipe"
AtPipe(p)    == p <= Len(toks) /\ toks[p] = "pipe"

Init ==
    /\ toks \in TokenLists
    /\ pc = "start"
    /\ count = 0 /\ i = 1 /\ cur = 1 /\ walk = 1
    /\ visited = {}
    /\ counted = <<>> /\ argv = <<>> /\ redirs = <<>>
    /\ result = "none"

Return(r) == pc' = "done" /\ result' = r

---------------------------------------------------------------------------
(* parse_pipeline and parse_cmds                                           *)

\* No token: nothing to run.  count_cmds counts the pipes of the whole list.
Start ==
    /\ pc = "start"
    /\ count' = 1 + Cardinality({p \in DOMAIN toks : toks[p] = "pipe"})
    /\ IF toks = <<>> THEN Return("empty")
       ELSE IF AtPipe(1) THEN Return("error")
       ELSE pc' = "one" /\ UNCHANGED result
    /\ UNCHANGED <<toks, i, cur, walk, visited, counted, out>>

\* parse_one: a command may not start with a pipe.
ParseOne ==
    /\ pc = "one"
    /\ IF AtPipe(cur)
       THEN Return("error") /\ UNCHANGED <<walk, visited, counted, out>>
       ELSE /\ pc' = "count"
            /\ walk' = cur
            /\ visited' = {}
            /\ counted' = Append(counted, <<>>)
            /\ argv' = Append(argv, <<>>)
            /\ redirs' = Append(redirs, <<>>)
            /\ UNCHANGED result
    /\ UNCHANGED <<input, i, cur>>

\* parse_cmds after a command: over the pipe, and on to the next one.
NextCommand ==
    /\ pc = "next"
    /\ cur' = IF AtPipe(cur) THEN cur + 1 ELSE cur
    /\ IF i < count /\ cur' > Len(toks)
       THEN Return("error") /\ UNCHANGED i
       ELSE /\ i' = i + 1
            /\ pc' = IF i = count THEN "end" ELSE "one"
            /\ UNCHANGED result
    /\ UNCHANGED <<input, walk, visited, counted, out>>

\* All commands are parsed: no token may be left.
Finish ==
    /\ pc = "end"
    /\ Return(IF cur <= Len(toks) THEN "error" ELSE "ok")
    /\ UNCHANGED <<input, i, cur, walk, visited, counted, out>>

---------------------------------------------------------------------------
(* count_argc                                                              *)

\* Mutant: the target of a redirect is counted.
Stride_One == 1

\* A redirect and whatever comes after it are passed over, unchecked.
Stride == IF IsRedirect(toks[walk]) /\ walk < Len(toks) THEN 2 ELSE 1

CountArgc ==
    /\ pc = "count" /\ InCommand(walk)
    /\ counted' = IF toks[walk] = "word"
                  THEN [counted EXCEPT ![i] = Append(@, walk)] ELSE counted
    /\ walk' = walk + Stride
    /\ visited' = visited \cup {walk}
    /\ UNCHANGED <<input, pc, i, cur, out, result>>

\* The array is allocated, its last place set to NULL.
CountDone ==
    /\ pc = "count" /\ ~InCommand(walk)
    /\ pc' = "fill"
    /\ UNCHANGED <<input, i, cur, walk, visited, counted, out, result>>

---------------------------------------------------------------------------
(* fill_cmd                                                                *)

FillWord ==
    /\ pc = "fill" /\ InCommand(cur) /\ toks[cur] = "word"
    /\ argv' = [argv EXCEPT ![i] = Append(@, cur)]
    /\ cur' = cur + 1
    /\ UNCHANGED <<input, pc, i, walk, visited, counted, redirs, result>>

\* Mutants: anything will do as a target; nothing is looked at.
HasTarget_Any == cur < Len(toks)
HasTarget_None == TRUE

\* cur->next && cur->next->type == TOK_WORD
HasTarget == cur < Len(toks) /\ toks[cur + 1] = "word"

\* Mutant: the loop advances once, so that the target is seen again.
AfterRedirect_Target == cur + 1

AfterRedirect == IF IsRedirect(toks[cur]) THEN cur + 2 ELSE cur + 1

FillRedirect ==
    /\ pc = "fill" /\ InCommand(cur) /\ toks[cur] # "word"
    /\ IF HasTarget
       THEN /\ redirs' = [redirs EXCEPT ![i] =
                             Append(@, <<RedirectType(toks[cur]), cur + 1>>)]
            /\ cur' = AfterRedirect
            /\ UNCHANGED <<pc, result>>
       ELSE Return("error") /\ UNCHANGED <<redirs, cur>>
    /\ UNCHANGED <<input, i, walk, visited, counted, argv>>

FillDone ==
    /\ pc = "fill" /\ ~InCommand(cur)
    /\ pc' = "next"
    /\ UNCHANGED <<input, i, cur, walk, visited, counted, out, result>>

Next == \/ Start \/ ParseOne \/ NextCommand \/ Finish
        \/ CountArgc \/ CountDone \/ FillWord \/ FillRedirect \/ FillDone
        \/ pc = "done" /\ UNCHANGED vars

Spec == Init /\ [][Next]_vars

---------------------------------------------------------------------------
(* Properties                                                              *)

\* Every variable has its type; cur never runs past the NULL.
TypeOK ==
    /\ toks \in TokenLists
    /\ pc \in {"start", "one", "count", "fill", "next", "end", "done"}
    /\ count \in Nat /\ i \in Nat \ {0}
    /\ cur \in Places /\ walk \in Places
    /\ visited \subseteq DOMAIN toks
    /\ counted \in Seq(Seq(Places)) /\ argv \in Seq(Seq(Places))
    /\ redirs \in Seq(Seq({RedirectOrder[t] : t \in DOMAIN RedirectOrder} \X Places))
    /\ Len(argv) = Len(counted) /\ Len(redirs) = Len(counted)
    /\ pc \in {"count", "fill", "next"} => i = Len(counted)
    /\ result \in {"none", "ok", "empty", "error"}

\* fill_cmd never writes past the places count_argc asked for, whatever the
\* tokens, the ones it will call a syntax error included.
NoArgvOverrun == \A c \in DOMAIN argv : Len(argv[c]) <= Len(counted[c])

\* A pipeline that is run has all its argv filled up to the NULL: count_argc
\* asked for no more words than fill_cmd found.
ArgvFilled ==
    result = "ok" =>
        /\ Len(argv) = count
        /\ \A c \in DOMAIN argv : Len(argv[c]) = Len(counted[c])

\* The grammar: commands, none of them empty, separated by pipes; a command is
\* made of words and of redirects followed by a word.
Grammatical ==
    /\ toks # <<>>
    /\ \A p \in DOMAIN toks :
          /\ toks[p] = "pipe" => p > 1 /\ p < Len(toks) /\ toks[p + 1] # "pipe"
          /\ toks[p] \notin {"word", "pipe"} => p < Len(toks) /\ toks[p + 1] = "word"

\* The parser, which looks one token ahead at most and checks each rule in
\* another function, accepts the grammar and nothing else.
AcceptsGrammar ==
    pc = "done" =>
        CASE toks = <<>>   -> result = "empty"
          [] Grammatical   -> result = "ok"
          [] OTHER         -> result = "error"

PipesBefore(p) == Cardinality({b \in 1..(p - 1) : toks[b] = "pipe"})

IsTarget(p) == p > 1 /\ toks[p - 1] \notin {"word", "pipe"}

Increasing(s) == \A a, b \in DOMAIN s : a < b => s[a] < s[b]

\* In a pipeline that is run every word is one argument of its command or the
\* target of the redirect before it, which has the type that was written, and
\* both are in the order of the line.
EachTokenPlaced ==
    result = "ok" =>
        \A c \in 1..count :
            LET own   == {p \in DOMAIN toks : PipesBefore(p) = c - 1}
                words == {p \in own : toks[p] = "word" /\ ~IsTarget(p)}
                moved == {r[2] : r \in {redirs[c][k] : k \in DOMAIN redirs[c]}}
            IN /\ {argv[c][k] : k \in DOMAIN argv[c]} = words
               /\ Increasing(argv[c])
               /\ moved = {p \in own : toks[p] = "word" /\ IsTarget(p)}
               /\ Increasing([k \in DOMAIN redirs[c] |-> redirs[c][k][2]])
               /\ \A k \in DOMAIN redirs[c] :
                      redirs[c][k][1] = toks[redirs[c][k][2] - 1]
=============================================================================
