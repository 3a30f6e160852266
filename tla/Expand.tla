------------------------------- MODULE Expand -------------------------------
(***************************************************************************)
(* expand_pipeline: expand/.  Quotes are removed and variables replaced in *)
(* every word of a pipeline.  argv is built in two passes: count_exp_argc  *)
(* expands every word to size the new array, fill_one expands every word   *)
(* again to fill it.  Any allocation may fail.                             *)
(***************************************************************************)
EXTENDS Integers, Sequences, FiniteSets

Letters == {"a", "u"}           \* ft_isalpha and "_"
Digits  == {"0", "1"}
Quotes  == {"single", "double"}
\* "blank" is a space, a tab or a newline: what is_ifs takes.
Chars   == Letters \cup Digits \cup Quotes \cup {"$", "?", "blank"}

Texts == Seq(Chars)

Redirects == [type : {"file", "heredoc"}, target : Texts]
Commands  == [argv : Seq(Texts), redirs : Seq(Redirects)]

CONSTANTS
    Pipelines,  \* sequences of commands, as the parser gives them
    Values,     \* values of the variable whose name is Name
    Name,       \* the one variable that may be set
    NULL,       \* it is not set
    BodyLines,  \* lines of here-documents
    MaxFail     \* bound: allocations that fail

ASSUME ExpandAssumption ==
    /\ Name \in Texts /\ NULL \notin Texts
    /\ Values \subseteq Texts \cup {NULL}
    /\ Pipelines \subseteq Seq(Commands) \ {<<>>}
    /\ BodyLines \subseteq Texts
    /\ MaxFail \in Nat

VARIABLES
    pl,         \* the pipeline: [argv, redirs] for every command
    shell,      \* what is read of sh: [value of the variable Name, text of $?]
    pc,         \* "begin", "count", "fill", "redir", "ok" or "failed"
    c, i,       \* cursors over the commands, and over argv or the redirects
    total,      \* what count_exp_argc has counted
    nav,        \* the words stored in the new argv
    targets,    \* the redirects expanded
    done,       \* the commands expanded: [argv, redirs]
    body,       \* the here-document line expanded last: [line, quoted, text]
    fails,      \* allocations that failed
    lost        \* history: a character was lost to one of them

inputVars == <<pl, shell>>
argvVars  == <<total, nav>>
failVars  == <<fails, lost>>
vars == <<inputVars, pc, c, i, argvVars, targets, done, body, failVars>>

EnvGet(sh, name) == IF name = Name THEN sh.value ELSE NULL

At(s, p) == IF p \in DOMAIN s THEN s[p] ELSE "NUL"

\* Mutant: a digit ends a name.
NameEnd_NoDigit(s, p) ==
    CHOOSE e \in p..(Len(s) + 1) :
        /\ \A b \in p..(e - 1) : s[b] \in Letters
        /\ At(s, e) \notin Letters

\* Where the name that begins at p ends.
NameEnd(s, p) ==
    CHOOSE e \in p..(Len(s) + 1) :
        /\ \A b \in p..(e - 1) : s[b] \in Letters \cup Digits
        /\ At(s, e) \notin Letters \cup Digits

\* expand_var at the "$" at p: the text, and where the word goes on.
ExpandVar(sh, s, p) ==
    LET name == SubSeq(s, p + 1, NameEnd(s, p + 1) - 1)
    IN IF At(s, p + 1) = "?" THEN [text |-> sh.exit_code, next |-> p + 2]
       ELSE IF At(s, p + 1) \notin Letters THEN [text |-> <<"$">>, next |-> p + 1]
       ELSE [text |-> IF EnvGet(sh, name) = NULL THEN <<>> ELSE EnvGet(sh, name),
             next |-> NameEnd(s, p + 1)]

\* One turn of the loop of expand_word, quotes being what opens a quote: the
\* cursor, the open quote, the text, how many variables are in it, and whether
\* the allocation of its buffer is to fail for a single character, its first.
ExpandTurn(sh, s, quotes, x) ==
    IF x.at > Len(s) THEN x
    ELSE IF x.q = "none" /\ s[x.at] \in quotes THEN [x EXCEPT !.at = @ + 1, !.q = s[x.at]]
    ELSE IF x.q = s[x.at] THEN [x EXCEPT !.at = @ + 1, !.q = "none"]
    ELSE IF s[x.at] = "$" /\ x.q # "single"
    THEN LET v == ExpandVar(sh, s, x.at)
         IN [x EXCEPT !.at = v.next, !.text = @ \o v.text, !.vars = @ + 1,
                      !.drop = @ /\ v.text = <<>>]
    ELSE [x EXCEPT !.at = @ + 1, !.text = IF x.drop THEN @ ELSE Append(@, s[x.at]),
                   !.drop = FALSE]

Expansion(sh, s, quotes, drop) ==
    LET turn[n \in 0..Len(s)] ==
            IF n = 0 THEN [at |-> 1, q |-> "none", text |-> <<>>, vars |-> 0, drop |-> drop]
            ELSE ExpandTurn(sh, s, quotes, turn[n - 1])
    IN turn[Len(s)]

\* expand_word returns NULL when an allocation for a variable fails, or the one
\* of an empty word; stored: the caller then copies the text.  sb_append's result
\* is not looked at for a single character: if that fails the character is lost.
Results(s, quotes, stored) ==
    LET all  == Expansion(shell, s, quotes, FALSE)
        less == Expansion(shell, s, quotes, TRUE)
    IN [text : {all.text}, fail : {"none"}]
           \cup (IF fails = MaxFail THEN {}
                 ELSE [text : {t \in {<<>>} : stored \/ all.vars > 0 \/ all.text = <<>>},
                       fail : {"null"}]
                     \cup [text : {less.text} \ {all.text}, fail : {"lost"}])

Fail(r) == /\ fails' = IF r.fail = "none" THEN fails ELSE fails + 1
           /\ lost' = (lost \/ r.fail = "lost")

HasQuote(s) == \E p \in DOMAIN s : s[p] \in Quotes

PastIfs(e, p)   == CHOOSE n \in p..(Len(e) + 1) :
                      /\ \A b \in p..(n - 1) : e[b] = "blank"
                      /\ At(e, n) # "blank"
PastField(e, p) == CHOOSE n \in p..(Len(e) + 1) :
                      /\ \A b \in p..(n - 1) : e[b] # "blank"
                      /\ At(e, n) \in {"blank", "NUL"}

\* Mutant: every blank begins a field.
IfsWc_Blanks(e) == 1 + Cardinality({p \in DOMAIN e : e[p] = "blank"})

\* ifs_wc, one turn of its loop from x: the cursor and the number so far.
WcTurn(e, x) ==
    LET st == PastIfs(e, x.at)
    IN IF x.at > Len(e) THEN x
       ELSE [at |-> PastField(e, st), n |-> x.n + (IF st <= Len(e) THEN 1 ELSE 0)]

IfsWc(e) ==
    LET wc[n \in 0..Len(e)] == IF n = 0 THEN [at |-> 1, n |-> 0] ELSE WcTurn(e, wc[n - 1])
    IN wc[Len(e)].n

\* split_ifs, one turn: the cursor and the fields so far.
SplitTurn(e, x) ==
    LET st  == PastIfs(e, x.at)
        end == PastField(e, st)
    IN IF x.at > Len(e) THEN x
       ELSE [at |-> end, arr |-> IF end > st THEN Append(x.arr, SubSeq(e, st, end - 1)) ELSE x.arr]

SplitIfs(e) ==
    LET split[n \in 0..Len(e)] ==
            IF n = 0 THEN [at |-> 1, arr |-> <<>>] ELSE SplitTurn(e, split[n - 1])
    IN split[Len(e)].arr

\* What count_exp_argc counts for a word, and what fill_one stores for it.
FieldCount(word, e) ==
    CASE HasQuote(word) -> 1
      [] ~HasQuote(word) /\ e = <<>> -> 0
      [] OTHER -> IfsWc(e)

FieldsOf(word, e) ==
    CASE HasQuote(word) -> <<e>>
      [] ~HasQuote(word) /\ e = <<>> -> <<>>
      [] OTHER -> SplitIfs(e)

Init ==
    /\ pl \in Pipelines
    /\ \E v \in Values : shell = [value |-> v, exit_code |-> <<"1">>]
    /\ pc = "begin" /\ c = 1 /\ i = 1
    /\ total = 0 /\ nav = <<>> /\ targets = <<>> /\ done = <<>>
    /\ body = [line |-> <<>>, quoted |-> FALSE, text |-> <<>>]
    /\ fails = 0 /\ lost = FALSE

\* The commands are copied.
Begin ==
    /\ pc = "begin"
    /\ \/ pc' = "count" /\ UNCHANGED fails
       \/ fails < MaxFail /\ fails' = fails + 1 /\ pc' = "failed"
    /\ UNCHANGED <<inputVars, c, i, argvVars, targets, done, body, lost>>

\* count_exp_argc, one word.
CountWord ==
    /\ pc = "count" /\ i <= Len(pl[c].argv)
    /\ \E r \in Results(pl[c].argv[i], Quotes, FALSE) :
           /\ Fail(r)
           /\ IF r.fail = "null" THEN pc' = "failed" /\ UNCHANGED total
              ELSE pc' = pc /\ total' = total + FieldCount(pl[c].argv[i], r.text)
    /\ i' = i + 1
    /\ UNCHANGED <<inputVars, c, nav, targets, done, body>>

\* The array is allocated: total words and a NULL.
AllocArgv ==
    /\ pc = "count" /\ i > Len(pl[c].argv)
    /\ \/ pc' = "fill" /\ UNCHANGED fails
       \/ fails < MaxFail /\ fails' = fails + 1 /\ pc' = "failed"
    /\ i' = 1 /\ nav' = <<>>
    /\ UNCHANGED <<inputVars, c, total, targets, done, body, lost>>

\* fill_one, one word.
FillWord ==
    /\ pc = "fill" /\ i <= Len(pl[c].argv)
    /\ \E r \in Results(pl[c].argv[i], Quotes, TRUE) :
           /\ Fail(r)
           /\ IF r.fail = "null" THEN pc' = "failed" /\ UNCHANGED nav
              ELSE pc' = pc /\ nav' = nav \o FieldsOf(pl[c].argv[i], r.text)
    /\ i' = i + 1
    /\ UNCHANGED <<inputVars, c, total, targets, done, body>>

\* nav[dst] = NULL
FillDone ==
    /\ pc = "fill" /\ i > Len(pl[c].argv)
    /\ pc' = "redir"
    /\ i' = 1 /\ targets' = <<>>
    /\ UNCHANGED <<inputVars, c, argvVars, done, body, failVars>>

\* strip_quotes, one turn at character ch: the open quote and the text so far.
StripTurn(ch, x) ==
    IF x.q = "none" /\ ch \in Quotes THEN [x EXCEPT !.q = ch]
    ELSE IF x.q = ch THEN [x EXCEPT !.q = "none"]
    ELSE [x EXCEPT !.out = Append(@, ch)]

StripQuotes(s) ==
    LET strip[n \in 0..Len(s)] ==
            IF n = 0 THEN [q |-> "none", out |-> <<>>] ELSE StripTurn(s[n], strip[n - 1])
    IN strip[Len(s)].out

TargetResults(r) ==
    IF r.type # "heredoc" THEN Results(r.target, Quotes, TRUE)
    ELSE [text : {StripQuotes(r.target)}, fail : {"none"}]
             \cup (IF fails < MaxFail THEN [text : {<<>>}, fail : {"null"}] ELSE {})

\* expand_redir: no file may have the empty name.
ExpandRedir ==
    /\ pc = "redir" /\ i <= Len(pl[c].redirs)
    /\ LET r == pl[c].redirs[i]
       IN \E t \in TargetResults(r) :
              /\ Fail(t)
              /\ IF t.fail = "null" \/ (r.type # "heredoc" /\ t.text = <<>>)
                 THEN pc' = "failed" /\ UNCHANGED targets
                 ELSE /\ pc' = pc
                      /\ targets' = Append(targets, [type |-> r.type, target |-> t.text,
                                                     quoted |-> HasQuote(r.target)])
    /\ i' = i + 1
    /\ UNCHANGED <<inputVars, c, argvVars, done, body>>

\* The next command of the pipeline, or the end of expand_pipeline.
NextCommand ==
    /\ pc = "redir" /\ i > Len(pl[c].redirs)
    /\ done' = Append(done, [argv |-> nav, redirs |-> targets])
    /\ IF c = Len(pl) THEN pc' = "ok" /\ UNCHANGED c ELSE pc' = "count" /\ c' = c + 1
    /\ i' = 1 /\ total' = 0
    /\ UNCHANGED <<inputVars, nav, targets, body, failVars>>

\* expand_heredoc_line: no character opens a quote.
HeredocText(line) == Results(line, {}, FALSE)

\* heredoc_write, later, with a line of a here-document of this pipeline: as it
\* is if the delimiter was quoted, and also if the expansion failed.
HeredocWrite ==
    /\ pc = "ok"
    /\ \E d \in DOMAIN done, line \in BodyLines : \E r \in DOMAIN done[d].redirs :
           /\ done[d].redirs[r].type = "heredoc"
           /\ IF done[d].redirs[r].quoted
              THEN /\ body' = [line |-> line, quoted |-> TRUE, text |-> line]
                   /\ UNCHANGED failVars
              ELSE \E t \in HeredocText(line) :
                      /\ Fail(t)
                      /\ body' = [line |-> line, quoted |-> FALSE,
                                  text |-> IF t.fail = "null" THEN line ELSE t.text]
    /\ UNCHANGED <<inputVars, pc, c, i, argvVars, targets, done>>

Ended == pc \in {"ok", "failed"} /\ UNCHANGED vars

Next == \/ Begin \/ CountWord \/ AllocArgv \/ FillWord \/ FillDone \/ ExpandRedir
        \/ NextCommand \/ HeredocWrite \/ Ended

Spec == Init /\ [][Next]_vars

---------------------------------------------------------------------------
(* What a word means, stated place by place                                *)

\* The quote that is open behind character ch when q was open before it.
QuoteBehind(q, ch) == IF ch \in Quotes /\ q = "none" THEN ch
                      ELSE IF ch = q THEN "none" ELSE q

\* The quote that is open before place p, "none" outside quotes.
OpenQuote(s, p) ==
    LET open[n \in 0..Len(s)] == IF n = 0 THEN "none" ELSE QuoteBehind(open[n - 1], s[n])
    IN open[p - 1]

\* A quote that opens or closes, one that is not itself quoted.
Delimits(s, p) == s[p] \in Quotes /\ OpenQuote(s, p) \in {"none", s[p]}

\* The name at places p + 1 to e belongs to the "$" at p.
IsName(s, p, e) == /\ p < e /\ e <= Len(s) /\ s[p + 1] \in Letters
                   /\ \A q \in (p + 1)..e : s[q] \in Letters \cup Digits

\* Place p is named by a "$" before it.
Named(s, p, live) ==
    \E d \in 1..(p - 1) : d \in live /\ (IsName(s, d, p) \/ (d = p - 1 /\ s[p] = "?"))

\* What the "$" at p stands for.
Meaning(sh, s, p) ==
    IF p < Len(s) /\ s[p + 1] = "?" THEN sh.exit_code
    ELSE IF ~IsName(s, p, p + 1) THEN <<"$">>
    ELSE LET e == CHOOSE e \in p..Len(s) :
                     IsName(s, p, e) /\ (e = Len(s) \/ ~IsName(s, p, e + 1))
             name == SubSeq(s, p + 1, e)
         IN IF EnvGet(sh, name) = NULL THEN <<>> ELSE EnvGet(sh, name)

\* What place p of s becomes when the places in live hold a "$" that is replaced
\* and those in gone nothing.
Piece(sh, s, live, gone, p) ==
    IF p \in live THEN Meaning(sh, s, p)
    ELSE IF p \in gone \/ Named(s, p, live) THEN <<>> ELSE <<s[p]>>

\* The text of s then.
Joined(sh, s, live, gone) ==
    LET join[p \in 0..Len(s)] ==
            IF p = 0 THEN <<>> ELSE join[p - 1] \o Piece(sh, s, live, gone, p)
    IN join[Len(s)]

Delimiters(s) == {p \in DOMAIN s : Delimits(s, p)}
WordText(sh, s) == Joined(sh, s, {p \in DOMAIN s : s[p] = "$" /\ OpenQuote(s, p) # "single"},
                          Delimiters(s))
Delimiter(sh, s) == Joined(sh, s, {}, Delimiters(s))
LineText(sh, s)  == Joined(sh, s, {p \in DOMAIN s : s[p] = "$"}, {})

\* The characters from place p on up to the next blank.
Run(t, p) ==
    LET last == CHOOSE e \in p..Len(t) : /\ \A b \in p..e : t[b] # "blank"
                                         /\ e = Len(t) \/ t[e + 1] = "blank"
    IN SubSeq(t, p, last)

\* The runs of characters other than blanks.
Begins(t, p) == t[p] # "blank" /\ (p = 1 \/ t[p - 1] = "blank")

Runs(t) ==
    LET runs[p \in 0..Len(t)] ==
            IF p = 0 THEN <<>>
            ELSE runs[p - 1] \o (IF Begins(t, p) THEN <<Run(t, p)>> ELSE <<>>)
    IN runs[Len(t)]

\* A word with quotes is one field, another one as many as its text has runs.
WordFields(sh, s) == IF HasQuote(s) THEN <<WordText(sh, s)>> ELSE Runs(WordText(sh, s))

ArgvFields(sh, argv) ==
    LET join[k \in 0..Len(argv)] ==
            IF k = 0 THEN <<>> ELSE join[k - 1] \o WordFields(sh, argv[k])
    IN join[Len(argv)]

TargetText(sh, r) == IF r.type = "heredoc" THEN Delimiter(sh, r.target)
                     ELSE WordText(sh, r.target)

---------------------------------------------------------------------------
(* Properties                                                              *)

\* fill_one never stores more words than count_exp_argc counted, and has stored
\* all of them when the NULL goes behind the last: two expansions of each word,
\* one counted by ifs_wc and one cut by split_ifs.  If a failed allocation has
\* swallowed a character in either pass the code keeps no such promise.
ArgvExactlyFilled ==
    ~lost => /\ pc \in {"fill", "redir"} => Len(nav) <= total
             /\ pc = "redir" => Len(nav) = total

\* A pipeline that expand_pipeline hands on holds the fields of its words and the
\* targets of its redirects, no file with an empty name; without a failed
\* allocation only such a name makes it give up.  A line of a here-document has
\* its variables replaced and keeps its quotes, or, behind a quoted delimiter,
\* stays as it is.
FieldsRight ==
    ~lost =>
    /\ pc = "ok" =>
           /\ Len(done) = Len(pl)
           /\ \A d \in DOMAIN pl :
                  /\ done[d].argv = ArgvFields(shell, pl[d].argv)
                  /\ Len(done[d].redirs) = Len(pl[d].redirs)
                  /\ \A r \in DOMAIN pl[d].redirs :
                         /\ done[d].redirs[r].target = TargetText(shell, pl[d].redirs[r])
                         /\ pl[d].redirs[r].type = "file" => TargetText(shell, pl[d].redirs[r]) # <<>>
    /\ pc = "failed" /\ fails = 0 =>
           \E d \in DOMAIN pl : \E r \in DOMAIN pl[d].redirs :
               pl[d].redirs[r].type = "file" /\ TargetText(shell, pl[d].redirs[r]) = <<>>
    /\ body.text \in {body.line, LineText(shell, body.line)}
    /\ body.quoted => body.text = body.line
    /\ ~body.quoted /\ fails = 0 => body.text = LineText(shell, body.line)
=============================================================================
