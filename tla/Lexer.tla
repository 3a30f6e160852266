------------------------------- MODULE Lexer -------------------------------
(***************************************************************************)
(* lex_line and lex_word_end: lexer/lexer.c, lexer/lexer_word.c.  A line   *)
(* is a sequence of characters, told apart by what the lexer does with     *)
(* them; a token is its type and the places it begins and ends at.  Lines  *)
(* hold no newline: process_input has cut the input at them.               *)
(***************************************************************************)
EXTENDS Integers, Sequences, FiniteSets

\* "blank" is a space or a tab, "white" any other character ft_isspace takes,
\* "single" and "double" are the two quotes, "c" is any other character.
Chars == {"blank", "white", "|", "<", ">", "single", "double", "c"}

CONSTANT InputLines     \* lines

ASSUME LexerAssumption == InputLines \subseteq Seq(Chars)

VARIABLES
    line,       \* the line
    i,          \* the cursor
    toks,       \* the tokens, but for words of no characters
    empties,    \* the number of those, of which only the parity is kept
    status      \* "lexing", "ok" or "quote" (an unclosed one: $? becomes 2)

vars == <<line, i, toks, empties, status>>

Quotes == {"single", "double"}

\* Mutant: a pipe does not end a word.
EndsWord_NoPipe == {"blank", "white", "<", ">"}

\* ft_isspace and the operators end a word, outside quotes.
EndsWord == {"blank", "white", "|", "<", ">"}

Init ==
    /\ line \in InputLines
    /\ i = 1
    /\ toks = <<>> /\ empties = 0
    /\ status = "lexing"

\* Mutant: blanks are not passed over.
SkipBlanks_Not(p) == p

\* The first place from p on that is no blank.
SkipBlanks(p) ==
    CHOOSE e \in p..(Len(line) + 1) :
        /\ \A b \in p..(e - 1) : line[b] = "blank"
        /\ e <= Len(line) => line[e] # "blank"

\* Mutant: any quote closes a quote.
Quoted_Any(q, c) ==
    IF q = "none" /\ c \in Quotes THEN c
    ELSE IF q # "none" /\ c \in Quotes THEN "none" ELSE q

\* The quote one is in after character c, q being the one before it.
Quoted(q, c) ==
    IF q = "none" /\ c \in Quotes THEN c ELSE IF q = c THEN "none" ELSE q

\* lex_word_end: where the word stops, and the quote that is open there.
WordEnd(start) ==
    LET quote[p \in start..(Len(line) + 1)] ==
            IF p = start THEN "none" ELSE Quoted(quote[p - 1], line[p - 1])
        stops(p) == quote[p] = "none" /\ line[p] \in EndsWord
        end == CHOOSE e \in start..(Len(line) + 1) :
                   /\ \A p \in start..(e - 1) : ~stops(p)
                   /\ e <= Len(line) => stops(e)
    IN [at |-> end, quote |-> quote[end]]

\* Mutant: <> is not known.
Operators_NoRw == {<<"<", "<">>, <<">", ">">>}

\* The operators of two characters.
Operators == {<<"<", "<">>, <<"<", ">">>, <<">", ">">>}

\* Mutant: a pipe is taken for two characters.
OpEnd_PipeTwo(p) ==
    IF line[p] = "|" \/ (p < Len(line) /\ <<line[p], line[p + 1]>> \in Operators)
    THEN p + 2 ELSE p + 1

\* lex_op: the longest operator at p.
OpEnd(p) ==
    IF p < Len(line) /\ <<line[p], line[p + 1]>> \in Operators THEN p + 2 ELSE p + 1

OpType(p) ==
    LET two == OpEnd(p) = p + 2
    IN CASE line[p] = "|"         -> "pipe"
         [] line[p] = "<" /\ ~two -> "in"
         [] line[p] = ">" /\ ~two -> "out"
         [] line[p] = ">" /\ two  -> "append"
         [] line[p] = "<" /\ two  -> IF line[p + 1] = "<" THEN "heredoc" ELSE "rw"

Push(type, from, to) ==
    /\ toks' = Append(toks, [type |-> type, from |-> from, to |-> to])
    /\ i' = to
    /\ UNCHANGED <<line, empties, status>>

LexEnd ==
    /\ status = "lexing" /\ SkipBlanks(i) > Len(line)
    /\ status' = "ok"
    /\ UNCHANGED <<line, i, toks, empties>>

AtOperator(p) == p <= Len(line) /\ line[p] \in {"|", "<", ">"}
AtWord(p)     == p <= Len(line) /\ ~AtOperator(p)

LexOp ==
    /\ status = "lexing" /\ AtOperator(SkipBlanks(i))
    /\ LET p == SkipBlanks(i) IN Push(OpType(p), p, OpEnd(p))

LexWord ==
    /\ status = "lexing" /\ AtWord(SkipBlanks(i))
    /\ LET p   == SkipBlanks(i)
           end == WordEnd(p)
       IN /\ end.quote = "none" /\ end.at > p
          /\ Push("word", p, end.at)

\* The word would begin at white space that is no blank: the cursor stays.
LexNothing ==
    /\ status = "lexing" /\ AtWord(SkipBlanks(i))
    /\ WordEnd(SkipBlanks(i)).at = SkipBlanks(i)
    /\ i' = SkipBlanks(i)
    /\ empties' = (empties + 1) % 2
    /\ UNCHANGED <<line, toks, status>>

\* syntax_error_quote
LexUnclosed ==
    /\ status = "lexing" /\ AtWord(SkipBlanks(i))
    /\ WordEnd(SkipBlanks(i)).quote # "none"
    /\ status' = "quote"
    /\ UNCHANGED <<line, i, toks, empties>>

Lex == LexEnd \/ LexOp \/ LexWord \/ LexNothing \/ LexUnclosed

Next == Lex \/ (status # "lexing" /\ UNCHANGED vars)

\* Nothing keeps lex_line from running.
Spec == Init /\ [][Next]_vars /\ WF_vars(Lex)

---------------------------------------------------------------------------
(* Properties                                                              *)

Places == 1..(Len(line) + 1)

\* Every variable has its type.
TypeOK ==
    /\ line \in InputLines
    /\ i \in Places
    /\ toks \in Seq([type : {"word", "pipe", "in", "out", "append", "heredoc", "rw"},
                     from : Places, to : Places])
    /\ empties \in 0..1
    /\ status \in {"lexing", "ok", "quote"}

\* The quote that is open before every place, taken over the whole line.
OpenQuote ==
    LET open[p \in Places] ==
            IF p = 1 THEN "none"
            ELSE CASE open[p - 1] = "none" /\ line[p - 1] \in Quotes -> line[p - 1]
                   [] open[p - 1] # "none" /\ line[p - 1] = open[p - 1] -> "none"
                   [] OTHER -> open[p - 1]
    IN open

\* The places outside quotes with one of these characters.
Bare(chars) == LET open == OpenQuote
               IN {p \in DOMAIN line : open[p] = "none" /\ line[p] \in chars}

\* The words are the longest runs of characters that are quoted or ordinary:
\* quotes are followed word by word, and give what they give over the line.
WordsAgree ==
    status = "ok" =>
        LET inWord == DOMAIN line \ Bare({"blank", "white", "|", "<", ">"})
            words  == {k \in DOMAIN toks : toks[k].type = "word"}
        IN {<<toks[k].from, toks[k].to>> : k \in words} =
               {w \in Places \X Places :
                   /\ w[1] < w[2] /\ w[1]..(w[2] - 1) \subseteq inWord
                   /\ w[1] - 1 \notin inWord /\ w[2] \notin inWord}

\* Every operator character outside quotes is in exactly one operator, which is
\* as long as it can be and of the type its characters say.
OperatorsAgree ==
    status = "ok" =>
        /\ \A p \in Bare({"|", "<", ">"}) :
               \E k \in DOMAIN toks : /\ toks[k].from <= p /\ p < toks[k].to
                                      /\ \A n \in DOMAIN toks \ {k} :
                                            ~(toks[n].from <= p /\ p < toks[n].to)
        /\ \A k \in DOMAIN toks :
               LET t == toks[k]
                   text == SubSeq(line, t.from, t.to - 1)
                   next == IF t.to <= Len(line) THEN line[t.to] ELSE "end"
               IN CASE t.type = "pipe"    -> text = <<"|">>
                    [] t.type = "in"      -> text = <<"<">> /\ next \notin {"<", ">"}
                    [] t.type = "out"     -> text = <<">">> /\ next # ">"
                    [] t.type = "append"  -> text = <<">", ">">>
                    [] t.type = "heredoc" -> text = <<"<", "<">>
                    [] t.type = "rw"      -> text = <<"<", ">">>
                    [] OTHER -> TRUE

\* A line is refused exactly when a quote is open at its end.
RefusedIffUnclosed ==
    status # "lexing" => (status = "quote" <=> OpenQuote[Len(line) + 1] # "none")

\* lex_line returns, on every line whose only white space outside quotes is
\* blanks: each round of its loop moves the cursor.
ReturnsOnBlanks ==
    Bare({"white"}) = {} => <>(status # "lexing")

---------------------------------------------------------------------------
(* What the repository's documents say, and the code does not do           *)

\* deps.md: lexer.c uses ft_isspace, so that any white space is passed over
\* and lex_line turns the whole line into tokens.
LexerReturns == <>(status # "lexing")
=============================================================================
