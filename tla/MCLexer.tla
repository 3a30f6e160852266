------------------------------ MODULE MCLexer ------------------------------
(* Small instances of Lexer for TLC. *)
EXTENDS Lexer, SequencesExt

\* Lines of up to four characters of any kind, of up to five without other
\* white space than blanks, and quoted ones with it.
MCLines == BoundedSeq(Chars, 4) \cup BoundedSeq(Chars \ {"white"}, 5)
              \cup {<<q, "c", "white", q, "|">> : q \in Quotes}

\* A carriage return at the end of a line, as in a file with CRLF.
MCWhiteLines == {l \o <<"white">> : l \in BoundedSeq({"c", "blank", "|", "single"}, 3)}
=============================================================================
