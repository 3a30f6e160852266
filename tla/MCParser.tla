------------------------------ MODULE MCParser ------------------------------
(* Small instances of Parser for TLC. *)
EXTENDS Parser, SequencesExt

\* Every list of up to four tokens, and of up to six of the types that differ
\* in what the parser does with them.
MCTokenLists == BoundedSeq(TokTypes, 4)
                   \cup BoundedSeq({"word", "pipe", "rw", "heredoc"}, 6)
=============================================================================
