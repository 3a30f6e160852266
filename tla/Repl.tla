-------------------------------- MODULE Repl --------------------------------
(***************************************************************************)
(* What the read-evaluate loop promises its user, whatever the internals:  *)
(* lines run one at a time; the status a line leaves depends on that line  *)
(* alone, and is 130 when Ctrl-C cuts its here-document short; $? changes  *)
(* at no other moment, except that Ctrl-C at the prompt makes it 130; and  *)
(* no SIGINT makes an interactive shell go away once it has prompted.      *)
(***************************************************************************)
EXTENDS Integers, Sequences

CONSTANTS Lines,        \* command lines, as in Shell
          Outcomes      \* statuses a builtin or a pipeline may end with

VARIABLES tty,          \* the shell is interactive
          mode,         \* "prompt", "line", "gone" or "killed"
          status,       \* $?
          line,         \* the line being run, or the last one
          cut,          \* its here-document was interrupted
          armed         \* tty, and the first handler is installed

replVars == <<tty, mode, status, line, cut, armed>>

HasHeredoc(l) == \E i \in DOMAIN l.redirs : l.redirs[i] = "heredoc"

\* The statuses line l may leave behind it, s being the one before.
Result(l, s) ==
    CASE l.kind = "blank"               -> {s}
      [] l.kind \in {"quote", "syntax"} -> {2}
      [] l.kind = "ambiguous"           -> {1}
      [] OTHER -> Outcomes \cup {0, 1, 130}
                           \cup (IF HasHeredoc(l) THEN {s} ELSE {})

ReplInit == /\ mode = "prompt"
            /\ status = 0
            /\ line.kind = "blank"
            /\ ~cut
            /\ ~armed

Arm == /\ tty /\ ~armed /\ armed'
       /\ UNCHANGED <<tty, mode, status, line, cut>>

\* Ctrl-C was typed before this input, or before the end of input.
PromptInterrupted ==
    /\ mode = "prompt"
    /\ status' = 130
    /\ mode' \in {"prompt", "gone"}
    /\ UNCHANGED <<tty, line, cut, armed>>

Take == /\ mode = "prompt"
        /\ mode' = "line"
        /\ line' \in Lines
        /\ ~cut'
        /\ UNCHANGED <<tty, status, armed>>

CutShort == /\ mode = "line" /\ HasHeredoc(line) /\ ~cut
            /\ cut'
            /\ UNCHANGED <<tty, mode, status, line, armed>>

\* An interrupted line has its status before it is over.
Settle == /\ mode = "line" /\ cut
          /\ status' = 130
          /\ UNCHANGED <<tty, mode, line, cut, armed>>

Finish == /\ mode = "line"
          /\ mode' = "prompt"
          /\ status' \in IF cut THEN {130} ELSE Result(line, status)
          /\ UNCHANGED <<tty, line, cut, armed>>

\* At the end of input, or by the exit builtin.
GoAway == /\ \/ mode = "prompt"
             \/ mode = "line" /\ line.argv = "exit" /\ line.count = 1 /\ ~cut
          /\ mode' = "gone"
          /\ UNCHANGED <<tty, status, line, cut, armed>>

Die == /\ mode # "killed" /\ ~armed
       /\ mode' = "killed"
       /\ UNCHANGED <<tty, status, line, cut, armed>>

ReplNext == \/ Arm \/ PromptInterrupted \/ Take \/ CutShort \/ Settle
            \/ Finish \/ GoAway \/ Die

ReplSpec == ReplInit /\ [][ReplNext]_replVars
=============================================================================
