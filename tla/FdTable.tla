------------------------------ MODULE FdTable ------------------------------
(***************************************************************************)
(* The file-descriptor table of a process, as the kernel keeps it for the  *)
(* system calls minishell makes: open(2), dup(2), dup2(2) and close(2).    *)
(* The shell saves, replaces and restores its own standard input and       *)
(* output, and its SIGINT handler for here-documents closes descriptor 0,  *)
(* so what matters is the rule that a new descriptor is the LOWEST free    *)
(* number: after a close(0), the next open returns 0.                      *)
(***************************************************************************)
EXTENDS Integers

CONSTANT MaxFd          \* largest descriptor number (RLIMIT_NOFILE - 1)

ASSUME MaxFdAssumption == MaxFd \in Nat /\ MaxFd >= 2

\* Open file descriptions, told apart only by what they lead to.
Files == {"stdin", "stdout", "stderr", "infile", "outfile",
          "tmp_w", "tmp_r", "pipe"}

Closed == "closed"
NoFd   == -1

Fds    == 0..MaxFd
Tables == [Fds -> Files \cup {Closed}]

Standard == [f \in Fds |-> CASE f = 0 -> "stdin"
                             [] f = 1 -> "stdout"
                             [] f = 2 -> "stderr"
                             [] OTHER -> Closed]

Lowest(t) == {f \in Fds : /\ t[f] = Closed
                          /\ \A g \in Fds : t[g] = Closed => f <= g}

\* The descriptor open() and dup() return: NoFd stands for -1, EMFILE.
NextFd(t) == IF Lowest(t) = {} THEN NoFd ELSE CHOOSE f \in Lowest(t) : TRUE

IsOpen(t, f) == f \in Fds /\ t[f] # Closed

Open(t, file) == IF NextFd(t) = NoFd THEN t ELSE [t EXCEPT ![NextFd(t)] = file]

DupFd(t, f) == IF IsOpen(t, f) THEN NextFd(t) ELSE NoFd

Dup(t, f) == IF IsOpen(t, f) THEN Open(t, t[f]) ELSE t

Dup2(t, f, g) == IF IsOpen(t, f) THEN [t EXCEPT ![g] = t[f]] ELSE t

Close(t, f) == IF f \in Fds THEN [t EXCEPT ![f] = Closed] ELSE t

CloseAll(t, S) == [f \in Fds |-> IF f \in S THEN Closed ELSE t[f]]
=============================================================================
