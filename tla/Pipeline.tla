------------------------------ MODULE Pipeline ------------------------------
(***************************************************************************)
(* One forked pipeline: exec_forked_pipeline, fork_all, fork_child and     *)
(* wait_all of exec/pipeline.c, child_exec of exec/exec.c and the          *)
(* redirects of its children, run by the shell and its children in any     *)
(* order.  The module follows who holds which end of which pipe, because a *)
(* reader sees end of file only when nobody holds the write end any more,  *)
(* and who waits for whom.  The programs of the commands are external:     *)
(* they read, write a little and exit.                                     *)
(***************************************************************************)
EXTENDS Integers, Sequences, FiniteSets

CONSTANTS
    Pipelines,  \* pipelines: sequences of commands
    MaxCount,   \* bound: commands in a pipeline
    Outcomes,   \* statuses a program or a builtin may exit with
    Writes,     \* bound: items a command writes to its pipe
    Faults,     \* the calls that may fail: a subset of {"pipe", "fork"}
    MaxSig      \* bound: SIGINTs typed

\* A command: what run_builtin and exec_not_found make of its words, and what
\* its redirects put in the place of its pipe ends.
CommandType ==
    [class : {"builtin", "program", "missing", "denied", "null"},
     in    : {"pipe", "file", "absent", "heredoc"},
     out   : {"pipe", "file"}]

ASSUME PipelineAssumption ==
    /\ \A pl \in Pipelines : pl \in Seq(CommandType) /\ Len(pl) \in 1..MaxCount
    /\ MaxCount \in Nat
    /\ Outcomes \subseteq 0..255
    /\ Writes \in Nat
    /\ Faults \subseteq {"pipe", "fork"}
    /\ MaxSig \in Nat

Statuses == Outcomes \cup {0, 1, 126, 127, 130, 141}

VARIABLES
    pl,         \* the pipeline
    ppc,        \* where the shell is in exec_forked_pipeline
    i, prev,    \* fork_all and wait_all: the command; the pipe p[0] came from
    pids,       \* pids[j]: "none", "child" or "failed"
    ret,        \* what exec_forked_pipeline returns
    cpc,        \* where every child is
    status,     \* its wait status
    held,       \* pipe ends and here-documents open in the shell, which is
                \* process 0, and in every child
    pipe,       \* items in every pipe
    wrote,      \* items every child has written
    eof,        \* children that have read end of file
    gsig, sigs, \* g_sig of the shell; SIGINTs typed
    faulty      \* history: calls that failed

childVars == <<cpc, status, pipe, wrote, eof>>
sigVars   == <<gsig, sigs>>
shellVars == <<ppc, i, prev, pids, ret, gsig, faulty>>
vars == <<pl, ppc, i, prev, pids, ret, childVars, held, sigVars, faulty>>

count    == Len(pl)
Commands == DOMAIN pl
Procs    == {0} \cup Commands

R(j) == <<"read", j>>
W(j) == <<"write", j>>
H(j) == <<"heredoc", j>>
PipeEnds == {R(j) : j \in 1..(count - 1)} \cup {W(j) : j \in 1..(count - 1)}
Heredocs == {H(j) : j \in {c \in Commands : pl[c].in = "heredoc"}}

\* The pipe a child reads from and the one it writes to, 0 for none.
InPipe(j)  == IF j > 1 /\ pl[j].in = "pipe" THEN j - 1 ELSE 0
OutPipe(j) == IF j < count /\ pl[j].out = "pipe" THEN j ELSE 0

Live == {"born", "ready", "run"}

\* gather_heredocs has left one open descriptor for every here-document, and
\* sig_set_exec_parent has been called.
Init ==
    /\ pl \in Pipelines
    /\ ppc = "pipe" /\ i = 1 /\ prev = 0
    /\ pids = [j \in Commands |-> "none"]
    /\ ret = 0
    /\ cpc = [j \in Commands |-> "none"]
    /\ status = [j \in Commands |-> 0]
    /\ held = [p \in Procs |-> IF p = 0 THEN Heredocs ELSE {}]
    /\ pipe = [j \in Commands |-> 0]
    /\ wrote = [j \in Commands |-> 0]
    /\ eof = {}
    /\ gsig = 0 /\ sigs = 0
    /\ faulty = {}

---------------------------------------------------------------------------
(* The shell: fork_all                                                     *)

OpenPipe ==
    /\ ppc = "pipe" /\ i <= count
    /\ \/ /\ held' = IF i < count
                     THEN [held EXCEPT ![0] = @ \cup {R(i), W(i)}] ELSE held
          /\ ppc' = "fork"
          /\ UNCHANGED <<ret, faulty>>
       \/ /\ i < count /\ "pipe" \in Faults
          /\ ppc' = "done"
          /\ ret' = 1
          /\ faulty' = faulty \cup {"pipe"}
          /\ UNCHANGED held
    /\ UNCHANGED <<pl, i, prev, pids, childVars, sigVars>>

\* fork(): the child holds what the shell holds.  A failure is not looked at.
Fork ==
    /\ ppc = "fork"
    /\ ppc' = "close"
    /\ \/ /\ pids' = [pids EXCEPT ![i] = "child"]
          /\ cpc' = [cpc EXCEPT ![i] = "born"]
          /\ held' = [held EXCEPT ![i] = held[0]]
          /\ UNCHANGED faulty
       \/ /\ "fork" \in Faults
          /\ pids' = [pids EXCEPT ![i] = "failed"]
          /\ faulty' = faulty \cup {"fork"}
          /\ UNCHANGED <<cpc, held>>
    /\ UNCHANGED <<pl, i, prev, ret, status, pipe, wrote, eof, sigVars>>

\* Mutant: the shell keeps the write end of the pipe.
ClosedByShell_ReadOnly == {R(prev)}

\* Mutant: the shell keeps the read end it has handed on.
ClosedByShell_WriteOnly == {W(i)}

\* if (prev != -1) close(prev); if (p[1] != -1) close(p[1])
ClosedByShell == {R(prev), W(i)}

ClosePipe ==
    /\ ppc = "close"
    /\ ppc' = IF i = count THEN "heredocs" ELSE "pipe"
    /\ held' = [held EXCEPT ![0] = @ \ ClosedByShell]
    /\ prev' = IF i = count THEN 0 ELSE i
    /\ i' = i + 1
    /\ UNCHANGED <<pl, pids, ret, childVars, sigVars, faulty>>

---------------------------------------------------------------------------
(* The shell: close_pipeline_heredocs and wait_all                         *)

CloseHeredocs ==
    /\ ppc = "heredocs"
    /\ ppc' = "wait"
    /\ held' = [held EXCEPT ![0] = @ \ Heredocs]
    /\ i' = 1
    /\ UNCHANGED <<pl, prev, pids, ret, childVars, sigVars, faulty>>

\* Mutant: the status of the first command.
KeepStatus_First(j) == j = 1

\* if (i == n - 1) last = status
KeepStatus(j) == j = count

\* waitpid(pids[i]): that child, or any child when the fork failed and the pid
\* is -1.
Reapable == IF pids[i] = "failed" THEN Commands ELSE {i}

Reap ==
    /\ ppc = "wait" /\ i <= count
    /\ \E c \in Reapable :
          /\ cpc[c] = "dead"
          /\ cpc' = [cpc EXCEPT ![c] = "reaped"]
          /\ ret' = IF KeepStatus(i) THEN status[c] ELSE ret
    /\ i' = i + 1
    /\ ppc' = IF i = count THEN "done" ELSE "wait"
    /\ UNCHANGED <<pl, prev, pids, status, held, pipe, wrote, eof, sigVars, faulty>>

\* Mutant: wait_all returns what waitpid returned.
NoChild_Raw ==
    /\ ppc = "wait" /\ i <= count
    /\ \A c \in Reapable : cpc[c] \in {"none", "reaped"}
    /\ ppc' = "done"
    /\ ret' = -1
    /\ UNCHANGED <<pl, i, prev, pids, childVars, held, sigVars, faulty>>

\* ECHILD: there is no such child any more, and wait_all gives up.
NoChild ==
    /\ ppc = "wait" /\ i <= count
    /\ \A c \in Reapable : cpc[c] \in {"none", "reaped"}
    /\ ppc' = "done"
    /\ ret' = 1
    /\ UNCHANGED <<pl, i, prev, pids, childVars, held, sigVars, faulty>>

---------------------------------------------------------------------------
(* The children: fork_child and child_exec                                 *)

\* Mutant: the write end is closed too, and not moved to descriptor 1.
ClosedByChild_Both(j) == {R(j), W(j)}

\* Mutant: the child keeps the read end of the pipe it writes to.
ClosedByChild_None(j) == {}

\* The pipe ends are moved to descriptors 0 and 1: the copies are closed, and
\* with p[0] the read end that belongs to the next command.
ClosedByChild(j) == {R(j)}

\* fork_child, then sig_set_exec_child: until here a SIGINT reaches the shell's
\* handler, which the child inherited, and is lost.
ChildStart(j) ==
    /\ cpc[j] = "born"
    /\ cpc' = [cpc EXCEPT ![j] = "ready"]
    /\ held' = [held EXCEPT ![j] = @ \ ClosedByChild(j)]
    /\ UNCHANGED <<pl, shellVars, sigs, status, pipe, wrote, eof>>

\* A process ends: the kernel closes all it held.
Die(j, s) ==
    /\ cpc' = [cpc EXCEPT ![j] = "dead"]
    /\ status' = [status EXCEPT ![j] = s]
    /\ held' = [held EXCEPT ![j] = {}]

\* What the redirects of command j close: the pipe end they replace, and the
\* here-document's own descriptor once it is in place.
Replaced(j) == {e \in {R(j - 1)} : pl[j].in # "pipe"}
                  \cup {e \in {W(j)} : pl[j].out # "pipe"}
                  \cup {H(j)}

\* apply_redirects, run_builtin, the tests of child_exec, and exec_not_found:
\* the child ends with the status the code chooses, or becomes its command.
ChildExec(j) ==
    /\ cpc[j] = "ready"
    /\ \/ pl[j].in = "absent" /\ Die(j, 1)
       \/ pl[j].in # "absent" /\ pl[j].class = "null" /\ Die(j, 0)
       \/ pl[j].in # "absent" /\ pl[j].class = "missing" /\ Die(j, 127)
       \/ pl[j].in # "absent" /\ pl[j].class = "denied" /\ Die(j, 126)
       \/ /\ pl[j].in # "absent" /\ pl[j].class \in {"builtin", "program"}
          /\ cpc' = [cpc EXCEPT ![j] = "run"]
          /\ held' = [held EXCEPT ![j] = @ \ Replaced(j)]
          /\ UNCHANGED status
    /\ UNCHANGED <<pl, shellVars, sigs, pipe, wrote, eof>>

---------------------------------------------------------------------------
(* The commands themselves (external)                                      *)

HoldersOf(end) == {p \in Procs : end \in held[p]}

\* A program reads its pipe, and sees end of file when it is empty and no
\* process holds its write end; builtins read nothing.
Read(j) ==
    /\ cpc[j] = "run" /\ pl[j].class = "program"
    /\ InPipe(j) # 0 /\ j \notin eof
    /\ \/ /\ pipe[InPipe(j)] > 0
          /\ pipe' = [pipe EXCEPT ![InPipe(j)] = @ - 1]
          /\ UNCHANGED eof
       \/ /\ pipe[InPipe(j)] = 0 /\ HoldersOf(W(InPipe(j))) = {}
          /\ eof' = eof \cup {j}
          /\ UNCHANGED pipe
    /\ UNCHANGED <<pl, shellVars, sigs, cpc, status, held, wrote>>

\* A write to a full pipe (one item here) blocks while somebody holds its read
\* end, and kills the writer with SIGPIPE when nobody does.
Write(j) ==
    /\ cpc[j] = "run" /\ OutPipe(j) # 0 /\ wrote[j] < Writes
    /\ \/ /\ HoldersOf(R(j)) # {} /\ pipe[j] = 0
          /\ pipe' = [pipe EXCEPT ![j] = 1]
          /\ wrote' = [wrote EXCEPT ![j] = @ + 1]
          /\ UNCHANGED <<cpc, status, held>>
       \/ /\ HoldersOf(R(j)) = {}
          /\ Die(j, 141)
          /\ UNCHANGED <<pipe, wrote>>
    /\ UNCHANGED <<pl, shellVars, sigs, eof>>

Exit(j) == /\ cpc[j] = "run"
           /\ \E s \in Outcomes : Die(j, s)
           /\ UNCHANGED <<pl, shellVars, sigs, pipe, wrote, eof>>

\* A command that has read and written everything exits.
Finished(j) == /\ pl[j].class = "program" /\ InPipe(j) # 0 => j \in eof
               /\ OutPipe(j) # 0 => wrote[j] = Writes

ExitFinished(j) == Finished(j) /\ Exit(j)

\* Ctrl-C goes to the whole foreground group: the shell records it, a child
\* that has not reset its handler yet loses it, the others die of it.
Sigint ==
    /\ ppc # "done" /\ sigs < MaxSig
    /\ sigs' = sigs + 1
    /\ gsig' = 2
    /\ LET hit == {j \in Commands : cpc[j] \in {"ready", "run"}}
       IN /\ cpc' = [j \in Commands |-> IF j \in hit THEN "dead" ELSE cpc[j]]
          /\ status' = [j \in Commands |-> IF j \in hit THEN 130 ELSE status[j]]
          /\ held' = [p \in Procs |-> IF p \in hit THEN {} ELSE held[p]]
    /\ UNCHANGED <<pl, ppc, i, prev, pids, ret, pipe, wrote, eof, faulty>>

---------------------------------------------------------------------------
(* The specification                                                       *)

Shell == OpenPipe \/ Fork \/ ClosePipe \/ CloseHeredocs \/ Reap \/ NoChild

Child(j) == ChildStart(j) \/ ChildExec(j)

Command(j) == Read(j) \/ Write(j) \/ ExitFinished(j)

AllDone == ppc = "done" /\ \A j \in Commands : cpc[j] \notin Live

Next == \/ Shell
        \/ \E j \in Commands : Child(j) \/ Command(j) \/ Exit(j)
        \/ Sigint
        \/ AllDone /\ UNCHANGED vars

\* The kernel schedules every process; a command goes on reading and writing
\* as long as it can, and exits when there is nothing left to do.
Fairness == /\ WF_vars(Shell)
            /\ \A j \in 1..MaxCount : 
                  WF_vars(j \in Commands /\ (Child(j) \/ Command(j)))

Spec == Init /\ [][Next]_vars /\ Fairness

---------------------------------------------------------------------------
(* Properties                                                              *)

\* Every variable has its type.
TypeOK ==
    /\ pl \in Pipelines
    /\ ppc \in {"pipe", "fork", "close", "heredocs", "wait", "done"}
    /\ i \in 1..(count + 1) /\ prev \in 0..(count - 1)
    /\ pids \in [Commands -> {"none", "child", "failed"}]
    /\ ret \in Statuses
    /\ cpc \in [Commands -> Live \cup {"none", "dead", "reaped"}]
    /\ status \in [Commands -> Statuses]
    /\ held \in [Procs -> SUBSET (PipeEnds \cup Heredocs)]
    /\ pipe \in [Commands -> 0..1] /\ wrote \in [Commands -> 0..Writes]
    /\ eof \subseteq Commands
    /\ gsig \in {0, 2} /\ sigs \in 0..MaxSig
    /\ faulty \subseteq Faults

\* Every pipe end is where it belongs: only command j may write to pipe j, only
\* command j + 1 may read it, apart from the shell while it is forking them and
\* a child that has not sorted its descriptors out; the shell waits holding no
\* end at all.
EndsInPlace ==
    /\ \A j \in 1..(count - 1) :
          /\ HoldersOf(W(j)) \subseteq {0, j}
          /\ HoldersOf(R(j)) \subseteq {0, j + 1} \cup {c \in {j} : cpc[c] = "born"}
    /\ ppc \in {"heredocs", "wait"} => held[0] \cap PipeEnds = {}

\* A command reads end of file only when the one before it has ended, or does
\* not write to the pipe: no output is cut off.
NoEarlyEof ==
    \A j \in eof : OutPipe(j - 1) # 0 => cpc[j - 1] \notin Live

\* The pipeline's status is the last command's, in whatever order they end,
\* when every child could be made.
LastStatus ==
    ppc = "done" /\ faulty = {} => cpc[count] = "reaped" /\ ret = status[count]

\* When exec_forked_pipeline returns it has waited for every child, and holds no
\* here-document: nothing of the pipeline is left, if every child could be made.
NothingLeft ==
    ppc = "done" /\ faulty = {} =>
        held[0] = {} /\ \A j \in Commands : cpc[j] = "reaped"

\* The shell gets its pipeline back: no reader waits for an end of file that a
\* forgotten write end withholds, no writer for a reader that is gone, and
\* wait_all never waits for a child that was not made.
PipelineReturns == <>(ppc = "done")

---------------------------------------------------------------------------
(* What the repository's documents say, and the code does not do           *)

\* resources.md: all child processes are collected before wait_all's caller
\* returns.
AllChildrenReaped ==
    ppc = "done" => \A j \in Commands : cpc[j] \in {"none", "reaped"}

\* signal-phases-report.md, phase 4: when a SIGINT between two forks kills the
\* children there are, the commands not forked yet are not run.
NoForkAfterSigint ==
    [][(\E j \in Commands : cpc[j] = "dead" /\ status[j] = 130) =>
          \A j \in Commands : cpc[j] = "none" => cpc'[j] = "none"]_vars
=============================================================================
