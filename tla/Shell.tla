------------------------------- MODULE Shell -------------------------------
(***************************************************************************)
(* The read-evaluate loop of minishell (claude/src): core/loop.c and       *)
(* core/main.c, the parts of exec/, heredoc/ and builtin/ that run in the  *)
(* shell's own process, and the SIGINT handlers of signal/ that may run    *)
(* between any two of its steps.                                           *)
(*                                                                         *)
(* A step of the model is the code between two points at which a handler   *)
(* running there could be told apart from one running earlier or later:    *)
(* reads and writes of g_sig, changes of the SIGINT disposition, and       *)
(* system calls on descriptor 0 while the here-document handler, which     *)
(* closes it, is installed.  What a forked pipeline does in its children   *)
(* is reduced to the status wait_all() returns.                            *)
(***************************************************************************)
EXTENDS Sequences, FdTable

CONSTANTS
    Lines,      \* command lines, told apart by what the code does with them
    Inputs,     \* what one read of the prompt returns: sequences of lines
    Outcomes,   \* statuses a builtin or a pipeline may end with
    MaxInputs,  \* bound: inputs read
    MaxSig      \* bound: SIGINTs delivered

Redirects == {"in", "out", "heredoc"}

LineType == [kind   : {"blank", "quote", "syntax", "ambiguous", "cmd"},
             count  : Nat \ {0},
             argv   : {"none", "parent", "exit", "other"},
             redirs : Seq(Redirects)]

ASSUME ConstantsAssumption ==
    /\ Lines \subseteq LineType
    /\ Inputs \subseteq Seq(Lines)
    /\ Outcomes \subseteq 0..255
    /\ MaxInputs \in Nat
    /\ MaxSig \in Nat

SIGINT == 2

Statuses == Outcomes \cup {0, 1, 2, 130}

VARIABLES
    interactive,    \* sh->interactive: isatty(STDIN_FILENO) at the start
    pc,             \* where the shell is
    gsig,           \* g_sig: 0, or the signal recorded
    handler,        \* disposition of SIGINT
    exit_code,      \* sh->exit_code, the value of $?
    fdt,            \* descriptor table of the shell
    todo, cur,      \* lines of this input not run yet; the line being run
    k, hfd,         \* cursor over the redirects; r->fd of every redirect
    hd,             \* locals of heredoc_fd() and heredoc_loop()
    tmp,            \* here-document files that have a name in /tmp
    save, ret,      \* in_save and out_save; the status being computed
    mem,            \* heap objects allocated and not freed
    cur_mem,        \* sh->cur_mem: the object it points to, or NULL
    cur_input,      \* sh->cur_input: likewise
    inputs, sigs,   \* counters for the two bounds
    intr,           \* history: how SIGINT hit the line's here-document
    spoiled         \* history: what may have cost the shell descriptors

sigVars   == <<gsig, handler>>
lineVars  == <<todo, cur, k, hfd>>
hdVars    == <<hd, tmp>>
runVars   == <<save, ret>>
heapVars  == <<mem, cur_mem, cur_input>>
countVars == <<inputs, sigs>>
histVars  == <<intr, spoiled>>
vars == <<interactive, pc, sigVars, exit_code, fdt, lineVars, hdVars,
          runVars, heapVars, countVars, histVars>>

Handlers == {"default", "interactive", "heredoc", "exec"}

Pcs == {"top", "install", "read", "check", "segment", "lex", "parse",
        "expand", "exec", "gather", "hd_dup", "hd_install", "hd_read",
        "hd_check", "hd_restore", "hd_reset", "hd_reinstall", "hd_reopen",
        "gather_fail", "apply", "p_run", "p_restore", "f_fork", "f_close",
        "f_wait", "f_reset", "f_install", "x_check", "x_reset", "x_install",
        "x_done", "leave", "exited", "killed"}

NULL == "NULL"

Objects == {"env", "input", "lex", "parse", "exp", "path", "pids"}

NoLine == [kind |-> "blank", count |-> 1, argv |-> "none", redirs |-> <<>>]

\* What may cost the shell a standard descriptor: a SIGINT after the last test
\* of g_sig, redirects without a command, a dup() that found no descriptor.
\* And what may leave others open: an open() or a pipe() that failed half-way.
Spoilers == {"late", "bare", "nofd", "failed"}

Spoil(cause) == spoiled' = spoiled \cup {cause}

NoHeredoc == [w |-> NoFd, saved |-> NoFd, line |-> "none", int |-> 0]

IsParentBuiltin(l) == l.count = 1 /\ l.argv \in {"parent", "exit"}
IsRedirectOnly(l)  == l.count = 1 /\ l.argv = "none"

---------------------------------------------------------------------------
(* main() and the prompt: core/main.c, core/loop.c                         *)

\* init_shell: the environment is copied, no handler is installed yet.
Init ==
    /\ interactive \in BOOLEAN
    /\ pc = "top"
    /\ gsig = 0 /\ handler = "default"
    /\ exit_code = 0
    /\ fdt = Standard
    /\ todo = <<>> /\ cur = NoLine /\ k = 1 /\ hfd = <<>>
    /\ hd = NoHeredoc /\ tmp = 0
    /\ save = [in |-> NoFd, out |-> NoFd] /\ ret = 0
    /\ mem = {"env"} /\ cur_mem = NULL /\ cur_input = NULL
    /\ inputs = 0 /\ sigs = 0
    /\ intr = "none" /\ spoiled = {}

\* sig_set_interactive and sig_set_noninteractive clear g_sig first ...
ClearSignal ==
    /\ \/ pc = "top" /\ pc' = "install"
       \/ pc = "x_reset" /\ pc' = "x_install"
       \/ pc = "f_reset" /\ pc' = "f_install"
    /\ gsig' = 0
    /\ UNCHANGED <<interactive, handler, exit_code, fdt, lineVars, hdVars,
                   runVars, heapVars, countVars, histVars>>

\* Mutant: the disposition does not depend on sh->interactive.
Disposition_Default == "default"

\* The handler ms_run and exec_forked_pipeline choose.
Disposition == IF interactive THEN "interactive" ELSE "default"

\* ... and then install their handler.  exec_pipeline() installs the
\* interactive one whether or not the shell is interactive.
InstallHandler ==
    /\ \/ /\ pc = "install" /\ pc' = "read"
          /\ handler' = Disposition
       \/ /\ pc = "f_install" /\ pc' = "x_check"
          /\ handler' = Disposition
       \/ /\ pc = "x_install" /\ pc' = "x_done"
          /\ handler' = "interactive"
    /\ UNCHANGED <<interactive, gsig, exit_code, fdt, lineVars, hdVars,
                   runVars, heapVars, countVars, histVars>>

\* readline() or get_next_line(): an input, or NULL at end of file (which is
\* what a closed descriptor 0 gives too).
ReadPrompt ==
    /\ pc = "read"
    /\ pc' = "check"
    /\ \/ /\ IsOpen(fdt, 0) /\ inputs < MaxInputs
          /\ \E input \in Inputs : todo' = input
          /\ mem' = mem \cup {"input"}
          /\ inputs' = inputs + 1
       \/ UNCHANGED <<todo, mem, inputs>>
    /\ UNCHANGED <<interactive, sigVars, exit_code, fdt, cur, k, hfd, hdVars,
                   runVars, cur_mem, cur_input, sigs, histVars>>

\* The two tests after the read: Ctrl-C at the prompt sets $? to 130, and a
\* NULL input leaves the loop.
CheckInput ==
    /\ pc = "check"
    /\ exit_code' = IF gsig = SIGINT THEN 130 ELSE exit_code
    /\ gsig' = 0
    /\ IF "input" \in mem
       THEN pc' = "segment" /\ cur_input' = "input"
       ELSE pc' = "leave" /\ UNCHANGED cur_input
    /\ UNCHANGED <<interactive, handler, fdt, lineVars, hdVars, runVars,
                   mem, cur_mem, countVars, histVars>>

\* process_input: the next line of the input, handed to ms_loop.
BeginSegment ==
    /\ pc = "segment" /\ todo # <<>>
    /\ pc' = "lex"
    /\ cur' = Head(todo) /\ todo' = Tail(todo)
    /\ mem' = mem \cup {"lex"}
    /\ hd' = NoHeredoc /\ intr' = "none"
    /\ UNCHANGED <<interactive, sigVars, exit_code, fdt, k, hfd, tmp, runVars,
                   cur_mem, cur_input, countVars, spoiled>>

\* ms_run: the input is done; cur_input is cleared before it is freed.
EndInput ==
    /\ pc = "segment" /\ todo = <<>>
    /\ pc' = "top"
    /\ cur_input' = NULL
    /\ mem' = mem \ {"input"}
    /\ UNCHANGED <<interactive, sigVars, exit_code, fdt, lineVars, hdVars,
                   runVars, cur_mem, countVars, histVars>>

\* Mutant: shell_cleanup forgets sh->cur_input.
Cleanup_NoInput == mem \ {"env", cur_mem}

\* shell_cleanup frees what sh points to.
Cleanup == mem \ {"env", cur_mem, cur_input}

\* main() after ms_run: term_restore, shell_cleanup, return sh.exit_code.
Leave ==
    /\ pc = "leave"
    /\ pc' = "exited"
    /\ mem' = Cleanup
    /\ UNCHANGED <<interactive, sigVars, exit_code, fdt, lineVars, hdVars,
                   runVars, cur_mem, cur_input, countVars, histVars>>

---------------------------------------------------------------------------
(* ms_loop: one line, from its text to its pipeline                        *)

\* Mutant: the early return frees nothing.
Abandon_KeepArenas(arenas, s) ==
    /\ pc' = "segment"
    /\ exit_code' = s
    /\ UNCHANGED <<mem, cur_mem>>

\* The line ends here with status s, its arenas freed.
Abandon(arenas, s) ==
    /\ pc' = "segment"
    /\ mem' = mem \ arenas
    /\ exit_code' = s
    /\ UNCHANGED cur_mem

LexLine ==
    /\ pc = "lex"
    /\ IF cur.kind = "quote"
       THEN Abandon({"lex"}, 2)
       ELSE /\ pc' = "parse"
            /\ mem' = mem \cup {"parse"}
            /\ UNCHANGED <<exit_code, cur_mem>>
    /\ UNCHANGED <<interactive, sigVars, fdt, lineVars, hdVars, runVars,
                   cur_input, countVars, histVars>>

\* A line without tokens leaves $? alone; a syntax error sets it to 2.
ParsePipeline ==
    /\ pc = "parse"
    /\ CASE cur.kind = "blank"  -> Abandon({"lex", "parse"}, exit_code)
         [] cur.kind = "syntax" -> Abandon({"lex", "parse"}, 2)
         [] OTHER -> /\ pc' = "expand"
                     /\ mem' = (mem \ {"lex"}) \cup {"exp"}
                     /\ UNCHANGED <<exit_code, cur_mem>>
    /\ UNCHANGED <<interactive, sigVars, fdt, lineVars, hdVars, runVars,
                   cur_input, countVars, histVars>>

\* The pipeline moves to the expansion arena, which sh->cur_mem then owns.
ExpandPipeline ==
    /\ pc = "expand"
    /\ IF cur.kind = "ambiguous"
       THEN Abandon({"parse", "exp"}, 1)
       ELSE /\ pc' = "exec"
            /\ mem' = mem \ {"parse"}
            /\ cur_mem' = "exp"
            /\ UNCHANGED exit_code
    /\ UNCHANGED <<interactive, sigVars, fdt, lineVars, hdVars, runVars,
                   cur_input, countVars, histVars>>

\* The end of ms_loop: $? is set, and the arena is freed once unreachable.
FinishLine ==
    /\ pc = "x_done"
    /\ pc' = "segment"
    /\ exit_code' = ret
    /\ cur_mem' = NULL
    /\ mem' = mem \ {"exp"}
    /\ UNCHANGED <<interactive, sigVars, fdt, lineVars, hdVars, runVars,
                   cur_input, countVars, histVars>>

---------------------------------------------------------------------------
(* exec_pipeline and the here-documents: exec/exec.c, heredoc/             *)

ExecPipeline ==
    /\ pc = "exec"
    /\ pc' = "gather"
    /\ handler' = "exec"
    /\ k' = 1
    /\ hfd' = [r \in DOMAIN cur.redirs |-> NoFd]
    /\ UNCHANGED <<interactive, gsig, exit_code, fdt, todo, cur, hdVars,
                   runVars, heapVars, countVars, histVars>>

AtHeredoc == pc = "gather" /\ k <= Len(cur.redirs) /\ cur.redirs[k] = "heredoc"
Gathered  == pc = "gather" /\ k > Len(cur.redirs)

\* gather_heredocs passes over the redirects of the other types.
GatherNext ==
    /\ pc = "gather" /\ k <= Len(cur.redirs) /\ ~AtHeredoc
    /\ k' = k + 1
    /\ UNCHANGED <<interactive, pc, sigVars, exit_code, fdt, todo, cur, hfd,
                   hdVars, runVars, heapVars, countVars, histVars>>

\* heredoc_fd up to dup(): the name comes from /dev/urandom, then the file is
\* created.  Either open may fail, and must when no descriptor is free.
HeredocOpen ==
    /\ AtHeredoc
    /\ \/ /\ NextFd(fdt) # NoFd
          /\ pc' = "hd_dup"
          /\ hd' = [NoHeredoc EXCEPT !.w = NextFd(fdt)]
          /\ fdt' = Open(fdt, "tmp_w")
          /\ tmp' = tmp + 1
          /\ mem' = mem \cup {"path"}
       \/ /\ pc' = "gather_fail"
          /\ UNCHANGED <<hd, fdt, tmp, mem>>
    /\ UNCHANGED <<interactive, sigVars, exit_code, lineVars, runVars,
                   cur_mem, cur_input, countVars, histVars>>

\* saved_in = dup(STDIN_FILENO), and sig_set_heredoc clears g_sig ...
HeredocDup ==
    /\ pc = "hd_dup"
    /\ pc' = "hd_install"
    /\ hd' = [hd EXCEPT !.saved = DupFd(fdt, 0)]
    /\ fdt' = Dup(fdt, 0)
    /\ IF DupFd(fdt, 0) = NoFd THEN Spoil("nofd") ELSE UNCHANGED spoiled
    /\ gsig' = 0
    /\ UNCHANGED <<interactive, handler, exit_code, lineVars, tmp, runVars,
                   heapVars, countVars, intr>>

\* ... and installs its handler.
HeredocInstall ==
    /\ pc = "hd_install"
    /\ pc' = "hd_read"
    /\ handler' = "heredoc"
    /\ UNCHANGED <<interactive, gsig, exit_code, fdt, lineVars, hdVars,
                   runVars, heapVars, countVars, histVars>>

\* heredoc_read_line: a line of the body, the delimiter or end of file;
\* nothing but end of file once descriptor 0 is closed.
HeredocRead(line) ==
    /\ pc = "hd_read"
    /\ IsOpen(fdt, 0) \/ line = "eof"
    /\ pc' = "hd_check"
    /\ hd' = [hd EXCEPT !.line = line]
    /\ UNCHANGED <<interactive, sigVars, exit_code, fdt, lineVars, tmp,
                   runVars, heapVars, countVars, histVars>>

HeredocUser   == IsOpen(fdt, 0) /\ \E line \in {"body", "delim", "eof"} : HeredocRead(line)
HeredocCutOff == ~IsOpen(fdt, 0) /\ HeredocRead("eof")

\* Mutant: end of file is looked at before g_sig.
Interrupted_EofFirst == gsig = SIGINT /\ hd.line # "eof"

\* The first test after the read: an interrupted read returns no line either.
Interrupted == gsig = SIGINT

\* The tests of heredoc_loop; the write end is closed on leaving.
HeredocCheck ==
    /\ pc = "hd_check"
    /\ IF ~Interrupted /\ hd.line = "body"
       THEN pc' = "hd_read" /\ UNCHANGED <<hd, fdt>>
       ELSE /\ pc' = "hd_restore"
            /\ hd' = [hd EXCEPT !.int = IF Interrupted THEN 1 ELSE 0]
            /\ fdt' = Close(fdt, hd.w)
    /\ UNCHANGED <<interactive, sigVars, exit_code, lineVars, tmp, runVars,
                   heapVars, countVars, histVars>>

\* Mutant: descriptor 0 is put back only when the read was cut off.
HeredocRestore_EofOnly ==
    /\ pc = "hd_restore"
    /\ pc' = "hd_reset"
    /\ fdt' = IF hd.int = 1 /\ hd.line = "eof" THEN Dup2(fdt, hd.saved, 0) ELSE fdt
    /\ UNCHANGED <<interactive, sigVars, exit_code, lineVars, hdVars, runVars,
                   heapVars, countVars, histVars>>

\* if (was_sigint) dup2(saved_in, STDIN_FILENO)
HeredocRestore ==
    /\ pc = "hd_restore"
    /\ pc' = "hd_reset"
    /\ fdt' = IF hd.int = 1 THEN Dup2(fdt, hd.saved, 0) ELSE fdt
    /\ UNCHANGED <<interactive, sigVars, exit_code, lineVars, hdVars, runVars,
                   heapVars, countVars, histVars>>

\* close(saved_in), and sig_set_interactive clears g_sig ...
HeredocReset ==
    /\ pc = "hd_reset"
    /\ pc' = "hd_reinstall"
    /\ fdt' = Close(fdt, hd.saved)
    /\ gsig' = 0
    /\ UNCHANGED <<interactive, handler, exit_code, lineVars, hdVars, runVars,
                   heapVars, countVars, histVars>>

\* Mutant: the path is freed and the file keeps its name.
DropPath_KeepFile == UNCHANGED tmp /\ mem' = mem \ {"path"}

\* unlink(path), free(path): both ways out of heredoc_fd.
DropPath == tmp' = tmp - 1 /\ mem' = mem \ {"path"}

\* ... and installs readline's handler; an interrupted document ends here.
HeredocReinstall ==
    /\ pc = "hd_reinstall"
    /\ handler' = "interactive"
    /\ IF hd.int = 1
       THEN /\ pc' = "gather_fail"
            /\ DropPath
            /\ exit_code' = 130
       ELSE pc' = "hd_reopen" /\ UNCHANGED <<tmp, mem, exit_code>>
    /\ UNCHANGED <<interactive, gsig, fdt, lineVars, hd, runVars, cur_mem,
                   cur_input, countVars, histVars>>

\* The file is opened for reading, then its name is removed.
HeredocReopen ==
    /\ pc = "hd_reopen"
    /\ \/ /\ NextFd(fdt) # NoFd
          /\ pc' = "gather"
          /\ hfd' = [hfd EXCEPT ![k] = NextFd(fdt)]
          /\ fdt' = Open(fdt, "tmp_r")
          /\ k' = k + 1
       \/ /\ pc' = "gather_fail"
          /\ UNCHANGED <<hfd, fdt, k>>
    /\ DropPath
    /\ UNCHANGED <<interactive, sigVars, exit_code, todo, cur, hd, runVars,
                   cur_mem, cur_input, countVars, histVars>>

\* Mutant: only the last redirect's descriptor is closed.
HeldByHeredocs_Last == {f \in Fds : hfd # <<>> /\ hfd[Len(hfd)] = f}

\* The descriptors close_pipeline_heredocs closes.
HeldByHeredocs == {f \in Fds : \E r \in DOMAIN hfd : hfd[r] = f}

\* gather_heredocs returns -1: close_pipeline_heredocs, and exec_pipeline
\* returns sh->exit_code as it is.
GatherFail ==
    /\ pc = "gather_fail"
    /\ pc' = "x_reset"
    /\ fdt' = CloseAll(fdt, HeldByHeredocs)
    /\ hfd' = [r \in DOMAIN hfd |-> NoFd]
    /\ ret' = exit_code
    /\ UNCHANGED <<interactive, sigVars, exit_code, todo, cur, k, hdVars,
                   save, heapVars, countVars, histVars>>

---------------------------------------------------------------------------
(* The pipeline runs: in the shell itself ...                              *)

\* exec_single_parent: the standard descriptors are saved first.
SaveStdio ==
    /\ Gathered /\ IsParentBuiltin(cur)
    /\ pc' = "apply"
    /\ k' = 1
    /\ LET t == Dup(fdt, 0)
       IN /\ save' = [in |-> DupFd(fdt, 0), out |-> DupFd(t, 1)]
          /\ fdt' = Dup(t, 1)
    /\ IF NoFd \in {save'.in, save'.out} THEN Spoil("nofd") ELSE UNCHANGED spoiled
    /\ UNCHANGED <<interactive, sigVars, exit_code, todo, cur, hfd, hdVars,
                   ret, heapVars, countVars, intr>>

\* A command that is only redirects: nothing is saved.
RedirectOnly ==
    /\ Gathered /\ IsRedirectOnly(cur)
    /\ pc' = "apply"
    /\ k' = 1
    /\ IF cur.redirs = <<>> THEN UNCHANGED spoiled ELSE Spoil("bare")
    /\ UNCHANGED <<interactive, sigVars, exit_code, fdt, todo, cur, hfd,
                   hdVars, runVars, heapVars, countVars, intr>>

FileOf(r) == IF r = "in" THEN "infile" ELSE "outfile"

\* Mutant: a here-document is taken for an output redirect.
TargetOf_OnlyIn(r) == IF r = "in" THEN 0 ELSE 1

\* Which standard descriptor a redirect replaces.
TargetOf(r) == IF r = "out" THEN 1 ELSE 0

\* apply_redirects, one redirect: open it (a here-document is open already),
\* put it in place, close the first descriptor.
ApplyRedirect ==
    /\ pc = "apply" /\ k <= Len(cur.redirs)
    /\ LET r    == cur.redirs[k]
           held == r = "heredoc"
           fd   == IF held THEN hfd[k] ELSE NextFd(fdt)
           t    == IF held THEN fdt ELSE Open(fdt, FileOf(r))
       IN \/ /\ fd # NoFd
             /\ k' = k + 1
             /\ fdt' = Close(Dup2(t, fd, TargetOf(r)), fd)
             /\ UNCHANGED <<pc, ret, spoiled>>
          \/ /\ ~held \/ fd = NoFd
             /\ ret' = IF held /\ exit_code = 130 THEN 130 ELSE 1
             /\ pc' = IF IsParentBuiltin(cur) THEN "p_restore" ELSE "x_check"
             /\ IF \E j \in DOMAIN cur.redirs : j > k /\ cur.redirs[j] = "heredoc"
                THEN Spoil("failed") ELSE UNCHANGED spoiled
             /\ UNCHANGED <<k, fdt>>
    /\ UNCHANGED <<interactive, sigVars, exit_code, todo, cur, hfd, hdVars,
                   save, heapVars, countVars, intr>>

ApplyDone ==
    /\ pc = "apply" /\ k > Len(cur.redirs)
    /\ ret' = 0
    /\ pc' = IF IsParentBuiltin(cur) THEN "p_run" ELSE "x_check"
    /\ UNCHANGED <<interactive, sigVars, exit_code, fdt, lineVars, hdVars,
                   save, heapVars, countVars, histVars>>

\* Mutant: ret is returned as run_builtin gave it, -1 included.
BuiltinStatus_Raw == IF cur.argv = "exit" THEN {1, -1} ELSE Outcomes

BuiltinStatus == IF cur.argv = "exit" THEN {1} ELSE Outcomes

\* run_builtin, returning: cd, export, unset, and exit with too many words.
RunBuiltin ==
    /\ pc = "p_run"
    /\ pc' = "p_restore"
    /\ ret' \in BuiltinStatus
    /\ UNCHANGED <<interactive, sigVars, exit_code, fdt, lineVars, hdVars,
                   save, heapVars, countVars, histVars>>

\* bi_exit otherwise: clean_exit.
ExitBuiltin ==
    /\ pc = "p_run" /\ cur.argv = "exit"
    /\ pc' = "exited"
    /\ mem' = Cleanup
    /\ UNCHANGED <<interactive, sigVars, exit_code, fdt, lineVars, hdVars,
                   runVars, cur_mem, cur_input, countVars, histVars>>

\* Mutant: standard output is not put back.
Restored_InputOnly(t) == Dup2(t, save.in, 0)

\* The saved descriptors back in place; a failed dup() left nothing to copy.
Restored(t) == Dup2(Dup2(t, save.in, 0), save.out, 1)

\* Mutant: out_save is not closed.
RestoreStdio_KeepOut ==
    /\ pc = "p_restore"
    /\ pc' = "x_check"
    /\ fdt' = Close(Restored(fdt), save.in)
    /\ UNCHANGED <<interactive, sigVars, exit_code, lineVars, hdVars, runVars,
                   heapVars, countVars, histVars>>

RestoreStdio ==
    /\ pc = "p_restore"
    /\ pc' = "x_check"
    /\ fdt' = Close(Close(Restored(fdt), save.in), save.out)
    /\ UNCHANGED <<interactive, sigVars, exit_code, lineVars, hdVars, runVars,
                   heapVars, countVars, histVars>>

---------------------------------------------------------------------------
(* ... or in children: exec_forked_pipeline, as its parent sees it         *)

\* Mutant: exec_forked_pipeline relies on exec_pipeline's handler.
ExecForked_KeepHandler ==
    /\ Gathered /\ ~IsParentBuiltin(cur) /\ ~IsRedirectOnly(cur)
    /\ pc' = "f_fork"
    /\ mem' = mem \cup {"pids"}
    /\ UNCHANGED <<interactive, sigVars, exit_code, fdt, lineVars, hdVars,
                   runVars, cur_mem, cur_input, countVars, histVars>>

\* The pids are allocated; the handler heredoc_fd left is replaced.
ExecForked ==
    /\ Gathered /\ ~IsParentBuiltin(cur) /\ ~IsRedirectOnly(cur)
    /\ pc' = "f_fork"
    /\ mem' = mem \cup {"pids"}
    /\ handler' = "exec"
    /\ UNCHANGED <<interactive, gsig, exit_code, fdt, lineVars, hdVars,
                   runVars, cur_mem, cur_input, countVars, histVars>>

\* fork_all: the parent keeps no pipe end, unless a later pipe() fails and the
\* read end of the one before stays open.
ForkAll ==
    /\ pc = "f_fork"
    /\ \/ pc' = "f_close" /\ UNCHANGED <<fdt, ret, mem, spoiled>>
       \/ /\ cur.count > 1
          /\ \/ UNCHANGED fdt
             \/ /\ cur.count > 2
                /\ \E f \in {g \in Fds : fdt[g] = Closed} :
                       fdt' = [fdt EXCEPT ![f] = "pipe"]
          /\ pc' = "x_check"
          /\ ret' = 1
          /\ mem' = mem \ {"pids"}
          /\ Spoil("failed")
    /\ UNCHANGED <<interactive, sigVars, exit_code, lineVars, hdVars, save,
                   cur_mem, cur_input, countVars, intr>>

\* close_pipeline_heredocs, in the parent, after the forks.
CloseHeredocs ==
    /\ pc = "f_close"
    /\ pc' = "f_wait"
    /\ fdt' = CloseAll(fdt, HeldByHeredocs)
    /\ hfd' = [r \in DOMAIN hfd |-> NoFd]
    /\ UNCHANGED <<interactive, sigVars, exit_code, todo, cur, k, hdVars,
                   runVars, heapVars, countVars, histVars>>

\* wait_all, when the children have ended; EINTR only repeats it.
WaitAll ==
    /\ pc = "f_wait"
    /\ pc' = "f_reset"
    /\ ret' \in Outcomes
    /\ mem' = mem \ {"pids"}
    /\ UNCHANGED <<interactive, sigVars, exit_code, fdt, lineVars, hdVars,
                   save, cur_mem, cur_input, countVars, histVars>>

\* The end of exec_pipeline: a recorded SIGINT makes the status 130.
CheckSignal ==
    /\ pc = "x_check"
    /\ pc' = "x_reset"
    /\ ret' = IF gsig = SIGINT THEN 130 ELSE ret
    /\ UNCHANGED <<interactive, sigVars, exit_code, fdt, lineVars, hdVars,
                   save, heapVars, countVars, histVars>>

---------------------------------------------------------------------------
(* SIGINT, between any two steps: the handlers of signal/                  *)

Live == pc \notin {"exited", "killed"}

Deliver == Live /\ sigs < MaxSig /\ sigs' = sigs + 1

\* No handler: the process dies.
SigintDefault ==
    /\ Deliver /\ handler = "default"
    /\ pc' = "killed"
    /\ UNCHANGED <<interactive, sigVars, exit_code, fdt, lineVars, hdVars,
                   runVars, heapVars, inputs, histVars>>

\* sig_handler_interactive and sig_handler_exec: g_sig is set (the first one
\* then calls into readline, which leaves what is modelled alone).
SigintRecord ==
    /\ Deliver /\ handler \in {"interactive", "exec"}
    /\ gsig' = SIGINT
    /\ UNCHANGED <<interactive, pc, handler, exit_code, fdt, lineVars, hdVars,
                   runVars, heapVars, inputs, histVars>>

\* The here-document is still being read, or its standard input is yet to be
\* put back: a close(STDIN_FILENO) here is one heredoc_fd() will undo.
InReach == pc \in {"hd_read", "hd_check"} \/ (pc = "hd_restore" /\ hd.int = 1)

\* Mutant: the handler only sets g_sig, and the read goes on.
CutInput_Restart(t) == t

\* close(STDIN_FILENO), so that a read in progress fails.
CutInput(t) == Close(t, 0)

\* sig_handler_heredoc: g_sig is set and descriptor 0 closed.
SigintHeredoc ==
    /\ Deliver /\ handler = "heredoc"
    /\ gsig' = SIGINT
    /\ fdt' = CutInput(fdt)
    /\ IF InReach
       THEN intr' = "loop" /\ UNCHANGED spoiled
       ELSE /\ intr' = IF hd.int = 1 THEN intr ELSE "late"
            /\ Spoil("late")
    /\ UNCHANGED <<interactive, pc, handler, exit_code, lineVars, hdVars,
                   runVars, heapVars, inputs>>

Sigint == SigintDefault \/ SigintRecord \/ SigintHeredoc

---------------------------------------------------------------------------
(* The specification                                                       *)

\* Steps the shell takes by itself, once it is scheduled.
Step ==
    \/ ClearSignal \/ InstallHandler \/ CheckInput \/ BeginSegment
    \/ EndInput \/ Leave \/ LexLine \/ ParsePipeline \/ ExpandPipeline
    \/ ExecPipeline \/ GatherNext \/ HeredocOpen \/ HeredocDup
    \/ HeredocInstall \/ HeredocCutOff \/ HeredocCheck \/ HeredocRestore
    \/ HeredocReset \/ HeredocReinstall \/ HeredocReopen \/ GatherFail
    \/ SaveStdio \/ RedirectOnly \/ ApplyRedirect \/ ApplyDone \/ RunBuiltin
    \/ ExitBuiltin \/ RestoreStdio \/ ExecForked \/ ForkAll \/ CloseHeredocs
    \/ CheckSignal \/ FinishLine

\* Steps that wait for the user or for a child: nothing makes them happen.
Await == ReadPrompt \/ HeredocUser \/ WaitAll

Terminated == ~Live /\ UNCHANGED vars

Next == Step \/ Await \/ Sigint \/ Terminated

Spec == Init /\ [][Next]_vars /\ WF_vars(Step)

---------------------------------------------------------------------------
(* Properties                                                              *)

HdType == [w : Fds \cup {NoFd}, saved : Fds \cup {NoFd},
           line : {"none", "body", "delim", "eof"}, int : {0, 1}]

SaveType == [in : Fds \cup {NoFd}, out : Fds \cup {NoFd}]

\* Every variable has its type.
TypeOK ==
    /\ interactive \in BOOLEAN
    /\ pc \in Pcs
    /\ gsig \in {0, SIGINT} /\ handler \in Handlers
    /\ exit_code \in Statuses /\ ret \in Statuses
    /\ fdt \in Tables
    /\ todo \in Seq(Lines) /\ cur \in Lines \cup {NoLine}
    /\ k \in Nat \ {0} /\ hfd \in Seq(Fds \cup {NoFd})
    /\ hd \in HdType
    /\ tmp \in Int
    /\ save \in SaveType
    /\ mem \subseteq Objects /\ cur_mem \in {NULL, "exp"} /\ cur_input \in {NULL, "input"}
    /\ inputs \in 0..MaxInputs /\ sigs \in 0..MaxSig
    /\ intr \in {"none", "loop", "late"}
    /\ spoiled \subseteq Spoilers

AtPrompt == pc \in {"top", "install", "read", "check", "segment"}

\* Between lines the shell has its own standard descriptors back, whatever the
\* redirects, the interrupted here-documents and the failed opens of the lines
\* before: exec_single_parent and heredoc_fd undo what they did.  The three
\* ways to lose one are set apart.
StdioRestored ==
    AtPrompt /\ spoiled \subseteq {"failed"} =>
        \A f \in 0..2 : fdt[f] = Standard[f]

\* Between lines no other descriptor is open: the saved ones, the ends of the
\* temporary files and of the pipes are all closed, after an interrupted or
\* failed here-document too, and also where a late SIGINT, redirects alone or a
\* dup() with nothing to return cost the shell a standard one.
NoDescriptorLeak ==
    AtPrompt /\ "failed" \notin spoiled => \A f \in Fds : f > 2 => fdt[f] = Closed

\* A standard descriptor may be replaced for good, by redirects alone or because
\* its dup() failed, but it is never left closed, which the next prompt would
\* take for the end of input: closing descriptor 0 is undone wherever in a
\* here-document the SIGINT came.  Set apart are the late SIGINT of the findings,
\* and a SIGINT where dup() had nothing to save descriptor 0 in.
StdioNeverClosed ==
    AtPrompt /\ "late" \notin spoiled /\ ("nofd" \in spoiled => sigs = 0) =>
        \A f \in 0..2 : IsOpen(fdt, f)

\* A line that fails half-way, at any open, dup or pipe, leaves open at most
\* here-documents it had not come to and the read end of a pipe: never a saved
\* standard descriptor, a redirect's file or the write end of a temporary file.
LeaksOnlyReadEnds ==
    AtPrompt =>
        \A f \in Fds : f > 2 => fdt[f] \in {Closed, "tmp_r", "pipe"}

LastOf(kinds) ==
    LET rs == {r \in DOMAIN cur.redirs : cur.redirs[r] \in kinds}
    IN {r \in rs : \A s \in rs : s <= r}

\* A builtin run by the shell sees its redirects: of several for one descriptor
\* the last one in the line wins, here-documents, collected before all others,
\* included.
RedirectsInForce ==
    pc = "p_run" /\ spoiled \subseteq {"failed"} =>
        /\ fdt[1] = IF LastOf({"out"}) = {} THEN "stdout" ELSE "outfile"
        /\ LET last == LastOf({"in", "heredoc"})
           IN /\ last = {} => fdt[0] = "stdin"
              /\ \A r \in last : fdt[0] = IF cur.redirs[r] = "in" THEN "infile"
                                                                  ELSE "tmp_r"

\* No here-document leaves its file in /tmp: it has no name once the document
\* is collected, cut short or given up, nor when the process ends, of a SIGINT
\* included: a non-interactive shell must not be killed in the middle.
HeredocTempRemoved ==
    AtPrompt \/ ~Live \/ Gathered => tmp = 0

\* While children may run, SIGINT is only recorded: it neither kills the shell
\* that has to wait for them nor redraws a prompt over their output, although
\* heredoc_fd() just before leaves another handler behind.
ForkedUnderRecorder ==
    pc \in {"f_fork", "f_close", "f_wait"} => handler = "exec"

\* What shell_cleanup would free is always allocated, and between lines and
\* inputs nothing else is: a builtin may exit at any line.
OwnershipConsistent ==
    /\ Live => {cur_mem, cur_input} \subseteq mem \cup {NULL}
    /\ pc \in {"top", "install", "read"} => mem = {"env"} /\ cur_input = NULL
    /\ pc = "segment" => mem = {"env", "input"} /\ cur_mem = NULL

\* A shell that exits, from the loop or from the exit builtin in the middle of
\* a line, has freed all it allocated.
NothingLeakedAtExit == pc = "exited" => mem = {}

\* Ctrl-C while a here-document is read makes the line's status 130.
HeredocInterruptStatus == pc = "segment" /\ intr = "loop" => exit_code = 130

\* Ctrl-C while a here-document is read brings the prompt back although the
\* user types nothing more: the read is cut off, not restarted.
HeredocInterruptReturns ==
    handler = "heredoc" /\ intr = "loop" ~> pc = "segment"

\* The loop implements Repl.
ReplMode ==
    CASE AtPrompt -> "prompt"
      [] pc \in {"leave", "exited"} -> "gone"
      [] pc = "killed" -> "killed"
      [] OTHER -> "line"

R == INSTANCE Repl WITH tty    <- interactive,
                        mode   <- ReplMode,
                        status <- exit_code,
                        line   <- cur,
                        cut    <- hd.int = 1,
                        armed  <- interactive /\ handler # "default"

\* Every behaviour of the loop is one that Repl allows: see there.
ImplementsRepl == R!ReplSpec

---------------------------------------------------------------------------
(* What the repository's documents say, and the code does not do           *)

\* docs/heredoc_signal_refactor.md: Ctrl-C in a here-document always gives 130,
\* so also when it comes after the last line was read.
LateInterruptStatus == pc = "segment" /\ intr # "none" => exit_code = 130

\* signal-fix-report.md: no command runs under the handler that calls readline.
CommandsUnderRecorder ==
    pc \in {"apply", "p_run", "p_restore", "f_fork", "f_close", "f_wait"}
        => handler # "interactive"
=============================================================================
