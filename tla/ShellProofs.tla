---------------------------- MODULE ShellProofs ----------------------------
(***************************************************************************)
(* Theorems about Shell, for every set of lines and inputs, every bound    *)
(* and every size of the descriptor table.                                 *)
(***************************************************************************)
EXTENDS Shell, TLAPS

---------------------------------------------------------------------------
(* The descriptor table: what the calls return, and what they leave alone  *)

\* A new descriptor is a free one, or there is none.
LEMMA NextFdIsFree ==
    ASSUME NEW t \in Tables
    PROVE  /\ NextFd(t) \in Fds \cup {NoFd}
           /\ NextFd(t) # NoFd => NextFd(t) \in Fds /\ t[NextFd(t)] = Closed
<1>1. Lowest(t) \subseteq {f \in Fds : t[f] = Closed}
  BY DEF Lowest
<1>2. CASE Lowest(t) = {}
  BY <1>2 DEF NextFd
<1>3. CASE Lowest(t) # {}
  <2>1. (CHOOSE f \in Lowest(t) : TRUE) \in Lowest(t)
    BY <1>3
  <2> QED  BY <1>1, <1>3, <2>1 DEF NextFd
<1> QED  BY <1>2, <1>3

\* Every call leads from tables to tables.
LEMMA FdTableTypes ==
    ASSUME NEW t \in Tables
    PROVE  /\ \A file \in Files : Open(t, file) \in Tables
           /\ \A f \in Fds \cup {NoFd} : /\ Dup(t, f) \in Tables
                                         /\ DupFd(t, f) \in Fds \cup {NoFd}
                                         /\ \A g \in Fds : Dup2(t, f, g) \in Tables
                                         /\ Close(t, f) \in Tables
           /\ \A S : CloseAll(t, S) \in Tables
<1>1. NextFd(t) \in Fds \cup {NoFd}
  BY NextFdIsFree
<1>2. \A file \in Files : Open(t, file) \in Tables
  BY <1>1 DEF Open, Tables
<1>3. ASSUME NEW f \in Fds \cup {NoFd}
      PROVE  Dup(t, f) \in Tables /\ DupFd(t, f) \in Fds \cup {NoFd}
  <2>1. CASE IsOpen(t, f)
    <3>1. f \in Fds /\ t[f] \in Files
      BY <2>1 DEF IsOpen, Tables
    <3> QED  BY <1>1, <1>2, <2>1, <3>1 DEF Dup, DupFd
  <2>2. CASE ~IsOpen(t, f)
    BY <2>2 DEF Dup, DupFd
  <2> QED  BY <2>1, <2>2
<1>4. ASSUME NEW f \in Fds \cup {NoFd}, NEW g \in Fds
      PROVE  Dup2(t, f, g) \in Tables
  BY DEF Dup2, IsOpen, Tables
<1>5. ASSUME NEW f \in Fds \cup {NoFd}
      PROVE  Close(t, f) \in Tables
  BY DEF Close, Tables
<1>6. ASSUME NEW S
      PROVE  CloseAll(t, S) \in Tables
  BY DEF CloseAll, Tables
<1> QED  BY <1>2, <1>3, <1>4, <1>5, <1>6

\* The table of a process that opened nothing.
LEMMA StandardIsTable == Standard \in Tables
  BY MaxFdAssumption DEF Standard, Tables, Files, Fds

---------------------------------------------------------------------------
(* Type correctness                                                        *)

\* The standard descriptors are descriptors.
LEMMA StdFds == {0, 1, 2} \subseteq Fds /\ NoFd \notin Fds
  BY MaxFdAssumption DEF Fds, NoFd

\* A line that is being run has the type of a line.
LEMMA CurType == TypeOK => cur \in LineType
<1>1. NoLine \in LineType
  BY DEF NoLine, LineType, Redirects
<1> QED  BY <1>1, ConstantsAssumption DEF TypeOK

LEMMA TypeInit == Init => TypeOK
<1> SUFFICES ASSUME Init PROVE TypeOK
  OBVIOUS
<1>1. hd \in HdType /\ save \in SaveType
  BY DEF Init, NoHeredoc, HdType, SaveType
<1>2. exit_code \in Statuses /\ ret \in Statuses
  BY DEF Init, Statuses
<1>3. mem \subseteq Objects /\ pc \in Pcs /\ handler \in Handlers
  BY DEF Init, Objects, Pcs, Handlers
<1> QED  BY <1>1, <1>2, <1>3, StandardIsTable, ConstantsAssumption DEF Init, TypeOK

LEMMA TypeNext == TypeOK /\ [Next]_vars => TypeOK'
<1> SUFFICES ASSUME TypeOK, [Next]_vars PROVE TypeOK'
  OBVIOUS
<1> USE ConstantsAssumption, CurType
    DEF TypeOK, vars, sigVars, lineVars, hdVars, runVars, heapVars, countVars,
        histVars
<1>1. CASE ClearSignal
  BY <1>1 DEF ClearSignal, Pcs
<1>2. CASE InstallHandler
  BY <1>2 DEF InstallHandler, Pcs, Handlers, Disposition
<1>3. CASE ReadPrompt
  <2>1. mem' \subseteq Objects /\ todo' \in Seq(Lines)
    BY <1>3 DEF ReadPrompt, Objects
  <2>2. inputs' \in 0..MaxInputs
    BY <1>3 DEF ReadPrompt
  <2> QED  BY <1>3, <2>1, <2>2 DEF ReadPrompt, Pcs
<1>4. CASE CheckInput
  BY <1>4 DEF CheckInput, Pcs, Statuses
<1>5. CASE BeginSegment
  <2>1. hd' \in HdType
    BY <1>5 DEF BeginSegment, NoHeredoc, HdType
  <2>2. mem' \subseteq Objects
    BY <1>5 DEF BeginSegment, Objects
  <2>3. cur' \in Lines /\ todo' \in Seq(Lines)
    BY <1>5 DEF BeginSegment
  <2> QED  BY <1>5, <2>1, <2>2, <2>3 DEF BeginSegment, Pcs
<1>6. CASE EndInput
  BY <1>6 DEF EndInput, Pcs, Objects
<1>7. CASE Leave
  <2>1. mem' \subseteq Objects
    BY <1>7 DEF Leave, Cleanup
  <2> QED  BY <1>7, <2>1 DEF Leave, Pcs
<1>8. CASE LexLine
  <2>1. exit_code' \in Statuses
    BY <1>8 DEF LexLine, Abandon, Statuses
  <2>2. pc' \in Pcs
    BY <1>8 DEF LexLine, Abandon, Pcs
  <2>3. mem' \subseteq Objects
    BY <1>8 DEF LexLine, Abandon, Objects
  <2>4. cur_mem' \in {NULL, "exp"}
    BY <1>8 DEF LexLine, Abandon
  <2> QED  BY <1>8, <2>1, <2>2, <2>3, <2>4 DEF LexLine
<1>9. CASE ParsePipeline
  <2>1. exit_code' \in Statuses
    BY <1>9 DEF ParsePipeline, Abandon, Statuses
  <2>2. pc' \in Pcs
    BY <1>9 DEF ParsePipeline, Abandon, Pcs
  <2>3. mem' \subseteq Objects
    BY <1>9 DEF ParsePipeline, Abandon, Objects
  <2>4. cur_mem' \in {NULL, "exp"}
    BY <1>9 DEF ParsePipeline, Abandon
  <2> QED  BY <1>9, <2>1, <2>2, <2>3, <2>4 DEF ParsePipeline
<1>10. CASE ExpandPipeline
  <2>1. exit_code' \in Statuses
    BY <1>10 DEF ExpandPipeline, Abandon, Statuses
  <2>2. pc' \in Pcs
    BY <1>10 DEF ExpandPipeline, Abandon, Pcs
  <2>3. mem' \subseteq Objects
    BY <1>10 DEF ExpandPipeline, Abandon, Objects
  <2>4. cur_mem' \in {NULL, "exp"}
    BY <1>10 DEF ExpandPipeline, Abandon
  <2> QED  BY <1>10, <2>1, <2>2, <2>3, <2>4 DEF ExpandPipeline
<1>11. CASE FinishLine
  BY <1>11 DEF FinishLine, Pcs
<1>12. CASE ExecPipeline
  BY <1>12 DEF ExecPipeline, Pcs, Handlers, LineType
<1>13. CASE GatherNext
  BY <1>13 DEF GatherNext
<1>14. CASE HeredocOpen
  <2>1. fdt' \in Tables /\ NextFd(fdt) \in Fds \cup {NoFd}
    BY <1>14, FdTableTypes, NextFdIsFree DEF HeredocOpen, Files
  <2>2. hd' \in HdType
    BY <1>14, <2>1 DEF HeredocOpen, HdType, NoHeredoc
  <2>3. mem' \subseteq Objects /\ tmp' \in Int
    BY <1>14 DEF HeredocOpen, Objects
  <2>4. pc' \in Pcs
    BY <1>14 DEF HeredocOpen, Pcs
  <2> QED  BY <1>14, <2>1, <2>2, <2>3, <2>4 DEF HeredocOpen
<1>15. CASE HeredocDup
  <2>1. fdt' \in Tables /\ DupFd(fdt, 0) \in Fds \cup {NoFd}
    BY <1>15, FdTableTypes, StdFds DEF HeredocDup
  <2>2. hd' \in HdType
    BY <1>15, <2>1 DEF HeredocDup, HdType
  <2>3. spoiled' \subseteq Spoilers
    BY <1>15 DEF HeredocDup, Spoil, Spoilers
  <2> QED  BY <1>15, <2>1, <2>2, <2>3 DEF HeredocDup, Pcs
<1>16. CASE HeredocInstall
  BY <1>16 DEF HeredocInstall, Pcs, Handlers
<1>17. CASE HeredocUser
  <2>1. hd' \in HdType
    BY <1>17 DEF HeredocUser, HeredocRead, HdType
  <2> QED  BY <1>17, <2>1 DEF HeredocUser, HeredocRead, Pcs
<1>18. CASE HeredocCutOff
  <2>1. hd' \in HdType
    BY <1>18 DEF HeredocCutOff, HeredocRead, HdType
  <2> QED  BY <1>18, <2>1 DEF HeredocCutOff, HeredocRead, Pcs
<1>19. CASE HeredocCheck
  <2>1. hd' \in HdType
    BY <1>19 DEF HeredocCheck, HdType
  <2>2. fdt' \in Tables
    BY <1>19, FdTableTypes DEF HeredocCheck, HdType
  <2>3. pc' \in Pcs
    BY <1>19 DEF HeredocCheck, Pcs
  <2> QED  BY <1>19, <2>1, <2>2, <2>3 DEF HeredocCheck
<1>20. CASE HeredocRestore
  <2>1. fdt' \in Tables
    BY <1>20, FdTableTypes, StdFds DEF HeredocRestore, HdType
  <2> QED  BY <1>20, <2>1 DEF HeredocRestore, Pcs
<1>21. CASE HeredocReset
  <2>1. fdt' \in Tables
    BY <1>21, FdTableTypes DEF HeredocReset, HdType
  <2> QED  BY <1>21, <2>1 DEF HeredocReset, Pcs
<1>22. CASE HeredocReinstall
  <2>1. exit_code' \in Statuses
    BY <1>22 DEF HeredocReinstall, Statuses
  <2>2. pc' \in Pcs
    BY <1>22 DEF HeredocReinstall, Pcs
  <2>3. mem' \subseteq Objects /\ tmp' \in Int
    BY <1>22 DEF HeredocReinstall, DropPath
  <2> QED  BY <1>22, <2>1, <2>2, <2>3 DEF HeredocReinstall, Handlers
<1>23. CASE HeredocReopen
  <2>1. fdt' \in Tables /\ NextFd(fdt) \in Fds \cup {NoFd}
    BY <1>23, FdTableTypes, NextFdIsFree DEF HeredocReopen, Files
  <2>2. hfd' \in Seq(Fds \cup {NoFd})
    BY <1>23, <2>1 DEF HeredocReopen
  <2>3. mem' \subseteq Objects /\ tmp' \in Int
    BY <1>23 DEF HeredocReopen, DropPath
  <2>4. pc' \in Pcs /\ k' \in Nat \ {0}
    BY <1>23 DEF HeredocReopen, Pcs
  <2> QED  BY <1>23, <2>1, <2>2, <2>3, <2>4 DEF HeredocReopen
<1>24. CASE GatherFail
  <2>1. fdt' \in Tables
    BY <1>24, FdTableTypes DEF GatherFail
  <2>2. hfd' \in Seq(Fds \cup {NoFd})
    BY <1>24 DEF GatherFail
  <2> QED  BY <1>24, <2>1, <2>2 DEF GatherFail, Pcs
<1>25. CASE SaveStdio
  <2>1. Dup(fdt, 0) \in Tables /\ DupFd(fdt, 0) \in Fds \cup {NoFd}
    BY <1>25, FdTableTypes, StdFds
  <2>2. DupFd(Dup(fdt, 0), 1) \in Fds \cup {NoFd} /\ fdt' \in Tables
    BY <1>25, <2>1, FdTableTypes, StdFds DEF SaveStdio
  <2>3. save' \in SaveType
    BY <1>25, <2>1, <2>2 DEF SaveStdio, SaveType
  <2>4. spoiled' \subseteq Spoilers
    BY <1>25 DEF SaveStdio, Spoil, Spoilers
  <2> QED  BY <1>25, <2>1, <2>2, <2>3, <2>4 DEF SaveStdio, Pcs
<1>26. CASE RedirectOnly
  <2>1. spoiled' \subseteq Spoilers
    BY <1>26 DEF RedirectOnly, Spoil, Spoilers
  <2> QED  BY <1>26, <2>1 DEF RedirectOnly, Pcs
<1>27. CASE ApplyRedirect
  <2> DEFINE r    == cur.redirs[k]
             held == r = "heredoc"
             fd   == IF held THEN hfd[k] ELSE NextFd(fdt)
             t    == IF held THEN fdt ELSE Open(fdt, FileOf(r))
  <2>1. t \in Tables /\ fd \in {fd} /\ TargetOf(r) \in Fds
    BY FdTableTypes, StdFds DEF FileOf, Files, TargetOf
  <2>2. CASE /\ fd # NoFd
             /\ fdt' = Close(Dup2(t, fd, TargetOf(r)), fd)
             /\ k' = k + 1
             /\ UNCHANGED <<pc, ret, spoiled>>
    <3>1. Dup2(t, fd, TargetOf(r)) \in Tables
      BY <2>1 DEF Dup2, IsOpen, Tables
    <3>2. fdt' \in Tables
      BY <2>2, <3>1 DEF Close, Tables
    <3> QED  BY <1>27, <2>2, <3>2 DEF ApplyRedirect
  <2>3. CASE /\ ret' = IF held /\ exit_code = 130 THEN 130 ELSE 1
             /\ pc' = IF IsParentBuiltin(cur) THEN "p_restore" ELSE "x_check"
             /\ IF \E j \in DOMAIN cur.redirs : j > k /\ cur.redirs[j] = "heredoc"
                THEN Spoil("failed") ELSE UNCHANGED spoiled
             /\ UNCHANGED <<k, fdt>>
    <3>1. ret' \in Statuses
      BY <2>3 DEF Statuses
    <3>2. pc' \in Pcs
      BY <2>3 DEF Pcs
    <3>3. spoiled' \subseteq Spoilers
      BY <2>3 DEF Spoil, Spoilers
    <3> QED  BY <1>27, <2>3, <3>1, <3>2, <3>3 DEF ApplyRedirect
  <2> QED  BY <1>27, <2>2, <2>3 DEF ApplyRedirect
<1>28. CASE ApplyDone
  BY <1>28 DEF ApplyDone, Pcs, Statuses
<1>29. CASE RunBuiltin
  BY <1>29 DEF RunBuiltin, Pcs, BuiltinStatus, Statuses
<1>30. CASE ExitBuiltin
  <2>1. mem' \subseteq Objects
    BY <1>30 DEF ExitBuiltin, Cleanup
  <2> QED  BY <1>30, <2>1 DEF ExitBuiltin, Pcs
<1>31. CASE RestoreStdio
  <2>1. Restored(fdt) \in Tables
    BY <1>31, FdTableTypes, StdFds DEF Restored, SaveType
  <2>2. fdt' \in Tables
    BY <1>31, <2>1, FdTableTypes DEF RestoreStdio, SaveType
  <2> QED  BY <1>31, <2>1, <2>2 DEF RestoreStdio, Pcs
<1>32. CASE ExecForked
  BY <1>32 DEF ExecForked, Pcs, Handlers, Objects
<1>33. CASE ForkAll
  <2>1. fdt' \in Tables
    BY <1>33 DEF ForkAll, Tables, Files
  <2>2. ret' \in Statuses
    BY <1>33 DEF ForkAll, Statuses
  <2>3. pc' \in Pcs
    BY <1>33 DEF ForkAll, Pcs
  <2>4. mem' \subseteq Objects
    BY <1>33 DEF ForkAll
  <2>5. spoiled' \subseteq Spoilers
    BY <1>33 DEF ForkAll, Spoil, Spoilers
  <2> QED  BY <1>33, <2>1, <2>2, <2>3, <2>4, <2>5 DEF ForkAll
<1>34. CASE CloseHeredocs
  <2>1. fdt' \in Tables
    BY <1>34, FdTableTypes DEF CloseHeredocs
  <2>2. hfd' \in Seq(Fds \cup {NoFd})
    BY <1>34 DEF CloseHeredocs
  <2> QED  BY <1>34, <2>1, <2>2 DEF CloseHeredocs, Pcs
<1>35. CASE WaitAll
  BY <1>35 DEF WaitAll, Pcs, Statuses
<1>36. CASE CheckSignal
  BY <1>36 DEF CheckSignal, Pcs, Statuses
<1>37. CASE SigintDefault
  BY <1>37 DEF SigintDefault, Deliver, Pcs
<1>38. CASE SigintRecord
  BY <1>38 DEF SigintRecord, Deliver
<1>39. CASE SigintHeredoc
  <2>1. fdt' \in Tables
    BY <1>39, FdTableTypes, StdFds DEF SigintHeredoc, CutInput
  <2>2. spoiled' \subseteq Spoilers
    BY <1>39 DEF SigintHeredoc, Spoil, Spoilers
  <2>3. intr' \in {"none", "loop", "late"}
    BY <1>39 DEF SigintHeredoc
  <2> QED  BY <1>39, <2>1, <2>2, <2>3 DEF SigintHeredoc, Deliver
<1>40. CASE UNCHANGED vars
  BY <1>40
<1> HIDE DEF TypeOK
<1> QED
  BY <1>1, <1>2, <1>3, <1>4, <1>5, <1>6, <1>7, <1>8, <1>9, <1>10, <1>11,
     <1>12, <1>13, <1>14, <1>15, <1>16, <1>17, <1>18, <1>19, <1>20,
     <1>21, <1>22, <1>23, <1>24, <1>25, <1>26, <1>27, <1>28, <1>29,
     <1>30, <1>31, <1>32, <1>33, <1>34, <1>35, <1>36, <1>37, <1>38,
     <1>39, <1>40
     DEF Next, Step, Await, Sigint, Terminated

---------------------------------------------------------------------------
(* The control invariant: what is allocated, which handler is installed    *)
(* and whether the temporary file exists follow from where the shell is.   *)

\* heredoc_fd has created its file and not removed it.
HdPcs == {"hd_dup", "hd_install", "hd_read", "hd_check", "hd_restore",
          "hd_reset", "hd_reinstall", "hd_reopen"}

\* The handler that closes descriptor 0 is installed.
CloserPcs == {"hd_read", "hd_check", "hd_restore", "hd_reset", "hd_reinstall"}

\* exec_forked_pipeline holds the pids.
ForkPcs == {"f_fork", "f_close", "f_wait"}

\* sh->cur_mem owns the expansion arena.
RunPcs == {"exec", "gather", "gather_fail", "apply", "p_run", "p_restore",
           "f_reset", "f_install", "x_check", "x_reset", "x_install", "x_done"}
             \cup HdPcs \cup ForkPcs

\* A line is being run.
LinePcs == {"segment", "lex", "parse", "expand"} \cup RunPcs

HeapInv ==
    pc # "killed" =>
        /\ "env"   \in mem <=> pc # "exited"
        /\ "input" \in mem => pc = "check" \/ pc \in LinePcs
        /\ pc \in LinePcs => "input" \in mem
        /\ "lex"   \in mem <=> pc \in {"lex", "parse"}
        /\ "parse" \in mem <=> pc \in {"parse", "expand"}
        /\ "exp"   \in mem <=> pc = "expand" \/ pc \in RunPcs
        /\ "path"  \in mem <=> pc \in HdPcs
        /\ "pids"  \in mem <=> pc \in ForkPcs

OwnerInv ==
    Live => /\ cur_input = IF pc \in LinePcs THEN "input" ELSE NULL
            /\ cur_mem = IF pc \in RunPcs THEN "exp" ELSE NULL

HandlerInv ==
    Live => /\ handler = "heredoc" <=> pc \in CloserPcs
            /\ pc \in {"gather"} \cup HdPcs => handler # "default"
            /\ pc \in {"f_reset", "f_install"} \cup ForkPcs => handler = "exec"

TempInv == tmp = IF pc \in HdPcs THEN 1 ELSE 0

ControlInv == HeapInv /\ OwnerInv /\ HandlerInv /\ TempInv

LEMMA ControlInit == Init => ControlInv
<1> USE DEF Init, HdPcs, CloserPcs, ForkPcs, RunPcs, LinePcs
<1> SUFFICES ASSUME Init PROVE ControlInv
  OBVIOUS
<1>1. HeapInv
  BY DEF HeapInv
<1>2. OwnerInv
  BY DEF OwnerInv
<1>3. HandlerInv /\ TempInv
  BY DEF HandlerInv, TempInv
<1> QED  BY <1>1, <1>2, <1>3 DEF ControlInv

LEMMA ControlNext == TypeOK /\ ControlInv /\ [Next]_vars => ControlInv'
<1> SUFFICES ASSUME TypeOK, ControlInv, [Next]_vars PROVE ControlInv'
  OBVIOUS
<1> USE DEF ControlInv, HdPcs, CloserPcs, ForkPcs, RunPcs, LinePcs, Live,
            sigVars, lineVars, hdVars, runVars, heapVars, countVars, histVars
<1>1. CASE ClearSignal
  BY <1>1 DEF ClearSignal, HeapInv, OwnerInv, HandlerInv, TempInv
<1>2. CASE InstallHandler
  BY <1>2 DEF InstallHandler, Disposition, HeapInv, OwnerInv, HandlerInv, TempInv
<1>3. CASE ReadPrompt
  BY <1>3 DEF ReadPrompt, HeapInv, OwnerInv, HandlerInv, TempInv
<1>4. CASE CheckInput
  BY <1>4 DEF CheckInput, HeapInv, OwnerInv, HandlerInv, TempInv
<1>5. CASE BeginSegment
  BY <1>5 DEF BeginSegment, HeapInv, OwnerInv, HandlerInv, TempInv
<1>6. CASE EndInput
  BY <1>6 DEF EndInput, HeapInv, OwnerInv, HandlerInv, TempInv
<1>7. CASE Leave
  BY <1>7 DEF Leave, Cleanup, HeapInv, OwnerInv, HandlerInv, TempInv
<1>8. CASE LexLine
  BY <1>8 DEF LexLine, Abandon, HeapInv, OwnerInv, HandlerInv, TempInv
<1>9. CASE ParsePipeline
  BY <1>9 DEF ParsePipeline, Abandon, HeapInv, OwnerInv, HandlerInv, TempInv
<1>10. CASE ExpandPipeline
  BY <1>10 DEF ExpandPipeline, Abandon, HeapInv, OwnerInv, HandlerInv, TempInv
<1>11. CASE FinishLine
  BY <1>11 DEF FinishLine, HeapInv, OwnerInv, HandlerInv, TempInv
<1>12. CASE ExecPipeline
  BY <1>12 DEF ExecPipeline, HeapInv, OwnerInv, HandlerInv, TempInv
<1>13. CASE GatherNext
  BY <1>13 DEF GatherNext, HeapInv, OwnerInv, HandlerInv, TempInv
<1>14. CASE HeredocOpen
  BY <1>14 DEF HeredocOpen, AtHeredoc, HeapInv, OwnerInv, HandlerInv, TempInv
<1>15. CASE HeredocDup
  BY <1>15 DEF HeredocDup, HeapInv, OwnerInv, HandlerInv, TempInv
<1>16. CASE HeredocInstall
  BY <1>16 DEF HeredocInstall, HeapInv, OwnerInv, HandlerInv, TempInv
<1>17. CASE HeredocUser
  BY <1>17 DEF HeredocUser, HeredocRead, HeapInv, OwnerInv, HandlerInv, TempInv
<1>18. CASE HeredocCutOff
  BY <1>18 DEF HeredocCutOff, HeredocRead, HeapInv, OwnerInv, HandlerInv, TempInv
<1>19. CASE HeredocCheck
  BY <1>19 DEF HeredocCheck, HeapInv, OwnerInv, HandlerInv, TempInv
<1>20. CASE HeredocRestore
  BY <1>20 DEF HeredocRestore, HeapInv, OwnerInv, HandlerInv, TempInv
<1>21. CASE HeredocReset
  BY <1>21 DEF HeredocReset, HeapInv, OwnerInv, HandlerInv, TempInv
<1>22. CASE HeredocReinstall
  BY <1>22 DEF HeredocReinstall, DropPath, HeapInv, OwnerInv, HandlerInv, TempInv
<1>23. CASE HeredocReopen
  BY <1>23 DEF HeredocReopen, DropPath, HeapInv, OwnerInv, HandlerInv, TempInv
<1>24. CASE GatherFail
  BY <1>24 DEF GatherFail, HeapInv, OwnerInv, HandlerInv, TempInv
<1>25. CASE SaveStdio
  BY <1>25 DEF SaveStdio, Gathered, HeapInv, OwnerInv, HandlerInv, TempInv
<1>26. CASE RedirectOnly
  BY <1>26 DEF RedirectOnly, Gathered, HeapInv, OwnerInv, HandlerInv, TempInv
<1>27. CASE ApplyRedirect
  BY <1>27 DEF ApplyRedirect, HeapInv, OwnerInv, HandlerInv, TempInv
<1>28. CASE ApplyDone
  BY <1>28 DEF ApplyDone, HeapInv, OwnerInv, HandlerInv, TempInv
<1>29. CASE RunBuiltin
  BY <1>29 DEF RunBuiltin, HeapInv, OwnerInv, HandlerInv, TempInv
<1>30. CASE ExitBuiltin
  BY <1>30 DEF ExitBuiltin, Cleanup, HeapInv, OwnerInv, HandlerInv, TempInv
<1>31. CASE RestoreStdio
  BY <1>31 DEF RestoreStdio, HeapInv, OwnerInv, HandlerInv, TempInv
<1>32. CASE ExecForked
  BY <1>32 DEF ExecForked, Gathered, HeapInv, OwnerInv, HandlerInv, TempInv
<1>33. CASE ForkAll
  BY <1>33 DEF ForkAll, HeapInv, OwnerInv, HandlerInv, TempInv
<1>34. CASE CloseHeredocs
  BY <1>34 DEF CloseHeredocs, HeapInv, OwnerInv, HandlerInv, TempInv
<1>35. CASE WaitAll
  BY <1>35 DEF WaitAll, HeapInv, OwnerInv, HandlerInv, TempInv
<1>36. CASE CheckSignal
  BY <1>36 DEF CheckSignal, HeapInv, OwnerInv, HandlerInv, TempInv
<1>37. CASE SigintDefault
  BY <1>37 DEF SigintDefault, Deliver, Live, HeapInv, OwnerInv, HandlerInv, TempInv
<1>38. CASE SigintRecord
  BY <1>38 DEF SigintRecord, Deliver, Live, HeapInv, OwnerInv, HandlerInv, TempInv
<1>39. CASE SigintHeredoc
  BY <1>39 DEF SigintHeredoc, Deliver, Live, HeapInv, OwnerInv, HandlerInv, TempInv
<1>40. CASE UNCHANGED vars
  BY <1>40 DEF vars, HeapInv, OwnerInv, HandlerInv, TempInv
<1> HIDE DEF ControlInv
<1> QED
  BY <1>1, <1>2, <1>3, <1>4, <1>5, <1>6, <1>7, <1>8, <1>9, <1>10, <1>11,
     <1>12, <1>13, <1>14, <1>15, <1>16, <1>17, <1>18, <1>19, <1>20,
     <1>21, <1>22, <1>23, <1>24, <1>25, <1>26, <1>27, <1>28, <1>29,
     <1>30, <1>31, <1>32, <1>33, <1>34, <1>35, <1>36, <1>37, <1>38,
     <1>39, <1>40
     DEF Next, Step, Await, Sigint, Terminated, vars

---------------------------------------------------------------------------
(* A SIGINT seen by heredoc_loop reaches $?: what carries it, step by step *)

CarrierPcs == {"hd_read", "hd_check", "hd_restore", "hd_reset",
               "hd_reinstall", "gather_fail", "x_reset", "x_install",
               "x_done", "segment", "top", "install", "read", "check", "leave"}

StatusInv ==
    Live /\ intr = "loop" =>
        /\ pc \in CarrierPcs
        /\ pc \in {"hd_read", "hd_check"} => gsig = SIGINT
        /\ pc \in {"hd_restore", "hd_reset", "hd_reinstall"} => hd.int = 1
        /\ pc \in {"gather_fail", "segment", "top", "install", "read", "check"}
             => exit_code = 130
        /\ pc \in {"x_reset", "x_install", "x_done"} => ret = 130

LEMMA StatusInit == Init => StatusInv
  BY DEF Init, StatusInv

LEMMA StatusNext ==
    TypeOK /\ ControlInv /\ StatusInv /\ [Next]_vars => StatusInv'
<1> SUFFICES ASSUME TypeOK, ControlInv, StatusInv, [Next]_vars
             PROVE  StatusInv'
  OBVIOUS
<1>hd. hd \in HdType
  BY DEF TypeOK
<1>handler. Live => (handler = "heredoc" <=> pc \in CloserPcs)
  BY DEF ControlInv, HandlerInv
<1> USE DEF StatusInv, CarrierPcs, Live, sigVars, lineVars, hdVars, runVars,
            heapVars, countVars, histVars
<1>1. CASE ClearSignal
  BY <1>1 DEF ClearSignal
<1>2. CASE InstallHandler
  BY <1>2 DEF InstallHandler, Disposition
<1>3. CASE ReadPrompt
  BY <1>3 DEF ReadPrompt
<1>4. CASE CheckInput
  BY <1>4 DEF CheckInput
<1>5. CASE BeginSegment
  BY <1>5 DEF BeginSegment
<1>6. CASE EndInput
  BY <1>6 DEF EndInput
<1>7. CASE Leave
  BY <1>7 DEF Leave, Cleanup
<1>8. CASE LexLine
  BY <1>8 DEF LexLine, Abandon
<1>9. CASE ParsePipeline
  BY <1>9 DEF ParsePipeline, Abandon
<1>10. CASE ExpandPipeline
  BY <1>10 DEF ExpandPipeline, Abandon
<1>11. CASE FinishLine
  BY <1>11 DEF FinishLine
<1>12. CASE ExecPipeline
  BY <1>12 DEF ExecPipeline
<1>13. CASE GatherNext
  BY <1>13 DEF GatherNext
<1>14. CASE HeredocOpen
  BY <1>14, <1>hd DEF HeredocOpen, AtHeredoc
<1>15. CASE HeredocDup
  BY <1>15, <1>hd DEF HeredocDup
<1>16. CASE HeredocInstall
  BY <1>16 DEF HeredocInstall
<1>17. CASE HeredocUser
  BY <1>17, <1>hd DEF HeredocUser, HeredocRead
<1>18. CASE HeredocCutOff
  BY <1>18, <1>hd DEF HeredocCutOff, HeredocRead
<1>19. CASE HeredocCheck
  BY <1>19, <1>hd DEF HeredocCheck, Interrupted, HdType
<1>20. CASE HeredocRestore
  BY <1>20 DEF HeredocRestore
<1>21. CASE HeredocReset
  BY <1>21 DEF HeredocReset
<1>22. CASE HeredocReinstall
  BY <1>22 DEF HeredocReinstall, DropPath
<1>23. CASE HeredocReopen
  BY <1>23 DEF HeredocReopen, DropPath
<1>24. CASE GatherFail
  BY <1>24 DEF GatherFail
<1>25. CASE SaveStdio
  BY <1>25 DEF SaveStdio, Gathered
<1>26. CASE RedirectOnly
  BY <1>26 DEF RedirectOnly, Gathered
<1>27. CASE ApplyRedirect
  BY <1>27 DEF ApplyRedirect
<1>28. CASE ApplyDone
  BY <1>28 DEF ApplyDone
<1>29. CASE RunBuiltin
  BY <1>29 DEF RunBuiltin
<1>30. CASE ExitBuiltin
  BY <1>30 DEF ExitBuiltin, Cleanup
<1>31. CASE RestoreStdio
  BY <1>31 DEF RestoreStdio
<1>32. CASE ExecForked
  BY <1>32 DEF ExecForked, Gathered
<1>33. CASE ForkAll
  BY <1>33 DEF ForkAll
<1>34. CASE CloseHeredocs
  BY <1>34 DEF CloseHeredocs
<1>35. CASE WaitAll
  BY <1>35 DEF WaitAll
<1>36. CASE CheckSignal
  BY <1>36 DEF CheckSignal
<1>37. CASE SigintDefault
  BY <1>37 DEF SigintDefault, Deliver
<1>38. CASE SigintRecord
  BY <1>38 DEF SigintRecord, Deliver
<1>39. CASE SigintHeredoc
  BY <1>39, <1>hd, <1>handler DEF SigintHeredoc, Deliver, InReach, CloserPcs
<1>40. CASE UNCHANGED vars
  BY <1>40 DEF vars
<1> HIDE DEF StatusInv
<1> QED
  BY <1>1, <1>2, <1>3, <1>4, <1>5, <1>6, <1>7, <1>8, <1>9, <1>10, <1>11,
     <1>12, <1>13, <1>14, <1>15, <1>16, <1>17, <1>18, <1>19, <1>20,
     <1>21, <1>22, <1>23, <1>24, <1>25, <1>26, <1>27, <1>28, <1>29,
     <1>30, <1>31, <1>32, <1>33, <1>34, <1>35, <1>36, <1>37, <1>38,
     <1>39, <1>40
     DEF Next, Step, Await, Sigint, Terminated, vars

---------------------------------------------------------------------------
(* The theorems                                                            *)

Invariant == TypeOK /\ ControlInv /\ StatusInv

LEMMA InvariantHolds == Spec => []Invariant
<1>1. Init => Invariant
  BY TypeInit, ControlInit, StatusInit DEF Invariant
<1>2. Invariant /\ [Next]_vars => Invariant'
  BY TypeNext, ControlNext, StatusNext DEF Invariant
<1> QED  BY <1>1, <1>2, PTL DEF Spec

\* Every variable of the shell always has its type; in particular no step, no
\* handler and no failing call makes a status that is not one.
THEOREM TypeCorrect == Spec => []TypeOK
<1>1. Invariant => TypeOK
  BY DEF Invariant
<1> QED  BY <1>1, InvariantHolds, PTL

\* However a here-document ends - read, interrupted at any point, given up, or
\* with the shell killed around it - heredoc_fd leaves no file in /tmp.
THEOREM NoTemporaryFileLeft == Spec => []HeredocTempRemoved
<1>1. Invariant => HeredocTempRemoved
  BY DEF Invariant, ControlInv, TempInv, HeredocTempRemoved, HdPcs, AtPrompt,
         Live, Gathered
<1> QED  BY <1>1, InvariantHolds, PTL

\* exec_forked_pipeline's own sig_set_exec_parent is enough: whatever handler
\* exec_pipeline and heredoc_fd left, SIGINT is only recorded while children run.
THEOREM ForksUnderRecorder == Spec => []ForkedUnderRecorder
<1>1. Invariant => ForkedUnderRecorder
  BY DEF Invariant, ControlInv, HandlerInv, ForkedUnderRecorder, ForkPcs, Live
<1> QED  BY <1>1, InvariantHolds, PTL

\* shell_cleanup never frees what is gone already, and each line and input
\* gives back what it took, on every early return of ms_loop.
THEOREM OwnershipKept == Spec => []OwnershipConsistent
<1>1. Invariant => OwnershipConsistent
  <2> SUFFICES ASSUME Invariant PROVE OwnershipConsistent
    OBVIOUS
  <2> USE DEF Invariant, ControlInv, HeapInv, OwnerInv, LinePcs, RunPcs, HdPcs,
              ForkPcs, Live
  <2>1. Live => {cur_mem, cur_input} \subseteq mem \cup {NULL}
    OBVIOUS
  <2>2. mem \subseteq {"env", "input", "lex", "parse", "exp", "path", "pids"}
    BY DEF TypeOK, Objects
  <2>3. pc \in {"top", "install", "read"} => mem = {"env"} /\ cur_input = NULL
    BY <2>2
  <2>4. pc = "segment" => mem = {"env", "input"} /\ cur_mem = NULL
    BY <2>2
  <2> QED  BY <2>1, <2>3, <2>4 DEF OwnershipConsistent
<1> QED  BY <1>1, InvariantHolds, PTL

\* Nothing is left allocated when the shell exits, by end of input or by the
\* exit builtin running in the middle of a line of an input.
THEOREM ExitFreesAll == Spec => []NothingLeakedAtExit
<1>1. Invariant => NothingLeakedAtExit
  BY DEF Invariant, ControlInv, HeapInv, NothingLeakedAtExit, TypeOK, Objects,
         LinePcs, RunPcs, HdPcs, ForkPcs
<1> QED  BY <1>1, InvariantHolds, PTL

\* A SIGINT taken before the last test of heredoc_loop makes $? 130, through
\* the failing gather and exec_pipeline's early return.
THEOREM InterruptGives130 == Spec => []HeredocInterruptStatus
<1>1. Invariant => HeredocInterruptStatus
  BY DEF Invariant, StatusInv, HeredocInterruptStatus, Live
<1> QED  BY <1>1, InvariantHolds, PTL
---------------------------------------------------------------------------
(* What the refinement needs to know of a line being run                   *)

\* The statuses a command ends with, and those a line with it may.
OwnStatuses == Outcomes \cup {0, 1, 130}
EndStatuses == OwnStatuses \cup (IF R!HasHeredoc(cur) THEN {exit_code} ELSE {})

EndPcs == {"x_reset", "x_install", "x_done"}

\* Where an interrupted here-document can be remembered.
CutPcs == {"hd_restore", "hd_reset", "hd_reinstall", "gather_fail", "segment",
           "top", "install", "read", "check", "leave"} \cup EndPcs

\* A line gets as far as its kind lets it.
KindInv ==
    Live => /\ pc = "parse" => cur.kind # "quote"
            /\ pc = "expand" => cur.kind \in {"ambiguous", "cmd"}
            /\ pc \in RunPcs => cur.kind = "cmd"
            /\ pc \in HdPcs \cup {"gather_fail"} => R!HasHeredoc(cur)
            /\ pc = "p_run" => IsParentBuiltin(cur)

CutInv ==
    Live => /\ hd.int = 1 => pc \in CutPcs
            /\ hd.int = 1 /\ pc = "gather_fail" => exit_code = 130
            /\ hd.int = 1 /\ pc \in EndPcs => ret = 130

RetInv ==
    Live => /\ pc \in {"x_check", "p_restore", "f_reset", "f_install"}
                 => ret \in OwnStatuses
            /\ pc \in EndPcs => ret \in EndStatuses

LineInv == KindInv /\ CutInv /\ RetInv

LEMMA LineInit == Init => LineInv
  BY DEF Init, LineInv, KindInv, CutInv, RetInv, RunPcs, HdPcs, ForkPcs, EndPcs,
         CutPcs, NoHeredoc

LEMMA LineNext == TypeOK /\ LineInv /\ [Next]_vars => LineInv'
<1> SUFFICES ASSUME TypeOK, LineInv, [Next]_vars
             PROVE  LineInv'
  OBVIOUS
<1>type. hd \in HdType /\ k \in Nat \ {0} /\ cur \in LineType
  BY CurType DEF TypeOK
<1>kind. cur.kind \in {"blank", "quote", "syntax", "ambiguous", "cmd"}
         /\ DOMAIN cur.redirs = 1..Len(cur.redirs) /\ Len(cur.redirs) \in Nat
  BY <1>type DEF LineType
<1> USE DEF LineInv, RunPcs, HdPcs, ForkPcs, EndPcs, CutPcs, OwnStatuses,
            EndStatuses, R!HasHeredoc, IsParentBuiltin, Live, sigVars, lineVars,
            hdVars, runVars, heapVars, countVars, histVars
<1>1. CASE ClearSignal
  BY <1>1 DEF ClearSignal, KindInv, CutInv, RetInv
<1>2. CASE InstallHandler
  BY <1>2 DEF InstallHandler, Disposition, KindInv, CutInv, RetInv
<1>3. CASE ReadPrompt
  BY <1>3 DEF ReadPrompt, KindInv, CutInv, RetInv
<1>4. CASE CheckInput
  BY <1>4 DEF CheckInput, KindInv, CutInv, RetInv
<1>5. CASE BeginSegment
  BY <1>5 DEF BeginSegment, NoHeredoc, KindInv, CutInv, RetInv
<1>6. CASE EndInput
  BY <1>6 DEF EndInput, KindInv, CutInv, RetInv
<1>7. CASE Leave
  BY <1>7 DEF Leave, Cleanup, KindInv, CutInv, RetInv
<1>8. CASE LexLine
  BY <1>8, <1>type, <1>kind DEF LexLine, Abandon, KindInv, CutInv, RetInv
<1>9. CASE ParsePipeline
  BY <1>9, <1>type, <1>kind DEF ParsePipeline, Abandon, KindInv, CutInv, RetInv
<1>10. CASE ExpandPipeline
  BY <1>10, <1>type, <1>kind DEF ExpandPipeline, Abandon, KindInv, CutInv, RetInv
<1>11. CASE FinishLine
  BY <1>11 DEF FinishLine, KindInv, CutInv, RetInv
<1>12. CASE ExecPipeline
  BY <1>12 DEF ExecPipeline, KindInv, CutInv, RetInv
<1>13. CASE GatherNext
  BY <1>13 DEF GatherNext, KindInv, CutInv, RetInv
<1>14. CASE HeredocOpen
  BY <1>14, <1>type, <1>kind DEF HeredocOpen, AtHeredoc, NoHeredoc, KindInv, CutInv, RetInv
<1>15. CASE HeredocDup
  BY <1>15, <1>type, <1>kind DEF HeredocDup, KindInv, CutInv, RetInv
<1>16. CASE HeredocInstall
  BY <1>16 DEF HeredocInstall, KindInv, CutInv, RetInv
<1>17. CASE HeredocUser
  BY <1>17, <1>type, <1>kind DEF HeredocUser, HeredocRead, KindInv, CutInv, RetInv
<1>18. CASE HeredocCutOff
  BY <1>18, <1>type, <1>kind DEF HeredocCutOff, HeredocRead, KindInv, CutInv, RetInv
<1>19. CASE HeredocCheck
  BY <1>19, <1>type, <1>kind DEF HeredocCheck, Interrupted, HdType, KindInv, CutInv, RetInv
<1>20. CASE HeredocRestore
  BY <1>20 DEF HeredocRestore, KindInv, CutInv, RetInv
<1>21. CASE HeredocReset
  BY <1>21 DEF HeredocReset, KindInv, CutInv, RetInv
<1>22. CASE HeredocReinstall
  BY <1>22 DEF HeredocReinstall, DropPath, KindInv, CutInv, RetInv
<1>23. CASE HeredocReopen
  BY <1>23, <1>type, <1>kind DEF HeredocReopen, DropPath, KindInv, CutInv, RetInv
<1>24. CASE GatherFail
  BY <1>24 DEF GatherFail, KindInv, CutInv, RetInv
<1>25. CASE SaveStdio
  BY <1>25 DEF SaveStdio, Gathered, KindInv, CutInv, RetInv
<1>26. CASE RedirectOnly
  BY <1>26 DEF RedirectOnly, Gathered, KindInv, CutInv, RetInv
<1>27. CASE ApplyRedirect
  BY <1>27 DEF ApplyRedirect, KindInv, CutInv, RetInv
<1>28. CASE ApplyDone
  BY <1>28 DEF ApplyDone, KindInv, CutInv, RetInv
<1>29. CASE RunBuiltin
  BY <1>29 DEF RunBuiltin, BuiltinStatus, KindInv, CutInv, RetInv
<1>30. CASE ExitBuiltin
  BY <1>30 DEF ExitBuiltin, Cleanup, KindInv, CutInv, RetInv
<1>31. CASE RestoreStdio
  BY <1>31 DEF RestoreStdio, KindInv, CutInv, RetInv
<1>32. CASE ExecForked
  BY <1>32 DEF ExecForked, Gathered, KindInv, CutInv, RetInv
<1>33. CASE ForkAll
  BY <1>33 DEF ForkAll, KindInv, CutInv, RetInv
<1>34. CASE CloseHeredocs
  BY <1>34 DEF CloseHeredocs, KindInv, CutInv, RetInv
<1>35. CASE WaitAll
  BY <1>35 DEF WaitAll, KindInv, CutInv, RetInv
<1>36. CASE CheckSignal
  BY <1>36 DEF CheckSignal, KindInv, CutInv, RetInv
<1>37. CASE SigintDefault
  BY <1>37 DEF SigintDefault, Deliver, KindInv, CutInv, RetInv
<1>38. CASE SigintRecord
  BY <1>38 DEF SigintRecord, Deliver, KindInv, CutInv, RetInv
<1>39. CASE SigintHeredoc
  BY <1>39, <1>type, <1>kind DEF SigintHeredoc, Deliver, KindInv, CutInv, RetInv
<1>40. CASE UNCHANGED vars
  BY <1>40 DEF vars, KindInv, CutInv, RetInv
<1> HIDE DEF LineInv
<1> QED
  BY <1>1, <1>2, <1>3, <1>4, <1>5, <1>6, <1>7, <1>8, <1>9, <1>10, <1>11,
     <1>12, <1>13, <1>14, <1>15, <1>16, <1>17, <1>18, <1>19, <1>20,
     <1>21, <1>22, <1>23, <1>24, <1>25, <1>26, <1>27, <1>28, <1>29,
     <1>30, <1>31, <1>32, <1>33, <1>34, <1>35, <1>36, <1>37, <1>38,
     <1>39, <1>40
     DEF Next, Step, Await, Sigint, Terminated, vars

---------------------------------------------------------------------------
(* The refinement                                                          *)

LEMMA ReplInitial == Init => R!ReplInit
  BY DEF Init, R!ReplInit, ReplMode, AtPrompt, NoLine, NoHeredoc

\* A step that leaves $?, the line and the interruption as they are, keeps the
\* mode, and does not take the handler away, is Arm or nothing.
LEMMA ArmOrStutter ==
    ASSUME UNCHANGED <<interactive, ReplMode, exit_code, cur>>,
           (hd.int = 1)' <=> hd.int = 1,
           interactive /\ handler # "default" => handler' # "default"
    PROVE  [R!ReplNext]_R!replVars
<1>1. CASE interactive /\ handler = "default" /\ handler' # "default"
  BY <1>1 DEF R!ReplNext, R!Arm
<1>2. CASE ~(interactive /\ handler = "default" /\ handler' # "default")
  <2>1. (interactive /\ handler # "default")' <=> (interactive /\ handler # "default")
    BY <1>2
  <2> QED  BY <2>1 DEF R!replVars
<1> QED  BY <1>1, <1>2

LEMMA ReplStep ==
    TypeOK /\ ControlInv /\ LineInv /\ [Next]_vars => [R!ReplNext]_R!replVars
<1> SUFFICES ASSUME TypeOK, ControlInv, LineInv, [Next]_vars
             PROVE  [R!ReplNext]_R!replVars
  OBVIOUS
<1>hd. hd \in HdType
  BY DEF TypeOK
<1>uncut. Live /\ pc \notin CutPcs => hd.int # 1
  BY DEF LineInv, CutInv
<1> USE DEF ReplMode, AtPrompt, Live, CutPcs, EndPcs, sigVars, lineVars, hdVars,
            runVars, heapVars, countVars, histVars
<1>1. CASE ClearSignal
  BY <1>1, ArmOrStutter DEF ClearSignal
<1>2. CASE InstallHandler
  BY <1>2, ArmOrStutter DEF InstallHandler, Disposition
<1>3. CASE ReadPrompt
  BY <1>3, ArmOrStutter DEF ReadPrompt
<1>4. CASE CheckInput
  <2>1. CASE gsig = SIGINT
    <3>1. R!PromptInterrupted
      BY <1>4, <2>1 DEF CheckInput, R!PromptInterrupted
    <3> QED  BY <3>1 DEF R!ReplNext
  <2>2. CASE gsig # SIGINT /\ "input" \in mem
    BY <1>4, <2>2, ArmOrStutter DEF CheckInput
  <2>3. CASE gsig # SIGINT /\ "input" \notin mem
    <3>1. R!GoAway
      BY <1>4, <2>3 DEF CheckInput, R!GoAway
    <3> QED  BY <3>1 DEF R!ReplNext
  <2> QED  BY <2>1, <2>2, <2>3
<1>5. CASE BeginSegment
  <2>1. cur' \in Lines
    BY <1>5 DEF BeginSegment, TypeOK
  <2>2. R!Take
    BY <1>5, <2>1 DEF BeginSegment, NoHeredoc, R!Take
  <2> QED  BY <2>2 DEF R!ReplNext
<1>6. CASE EndInput
  BY <1>6, ArmOrStutter DEF EndInput
<1>7. CASE Leave
  BY <1>7, ArmOrStutter DEF Leave, Cleanup
<1>8. CASE LexLine
  <2>1. CASE cur.kind = "quote"
    <3>1. R!Finish
      BY <1>8, <1>uncut, <2>1
         DEF LexLine, Abandon, R!Finish, R!Result
    <3> QED  BY <3>1 DEF R!ReplNext
  <2>2. CASE ~(cur.kind = "quote")
    BY <1>8, <2>2, ArmOrStutter DEF LexLine, Abandon
  <2> QED  BY <2>1, <2>2
<1>9. CASE ParsePipeline
  <2>1. CASE cur.kind \in {"blank", "syntax"}
    <3>1. R!Finish
      BY <1>9, <1>uncut, <2>1
         DEF ParsePipeline, Abandon, R!Finish, R!Result
    <3> QED  BY <3>1 DEF R!ReplNext
  <2>2. CASE cur.kind \notin {"blank", "syntax"}
    BY <1>9, <2>2, ArmOrStutter DEF ParsePipeline, Abandon
  <2> QED  BY <2>1, <2>2
<1>10. CASE ExpandPipeline
  <2>1. CASE cur.kind = "ambiguous"
    <3>1. R!Finish
      BY <1>10, <1>uncut, <2>1
         DEF ExpandPipeline, Abandon, R!Finish, R!Result
    <3> QED  BY <3>1 DEF R!ReplNext
  <2>2. CASE ~(cur.kind = "ambiguous")
    BY <1>10, <2>2, ArmOrStutter DEF ExpandPipeline, Abandon
  <2> QED  BY <2>1, <2>2
<1>11. CASE FinishLine
  <2>1. CASE hd.int = 1
    <3>1. R!Finish
      BY <1>11, <2>1 DEF FinishLine, R!Finish, LineInv, CutInv, Live, EndPcs
    <3> QED  BY <3>1 DEF R!ReplNext
  <2>2. CASE hd.int # 1
    <3>1. ret \in R!Result(cur, exit_code)
      BY <1>11 DEF FinishLine, LineInv, KindInv, RetInv, RunPcs, EndPcs, Live,
                  EndStatuses, OwnStatuses, R!Result
    <3>2. R!Finish
      BY <1>11, <2>2, <3>1 DEF FinishLine, R!Finish
    <3> QED  BY <3>2 DEF R!ReplNext
  <2> QED  BY <2>1, <2>2
<1>12. CASE ExecPipeline
  BY <1>12, ArmOrStutter DEF ExecPipeline
<1>13. CASE GatherNext
  BY <1>13, ArmOrStutter DEF GatherNext
<1>14. CASE HeredocOpen
  <2>1. (hd.int = 1)' <=> hd.int = 1
    BY <1>14, <1>uncut DEF HeredocOpen, AtHeredoc, NoHeredoc
  <2> QED  BY <1>14, <2>1, ArmOrStutter DEF HeredocOpen, AtHeredoc
<1>15. CASE HeredocDup
  <2>1. (hd.int = 1)' <=> hd.int = 1
    BY <1>15, <1>hd DEF HeredocDup, HdType
  <2> QED  BY <1>15, <2>1, ArmOrStutter DEF HeredocDup
<1>16. CASE HeredocInstall
  BY <1>16, ArmOrStutter DEF HeredocInstall
<1>17. CASE HeredocUser
  <2>1. (hd.int = 1)' <=> hd.int = 1
    BY <1>17, <1>hd DEF HeredocUser, HeredocRead, HdType
  <2> QED  BY <1>17, <2>1, ArmOrStutter DEF HeredocUser, HeredocRead
<1>18. CASE HeredocCutOff
  <2>1. (hd.int = 1)' <=> hd.int = 1
    BY <1>18, <1>hd DEF HeredocCutOff, HeredocRead, HdType
  <2> QED  BY <1>18, <2>1, ArmOrStutter DEF HeredocCutOff, HeredocRead
<1>19. CASE HeredocCheck
  <2>1. CASE Interrupted
    <3>1. (hd.int = 1)'
      BY <1>19, <1>hd, <2>1 DEF HeredocCheck, HdType
    <3>2. R!CutShort
      BY <1>19, <1>uncut, <2>1, <3>1
         DEF HeredocCheck, R!CutShort, LineInv, KindInv, HdPcs, Live
    <3> QED  BY <3>2 DEF R!ReplNext
  <2>2. CASE ~Interrupted
    <3>1. (hd.int = 1)' <=> hd.int = 1
      BY <1>19, <1>hd, <1>uncut, <2>2 DEF HeredocCheck, HdType
    <3> QED  BY <1>19, <3>1, ArmOrStutter DEF HeredocCheck
  <2> QED  BY <2>1, <2>2
<1>20. CASE HeredocRestore
  BY <1>20, ArmOrStutter DEF HeredocRestore
<1>21. CASE HeredocReset
  BY <1>21, ArmOrStutter DEF HeredocReset
<1>22. CASE HeredocReinstall
  <2>1. CASE hd.int = 1
    <3>1. handler # "default"
      BY <1>22 DEF HeredocReinstall, ControlInv, HandlerInv, HdPcs, Live
    <3>2. R!Settle
      BY <1>22, <2>1, <3>1 DEF HeredocReinstall, R!Settle
    <3> QED  BY <3>2 DEF R!ReplNext
  <2>2. CASE hd.int # 1
    BY <1>22, <2>2, ArmOrStutter DEF HeredocReinstall
  <2> QED  BY <2>1, <2>2
<1>23. CASE HeredocReopen
  BY <1>23, ArmOrStutter DEF HeredocReopen, DropPath
<1>24. CASE GatherFail
  BY <1>24, ArmOrStutter DEF GatherFail
<1>25. CASE SaveStdio
  BY <1>25, ArmOrStutter DEF SaveStdio, Gathered
<1>26. CASE RedirectOnly
  BY <1>26, ArmOrStutter DEF RedirectOnly, Gathered
<1>27. CASE ApplyRedirect
  BY <1>27, ArmOrStutter DEF ApplyRedirect
<1>28. CASE ApplyDone
  BY <1>28, ArmOrStutter DEF ApplyDone
<1>29. CASE RunBuiltin
  BY <1>29, ArmOrStutter DEF RunBuiltin, BuiltinStatus
<1>30. CASE ExitBuiltin
  <2>1. R!GoAway
    BY <1>30, <1>uncut
       DEF ExitBuiltin, R!GoAway, LineInv, KindInv, IsParentBuiltin, Live
  <2> QED  BY <2>1 DEF R!ReplNext
<1>31. CASE RestoreStdio
  BY <1>31, ArmOrStutter DEF RestoreStdio
<1>32. CASE ExecForked
  BY <1>32, ArmOrStutter DEF ExecForked, Gathered
<1>33. CASE ForkAll
  BY <1>33, ArmOrStutter DEF ForkAll
<1>34. CASE CloseHeredocs
  BY <1>34, ArmOrStutter DEF CloseHeredocs
<1>35. CASE WaitAll
  BY <1>35, ArmOrStutter DEF WaitAll
<1>36. CASE CheckSignal
  BY <1>36, ArmOrStutter DEF CheckSignal
<1>37. CASE SigintDefault
  <2>1. R!Die
    BY <1>37 DEF SigintDefault, Deliver, Live, R!Die
  <2> QED  BY <2>1 DEF R!ReplNext
<1>38. CASE SigintRecord
  BY <1>38, ArmOrStutter DEF SigintRecord, Deliver
<1>39. CASE SigintHeredoc
  BY <1>39, ArmOrStutter DEF SigintHeredoc, Deliver
<1>40. CASE UNCHANGED vars
  BY <1>40, ArmOrStutter DEF vars
<1> QED
  BY <1>1, <1>2, <1>3, <1>4, <1>5, <1>6, <1>7, <1>8, <1>9, <1>10, <1>11,
     <1>12, <1>13, <1>14, <1>15, <1>16, <1>17, <1>18, <1>19, <1>20,
     <1>21, <1>22, <1>23, <1>24, <1>25, <1>26, <1>27, <1>28, <1>29,
     <1>30, <1>31, <1>32, <1>33, <1>34, <1>35, <1>36, <1>37, <1>38,
     <1>39, <1>40
     DEF Next, Step, Await, Sigint, Terminated, vars

\* The read-evaluate loop of claude/src implements Repl: no interleaving of
\* SIGINT with it, no failing call and no line makes it show another status,
\* skip the end of a line, or die while it is interactive.
THEOREM ShellImplementsRepl == Spec => ImplementsRepl
<1>1. Init => R!ReplInit
  BY ReplInitial
<1>2. Invariant /\ LineInv /\ [Next]_vars => [R!ReplNext]_R!replVars
  BY ReplStep DEF Invariant
<1>3. Init => LineInv
  BY LineInit
<1>4. Invariant /\ LineInv /\ [Next]_vars => LineInv'
  BY LineNext DEF Invariant
<1> QED  BY <1>1, <1>2, <1>3, <1>4, InvariantHolds, PTL
            DEF Spec, ImplementsRepl, R!ReplSpec

---------------------------------------------------------------------------
(* The descriptors of the shell: what redirects, saved descriptors,        *)
(* here-documents and the handler that closes descriptor 0 leave of the    *)
(* table, for every size of it and every place of a SIGINT.                *)

---------------------------------------------------------------------------
(* What the calls do to each descriptor                                    *)

LEMMA OpenEffect ==
    ASSUME NEW t \in Tables, NEW file \in Files
    PROVE  \A f \in Fds : Open(t, file)[f] = IF f = NextFd(t) THEN file ELSE t[f]
  BY NextFdIsFree, StdFds DEF Open, Tables

LEMMA DupEffect ==
    ASSUME NEW t \in Tables, NEW g \in Fds
    PROVE  /\ DupFd(t, g) \in Fds \cup {NoFd}
           /\ DupFd(t, g) # NoFd => t[DupFd(t, g)] = Closed /\ IsOpen(t, g)
           /\ \A f \in Fds : Dup(t, g)[f] = IF f = DupFd(t, g) THEN t[g] ELSE t[f]
<1>1. CASE IsOpen(t, g)
  <2>1. t[g] \in Files
    BY <1>1 DEF IsOpen, Tables
  <2>2. QED
    BY <1>1, <2>1, NextFdIsFree, OpenEffect DEF Dup, DupFd
<1>2. CASE ~IsOpen(t, g)
  BY <1>2, StdFds DEF Dup, DupFd
<1>3. QED
  BY <1>1, <1>2

LEMMA Dup2Effect ==
    ASSUME NEW t \in Tables, NEW f, NEW g \in Fds
    PROVE  /\ Dup2(t, f, g) \in Tables
           /\ \A h \in Fds :
                 Dup2(t, f, g)[h] = IF h = g /\ IsOpen(t, f) THEN t[f] ELSE t[h]
  BY DEF Dup2, IsOpen, Tables

LEMMA CloseEffect ==
    ASSUME NEW t \in Tables, NEW g
    PROVE  /\ Close(t, g) \in Tables
           /\ \A h \in Fds : Close(t, g)[h] = IF h = g THEN Closed ELSE t[h]
  BY DEF Close, Tables

LEMMA CloseAllEffect ==
    ASSUME NEW t \in Tables, NEW S
    PROVE  \A h \in Fds : CloseAll(t, S)[h] = IF h \in S THEN Closed ELSE t[h]
  BY DEF CloseAll

LEMMA FilesAreOpen == Closed \notin Files
  BY DEF Closed, Files

---------------------------------------------------------------------------
(* Who owns which descriptor                                               *)

\* heredoc_fd() has the write end open; it holds a copy of descriptor 0.
Writing == pc \in {"hd_dup", "hd_install", "hd_read", "hd_check"}
Saving  == pc \in {"hd_install", "hd_read", "hd_check", "hd_restore", "hd_reset"}

\* exec_single_parent() holds copies of descriptors 0 and 1.
Redirecting == pc \in {"apply", "p_run", "p_restore"} /\ IsParentBuiltin(cur)

Working == {f \in {hd.w} : Writing} \cup {f \in {hd.saved} : Saving}
              \cup {f \in {save.in, save.out} : Redirecting}

\* The redirects whose r->fd is still to be used or closed.
GatherPcs == {"gather", "gather_fail", "f_fork", "f_close"} \cup HdPcs
Pending   == {r \in DOMAIN hfd : pc \in GatherPcs \/ (pc = "apply" /\ r >= k)}

\* Only here-documents gather_heredocs() has come past have a descriptor.
GatheredInv ==
    Live =>
        /\ pc \in GatherPcs \cup {"apply"} =>
              /\ DOMAIN hfd = DOMAIN cur.redirs
              /\ \A r \in DOMAIN hfd : hfd[r] # NoFd =>
                    /\ cur.redirs[r] = "heredoc"
                    /\ pc \in {"gather"} \cup HdPcs => r < k
        /\ pc \in HdPcs => k \in DOMAIN hfd /\ cur.redirs[k] = "heredoc"

\* A descriptor that is in use but not standard.
Accounted(f) ==
    \/ f \in Working
    \/ fdt[f] = "tmp_r" /\ \E r \in Pending : hfd[r] = f
    \/ "failed" \in spoiled /\ fdt[f] \in {"tmp_r", "pipe"}

HighInv ==
    Live => \A f \in Fds : f > 2 /\ fdt[f] # Closed => Accounted(f)

---------------------------------------------------------------------------
(* The standard descriptors stay open                                      *)

QuietInv == Live /\ sigs = 0 => gsig = 0 /\ hd.int = 0

\* Nothing has happened that may cost the shell a standard descriptor.
Unlost == "late" \notin spoiled /\ ("nofd" \in spoiled => sigs = 0)

\* Descriptor 0 may be closed: the handler has run, and is going to be undone.
CutOff == \/ pc \in {"hd_read", "hd_check"} /\ gsig = SIGINT
          \/ pc = "hd_restore" /\ hd.int = 1

AboveStd(f) == f = NoFd \/ f > 2

ApartInv ==
    Live /\ Unlost =>
        /\ AboveStd(hd.w) /\ AboveStd(hd.saved)
        /\ AboveStd(save.in) /\ AboveStd(save.out)
        /\ \A r \in DOMAIN hfd : AboveStd(hfd[r])
        /\ Writing => hd.w # hd.saved
        /\ pc = "hd_dup" => IsOpen(fdt, hd.w) /\ hd.saved = NoFd
        /\ Saving /\ pc # "hd_reset" /\ "nofd" \notin spoiled => IsOpen(fdt, hd.saved)

OpenInv ==
    Live /\ Unlost => /\ IsOpen(fdt, 1) /\ IsOpen(fdt, 2)
                      /\ ~CutOff => IsOpen(fdt, 0)

---------------------------------------------------------------------------
(* The standard descriptors are the shell's own                            *)

Clean == spoiled \subseteq {"failed"}

\* The redirects of some kinds that apply_redirects() has come past, and the
\* last of them.
Applied(kinds) == {r \in DOMAIN cur.redirs : r < k /\ cur.redirs[r] \in kinds}

\* What apply_redirects() has made of descriptors 0 and 1 so far.
Input ==
    \/ Applied({"in", "heredoc"}) = {} /\ fdt[0] = "stdin"
    \/ \E r \in Applied({"in", "heredoc"}) :
          /\ \A s \in Applied({"in", "heredoc"}) : s <= r
          /\ fdt[0] = IF cur.redirs[r] = "in" THEN "infile" ELSE "tmp_r"

Output ==
    \/ Applied({"out"}) = {} /\ fdt[1] = "stdout"
    \/ \E r \in Applied({"out"}) :
          (\A s \in Applied({"out"}) : s <= r) /\ fdt[1] = "outfile"

CopiesInv ==
    Live /\ Clean =>
        /\ Writing => hd.w \in Fds /\ fdt[hd.w] = "tmp_w"
        /\ Saving => hd.saved \in Fds /\ fdt[hd.saved] = "stdin"
        /\ Redirecting => /\ save.in \in Fds /\ fdt[save.in] = "stdin"
                          /\ save.out \in Fds /\ fdt[save.out] = "stdout"
        /\ \A r \in Pending : hfd[r] # NoFd =>
              /\ fdt[hfd[r]] = "tmp_r"
              /\ \A s \in Pending : hfd[s] = hfd[r] => s = r

StdioInv ==
    Live /\ Clean =>
        /\ fdt[2] = "stderr"
        /\ pc \in {"p_run", "p_restore"} => IsParentBuiltin(cur)
        /\ pc = "apply" => IsParentBuiltin(cur) \/ cur.redirs = <<>>
        /\ pc = "p_run" => k > Len(cur.redirs)
        /\ pc \in {"apply", "p_run"} => Input /\ Output
        /\ pc \notin {"apply", "p_run", "p_restore"} =>
              fdt[1] = "stdout" /\ (~CutOff => fdt[0] = "stdin")

---------------------------------------------------------------------------
(* Steps that leave the descriptors alone                                  *)

IdlePcs == {"top", "install", "read", "check", "segment", "lex", "parse", "expand", "exec",
            "f_wait", "f_reset", "f_install", "x_check", "x_reset", "x_install", "x_done",
            "leave"}

\* The prompt, the early returns of ms_loop, and the end of a line.
Idle == /\ pc \in IdlePcs /\ pc' \in IdlePcs
        /\ UNCHANGED <<fdt, save, hfd, spoiled, sigs>>
        /\ gsig' \in {gsig, 0} /\ hd' \in {hd, NoHeredoc}

\* The steps between a line's exec_pipeline() and its end.
Busy == \/ ExecPipeline \/ GatherNext \/ HeredocOpen \/ HeredocDup \/ HeredocInstall
        \/ HeredocUser \/ HeredocCutOff \/ HeredocCheck \/ HeredocRestore \/ HeredocReset
        \/ HeredocReinstall \/ HeredocReopen \/ GatherFail \/ SaveStdio \/ RedirectOnly
        \/ ApplyRedirect \/ ApplyDone \/ RunBuiltin \/ RestoreStdio \/ ExecForked
        \/ ForkAll \/ CloseHeredocs \/ SigintRecord \/ SigintHeredoc

LEMMA IdleOrBusy ==
    ASSUME [Next]_vars
    PROVE  Idle \/ Busy \/ (UNCHANGED vars) \/ pc' \in {"exited", "killed"}
<1> USE DEF IdlePcs, sigVars, lineVars, hdVars, runVars, heapVars, countVars, histVars
<1>1. CASE ClearSignal
  BY <1>1 DEF ClearSignal, Idle
<1>2. CASE InstallHandler
  BY <1>2 DEF InstallHandler, Idle
<1>3. CASE ReadPrompt
  BY <1>3 DEF ReadPrompt, Idle
<1>4. CASE CheckInput
  BY <1>4 DEF CheckInput, Idle
<1>5. CASE BeginSegment
  BY <1>5 DEF BeginSegment, Idle
<1>6. CASE EndInput
  BY <1>6 DEF EndInput, Idle
<1>7. CASE Leave \/ ExitBuiltin \/ SigintDefault
  BY <1>7 DEF Leave, ExitBuiltin, SigintDefault
<1>8. CASE LexLine
  BY <1>8 DEF LexLine, Abandon, Idle
<1>9. CASE ParsePipeline
  BY <1>9 DEF ParsePipeline, Abandon, Idle
<1>10. CASE ExpandPipeline
  BY <1>10 DEF ExpandPipeline, Abandon, Idle
<1>11. CASE FinishLine
  BY <1>11 DEF FinishLine, Idle
<1>12. CASE WaitAll
  BY <1>12 DEF WaitAll, Idle
<1>13. CASE CheckSignal
  BY <1>13 DEF CheckSignal, Idle
<1>14. QED
  BY <1>1, <1>2, <1>3, <1>4, <1>5, <1>6, <1>7, <1>8, <1>9, <1>10, <1>11, <1>12, <1>13
     DEF Next, Step, Await, Sigint, Terminated, Busy

---------------------------------------------------------------------------
(* What has been gathered, and the flags of a SIGINT                       *)

LEMMA HfdDomains ==
    ASSUME TypeOK
    PROVE  /\ DOMAIN cur.redirs = 1..Len(cur.redirs) /\ Len(cur.redirs) \in Nat
           /\ hfd \in [DOMAIN hfd -> Fds \cup {NoFd}] /\ k \in Nat \ {0}
           /\ cur.redirs \in [DOMAIN cur.redirs -> Redirects]
<1>1. cur.redirs \in Seq(Redirects)
  BY CurType DEF LineType
<1>2. hfd \in Seq(Fds \cup {NoFd}) /\ k \in Nat \ {0}
  BY DEF TypeOK
<1>3. QED
  BY <1>1, <1>2

LEMMA GatheredNext ==
    ASSUME TypeOK, GatheredInv, [Next]_vars
    PROVE  GatheredInv'
<1>a. /\ DOMAIN cur.redirs = 1..Len(cur.redirs) /\ Len(cur.redirs) \in Nat
      /\ hfd \in [DOMAIN hfd -> Fds \cup {NoFd}] /\ k \in Nat \ {0}
  BY HfdDomains
<1> USE DEF GatheredInv, GatherPcs, HdPcs, Live, sigVars, lineVars, hdVars, runVars, heapVars,
            countVars, histVars
<1>1. CASE Idle
  BY <1>1 DEF Idle, IdlePcs
<1>2. CASE ExecPipeline
  BY <1>2 DEF ExecPipeline
<1>3. CASE GatherNext
  BY <1>3, <1>a DEF GatherNext, AtHeredoc
<1>4. CASE HeredocOpen
  BY <1>4, <1>a DEF HeredocOpen, AtHeredoc
<1>5. CASE HeredocDup \/ HeredocInstall \/ HeredocUser \/ HeredocCutOff
  BY <1>5 DEF HeredocDup, HeredocInstall, HeredocUser, HeredocCutOff, HeredocRead
<1>6. CASE HeredocCheck \/ HeredocRestore \/ HeredocReset \/ HeredocReinstall
  BY <1>6 DEF HeredocCheck, HeredocRestore, HeredocReset, HeredocReinstall
<1>7. CASE HeredocReopen
  <2>1. CASE /\ pc' = "gather" /\ k' = k + 1
             /\ hfd' = [hfd EXCEPT ![k] = NextFd(fdt)]
    BY <1>7, <1>a, <2>1 DEF HeredocReopen
  <2>2. CASE pc' = "gather_fail" /\ UNCHANGED <<hfd, fdt, k>>
    BY <1>7, <2>2 DEF HeredocReopen
  <2>3. QED
    BY <1>7, <2>1, <2>2 DEF HeredocReopen
<1>8. CASE GatherFail
  BY <1>8 DEF GatherFail
<1>9. CASE SaveStdio \/ RedirectOnly \/ ExecForked
  BY <1>9 DEF SaveStdio, RedirectOnly, ExecForked, Gathered
<1>10. CASE ApplyRedirect
  BY <1>10 DEF ApplyRedirect
<1>11. CASE ApplyDone \/ RunBuiltin \/ RestoreStdio \/ ForkAll
  BY <1>11 DEF ApplyDone, RunBuiltin, RestoreStdio, ForkAll
<1>12. CASE CloseHeredocs
  BY <1>12 DEF CloseHeredocs
<1>13. CASE SigintRecord \/ SigintHeredoc
  BY <1>13 DEF SigintRecord, SigintHeredoc
<1>14. CASE UNCHANGED vars
  BY <1>14 DEF vars
<1>15. CASE pc' \in {"exited", "killed"}
  BY <1>15
<1> HIDE DEF GatheredInv
<1>16. QED
  BY <1>1, <1>2, <1>3, <1>4, <1>5, <1>6, <1>7, <1>8, <1>9, <1>10, <1>11, <1>12, <1>13, <1>14,
     <1>15, IdleOrBusy DEF Busy

LEMMA QuietNext ==
    ASSUME TypeOK, QuietInv, [Next]_vars
    PROVE  QuietInv'
<1>a. hd \in HdType /\ sigs \in 0..MaxSig
  BY DEF TypeOK
<1> USE DEF QuietInv, Live, SIGINT, HdType, sigVars, lineVars, hdVars, runVars, heapVars,
            countVars, histVars
<1>1. CASE Idle
  BY <1>1, <1>a DEF Idle, IdlePcs, NoHeredoc
<1>2. CASE ExecPipeline \/ GatherNext
  BY <1>2 DEF ExecPipeline, GatherNext
<1>3. CASE HeredocOpen
  BY <1>3 DEF HeredocOpen, AtHeredoc, NoHeredoc
<1>4. CASE HeredocDup
  BY <1>4, <1>a DEF HeredocDup
<1>5. CASE HeredocInstall \/ HeredocUser \/ HeredocCutOff
  BY <1>5, <1>a DEF HeredocInstall, HeredocUser, HeredocCutOff, HeredocRead
<1>6. CASE HeredocCheck
  BY <1>6, <1>a DEF HeredocCheck, Interrupted
<1>7. CASE HeredocRestore \/ HeredocReset \/ HeredocReinstall \/ HeredocReopen
  BY <1>7 DEF HeredocRestore, HeredocReset, HeredocReinstall, HeredocReopen
<1>8. CASE GatherFail \/ SaveStdio \/ RedirectOnly \/ ExecForked
  BY <1>8 DEF GatherFail, SaveStdio, RedirectOnly, ExecForked, Gathered
<1>10. CASE ApplyRedirect
  BY <1>10 DEF ApplyRedirect
<1>11. CASE ApplyDone \/ RunBuiltin \/ RestoreStdio \/ ForkAll \/ CloseHeredocs
  BY <1>11 DEF ApplyDone, RunBuiltin, RestoreStdio, ForkAll, CloseHeredocs
<1>13. CASE SigintRecord \/ SigintHeredoc
  <2>1. sigs' # 0
    BY <1>13, <1>a DEF SigintRecord, SigintHeredoc, Deliver
  <2>2. QED
    BY <2>1
<1>14. CASE UNCHANGED vars
  BY <1>14 DEF vars
<1>15. CASE pc' \in {"exited", "killed"}
  BY <1>15
<1> HIDE DEF QuietInv
<1>16. QED
  BY <1>1, <1>2, <1>3, <1>4, <1>5, <1>6, <1>7, <1>8, <1>10, <1>11, <1>13, <1>14,
     <1>15, IdleOrBusy DEF Busy

---------------------------------------------------------------------------
(* The steps that touch descriptors, descriptor by descriptor              *)

LEMMA HeredocOpenEffect ==
    ASSUME TypeOK, HeredocOpen
    PROVE  /\ pc = "gather" /\ UNCHANGED <<k, cur, hfd, save, spoiled, sigs, gsig>>
           /\ \/ pc' = "gather_fail" /\ UNCHANGED <<hd, fdt>>
              \/ /\ pc' = "hd_dup" /\ hd'.w \in Fds /\ hd'.saved = NoFd
                 /\ fdt[hd'.w] = Closed
                 /\ \A f \in Fds : fdt'[f] = IF f = hd'.w THEN "tmp_w" ELSE fdt[f]
<1>1. fdt \in Tables /\ "tmp_w" \in Files
  BY DEF TypeOK, Files
<1>2. pc = "gather" /\ UNCHANGED <<k, cur, hfd, save, spoiled, sigs, gsig>>
  BY DEF HeredocOpen, AtHeredoc, sigVars, lineVars, runVars, countVars, histVars
<1>3. CASE /\ NextFd(fdt) # NoFd /\ pc' = "hd_dup"
           /\ hd' = [NoHeredoc EXCEPT !.w = NextFd(fdt)] /\ fdt' = Open(fdt, "tmp_w")
  <2>1. hd'.w = NextFd(fdt) /\ hd'.saved = NoFd
    BY <1>3 DEF NoHeredoc
  <2>2. QED
    BY <1>1, <1>2, <1>3, <2>1, NextFdIsFree, OpenEffect
<1>4. CASE pc' = "gather_fail" /\ UNCHANGED <<hd, fdt>>
  BY <1>2, <1>4
<1>5. QED
  BY <1>3, <1>4 DEF HeredocOpen

LEMMA HeredocDupEffect ==
    ASSUME TypeOK, HeredocDup
    PROVE  /\ pc = "hd_dup" /\ pc' = "hd_install" /\ gsig' = 0
           /\ UNCHANGED <<k, cur, hfd, save, sigs>>
           /\ hd'.w = hd.w /\ hd'.int = hd.int /\ hd'.saved \in Fds \cup {NoFd}
           /\ hd'.saved # NoFd => fdt[hd'.saved] = Closed /\ IsOpen(fdt, 0)
           /\ spoiled' = IF hd'.saved = NoFd THEN spoiled \cup {"nofd"} ELSE spoiled
           /\ \A f \in Fds : fdt'[f] = IF f = hd'.saved THEN fdt[0] ELSE fdt[f]
<1>1. fdt \in Tables /\ hd \in HdType /\ 0 \in Fds
  BY StdFds DEF TypeOK
<1>2. /\ hd' = [hd EXCEPT !.saved = DupFd(fdt, 0)] /\ fdt' = Dup(fdt, 0)
      /\ spoiled' = IF DupFd(fdt, 0) = NoFd THEN spoiled \cup {"nofd"} ELSE spoiled
  BY DEF HeredocDup, Spoil
<1>3. hd'.saved = DupFd(fdt, 0) /\ hd'.w = hd.w /\ hd'.int = hd.int
  BY <1>1, <1>2 DEF HdType
<1>4. QED
  BY <1>1, <1>2, <1>3, DupEffect DEF HeredocDup, lineVars, runVars, countVars

LEMMA HeredocCheckEffect ==
    ASSUME TypeOK, HeredocCheck
    PROVE  /\ pc = "hd_check" /\ UNCHANGED <<k, cur, hfd, save, spoiled, sigs, gsig>>
           /\ \/ pc' = "hd_read" /\ UNCHANGED <<hd, fdt>>
              \/ /\ pc' = "hd_restore" /\ hd'.w = hd.w /\ hd'.saved = hd.saved
                 /\ (hd'.int = 1) <=> (gsig = SIGINT)
                 /\ \A f \in Fds : fdt'[f] = IF f = hd.w THEN Closed ELSE fdt[f]
<1>1. fdt \in Tables /\ hd \in HdType
  BY DEF TypeOK
<1>2. pc = "hd_check" /\ UNCHANGED <<k, cur, hfd, save, spoiled, sigs, gsig>>
  BY DEF HeredocCheck, sigVars, lineVars, runVars, countVars, histVars
<1>3. CASE pc' = "hd_read" /\ UNCHANGED <<hd, fdt>>
  BY <1>2, <1>3
<1>4. CASE /\ pc' = "hd_restore"
           /\ hd' = [hd EXCEPT !.int = IF Interrupted THEN 1 ELSE 0]
           /\ fdt' = Close(fdt, hd.w)
  <2>1. hd'.w = hd.w /\ hd'.saved = hd.saved /\ ((hd'.int = 1) <=> (gsig = SIGINT))
    BY <1>1, <1>4 DEF HdType, Interrupted
  <2>2. QED
    BY <1>1, <1>2, <1>4, <2>1, CloseEffect
<1>5. QED
  BY <1>3, <1>4 DEF HeredocCheck

LEMMA HeredocRestoreEffect ==
    ASSUME TypeOK, HeredocRestore
    PROVE  /\ pc = "hd_restore" /\ pc' = "hd_reset"
           /\ UNCHANGED <<hd, k, cur, hfd, save, spoiled, sigs, gsig>>
           /\ \A f \in Fds : fdt'[f] = IF f = 0 /\ hd.int = 1 /\ IsOpen(fdt, hd.saved)
                                     THEN fdt[hd.saved] ELSE fdt[f]
<1>1. fdt \in Tables /\ 0 \in Fds
  BY StdFds DEF TypeOK
<1>2. fdt' = IF hd.int = 1 THEN Dup2(fdt, hd.saved, 0) ELSE fdt
  BY DEF HeredocRestore
<1>3. \A f \in Fds : fdt'[f] = IF f = 0 /\ hd.int = 1 /\ IsOpen(fdt, hd.saved)
                             THEN fdt[hd.saved] ELSE fdt[f]
  BY <1>1, <1>2, Dup2Effect
<1>4. QED
  BY <1>3 DEF HeredocRestore, hdVars, sigVars, lineVars, runVars, countVars, histVars

LEMMA HeredocResetEffect ==
    ASSUME TypeOK, HeredocReset
    PROVE  /\ pc = "hd_reset" /\ pc' = "hd_reinstall" /\ gsig' = 0
           /\ UNCHANGED <<hd, k, cur, hfd, save, spoiled, sigs>>
           /\ \A f \in Fds : fdt'[f] = IF f = hd.saved THEN Closed ELSE fdt[f]
<1>1. fdt \in Tables
  BY DEF TypeOK
<1>2. fdt' = Close(fdt, hd.saved)
  BY DEF HeredocReset
<1>3. QED
  BY <1>1, <1>2, CloseEffect DEF HeredocReset, hdVars, lineVars, runVars, countVars, histVars

LEMMA HeredocReopenEffect ==
    ASSUME TypeOK, HeredocReopen
    PROVE  /\ pc = "hd_reopen" /\ UNCHANGED <<hd, cur, save, spoiled, sigs, gsig>>
           /\ \/ pc' = "gather_fail" /\ UNCHANGED <<hfd, fdt, k>>
              \/ /\ pc' = "gather" /\ k' = k + 1
                 /\ \E n \in Fds :
                       /\ fdt[n] = Closed /\ hfd' = [hfd EXCEPT ![k] = n]
                       /\ \A f \in Fds : fdt'[f] = IF f = n THEN "tmp_r" ELSE fdt[f]
<1>1. fdt \in Tables /\ "tmp_r" \in Files
  BY DEF TypeOK, Files
<1>2. pc = "hd_reopen" /\ UNCHANGED <<hd, cur, save, spoiled, sigs, gsig>>
  BY DEF HeredocReopen, sigVars, runVars, countVars, histVars
<1>3. CASE /\ NextFd(fdt) # NoFd /\ pc' = "gather" /\ hfd' = [hfd EXCEPT ![k] = NextFd(fdt)]
           /\ fdt' = Open(fdt, "tmp_r") /\ k' = k + 1
  BY <1>1, <1>2, <1>3, NextFdIsFree, OpenEffect
<1>4. CASE pc' = "gather_fail" /\ UNCHANGED <<hfd, fdt, k>>
  BY <1>2, <1>4
<1>5. QED
  BY <1>3, <1>4 DEF HeredocReopen

LEMMA HeredocsClosedEffect ==
    ASSUME TypeOK, GatherFail \/ CloseHeredocs
    PROVE  /\ \/ pc = "gather_fail" /\ pc' = "x_reset"
              \/ pc = "f_close" /\ pc' = "f_wait"
           /\ UNCHANGED <<hd, cur, k, save, spoiled, sigs, gsig>>
           /\ DOMAIN hfd' = DOMAIN hfd /\ \A r \in DOMAIN hfd : hfd'[r] = NoFd
           /\ \A f \in Fds : fdt'[f] = IF \E r \in DOMAIN hfd : hfd[r] = f
                                     THEN Closed ELSE fdt[f]
<1>1. fdt \in Tables
  BY DEF TypeOK
<1>2. fdt' = CloseAll(fdt, HeldByHeredocs) /\ hfd' = [r \in DOMAIN hfd |-> NoFd]
  BY DEF GatherFail, CloseHeredocs
<1>3. \A f \in Fds : fdt'[f] = IF f \in HeldByHeredocs THEN Closed ELSE fdt[f]
  BY <1>1, <1>2, CloseAllEffect
<1>4. \A f \in Fds : f \in HeldByHeredocs <=> \E r \in DOMAIN hfd : hfd[r] = f
  BY DEF HeldByHeredocs
<1>5. QED
  BY <1>2, <1>3, <1>4
     DEF GatherFail, CloseHeredocs, hdVars, sigVars, runVars, countVars, histVars

LEMMA SaveStdioEffect ==
    ASSUME TypeOK, SaveStdio
    PROVE  /\ pc = "gather" /\ k > Len(cur.redirs) /\ IsParentBuiltin(cur)
           /\ pc' = "apply" /\ k' = 1
           /\ UNCHANGED <<hd, cur, hfd, sigs, gsig>>
           /\ save'.in \in Fds \cup {NoFd} /\ save'.out \in Fds \cup {NoFd}
           /\ save'.in # NoFd => fdt[save'.in] = Closed
           /\ save'.out # NoFd => fdt[save'.out] = Closed /\ save'.out # save'.in
           /\ spoiled' = IF NoFd \in {save'.in, save'.out}
                         THEN spoiled \cup {"nofd"} ELSE spoiled
           /\ \A f \in Fds :
                 fdt'[f] = IF f = save'.out /\ 1 # save'.in THEN fdt[1]
                           ELSE IF f \in {save'.in, save'.out} THEN fdt[0] ELSE fdt[f]
<1> DEFINE t == Dup(fdt, 0)
<1>1. fdt \in Tables /\ 0 \in Fds /\ 1 \in Fds /\ t \in Tables
  BY StdFds, FdTableTypes DEF TypeOK
<1>2. /\ save' = [in |-> DupFd(fdt, 0), out |-> DupFd(t, 1)] /\ fdt' = Dup(t, 1)
      /\ spoiled' = IF NoFd \in {save'.in, save'.out} THEN spoiled \cup {"nofd"} ELSE spoiled
  BY DEF SaveStdio, Spoil
<1>3. save'.in = DupFd(fdt, 0) /\ save'.out = DupFd(t, 1)
  BY <1>2
<1>4. /\ save'.in \in Fds \cup {NoFd}
      /\ save'.in # NoFd => fdt[save'.in] = Closed /\ fdt[0] # Closed
      /\ \A f \in Fds : t[f] = IF f = save'.in THEN fdt[0] ELSE fdt[f]
  BY <1>1, <1>3, DupEffect DEF IsOpen
<1> HIDE DEF t
<1>5. /\ save'.out \in Fds \cup {NoFd}
      /\ save'.out # NoFd => t[save'.out] = Closed
      /\ \A f \in Fds : fdt'[f] = IF f = save'.out THEN t[1] ELSE t[f]
  BY <1>1, <1>2, <1>3, DupEffect
<1>6. save'.out # NoFd => fdt[save'.out] = Closed /\ save'.out # save'.in
  BY <1>4, <1>5
<1>7. \A f \in Fds :
         fdt'[f] = IF f = save'.out /\ 1 # save'.in THEN fdt[1]
                   ELSE IF f \in {save'.in, save'.out} THEN fdt[0] ELSE fdt[f]
  BY <1>1, <1>4, <1>5, <1>6
<1>8. QED
  BY <1>2, <1>4, <1>5, <1>6, <1>7
     DEF SaveStdio, Gathered, hdVars, sigVars, countVars

LEMMA ApplyRedirectEffect ==
    ASSUME TypeOK, ApplyRedirect
    PROVE  /\ pc = "apply" /\ k \in DOMAIN cur.redirs
           /\ UNCHANGED <<hd, cur, hfd, save, sigs, gsig>>
           /\ \/ /\ pc' = "apply" /\ k' = k + 1 /\ spoiled' = spoiled
                 /\ \E fd :
                       /\ fd # NoFd
                       /\ IF cur.redirs[k] = "heredoc" THEN fd = hfd[k]
                          ELSE fd \in Fds /\ fdt[fd] = Closed
                       /\ \A f \in Fds :
                             fdt'[f] = IF f = fd THEN Closed
                                       ELSE IF f # TargetOf(cur.redirs[k]) THEN fdt[f]
                                       ELSE IF cur.redirs[k] # "heredoc"
                                            THEN FileOf(cur.redirs[k])
                                       ELSE IF IsOpen(fdt, fd) THEN fdt[fd] ELSE fdt[f]
              \/ /\ pc' = IF IsParentBuiltin(cur) THEN "p_restore" ELSE "x_check"
                 /\ cur.redirs[k] = "heredoc" => hfd[k] = NoFd
                 /\ UNCHANGED <<k, fdt>>
                 /\ spoiled' = IF \E j \in DOMAIN cur.redirs : j > k /\ cur.redirs[j] = "heredoc"
                               THEN spoiled \cup {"failed"} ELSE spoiled
<1> DEFINE r    == cur.redirs[k]
           held == r = "heredoc"
           fd   == IF held THEN hfd[k] ELSE NextFd(fdt)
           t    == IF held THEN fdt ELSE Open(fdt, FileOf(r))
<1>1. fdt \in Tables /\ TargetOf(r) \in Fds /\ FileOf(r) \in Files
  BY StdFds DEF TypeOK, TargetOf, FileOf, Files
<1>2. pc = "apply" /\ k \in DOMAIN cur.redirs /\ UNCHANGED <<hd, cur, hfd, save, sigs, gsig>>
  BY HfdDomains DEF ApplyRedirect, hdVars, sigVars, countVars
<1>3. t \in Tables
  BY <1>1, FdTableTypes
<1>4. CASE /\ fd # NoFd /\ k' = k + 1 /\ fdt' = Close(Dup2(t, fd, TargetOf(r)), fd)
           /\ UNCHANGED <<pc, ret, spoiled>>
  <2>1. \A f \in Fds :
           fdt'[f] = IF f = fd THEN Closed
                     ELSE IF f = TargetOf(r) /\ IsOpen(t, fd) THEN t[fd] ELSE t[f]
    <3> HIDE DEF t, fd, r
    <3>1. Dup2(t, fd, TargetOf(r)) \in Tables
      BY <1>1, <1>3, Dup2Effect
    <3>2. QED
      BY <1>1, <1>3, <1>4, <3>1, Dup2Effect, CloseEffect
  <2>2. CASE held
    <3>1. t = fdt /\ fd = hfd[k]
      BY <2>2
    <3>2. QED
      BY <1>2, <1>4, <2>1, <2>2, <3>1
  <2>3. CASE ~held
    <3>1. fd = NextFd(fdt) /\ fd \in Fds /\ fdt[fd] = Closed
      BY <1>1, <1>4, <2>3, NextFdIsFree
    <3>2. \A f \in Fds : t[f] = IF f = fd THEN FileOf(r) ELSE fdt[f]
      BY <1>1, <2>3, <3>1, OpenEffect
    <3>3. t[fd] = FileOf(r) /\ IsOpen(t, fd)
      BY <1>1, <3>1, <3>2, FilesAreOpen DEF IsOpen
    <3>4. QED
      BY <1>2, <1>4, <2>1, <2>3, <3>1, <3>2, <3>3
  <2>4. QED
    BY <2>2, <2>3
<1>5. CASE /\ ~held \/ fd = NoFd
           /\ pc' = IF IsParentBuiltin(cur) THEN "p_restore" ELSE "x_check"
           /\ IF \E j \in DOMAIN cur.redirs : j > k /\ cur.redirs[j] = "heredoc"
              THEN Spoil("failed") ELSE UNCHANGED spoiled
           /\ UNCHANGED <<k, fdt>>
  BY <1>2, <1>5 DEF Spoil
<1>6. QED
  BY <1>4, <1>5 DEF ApplyRedirect

\* What dup2(in_save, 0) makes of descriptor 0, on which the next dup2 depends
\* only when out_save is descriptor 0.
InputBack == IF IsOpen(fdt, save.in) THEN fdt[save.in] ELSE fdt[0]

LEMMA RestoreStdioEffect ==
    ASSUME TypeOK, RestoreStdio
    PROVE  /\ pc = "p_restore" /\ pc' = "x_check"
           /\ UNCHANGED <<hd, cur, k, hfd, save, spoiled, sigs, gsig>>
           /\ \A f \in Fds :
                 f > 1 => fdt'[f] = IF f \in {save.in, save.out} THEN Closed ELSE fdt[f]
           /\ 0 \notin {save.in, save.out} => fdt'[0] = InputBack
           /\ 0 \notin {save.in, save.out} /\ 1 \notin {save.in, save.out} =>
                 fdt'[1] = IF IsOpen(fdt, save.out) THEN fdt[save.out] ELSE fdt[1]
<1>1. fdt \in Tables /\ 0 \in Fds /\ 1 \in Fds
  BY StdFds DEF TypeOK
<1> DEFINE t == Dup2(fdt, save.in, 0)
<1>2. t \in Tables /\ \A f \in Fds : t[f] = IF f = 0 THEN InputBack ELSE fdt[f]
  BY <1>1, Dup2Effect DEF InputBack
<1> HIDE DEF t
<1>3. /\ Restored(fdt) \in Tables
      /\ \A f \in Fds : Restored(fdt)[f] = IF f = 1 /\ IsOpen(t, save.out)
                                          THEN t[save.out] ELSE t[f]
  BY <1>1, <1>2, Dup2Effect DEF Restored, t
<1>4. fdt' = Close(Close(Restored(fdt), save.in), save.out)
  BY DEF RestoreStdio
<1>5. \A f \in Fds : fdt'[f] = IF f \in {save.in, save.out} THEN Closed ELSE Restored(fdt)[f]
  BY <1>3, <1>4, CloseEffect
<1>6. \A f \in Fds :
         f > 1 => fdt'[f] = IF f \in {save.in, save.out} THEN Closed ELSE fdt[f]
  BY <1>1, <1>2, <1>3, <1>5
<1>7. 0 \notin {save.in, save.out} => fdt'[0] = InputBack
  BY <1>1, <1>2, <1>3, <1>5
<1>8. 0 \notin {save.in, save.out} /\ 1 \notin {save.in, save.out} =>
         fdt'[1] = IF IsOpen(fdt, save.out) THEN fdt[save.out] ELSE fdt[1]
  <2> SUFFICES ASSUME 0 \notin {save.in, save.out}, 1 \notin {save.in, save.out}
               PROVE  fdt'[1] = IF IsOpen(fdt, save.out) THEN fdt[save.out] ELSE fdt[1]
    OBVIOUS
  <2>1. fdt'[1] = IF IsOpen(t, save.out) THEN t[save.out] ELSE t[1]
    BY <1>1, <1>3, <1>5
  <2>2. t[1] = fdt[1] /\ (save.out \in Fds => t[save.out] = fdt[save.out])
    <3>1. save.out # 0 /\ 1 # 0
      OBVIOUS
    <3>2. QED
      BY <1>1, <1>2, <3>1
  <2>3. IsOpen(t, save.out) <=> IsOpen(fdt, save.out)
    BY <2>2 DEF IsOpen
  <2>4. IsOpen(fdt, save.out) => save.out \in Fds
    BY DEF IsOpen
  <2>5. QED
    BY <2>1, <2>2, <2>3, <2>4
<1>9. QED
  BY <1>6, <1>7, <1>8
     DEF RestoreStdio, hdVars, lineVars, runVars, sigVars, countVars, histVars

LEMMA ForkAllEffect ==
    ASSUME TypeOK, ForkAll
    PROVE  /\ pc = "f_fork" /\ UNCHANGED <<hd, cur, k, hfd, save, sigs, gsig>>
           /\ \/ pc' = "f_close" /\ UNCHANGED <<fdt, spoiled>>
              \/ /\ pc' = "x_check" /\ spoiled' = spoiled \cup {"failed"}
                 /\ \/ fdt' = fdt
                    \/ \E g \in Fds :
                          /\ fdt[g] = Closed
                          /\ \A f \in Fds : fdt'[f] = IF f = g THEN "pipe" ELSE fdt[f]
<1>1. fdt \in Tables
  BY DEF TypeOK
<1>2. pc = "f_fork" /\ UNCHANGED <<hd, cur, k, hfd, save, sigs, gsig>>
  BY DEF ForkAll, hdVars, lineVars, sigVars, countVars
<1>3. ASSUME NEW g \in Fds, fdt[g] = Closed, fdt' = [fdt EXCEPT ![g] = "pipe"]
      PROVE  \A f \in Fds : fdt'[f] = IF f = g THEN "pipe" ELSE fdt[f]
  BY <1>1, <1>3 DEF Tables
<1>4. QED
  BY <1>2, <1>3 DEF ForkAll, Spoil

LEMMA SigintHeredocEffect ==
    ASSUME TypeOK, SigintHeredoc
    PROVE  /\ UNCHANGED <<pc, hd, cur, k, hfd, save>>
           /\ gsig' = SIGINT /\ sigs' = sigs + 1 /\ sigs' # 0 /\ handler = "heredoc"
           /\ spoiled' = IF InReach THEN spoiled ELSE spoiled \cup {"late"}
           /\ \A f \in Fds : fdt'[f] = IF f = 0 THEN Closed ELSE fdt[f]
<1>1. fdt \in Tables /\ sigs \in Nat
  BY ConstantsAssumption DEF TypeOK
<1>2. \A f \in Fds : fdt'[f] = IF f = 0 THEN Closed ELSE fdt[f]
  BY <1>1, CloseEffect DEF SigintHeredoc, CutInput
<1>3. QED
  BY <1>1, <1>2 DEF SigintHeredoc, Deliver, Spoil, hdVars, lineVars, runVars

---------------------------------------------------------------------------
(* Every descriptor above the standard ones has an owner                   *)

\* A shell that is gone stays gone.
LEMMA LiveBefore ==
    ASSUME [Next]_vars, Live'
    PROVE  Live
  BY DEF Next, Step, Await, Sigint, Terminated, Live, vars, ClearSignal, InstallHandler, CheckInput,
         BeginSegment, EndInput, Leave, LexLine, ParsePipeline, ExpandPipeline, ExecPipeline,
         GatherNext, HeredocOpen, HeredocDup, HeredocInstall, HeredocCutOff, HeredocUser,
         HeredocRead, HeredocCheck, HeredocRestore, HeredocReset, HeredocReinstall,
         HeredocReopen, GatherFail, SaveStdio, RedirectOnly, ApplyRedirect, ApplyDone,
         RunBuiltin, ExitBuiltin, RestoreStdio, ExecForked, ForkAll, CloseHeredocs, CheckSignal,
         FinishLine, ReadPrompt, WaitAll, SigintDefault, SigintRecord, SigintHeredoc, Deliver,
         AtHeredoc, Gathered

LEMMA HighNext ==
    ASSUME TypeOK, GatheredInv, HighInv, [Next]_vars
    PROVE  HighInv'
<1>a. /\ DOMAIN cur.redirs = 1..Len(cur.redirs) /\ Len(cur.redirs) \in Nat
      /\ hfd \in [DOMAIN hfd -> Fds \cup {NoFd}] /\ k \in Nat \ {0}
  BY HfdDomains
<1>b. GatheredInv'
  BY GatheredNext
<1>c. Fds \subseteq Nat /\ NoFd \notin Fds
  BY StdFds, MaxFdAssumption DEF Fds
<1> SUFFICES ASSUME Live', NEW f \in Fds, f > 2, fdt'[f] # Closed
             PROVE  Accounted(f)'
  BY DEF HighInv
<1>d. Live
  BY LiveBefore
<1>e. fdt[f] # Closed => Accounted(f)
  BY <1>d DEF HighInv
<1>f. pc \in GatherPcs \cup {"apply"} => DOMAIN hfd = DOMAIN cur.redirs
  BY <1>d DEF GatheredInv
<1>g. pc' # "exited" /\ pc' # "killed"
  BY DEF Live
<1> USE DEF Accounted, Working, Pending, Writing, Saving, Redirecting, GatherPcs, HdPcs
<1>1. CASE Idle
  BY <1>1, <1>e DEF Idle, IdlePcs
<1>2. CASE ExecPipeline
  BY <1>2, <1>e DEF ExecPipeline, histVars
<1>3. CASE GatherNext
  BY <1>3, <1>e DEF GatherNext, hdVars, runVars, histVars
<1>4. CASE HeredocOpen
  BY <1>4, <1>e, HeredocOpenEffect
<1>5. CASE HeredocDup
  BY <1>5, <1>e, HeredocDupEffect
<1>6. CASE HeredocInstall
  BY <1>6, <1>e DEF HeredocInstall, lineVars, hdVars, runVars, histVars
<1>7. CASE HeredocUser \/ HeredocCutOff
  <2>1. /\ pc = "hd_read" /\ pc' = "hd_check" /\ hd'.w = hd.w /\ hd'.saved = hd.saved
        /\ UNCHANGED <<fdt, hfd, save, k, cur, spoiled>>
    BY <1>7 DEF HeredocUser, HeredocCutOff, HeredocRead, TypeOK, HdType, lineVars, runVars, histVars
  <2>2. QED
    BY <2>1, <1>e
<1>8. CASE HeredocCheck
  BY <1>8, <1>e, HeredocCheckEffect
<1>9. CASE HeredocRestore
  BY <1>9, <1>e, HeredocRestoreEffect
<1>10. CASE HeredocReset
  BY <1>10, <1>e, HeredocResetEffect
<1>11. CASE HeredocReinstall
  BY <1>11, <1>e DEF HeredocReinstall, lineVars, runVars, histVars
<1>12. CASE HeredocReopen
  <2>1. CASE pc' = "gather_fail" /\ UNCHANGED <<hfd, fdt, k>>
    BY <1>12, <2>1, <1>e, HeredocReopenEffect
  <2>2. CASE pc' = "gather"
    <3>1. PICK n \in Fds : /\ fdt[n] = Closed /\ hfd' = [hfd EXCEPT ![k] = n]
                           /\ \A g \in Fds : fdt'[g] = IF g = n THEN "tmp_r" ELSE fdt[g]
      BY <1>12, <2>2, HeredocReopenEffect
    <3>2. k \in DOMAIN hfd /\ hfd[k] = NoFd
      BY <1>12, <1>a, <1>d DEF HeredocReopen, GatheredInv
    <3>3. DOMAIN hfd' = DOMAIN hfd /\ hfd'[k] = n
          /\ \A r \in DOMAIN hfd : r # k => hfd'[r] = hfd[r]
      BY <3>1, <3>2, <1>a
    <3>4. pc = "hd_reopen" /\ spoiled' = spoiled
      BY <1>12, HeredocReopenEffect
    <3>5. CASE f = n
      BY <2>2, <3>1, <3>2, <3>3, <3>5
    <3>6. CASE f # n
      BY <2>2, <3>1, <3>2, <3>3, <3>4, <3>6, <1>c, <1>e
    <3>7. QED
      BY <3>5, <3>6
  <2>3. QED
    BY <1>12, <2>1, <2>2, HeredocReopenEffect
<1>13. CASE GatherFail \/ CloseHeredocs
  BY <1>13, <1>e, HeredocsClosedEffect
<1>14. CASE SaveStdio
  BY <1>14, <1>a, <1>e, <1>f, SaveStdioEffect
<1>15. CASE RedirectOnly
  <2>1. pc = "gather" /\ pc' = "apply" /\ k' = 1 /\ UNCHANGED <<fdt, hfd, hd, save>>
        /\ spoiled \subseteq spoiled'
    BY <1>15 DEF RedirectOnly, Gathered, Spoil, hdVars, runVars
  <2>2. QED
    BY <2>1, <1>a, <1>e, <1>f
<1>16. CASE ApplyRedirect
  <2>1. CASE pc' = "apply" /\ k' = k + 1
    <3>1. PICK fd : /\ fd # NoFd
                    /\ IF cur.redirs[k] = "heredoc" THEN fd = hfd[k]
                       ELSE fd \in Fds /\ fdt[fd] = Closed
                    /\ fdt'[f] = IF f = fd THEN Closed
                                 ELSE IF f # TargetOf(cur.redirs[k]) THEN fdt[f]
                                 ELSE fdt'[f]
      BY <1>16, <2>1, ApplyRedirectEffect
    <3>2. f # TargetOf(cur.redirs[k]) /\ f # fd /\ fdt'[f] = fdt[f]
      BY <3>1, <1>c DEF TargetOf
    <3>3. \A r \in DOMAIN hfd : r >= k /\ hfd[r] = f => r >= k + 1
      <4>1. ASSUME NEW r \in DOMAIN hfd, r >= k, hfd[r] = f
            PROVE  r # k
        <5>1. CASE cur.redirs[k] = "heredoc"
          BY <3>1, <3>2, <4>1, <5>1
        <5>2. CASE cur.redirs[k] # "heredoc"
          BY <1>16, <1>c, <1>d, <4>1, <5>2 DEF ApplyRedirect, GatheredInv
        <5>3. QED
          BY <5>1, <5>2
      <4>2. QED
        BY <4>1, <1>a, <1>f, <1>16 DEF ApplyRedirect
    <3>4. QED
      BY <1>16, <2>1, <3>2, <3>3, <1>e, ApplyRedirectEffect
  <2>2. CASE pc' # "apply"
    <3>1. /\ pc = "apply" /\ pc' = IF IsParentBuiltin(cur) THEN "p_restore" ELSE "x_check"
          /\ cur.redirs[k] = "heredoc" => hfd[k] = NoFd
          /\ UNCHANGED <<k, fdt, cur, save, hd, hfd>>
          /\ spoiled' = IF \E j \in DOMAIN cur.redirs : j > k /\ cur.redirs[j] = "heredoc"
                        THEN spoiled \cup {"failed"} ELSE spoiled
      BY <1>16, <2>2, ApplyRedirectEffect
    <3>2. ASSUME NEW r \in DOMAIN hfd, r >= k, hfd[r] = f
          PROVE  "failed" \in spoiled'
      <4>1. cur.redirs[r] = "heredoc" /\ r \in DOMAIN cur.redirs
        BY <3>1, <3>2, <1>c, <1>d DEF GatheredInv
      <4>2. r # k
        BY <3>1, <3>2, <4>1, <1>c
      <4>3. r > k
        BY <3>2, <4>1, <4>2, <1>a
      <4>4. QED
        BY <3>1, <4>1, <4>3
    <3>3. QED
      BY <3>1, <3>2, <1>e
  <2>3. QED
    BY <1>16, <2>1, <2>2, ApplyRedirectEffect
<1>17. CASE ApplyDone
  BY <1>17, <1>a, <1>e, <1>f DEF ApplyDone, lineVars, hdVars, histVars
<1>18. CASE RunBuiltin
  BY <1>18, <1>e DEF RunBuiltin, lineVars, hdVars, histVars
<1>19. CASE RestoreStdio
  BY <1>19, <1>c, <1>e, RestoreStdioEffect
<1>20. CASE ExecForked
  BY <1>20, <1>e DEF ExecForked, Gathered, lineVars, hdVars, runVars, histVars
<1>21. CASE ForkAll
  BY <1>21, <1>e, ForkAllEffect
<1>22. CASE SigintRecord
  BY <1>22, <1>e DEF SigintRecord, lineVars, hdVars, runVars, histVars
<1>23. CASE SigintHeredoc
  BY <1>23, <1>e, SigintHeredocEffect
<1>24. CASE UNCHANGED vars
  BY <1>24, <1>e DEF vars, lineVars, hdVars, runVars, histVars
<1> HIDE DEF Accounted
<1>25. QED
  BY <1>1, <1>2, <1>3, <1>4, <1>5, <1>6, <1>7, <1>8, <1>9, <1>10, <1>11, <1>12, <1>13, <1>14,
     <1>15, <1>16, <1>17, <1>18, <1>19, <1>20, <1>21, <1>22, <1>23, <1>24, <1>g, IdleOrBusy
     DEF Busy

---------------------------------------------------------------------------
(* The standard descriptors stay open                                      *)

LEMMA OpenNext ==
    ASSUME TypeOK, GatheredInv, QuietInv, ApartInv, OpenInv, [Next]_vars
    PROVE  ApartInv' /\ OpenInv'
<1>a. /\ hfd \in [DOMAIN hfd -> Fds \cup {NoFd}] /\ k \in Nat \ {0}
      /\ hd \in HdType /\ save \in SaveType /\ sigs \in Nat
  BY HfdDomains, ConstantsAssumption DEF TypeOK
<1>b. Fds \subseteq Nat /\ NoFd \notin Fds /\ 0 \in Fds /\ 1 \in Fds /\ 2 \in Fds
      /\ ~(NoFd > 2)
  BY StdFds, MaxFdAssumption DEF Fds, NoFd
<1>h. \A f \in Fds : fdt[f] = Closed /\ IsOpen(fdt, 0) /\ IsOpen(fdt, 1) /\ IsOpen(fdt, 2)
                   => f > 2
  BY <1>b DEF IsOpen
<1> SUFFICES ASSUME Live', Unlost'
             PROVE  ApartInv' /\ OpenInv'
  BY DEF ApartInv, OpenInv
<1>c. Live
  BY LiveBefore
<1>d. pc' # "exited" /\ pc' # "killed"
  BY DEF Live
<1> DEFINE Apart == /\ AboveStd(hd.w) /\ AboveStd(hd.saved)
                    /\ AboveStd(save.in) /\ AboveStd(save.out)
                    /\ \A r \in DOMAIN hfd : AboveStd(hfd[r])
           Mine == /\ Writing => hd.w # hd.saved
                   /\ pc = "hd_dup" => IsOpen(fdt, hd.w) /\ hd.saved = NoFd
                   /\ Saving /\ pc # "hd_reset" /\ "nofd" \notin spoiled => IsOpen(fdt, hd.saved)
           Std == /\ IsOpen(fdt, 1) /\ IsOpen(fdt, 2)
                  /\ ~CutOff => IsOpen(fdt, 0)
<1>e. Unlost => Apart /\ Mine /\ Std
  BY <1>c DEF ApartInv, OpenInv
<1>f. Apart' /\ Mine' /\ Std' => ApartInv' /\ OpenInv'
  BY DEF ApartInv, OpenInv
<1>g. sigs = 0 => gsig = 0 /\ hd.int = 0
  BY <1>c DEF QuietInv
<1> HIDE DEF Apart, Mine, Std
<1>1. CASE Idle
  <2>1. Unlost /\ Apart /\ Mine /\ Std
    BY <1>1, <1>e DEF Idle, Unlost
  <2>2. Apart'
    BY <1>1, <2>1 DEF Idle, Apart, AboveStd, NoHeredoc
  <2>3. Mine' /\ Std'
    BY <1>1, <2>1 DEF Idle, IdlePcs, Mine, Std, Writing, Saving, CutOff
  <2>4. QED
    BY <2>2, <2>3, <1>f
<1>2. CASE ExecPipeline
  <2>1. Unlost /\ Apart /\ Std
    BY <1>2, <1>e DEF ExecPipeline, Unlost, histVars, countVars
  <2>2. Apart'
    BY <1>2, <2>1 DEF ExecPipeline, Apart, AboveStd, hdVars, runVars
  <2>3. Mine' /\ Std'
    BY <1>2, <2>1 DEF ExecPipeline, Mine, Std, Writing, Saving, CutOff
  <2>4. QED
    BY <2>2, <2>3, <1>f
<1>3. CASE GatherNext \/ ExecForked \/ RedirectOnly
  <2>1. /\ UNCHANGED <<fdt, hfd, hd, save, sigs>> /\ pc = "gather" /\ pc' \in {"gather", "f_fork", "apply"}
        /\ spoiled' \in {spoiled, spoiled \cup {"bare"}}
    BY <1>3 DEF GatherNext, ExecForked, RedirectOnly, Gathered, Spoil, lineVars, hdVars, runVars,
               countVars, histVars
  <2>2. Unlost /\ Apart /\ Std
    BY <2>1, <1>e DEF Unlost
  <2>3. Apart' /\ Mine' /\ Std'
    BY <2>1, <2>2 DEF Apart, Mine, Std, Writing, Saving, CutOff
  <2>4. QED
    BY <2>3, <1>f
<1>4. CASE HeredocOpen
  <2>1. Unlost /\ Apart /\ Std
    BY <1>4, <1>e, HeredocOpenEffect DEF Unlost
  <2>2. IsOpen(fdt, 0) /\ IsOpen(fdt, 1) /\ IsOpen(fdt, 2)
    BY <1>4, <2>1, HeredocOpenEffect DEF Std, CutOff
  <2>3. CASE pc' = "gather_fail" /\ UNCHANGED <<hd, fdt>>
    BY <1>4, <1>f, <2>1, <2>2, <2>3, HeredocOpenEffect
       DEF Apart, Mine, Std, Writing, Saving, CutOff
  <2>4. CASE /\ pc' = "hd_dup" /\ hd'.w \in Fds /\ hd'.saved = NoFd
             /\ fdt[hd'.w] = Closed
             /\ \A f \in Fds : fdt'[f] = IF f = hd'.w THEN "tmp_w" ELSE fdt[f]
    <3>1. hd'.w > 2
      BY <2>2, <2>4, <1>h
    <3>2. Apart'
      BY <1>4, <2>1, <2>4, <3>1, HeredocOpenEffect DEF Apart, AboveStd
    <3>3. Mine' /\ Std'
      BY <2>2, <2>4, <3>1, <1>b DEF Mine, Std, Writing, Saving, IsOpen, Closed
    <3>4. QED
      BY <3>2, <3>3, <1>f
  <2>5. QED
    BY <1>4, <2>3, <2>4, HeredocOpenEffect
<1>5. CASE HeredocDup
  <2>1. Unlost /\ Apart /\ Mine /\ Std
    BY <1>5, <1>e, HeredocDupEffect DEF Unlost
  <2>2. IsOpen(fdt, 0) /\ IsOpen(fdt, 1) /\ IsOpen(fdt, 2) /\ IsOpen(fdt, hd.w)
    BY <1>5, <2>1, HeredocDupEffect DEF Mine, Std, CutOff
  <2>3. ASSUME hd'.saved # NoFd
        PROVE  /\ hd'.saved \in Fds /\ hd'.saved > 2 /\ hd'.saved # hd.w
               /\ IsOpen(fdt', hd'.saved)
    <3>1. hd'.saved \in Fds /\ fdt[hd'.saved] = Closed /\ fdt'[hd'.saved] = fdt[0]
      BY <1>5, <2>3, HeredocDupEffect
    <3>2. QED
      BY <2>2, <3>1, <1>h DEF IsOpen
  <2>4. Apart'
    BY <1>5, <2>1, <2>3, HeredocDupEffect DEF Apart, AboveStd
  <2>5. Mine'
    BY <1>5, <2>2, <2>3, <1>b, HeredocDupEffect DEF Mine, Writing, Saving, IsOpen
  <2>6. Std'
    BY <1>5, <2>2, <2>3, <1>b, HeredocDupEffect DEF Std, IsOpen
  <2>7. QED
    BY <2>4, <2>5, <2>6, <1>f
<1>6. CASE HeredocInstall \/ HeredocUser \/ HeredocCutOff
  <2>1. /\ hd'.w = hd.w /\ hd'.saved = hd.saved /\ UNCHANGED <<fdt, hfd, save, sigs, spoiled, gsig>>
        /\ \/ pc = "hd_install" /\ pc' = "hd_read"
           \/ pc = "hd_read" /\ pc' = "hd_check"
    BY <1>6, <1>a DEF HeredocInstall, HeredocUser, HeredocCutOff, HeredocRead, HdType, hdVars,
                      lineVars, runVars, sigVars, countVars, histVars
  <2>2. Unlost /\ Apart /\ Mine /\ Std
    BY <2>1, <1>e DEF Unlost
  <2>3. Apart'
    BY <2>1, <2>2 DEF Apart, AboveStd
  <2>4. Mine' /\ Std'
    BY <2>1, <2>2 DEF Mine, Std, Writing, Saving, CutOff
  <2>5. QED
    BY <2>3, <2>4, <1>f
<1>7. CASE HeredocCheck
  <2>1. Unlost /\ Apart /\ Mine /\ Std
    BY <1>7, <1>e, HeredocCheckEffect DEF Unlost
  <2>2. CASE pc' = "hd_read" /\ UNCHANGED <<hd, fdt>>
    BY <1>7, <1>f, <2>1, <2>2, HeredocCheckEffect
       DEF Apart, AboveStd, Mine, Std, Writing, Saving, CutOff
  <2>3. CASE /\ pc' = "hd_restore" /\ hd'.w = hd.w /\ hd'.saved = hd.saved
             /\ (hd'.int = 1) <=> (gsig = SIGINT)
             /\ \A f \in Fds : fdt'[f] = IF f = hd.w THEN Closed ELSE fdt[f]
    <3>1. hd.w # hd.saved /\ hd.w # 0 /\ hd.w # 1 /\ hd.w # 2
      BY <1>7, <2>1, <1>b, HeredocCheckEffect DEF Apart, AboveStd, Mine, Writing
    <3>2. Apart'
      BY <1>7, <2>1, <2>3, HeredocCheckEffect DEF Apart, AboveStd
    <3>3. Mine'
      BY <1>7, <2>1, <2>3, <3>1, HeredocCheckEffect DEF Mine, Writing, Saving, IsOpen
    <3>4. Std'
      BY <1>7, <2>1, <2>3, <3>1, <1>b, HeredocCheckEffect DEF Std, CutOff, IsOpen
    <3>5. QED
      BY <3>2, <3>3, <3>4, <1>f
  <2>4. QED
    BY <1>7, <2>2, <2>3, HeredocCheckEffect
<1>8. CASE HeredocRestore
  <2>1. Unlost /\ Apart /\ Mine /\ Std
    BY <1>8, <1>e, HeredocRestoreEffect DEF Unlost
  <2>2. hd.int = 1 => IsOpen(fdt, hd.saved)
    BY <1>8, <1>g, <2>1, HeredocRestoreEffect DEF Unlost, Mine, Saving
  <2>3. IsOpen(fdt', 0) /\ IsOpen(fdt', 1) /\ IsOpen(fdt', 2)
    BY <1>8, <1>b, <2>1, <2>2, HeredocRestoreEffect DEF Std, CutOff, IsOpen
  <2>4. Apart' /\ Mine' /\ Std'
    BY <1>8, <2>1, <2>3, HeredocRestoreEffect DEF Apart, AboveStd, Mine, Writing, Saving, Std
  <2>5. QED
    BY <2>4, <1>f
<1>9. CASE HeredocReset
  <2>1. Unlost /\ Apart /\ Std
    BY <1>9, <1>e, HeredocResetEffect DEF Unlost
  <2>2. hd.saved # 0 /\ hd.saved # 1 /\ hd.saved # 2
    BY <2>1, <1>b DEF Apart, AboveStd, NoFd
  <2>3. IsOpen(fdt', 0) /\ IsOpen(fdt', 1) /\ IsOpen(fdt', 2)
    BY <1>9, <1>b, <2>1, <2>2, HeredocResetEffect DEF Std, CutOff, IsOpen
  <2>4. Apart' /\ Mine' /\ Std'
    BY <1>9, <2>1, <2>3, HeredocResetEffect DEF Apart, AboveStd, Mine, Writing, Saving, Std
  <2>5. QED
    BY <2>4, <1>f
<1>10. CASE HeredocReinstall
  <2>1. /\ UNCHANGED <<fdt, hfd, hd, save, sigs, spoiled>>
        /\ pc = "hd_reinstall" /\ pc' \in {"gather_fail", "hd_reopen"}
    BY <1>10 DEF HeredocReinstall, lineVars, runVars, countVars, histVars
  <2>2. Unlost /\ Apart /\ Std
    BY <2>1, <1>e DEF Unlost
  <2>3. Apart' /\ Mine' /\ Std'
    BY <2>1, <2>2 DEF Apart, Mine, Std, Writing, Saving, CutOff
  <2>4. QED
    BY <2>3, <1>f
<1>11. CASE HeredocReopen
  <2>1. Unlost /\ Apart /\ Std /\ k \in DOMAIN hfd
    BY <1>11, <1>c, <1>e, HeredocReopenEffect DEF Unlost, GatheredInv, HdPcs
  <2>2. IsOpen(fdt, 0) /\ IsOpen(fdt, 1) /\ IsOpen(fdt, 2)
    BY <1>11, <2>1, HeredocReopenEffect DEF Std, CutOff
  <2>3. CASE pc' = "gather_fail" /\ UNCHANGED <<hfd, fdt, k>>
    BY <1>11, <1>f, <2>1, <2>2, <2>3, HeredocReopenEffect
       DEF Apart, AboveStd, Mine, Std, Writing, Saving
  <2>4. CASE pc' = "gather"
    <3>1. PICK n \in Fds : /\ fdt[n] = Closed /\ hfd' = [hfd EXCEPT ![k] = n]
                           /\ \A g \in Fds : fdt'[g] = IF g = n THEN "tmp_r" ELSE fdt[g]
      BY <1>11, <2>4, HeredocReopenEffect
    <3>2. n > 2
      BY <2>2, <3>1, <1>b DEF IsOpen
    <3>3. DOMAIN hfd' = DOMAIN hfd /\ \A r \in DOMAIN hfd : hfd'[r] \in {n, hfd[r]}
      BY <1>a, <2>1, <3>1
    <3>4. Apart'
      BY <1>11, <2>1, <3>2, <3>3, HeredocReopenEffect DEF Apart, AboveStd
    <3>5. Mine' /\ Std'
      BY <1>11, <2>2, <2>4, <3>1, <3>2, <1>b, HeredocReopenEffect
         DEF Mine, Std, Writing, Saving, IsOpen
    <3>6. QED
      BY <3>4, <3>5, <1>f
  <2>5. QED
    BY <1>11, <2>3, <2>4, HeredocReopenEffect
<1>12. CASE GatherFail \/ CloseHeredocs
  <2>1. Unlost /\ Apart /\ Std
    BY <1>12, <1>e, HeredocsClosedEffect DEF Unlost
  <2>2. IsOpen(fdt, 0) /\ IsOpen(fdt, 1) /\ IsOpen(fdt, 2)
    BY <1>12, <2>1, HeredocsClosedEffect DEF Std, CutOff
  <2>3. \A r \in DOMAIN hfd : hfd[r] # 0 /\ hfd[r] # 1 /\ hfd[r] # 2
    BY <2>1, <1>b DEF Apart, AboveStd, NoFd
  <2>4. IsOpen(fdt', 0) /\ IsOpen(fdt', 1) /\ IsOpen(fdt', 2)
    BY <1>12, <2>2, <2>3, <1>b, HeredocsClosedEffect DEF IsOpen
  <2>5. Apart' /\ Mine' /\ Std'
    BY <1>12, <2>1, <2>4, HeredocsClosedEffect DEF Apart, AboveStd, Mine, Writing, Saving, Std
  <2>6. QED
    BY <2>5, <1>f
<1>13. CASE SaveStdio
  <2>1. Unlost /\ Apart /\ Std
    BY <1>13, <1>e, SaveStdioEffect DEF Unlost
  <2>2. IsOpen(fdt, 0) /\ IsOpen(fdt, 1) /\ IsOpen(fdt, 2)
    BY <1>13, <2>1, SaveStdioEffect DEF Std, CutOff
  <2>3. AboveStd(save'.in) /\ AboveStd(save'.out)
    BY <1>13, <2>2, <1>h, SaveStdioEffect DEF AboveStd
  <2>4. IsOpen(fdt', 0) /\ IsOpen(fdt', 1) /\ IsOpen(fdt', 2)
    BY <1>13, <2>2, <2>3, <1>b, SaveStdioEffect DEF AboveStd, IsOpen, NoFd
  <2>5. Apart' /\ Mine' /\ Std'
    BY <1>13, <2>1, <2>3, <2>4, SaveStdioEffect DEF Apart, Mine, Writing, Saving, Std
  <2>6. QED
    BY <2>5, <1>f
<1>14. CASE ApplyRedirect
  <2>1. Unlost /\ Apart /\ Std
    BY <1>14, <1>e, ApplyRedirectEffect DEF Unlost
  <2>2. IsOpen(fdt, 0) /\ IsOpen(fdt, 1) /\ IsOpen(fdt, 2)
    BY <1>14, <2>1, ApplyRedirectEffect DEF Std, CutOff
  <2>3. CASE pc' = "apply" /\ k' = k + 1
    <3>1. PICK fd : /\ fd # NoFd
                    /\ IF cur.redirs[k] = "heredoc" THEN fd = hfd[k]
                       ELSE fd \in Fds /\ fdt[fd] = Closed
                    /\ \A f \in Fds :
                          fdt'[f] = IF f = fd THEN Closed
                                    ELSE IF f # TargetOf(cur.redirs[k]) THEN fdt[f]
                                    ELSE IF cur.redirs[k] # "heredoc" THEN FileOf(cur.redirs[k])
                                    ELSE IF IsOpen(fdt, fd) THEN fdt[fd] ELSE fdt[f]
      BY <1>14, <2>3, ApplyRedirectEffect
    <3>2. fd # 0 /\ fd # 1 /\ fd # 2
      <4>1. CASE cur.redirs[k] = "heredoc"
        <5>1. k \in DOMAIN hfd
          BY <1>14, <1>c, ApplyRedirectEffect DEF GatheredInv
        <5>2. QED
          BY <2>1, <3>1, <4>1, <5>1, <1>b DEF Apart, AboveStd
      <4>2. CASE cur.redirs[k] # "heredoc"
        BY <2>2, <3>1, <4>2 DEF IsOpen
      <4>3. QED
        BY <4>1, <4>2
    <3>3. IsOpen(fdt', 0) /\ IsOpen(fdt', 1) /\ IsOpen(fdt', 2)
      BY <2>2, <3>1, <3>2, <1>b DEF IsOpen, FileOf, Closed
    <3>4. Apart' /\ Mine' /\ Std'
      BY <1>14, <2>1, <2>3, <3>3, ApplyRedirectEffect DEF Apart, Mine, Writing, Saving, Std
    <3>5. QED
      BY <3>4, <1>f
  <2>4. CASE pc' # "apply"
    <3>1. Apart' /\ Mine' /\ Std'
      BY <1>14, <2>1, <2>2, <2>4, ApplyRedirectEffect DEF Apart, Mine, Writing, Saving, Std
    <3>2. QED
      BY <3>1, <1>f
  <2>5. QED
    BY <1>14, <2>3, <2>4, ApplyRedirectEffect
<1>15. CASE ApplyDone \/ RunBuiltin
  <2>1. /\ UNCHANGED <<fdt, hfd, hd, save, sigs, spoiled>>
        /\ pc \in {"apply", "p_run"} /\ pc' \in {"p_run", "x_check", "p_restore"}
    BY <1>15 DEF ApplyDone, RunBuiltin, lineVars, hdVars, countVars, histVars
  <2>2. Unlost /\ Apart /\ Std
    BY <2>1, <1>e DEF Unlost
  <2>3. Apart' /\ Mine' /\ Std'
    BY <2>1, <2>2 DEF Apart, Mine, Std, Writing, Saving, CutOff
  <2>4. QED
    BY <2>3, <1>f
<1>16. CASE RestoreStdio
  <2>1. Unlost /\ Apart /\ Std
    BY <1>16, <1>e, RestoreStdioEffect DEF Unlost
  <2>2. IsOpen(fdt, 0) /\ IsOpen(fdt, 1) /\ IsOpen(fdt, 2)
    BY <1>16, <2>1, RestoreStdioEffect DEF Std, CutOff
  <2>3. \A f \in {0, 1, 2} : f \notin {save.in, save.out}
    BY <2>1, <1>b DEF Apart, AboveStd, NoFd
  <2>4. fdt'[0] = InputBack /\ fdt'[2] = fdt[2]
        /\ fdt'[1] = IF IsOpen(fdt, save.out) THEN fdt[save.out] ELSE fdt[1]
    BY <1>16, <1>b, <2>3, RestoreStdioEffect
  <2>5. IsOpen(fdt', 0) /\ IsOpen(fdt', 1) /\ IsOpen(fdt', 2)
    BY <2>2, <2>4 DEF InputBack, IsOpen
  <2>6. Apart' /\ Mine' /\ Std'
    BY <1>16, <2>1, <2>5, RestoreStdioEffect DEF Apart, Mine, Writing, Saving, Std
  <2>7. QED
    BY <2>6, <1>f
<1>17. CASE ForkAll
  <2>1. Unlost /\ Apart /\ Std
    BY <1>17, <1>e, ForkAllEffect DEF Unlost
  <2>2. IsOpen(fdt, 0) /\ IsOpen(fdt, 1) /\ IsOpen(fdt, 2)
    BY <1>17, <2>1, ForkAllEffect DEF Std, CutOff
  <2>3. IsOpen(fdt', 0) /\ IsOpen(fdt', 1) /\ IsOpen(fdt', 2)
    BY <1>17, <2>2, <1>b, ForkAllEffect DEF IsOpen, Closed
  <2>4. Apart' /\ Mine' /\ Std'
    BY <1>17, <2>1, <2>3, ForkAllEffect DEF Apart, Mine, Writing, Saving, Std
  <2>5. QED
    BY <2>4, <1>f
<1>18. CASE SigintRecord
  <2>1. UNCHANGED <<pc, fdt, hfd, hd, save, spoiled>> /\ sigs' # 0 /\ gsig' = SIGINT
    BY <1>18, <1>a DEF SigintRecord, Deliver, lineVars, hdVars, runVars, histVars
  <2>2. Unlost /\ Apart /\ Mine /\ Std
    BY <2>1, <1>e DEF Unlost
  <2>3. Apart' /\ Mine' /\ Std'
    BY <2>1, <2>2 DEF Apart, Mine, Std, Writing, Saving, CutOff
  <2>4. QED
    BY <2>3, <1>f
<1>19. CASE SigintHeredoc
  <2>1. InReach /\ "nofd" \notin spoiled
    BY <1>19, SigintHeredocEffect DEF Unlost
  <2>2. Unlost /\ Apart /\ Mine /\ Std
    BY <1>19, <2>1, <1>e, SigintHeredocEffect DEF Unlost
  <2>3. CutOff'
    BY <1>19, <2>1, SigintHeredocEffect DEF InReach, CutOff
  <2>4. hd.saved # 0
    BY <2>2, <1>b DEF Apart, AboveStd, NoFd
  <2>5. UNCHANGED <<pc, hfd, hd, save, spoiled>> /\ pc # "hd_dup"
        /\ \A f \in Fds : fdt'[f] = IF f = 0 THEN Closed ELSE fdt[f]
    BY <1>19, <2>1, SigintHeredocEffect DEF InReach
  <2>6. \A f : f # 0 /\ IsOpen(fdt, f) => IsOpen(fdt', f)
    BY <2>5 DEF IsOpen
  <2>7. Apart'
    BY <2>2, <2>5 DEF Apart
  <2>8. Mine'
    BY <2>2, <2>4, <2>5, <2>6 DEF Mine, Writing, Saving
  <2>9. Std'
    BY <2>2, <2>3, <2>6 DEF Std
  <2>10. QED
    BY <2>7, <2>8, <2>9, <1>f
<1>20. CASE UNCHANGED vars
  <2>1. UNCHANGED <<pc, gsig, sigs, fdt, hfd, hd, save, spoiled>>
    BY <1>20 DEF vars, sigVars, lineVars, hdVars, runVars, countVars, histVars
  <2>2. QED
    BY <2>1, <1>c DEF ApartInv, OpenInv, Unlost, Writing, Saving, CutOff
<1>21. QED
  BY <1>1, <1>2, <1>3, <1>4, <1>5, <1>6, <1>7, <1>8, <1>9, <1>10, <1>11, <1>12, <1>13, <1>14,
     <1>15, <1>16, <1>17, <1>18, <1>19, <1>20, <1>d, IdleOrBusy
     DEF Busy

---------------------------------------------------------------------------
(* The copies the shell keeps stay what they are                           *)

\* What has cost the shell a descriptor is remembered.
LEMMA CleanBefore ==
    ASSUME TypeOK, [Next]_vars, Live', Clean'
    PROVE  Clean
  BY IdleOrBusy, HeredocOpenEffect, HeredocDupEffect, HeredocCheckEffect, HeredocRestoreEffect,
     HeredocResetEffect, HeredocReopenEffect, HeredocsClosedEffect, SaveStdioEffect,
     ApplyRedirectEffect, RestoreStdioEffect, ForkAllEffect, SigintHeredocEffect
     DEF Live, Busy, Idle, Clean, ExecPipeline, GatherNext, HeredocInstall, HeredocUser, HeredocCutOff,
         HeredocRead, HeredocReinstall, RedirectOnly, ApplyDone, RunBuiltin, ExecForked,
         SigintRecord, Spoil, vars, histVars

LEMMA CopiesNext ==
    ASSUME TypeOK, GatheredInv, ApartInv, OpenInv, CopiesInv, StdioInv, [Next]_vars
    PROVE  CopiesInv'
<1>a. /\ hfd \in [DOMAIN hfd -> Fds \cup {NoFd}] /\ k \in Nat \ {0}
      /\ hd \in HdType /\ save \in SaveType /\ sigs \in Nat
      /\ DOMAIN cur.redirs = 1..Len(cur.redirs) /\ Len(cur.redirs) \in Nat
  BY HfdDomains, ConstantsAssumption DEF TypeOK
<1>b. Fds \subseteq Nat /\ NoFd \notin Fds /\ 0 \in Fds /\ 1 \in Fds /\ 2 \in Fds
      /\ ~(NoFd > 2)
  BY StdFds, MaxFdAssumption DEF Fds, NoFd
<1> SUFFICES ASSUME Live', Clean'
             PROVE  CopiesInv'
  BY DEF CopiesInv
<1>c. Live
  BY LiveBefore
<1>d. pc' # "exited" /\ pc' # "killed"
  BY DEF Live
<1> DEFINE Copies ==
               /\ Writing => hd.w \in Fds /\ fdt[hd.w] = "tmp_w"
               /\ Saving => hd.saved \in Fds /\ fdt[hd.saved] = "stdin"
               /\ Redirecting => /\ save.in \in Fds /\ fdt[save.in] = "stdin"
                                 /\ save.out \in Fds /\ fdt[save.out] = "stdout"
               /\ \A r \in Pending : hfd[r] # NoFd =>
                     /\ fdt[hfd[r]] = "tmp_r"
                     /\ \A s \in Pending : hfd[s] = hfd[r] => s = r
           Apart == /\ AboveStd(hd.w) /\ AboveStd(hd.saved)
                    /\ AboveStd(save.in) /\ AboveStd(save.out)
                    /\ \A r \in DOMAIN hfd : AboveStd(hfd[r])
           Std == /\ fdt[0] # Closed \/ CutOff
                  /\ fdt[1] # Closed /\ fdt[2] # Closed
<1>e. Clean => Copies /\ Apart /\ Std
  BY <1>c DEF Clean, Unlost, CopiesInv, ApartInv, OpenInv, IsOpen
<1>f. Copies' => CopiesInv'
  BY DEF CopiesInv
<1>g. Clean
  BY CleanBefore
<1>h. Copies /\ Apart /\ Std
  BY <1>e, <1>g
<1>i. Pending \subseteq DOMAIN hfd /\ \A r \in Pending : hfd[r] # NoFd => hfd[r] \in Fds
  BY <1>a DEF Pending
<1>j. "tmp_w" # Closed /\ "tmp_r" # Closed /\ "stdin" # Closed /\ "stdout" # Closed
  BY DEF Closed
<1>k. \A f : AboveStd(f) => f # 0 /\ f # 1
  BY <1>b DEF AboveStd, NoFd
<1> HIDE DEF Apart, Std
<1> USE DEF Writing, Saving, Redirecting, Pending, GatherPcs, HdPcs
<1>1. CASE Idle
  BY <1>1, <1>f DEF Idle, IdlePcs
<1>2. CASE ExecPipeline
  BY <1>2, <1>f DEF ExecPipeline
<1>3. CASE GatherNext \/ ExecForked
  <2>1. /\ UNCHANGED <<fdt, hfd, hd, save, cur>> /\ pc = "gather" /\ pc' \in {"gather", "f_fork"}
    BY <1>3 DEF GatherNext, ExecForked, Gathered, lineVars, hdVars, runVars
  <2>2. QED
    BY <2>1, <1>f, <1>h
<1>4. CASE RedirectOnly
  <2>1. /\ UNCHANGED <<fdt, hfd, hd, save, cur>> /\ pc = "gather" /\ pc' = "apply"
        /\ cur.redirs = <<>> /\ ~IsParentBuiltin(cur)
    BY <1>4, <1>g DEF RedirectOnly, Gathered, Spoil, Clean, hdVars, runVars, IsRedirectOnly,
                      IsParentBuiltin
  <2>2. DOMAIN hfd = {}
    BY <2>1, <1>c DEF GatheredInv
  <2>3. QED
    BY <2>1, <2>2, <1>f
<1>5. CASE HeredocOpen
  BY <1>5, <1>f, <1>h, <1>i, <1>j, HeredocOpenEffect
<1>6. CASE HeredocDup
  <2>1. hd'.saved # NoFd
    BY <1>6, HeredocDupEffect DEF Clean
  <2>2. fdt[0] = "stdin"
    BY <1>6, <1>c, <1>g, HeredocDupEffect DEF StdioInv, CutOff
  <2>3. QED
    BY <1>6, <1>f, <1>h, <1>i, <1>j, <2>1, <2>2, HeredocDupEffect
<1>7. CASE HeredocInstall \/ HeredocUser \/ HeredocCutOff
  <2>1. /\ hd'.w = hd.w /\ hd'.saved = hd.saved /\ UNCHANGED <<fdt, hfd, save>>
        /\ \/ pc = "hd_install" /\ pc' = "hd_read"
           \/ pc = "hd_read" /\ pc' = "hd_check"
    BY <1>7, <1>a DEF HeredocInstall, HeredocUser, HeredocCutOff, HeredocRead, HdType, hdVars,
                      lineVars, runVars
  <2>2. QED
    BY <2>1, <1>f, <1>h
<1>8. CASE HeredocCheck
  BY <1>8, <1>f, <1>h, <1>i, HeredocCheckEffect
<1>9. CASE HeredocRestore
  BY <1>9, <1>f, <1>h, <1>i, <1>k, HeredocRestoreEffect DEF Apart
<1>10. CASE HeredocReset
  BY <1>10, <1>f, <1>h, <1>i, HeredocResetEffect
<1>11. CASE HeredocReinstall
  BY <1>11, <1>f, <1>h DEF HeredocReinstall, lineVars, runVars
<1>12. CASE HeredocReopen
  <2>1. CASE pc' = "gather_fail" /\ UNCHANGED <<hfd, fdt, k>>
    BY <1>12, <1>f, <1>h, <2>1, HeredocReopenEffect
  <2>2. CASE pc' = "gather"
    <3>1. PICK n \in Fds : /\ fdt[n] = Closed /\ hfd' = [hfd EXCEPT ![k] = n]
                           /\ \A g \in Fds : fdt'[g] = IF g = n THEN "tmp_r" ELSE fdt[g]
      BY <1>12, <2>2, HeredocReopenEffect
    <3>2. k \in DOMAIN hfd
      BY <1>12, <1>c DEF GatheredInv, HeredocReopen
    <3>3. DOMAIN hfd' = DOMAIN hfd /\ hfd'[k] = n
          /\ \A r \in DOMAIN hfd : r # k => hfd'[r] = hfd[r]
      BY <1>a, <3>1, <3>2
    <3>4. \A r \in DOMAIN hfd : hfd[r] # NoFd =>
             /\ hfd[r] \in Fds /\ fdt[hfd[r]] = "tmp_r" /\ hfd[r] # n
             /\ \A s \in DOMAIN hfd : hfd[s] = hfd[r] => s = r
      BY <1>12, <1>h, <1>i, <1>j, <3>1, HeredocReopenEffect
    <3>5. \A r \in DOMAIN hfd' : hfd'[r] # NoFd =>
             /\ fdt'[hfd'[r]] = "tmp_r"
             /\ \A s \in DOMAIN hfd' : hfd'[s] = hfd'[r] => s = r
      <4>1. ASSUME NEW r \in DOMAIN hfd, hfd'[r] # NoFd
            PROVE  /\ fdt'[hfd'[r]] = "tmp_r"
                   /\ \A s \in DOMAIN hfd : hfd'[s] = hfd'[r] => s = r
        <5>1. CASE r = k
          BY <3>1, <3>3, <3>4, <5>1, <1>b
        <5>2. CASE r # k
          BY <3>1, <3>3, <3>4, <4>1, <5>2
        <5>3. QED
          BY <5>1, <5>2
      <4>2. QED
        BY <3>3, <4>1
    <3>6. QED
      BY <2>2, <3>5, <1>f
  <2>3. QED
    BY <1>12, <2>1, <2>2, HeredocReopenEffect
<1>13. CASE GatherFail \/ CloseHeredocs
  BY <1>13, <1>f, HeredocsClosedEffect
<1>14. CASE SaveStdio
  <2>1. save'.in \in Fds /\ save'.out \in Fds
    BY <1>14, SaveStdioEffect DEF Clean
  <2>2. fdt[0] = "stdin" /\ fdt[1] = "stdout"
    BY <1>14, <1>c, <1>g, SaveStdioEffect DEF StdioInv, CutOff
  <2>3. /\ fdt[save'.in] = Closed /\ fdt[save'.out] = Closed /\ save'.in # 1
        /\ save'.in # save'.out
    BY <1>14, <1>b, <1>j, <2>1, <2>2, SaveStdioEffect
  <2>4. fdt'[save'.in] = "stdin" /\ fdt'[save'.out] = "stdout"
    BY <1>14, <2>1, <2>2, <2>3, SaveStdioEffect
  <2>5. pc = "gather" /\ pc' = "apply" /\ k' = 1 /\ hfd' = hfd
        /\ \A f \in Fds : f \notin {save'.in, save'.out} => fdt'[f] = fdt[f]
    BY <1>14, SaveStdioEffect
  <2>6. QED
    BY <1>f, <1>h, <1>i, <1>j, <2>1, <2>3, <2>4, <2>5
<1>15. CASE ApplyRedirect
  <2>1. CASE pc' = "apply" /\ k' = k + 1
    <3>1. PICK fd : /\ fd # NoFd
                    /\ IF cur.redirs[k] = "heredoc" THEN fd = hfd[k]
                       ELSE fd \in Fds /\ fdt[fd] = Closed
                    /\ \A f \in Fds :
                          fdt'[f] = IF f = fd THEN Closed
                                    ELSE IF f # TargetOf(cur.redirs[k]) THEN fdt[f]
                                    ELSE IF cur.redirs[k] # "heredoc" THEN FileOf(cur.redirs[k])
                                    ELSE IF IsOpen(fdt, fd) THEN fdt[fd] ELSE fdt[f]
      BY <1>15, <2>1, ApplyRedirectEffect
    <3>2. pc = "apply" /\ k \in DOMAIN cur.redirs /\ UNCHANGED <<hd, cur, hfd, save>>
      BY <1>15, ApplyRedirectEffect
    <3>3. \A f \in Fds : f > 1 /\ f # fd => fdt'[f] = fdt[f]
      BY <3>1, <1>b DEF TargetOf
    <3>4. DOMAIN hfd = DOMAIN cur.redirs
      BY <3>2, <1>c DEF GatheredInv
    <3>5. \/ fd \in Fds /\ fdt[fd] = Closed
          \/ fd = hfd[k] /\ k \in Pending /\ fdt[fd] = "tmp_r"
      BY <3>1, <3>2, <3>4, <1>a, <1>h
    <3>6. \A r \in DOMAIN hfd : r >= k + 1 => r \in Pending /\ r # k
      BY <3>2, <1>a, <3>4
    <3>7. \A r \in DOMAIN hfd : r >= k + 1 /\ hfd[r] # NoFd => hfd[r] # fd
      BY <3>5, <3>6, <1>h, <1>j
    <3>8. \A f \in Fds : AboveStd(f) => f > 1
      BY <1>b DEF AboveStd
    <3>9. \A r \in DOMAIN hfd : r >= k + 1 /\ hfd[r] # NoFd =>
             fdt'[hfd[r]] = "tmp_r"
      BY <3>3, <3>6, <3>7, <3>8, <1>h, <1>i DEF Apart
    <3>10. ASSUME IsParentBuiltin(cur)
           PROVE  fdt'[save.in] = "stdin" /\ fdt'[save.out] = "stdout"
      <4>1. /\ save.in \in Fds /\ fdt[save.in] = "stdin"
            /\ save.out \in Fds /\ fdt[save.out] = "stdout"
        BY <3>2, <3>10, <1>h
      <4>2. save.in # fd /\ save.out # fd
        BY <3>5, <4>1, <1>j
      <4>3. save.in > 1 /\ save.out > 1
        BY <3>8, <4>1, <1>b, <1>h DEF Apart
      <4>4. QED
        BY <3>3, <4>1, <4>2, <4>3
    <3>11. QED
      BY <2>1, <3>2, <3>6, <3>9, <3>10, <1>f, <1>h
  <2>2. CASE pc' # "apply"
    BY <1>15, <2>2, <1>f, <1>h, ApplyRedirectEffect
  <2>3. QED
    BY <1>15, <2>1, <2>2, ApplyRedirectEffect
<1>16. CASE ApplyDone \/ RunBuiltin
  <2>1. /\ UNCHANGED <<fdt, hfd, hd, save, cur>>
        /\ pc \in {"apply", "p_run"} /\ pc' \in {"p_run", "x_check", "p_restore"}
    BY <1>16 DEF ApplyDone, RunBuiltin, lineVars, hdVars
  <2>2. QED
    BY <2>1, <1>f, <1>h
<1>17. CASE RestoreStdio
  BY <1>17, <1>f, RestoreStdioEffect
<1>18. CASE ForkAll
  BY <1>18, <1>f, <1>h, ForkAllEffect
<1>19. CASE SigintRecord
  BY <1>19, <1>f, <1>h DEF SigintRecord, lineVars, hdVars, runVars
<1>20. CASE SigintHeredoc
  BY <1>20, <1>f, <1>h, <1>i, <1>k, SigintHeredocEffect DEF Apart
<1>21. CASE UNCHANGED vars
  BY <1>21, <1>f, <1>h DEF vars, lineVars, hdVars, runVars
<1>22. QED
  BY <1>1, <1>2, <1>3, <1>4, <1>5, <1>6, <1>7, <1>8, <1>9, <1>10, <1>11, <1>12, <1>13, <1>14,
     <1>15, <1>16, <1>17, <1>18, <1>19, <1>20, <1>21, <1>d, IdleOrBusy
     DEF Busy

---------------------------------------------------------------------------
(* Descriptors 0 and 1 are what the redirects made of them                 *)

LEMMA AppliedNext ==
    ASSUME TypeOK, k \in DOMAIN cur.redirs, k' = k + 1, cur' = cur, NEW kinds
    PROVE  Applied(kinds)' = Applied(kinds) \cup {r \in {k} : cur.redirs[k] \in kinds}
<1>1. DOMAIN cur.redirs \subseteq Nat /\ k \in Nat
  BY HfdDomains
<1>2. QED
  BY <1>1 DEF Applied

LEMMA AppliedNone ==
    ASSUME TypeOK, NEW kinds
    PROVE  /\ cur.redirs = <<>> => Applied(kinds) = {}
           /\ k' = 1 /\ cur' = cur => Applied(kinds)' = {}
<1>1. DOMAIN cur.redirs = 1..Len(cur.redirs) /\ Len(cur.redirs) \in Nat
  BY HfdDomains
<1>2. cur.redirs = <<>> => DOMAIN cur.redirs = {}
  OBVIOUS
<1>3. \A r \in DOMAIN cur.redirs : ~(r < 1)
  BY <1>1
<1>4. QED
  BY <1>2, <1>3 DEF Applied

LEMMA StdioNext ==
    ASSUME TypeOK, GatheredInv, ApartInv, OpenInv, CopiesInv, StdioInv, [Next]_vars
    PROVE  StdioInv'
<1>a. /\ hfd \in [DOMAIN hfd -> Fds \cup {NoFd}] /\ k \in Nat \ {0}
      /\ hd \in HdType /\ save \in SaveType
      /\ DOMAIN cur.redirs = 1..Len(cur.redirs) /\ Len(cur.redirs) \in Nat
      /\ cur.redirs \in [DOMAIN cur.redirs -> Redirects]
  BY HfdDomains DEF TypeOK
<1>b. Fds \subseteq Nat /\ NoFd \notin Fds /\ 0 \in Fds /\ 1 \in Fds /\ 2 \in Fds
      /\ ~(NoFd > 2)
  BY StdFds, MaxFdAssumption DEF Fds, NoFd
<1> SUFFICES ASSUME Live', Clean'
             PROVE  StdioInv'
  BY DEF StdioInv
<1>c. Live /\ Clean
  BY LiveBefore, CleanBefore
<1>d. pc' # "exited" /\ pc' # "killed"
  BY DEF Live
<1> DEFINE Own == /\ fdt[1] = "stdout" /\ fdt[2] = "stderr"
                  /\ ~CutOff => fdt[0] = "stdin"
           Runs == {"apply", "p_run", "p_restore"}
           Apart == /\ AboveStd(hd.w) /\ AboveStd(hd.saved)
                    /\ AboveStd(save.in) /\ AboveStd(save.out)
                    /\ \A r \in DOMAIN hfd : AboveStd(hfd[r])
<1>e. pc \notin Runs => Own
  BY <1>c DEF StdioInv
<1>f. pc' \notin Runs /\ Own' => StdioInv'
  BY DEF StdioInv
<1>g. Apart
  BY <1>c DEF Clean, Unlost, ApartInv
<1>h. \A f : AboveStd(f) => f # 0 /\ f # 1 /\ f # 2
  BY <1>b DEF AboveStd, NoFd
<1>i. fdt[0] = Closed => CutOff
  BY <1>c DEF Clean, Unlost, OpenInv, IsOpen
<1>j. "stdin" # Closed /\ "stdout" # Closed /\ "stderr" # Closed
  BY DEF Closed
<1> HIDE DEF Own, Apart
<1>1. CASE Idle
  BY <1>1, <1>e, <1>f DEF Idle, IdlePcs, Own, CutOff
<1>2. CASE ExecPipeline
  BY <1>2, <1>e, <1>f DEF ExecPipeline, Own, CutOff
<1>3. CASE GatherNext \/ ExecForked
  <2>1. fdt' = fdt /\ pc = "gather" /\ pc' \in {"gather", "f_fork"}
    BY <1>3 DEF GatherNext, ExecForked, Gathered
  <2>2. QED
    BY <2>1, <1>e, <1>f DEF Own, CutOff
<1>4. CASE RedirectOnly
  <2>1. /\ fdt' = fdt /\ pc = "gather" /\ pc' = "apply" /\ k' = 1 /\ cur' = cur
        /\ cur.redirs = <<>>
    BY <1>4, <1>c DEF RedirectOnly, Gathered, Spoil, Clean
  <2>2. Own /\ fdt[0] = "stdin"
    BY <2>1, <1>e DEF Own, CutOff
  <2>3. Input' /\ Output'
    BY <2>1, <2>2, AppliedNone DEF Input, Output, Own
  <2>4. QED
    BY <2>1, <2>2, <2>3 DEF StdioInv, Own
<1>5. CASE HeredocOpen
  <2>1. Own /\ ~CutOff /\ pc' \notin Runs /\ ~CutOff'
    BY <1>5, <1>e, HeredocOpenEffect DEF CutOff
  <2>2. Own'
    BY <1>5, <2>1, <1>b, <1>j, HeredocOpenEffect DEF Own
  <2>3. QED
    BY <2>1, <2>2, <1>f
<1>6. CASE HeredocDup
  <2>1. Own /\ ~CutOff /\ pc' \notin Runs
    BY <1>6, <1>e, HeredocDupEffect DEF CutOff
  <2>2. Own'
    BY <1>6, <2>1, <1>b, <1>j, HeredocDupEffect DEF Own
  <2>3. QED
    BY <2>1, <2>2, <1>f
<1>7. CASE HeredocInstall \/ HeredocUser \/ HeredocCutOff
  <2>1. /\ UNCHANGED <<fdt, gsig>>
        /\ \/ pc = "hd_install" /\ pc' = "hd_read"
           \/ pc = "hd_read" /\ pc' = "hd_check"
    BY <1>7 DEF HeredocInstall, HeredocUser, HeredocCutOff, HeredocRead, sigVars
  <2>2. QED
    BY <2>1, <1>e, <1>f DEF Own, CutOff
<1>8. CASE HeredocCheck
  <2>1. Own /\ pc' \notin Runs /\ (CutOff' <=> CutOff)
    BY <1>8, <1>e, HeredocCheckEffect DEF CutOff
  <2>2. hd.w # 0 /\ hd.w # 1 /\ hd.w # 2
    BY <1>g, <1>h DEF Apart
  <2>3. Own'
    BY <1>8, <2>1, <2>2, <1>b, HeredocCheckEffect DEF Own
  <2>4. QED
    BY <2>1, <2>3, <1>f
<1>9. CASE HeredocRestore
  <2>1. Own /\ pc' \notin Runs /\ ~CutOff' /\ (CutOff <=> hd.int = 1)
    BY <1>9, <1>e, HeredocRestoreEffect DEF CutOff
  <2>2. fdt[hd.saved] = "stdin" /\ IsOpen(fdt, hd.saved)
    BY <1>9, <1>c, <1>j, HeredocRestoreEffect DEF CopiesInv, Saving, IsOpen
  <2>3. Own'
    BY <1>9, <2>1, <2>2, <1>b, HeredocRestoreEffect DEF Own
  <2>4. QED
    BY <2>1, <2>3, <1>f
<1>10. CASE HeredocReset
  <2>1. Own /\ ~CutOff /\ pc' \notin Runs
    BY <1>10, <1>e, HeredocResetEffect DEF CutOff
  <2>2. hd.saved # 0 /\ hd.saved # 1 /\ hd.saved # 2
    BY <1>g, <1>h DEF Apart
  <2>3. Own'
    BY <1>10, <2>1, <2>2, <1>b, HeredocResetEffect DEF Own
  <2>4. QED
    BY <2>1, <2>3, <1>f
<1>11. CASE HeredocReinstall
  BY <1>11, <1>e, <1>f DEF HeredocReinstall, Own, CutOff
<1>12. CASE HeredocReopen
  <2>1. Own /\ ~CutOff /\ pc' \notin Runs /\ ~CutOff'
    BY <1>12, <1>e, HeredocReopenEffect DEF CutOff
  <2>2. Own'
    BY <1>12, <2>1, <1>b, <1>j, HeredocReopenEffect DEF Own
  <2>3. QED
    BY <2>1, <2>2, <1>f
<1>13. CASE GatherFail \/ CloseHeredocs
  <2>1. Own /\ ~CutOff /\ pc' \notin Runs
    BY <1>13, <1>e, HeredocsClosedEffect DEF CutOff
  <2>2. \A r \in DOMAIN hfd : hfd[r] # 0 /\ hfd[r] # 1 /\ hfd[r] # 2
    BY <1>g, <1>h DEF Apart
  <2>3. Own'
    BY <1>13, <2>1, <2>2, <1>b, HeredocsClosedEffect DEF Own
  <2>4. QED
    BY <2>1, <2>3, <1>f
<1>14. CASE SaveStdio
  <2>1. Own /\ ~CutOff
    BY <1>14, <1>e, SaveStdioEffect DEF CutOff
  <2>2. fdt'[0] = "stdin" /\ fdt'[1] = "stdout" /\ fdt'[2] = "stderr"
    BY <1>14, <2>1, <1>b, <1>j, SaveStdioEffect DEF Own
  <2>3. pc' = "apply" /\ k' = 1 /\ cur' = cur /\ IsParentBuiltin(cur)
    BY <1>14, SaveStdioEffect
  <2>4. Input' /\ Output'
    BY <2>2, <2>3, AppliedNone DEF Input, Output
  <2>5. QED
    BY <2>2, <2>3, <2>4 DEF StdioInv
<1>15. CASE ApplyRedirect
  <2>1. /\ pc = "apply" /\ k \in DOMAIN cur.redirs
        /\ UNCHANGED <<cur, hfd, hd, save>> /\ IsParentBuiltin(cur)
        /\ fdt[2] = "stderr" /\ Input /\ Output
    BY <1>15, <1>a, <1>c, ApplyRedirectEffect DEF StdioInv
  <2>2. CASE pc' = "apply" /\ k' = k + 1
    <3>1. PICK fd : /\ fd # NoFd
                    /\ IF cur.redirs[k] = "heredoc" THEN fd = hfd[k]
                       ELSE fd \in Fds /\ fdt[fd] = Closed
                    /\ \A f \in Fds :
                          fdt'[f] = IF f = fd THEN Closed
                                    ELSE IF f # TargetOf(cur.redirs[k]) THEN fdt[f]
                                    ELSE IF cur.redirs[k] # "heredoc" THEN FileOf(cur.redirs[k])
                                    ELSE IF IsOpen(fdt, fd) THEN fdt[fd] ELSE fdt[f]
      BY <1>15, <2>2, ApplyRedirectEffect
    <3>2. DOMAIN hfd = DOMAIN cur.redirs
      BY <2>1, <1>c DEF GatheredInv
    <3>3. fdt[0] # Closed /\ fdt[1] # Closed
      BY <2>1, <1>i DEF CutOff, Output, Closed
    <3>4. fd # 0 /\ fd # 1 /\ fd # 2
      BY <2>1, <3>1, <3>2, <3>3, <1>g, <1>h, <1>j DEF Apart
    <3>5. cur.redirs[k] = "heredoc" => IsOpen(fdt, fd) /\ fdt[fd] = "tmp_r"
      <4>1. ASSUME cur.redirs[k] = "heredoc"
            PROVE  fd = hfd[k] /\ k \in Pending /\ hfd[k] \in Fds
        BY <2>1, <3>1, <3>2, <4>1, <1>a DEF Pending
      <4>2. QED
        BY <3>1, <4>1, <1>c DEF CopiesInv, IsOpen, Closed
    <3>6. fdt'[2] = "stderr"
      BY <2>1, <3>1, <3>4, <1>b DEF TargetOf
    <3>7. cur.redirs[k] \in {"in", "out", "heredoc"}
      BY <2>1, <1>a DEF Redirects
    <3>8. Applied({"in", "heredoc"})' =
             Applied({"in", "heredoc"}) \cup {r \in {k} : cur.redirs[k] \in {"in", "heredoc"}}
      BY <2>1, <2>2, AppliedNext
    <3>9. Applied({"out"})' = Applied({"out"}) \cup {r \in {k} : cur.redirs[k] \in {"out"}}
      BY <2>1, <2>2, AppliedNext
    <3>10. Input'
      <4>1. CASE cur.redirs[k] = "out"
        <5>1. fdt'[0] = fdt[0]
          BY <3>1, <3>4, <4>1, <1>b DEF TargetOf
        <5>2. {r \in {k} : cur.redirs[k] \in {"in", "heredoc"}} = {}
          BY <4>1
        <5>3. Applied({"in", "heredoc"})' = Applied({"in", "heredoc"})
          BY <3>8, <5>2
        <5>4. QED
          BY <2>1, <5>1, <5>3 DEF Input
      <4>2. CASE cur.redirs[k] # "out"
        <5>1. fdt'[0] = IF cur.redirs[k] = "in" THEN "infile" ELSE "tmp_r"
          BY <3>1, <3>4, <3>5, <3>7, <4>2, <1>b DEF TargetOf, FileOf
        <5>2. Applied({"in", "heredoc"})' = Applied({"in", "heredoc"}) \cup {k}
          BY <3>7, <3>8, <4>2
        <5>3. \A s \in Applied({"in", "heredoc"}) : s < k /\ s \in Nat
          BY <1>a DEF Applied
        <5>4. \A s \in Applied({"in", "heredoc"})' : s <= k
          BY <5>2, <5>3, <1>a
        <5>5. QED
          BY <2>1, <5>1, <5>2, <5>4 DEF Input
      <4>3. QED
        BY <4>1, <4>2
    <3>11. Output'
      <4>1. CASE cur.redirs[k] = "out"
        <5>1. fdt'[1] = "outfile"
          BY <3>1, <3>4, <4>1, <1>b DEF TargetOf, FileOf
        <5>2. Applied({"out"})' = Applied({"out"}) \cup {k}
          BY <3>9, <4>1
        <5>3. \A s \in Applied({"out"}) : s < k /\ s \in Nat
          BY <1>a DEF Applied
        <5>4. \A s \in Applied({"out"})' : s <= k
          BY <5>2, <5>3, <1>a
        <5>5. QED
          BY <5>1, <5>2, <5>4 DEF Output
      <4>2. CASE cur.redirs[k] # "out"
        <5>1. fdt'[1] = fdt[1]
          BY <3>1, <3>4, <4>2, <1>b DEF TargetOf
        <5>2. {r \in {k} : cur.redirs[k] \in {"out"}} = {}
          BY <4>2
        <5>3. Applied({"out"})' = Applied({"out"})
          BY <3>9, <5>2
        <5>4. QED
          BY <2>1, <5>1, <5>3 DEF Output
      <4>3. QED
        BY <4>1, <4>2
    <3>12. QED
      BY <2>1, <2>2, <3>6, <3>10, <3>11 DEF StdioInv
  <2>3. CASE pc' # "apply"
    BY <1>15, <2>1, <2>3, ApplyRedirectEffect DEF StdioInv
  <2>4. QED
    BY <1>15, <2>2, <2>3, ApplyRedirectEffect
<1>16. CASE ApplyDone
  <2>1. /\ UNCHANGED <<fdt, cur, k>> /\ pc = "apply" /\ k > Len(cur.redirs)
        /\ pc' = IF IsParentBuiltin(cur) THEN "p_run" ELSE "x_check"
    BY <1>16 DEF ApplyDone, lineVars
  <2>2. /\ fdt[2] = "stderr" /\ Input /\ Output
        /\ IsParentBuiltin(cur) \/ cur.redirs = <<>>
    BY <2>1, <1>c DEF StdioInv
  <2>3. CASE IsParentBuiltin(cur)
    BY <2>1, <2>2, <2>3 DEF StdioInv, Input, Output, Applied
  <2>4. CASE ~IsParentBuiltin(cur)
    <3>1. fdt[0] = "stdin" /\ fdt[1] = "stdout"
      BY <2>2, <2>4, AppliedNone DEF Input, Output
    <3>2. QED
      BY <2>1, <2>2, <2>4, <3>1, <1>f DEF Own
  <2>5. QED
    BY <2>3, <2>4
<1>17. CASE RunBuiltin
  BY <1>17, <1>c DEF RunBuiltin, StdioInv, lineVars
<1>18. CASE RestoreStdio
  <2>1. pc = "p_restore" /\ pc' = "x_check" /\ fdt[2] = "stderr" /\ IsParentBuiltin(cur)
    BY <1>18, <1>c, RestoreStdioEffect DEF StdioInv
  <2>2. /\ save.in \in Fds /\ fdt[save.in] = "stdin"
        /\ save.out \in Fds /\ fdt[save.out] = "stdout"
    BY <2>1, <1>c DEF CopiesInv, Redirecting
  <2>3. \A f \in {0, 1, 2} : f \notin {save.in, save.out}
    BY <1>g, <1>h DEF Apart
  <2>4. fdt'[0] = InputBack /\ fdt'[2] = fdt[2]
        /\ fdt'[1] = IF IsOpen(fdt, save.out) THEN fdt[save.out] ELSE fdt[1]
    BY <1>18, <1>b, <2>3, RestoreStdioEffect
  <2>5. Own'
    BY <2>1, <2>2, <2>4, <1>j DEF Own, InputBack, IsOpen
  <2>6. QED
    BY <2>1, <2>5, <1>f
<1>19. CASE ForkAll
  <2>1. Own /\ ~CutOff /\ pc' \notin Runs /\ ~CutOff'
    BY <1>19, <1>e, ForkAllEffect DEF CutOff
  <2>2. Own'
    BY <1>19, <2>1, <1>b, <1>j, ForkAllEffect DEF Own
  <2>3. QED
    BY <2>1, <2>2, <1>f
<1>20. CASE SigintRecord
  <2>1. UNCHANGED <<pc, fdt, hd, cur, k>> /\ gsig' = SIGINT
    BY <1>20 DEF SigintRecord, lineVars, hdVars
  <2>2. QED
    BY <2>1, <1>c DEF StdioInv, CutOff, Input, Output, Applied
<1>21. CASE SigintHeredoc
  <2>1. UNCHANGED <<pc, hd, cur, k>> /\ gsig' = SIGINT /\ InReach
        /\ \A f \in Fds : fdt'[f] = IF f = 0 THEN Closed ELSE fdt[f]
    BY <1>21, SigintHeredocEffect DEF Clean
  <2>2. CutOff' /\ pc' \notin Runs /\ pc \notin Runs
    BY <2>1 DEF InReach, CutOff
  <2>3. QED
    BY <2>1, <2>2, <1>b, <1>e, <1>f DEF Own
<1>22. CASE UNCHANGED vars
  <2>1. UNCHANGED <<pc, fdt, hd, cur, k, gsig>>
    BY <1>22 DEF vars, lineVars, hdVars, sigVars
  <2>2. QED
    BY <2>1, <1>c DEF StdioInv, CutOff, Input, Output, Applied
<1>23. QED
  BY <1>1, <1>2, <1>3, <1>4, <1>5, <1>6, <1>7, <1>8, <1>9, <1>10, <1>11, <1>12, <1>13, <1>14,
     <1>15, <1>16, <1>17, <1>18, <1>19, <1>20, <1>21, <1>22, <1>d, IdleOrBusy
     DEF Busy

---------------------------------------------------------------------------
(* The invariant                                                           *)

FdInv == /\ TypeOK
         /\ GatheredInv /\ HighInv
         /\ QuietInv /\ ApartInv /\ OpenInv
         /\ CopiesInv /\ StdioInv

LEMMA FdInit == Init => FdInv
<1> SUFFICES ASSUME Init PROVE FdInv
  OBVIOUS
<1>a. TypeOK
  BY TypeInit
<1>b. /\ pc = "top" /\ fdt = Standard /\ hfd = <<>> /\ gsig = 0
      /\ hd.w = NoFd /\ hd.saved = NoFd /\ hd.int = 0
      /\ save.in = NoFd /\ save.out = NoFd
  BY DEF Init, NoHeredoc
<1>c. /\ fdt[0] = "stdin" /\ fdt[1] = "stdout" /\ fdt[2] = "stderr"
      /\ \A f \in Fds : f > 2 => fdt[f] = Closed
  BY <1>b, StdFds DEF Standard, Fds
<1>d. IsOpen(fdt, 0) /\ IsOpen(fdt, 1) /\ IsOpen(fdt, 2)
  BY <1>c, StdFds DEF IsOpen, Closed
<1>e. DOMAIN hfd = {}
  BY <1>b
<1>1. GatheredInv
  BY <1>b DEF GatheredInv, GatherPcs, HdPcs
<1>2. HighInv
  BY <1>c DEF HighInv
<1>3. QuietInv
  BY <1>b DEF QuietInv
<1>4. ApartInv
  BY <1>b, <1>e DEF ApartInv, AboveStd, Writing, Saving
<1>5. OpenInv
  BY <1>d DEF OpenInv
<1>6. CopiesInv
  BY <1>b, <1>e DEF CopiesInv, Writing, Saving, Redirecting, Pending
<1>7. StdioInv
  BY <1>b, <1>c DEF StdioInv
<1>8. QED
  BY <1>a, <1>1, <1>2, <1>3, <1>4, <1>5, <1>6, <1>7 DEF FdInv

LEMMA FdNext == FdInv /\ [Next]_vars => FdInv'
<1> SUFFICES ASSUME FdInv, [Next]_vars PROVE FdInv'
  OBVIOUS
<1> USE DEF FdInv
<1>1. TypeOK'
  BY TypeNext
<1>2. GatheredInv'
  BY GatheredNext
<1>3. HighInv'
  BY HighNext
<1>4. QuietInv'
  BY QuietNext
<1>5. ApartInv' /\ OpenInv'
  BY OpenNext
<1>6. CopiesInv'
  BY CopiesNext
<1>7. StdioInv'
  BY StdioNext
<1>8. QED
  BY <1>1, <1>2, <1>3, <1>4, <1>5, <1>6, <1>7

LEMMA FdInvHolds == Spec => []FdInv
  BY FdInit, FdNext, PTL DEF Spec

---------------------------------------------------------------------------
(* The theorems                                                            *)

\* At the prompt nothing is borrowed and no handler is about to be undone.
LEMMA PromptRests ==
    ASSUME AtPrompt
    PROVE  /\ Live /\ ~CutOff
           /\ Working = {} /\ Pending = {}
           /\ pc \notin {"apply", "p_run", "p_restore"}
  BY DEF AtPrompt, Live, CutOff, Working, Writing, Saving, Redirecting, Pending,
         GatherPcs, HdPcs

\* Every early return of the redirects, the here-documents and the handler that
\* closes descriptor 0 gives the shell its own standard descriptors back, at
\* whatever descriptor the copies were.
THEOREM StdioIsRestored == Spec => []StdioRestored
<1>1. FdInv => StdioRestored
  <2> SUFFICES ASSUME FdInv, AtPrompt, spoiled \subseteq {"failed"}, NEW f \in 0..2
               PROVE  fdt[f] = Standard[f]
    BY DEF StdioRestored
  <2>1. fdt[0] = "stdin" /\ fdt[1] = "stdout" /\ fdt[2] = "stderr"
    BY PromptRests DEF FdInv, StdioInv, Clean
  <2>2. Standard[0] = "stdin" /\ Standard[1] = "stdout" /\ Standard[2] = "stderr"
    BY StdFds DEF Standard
  <2>3. f = 0 \/ f = 1 \/ f = 2
    OBVIOUS
  <2>4. QED
    BY <2>1, <2>2, <2>3
<1>2. QED
  BY <1>1, FdInvHolds, PTL

\* Whatever was interrupted, failed or could not be saved, no line leaves a
\* descriptor open, except a failed redirect and a pipe() that failed.
THEOREM NoLineLeaks == Spec => []NoDescriptorLeak
<1>1. FdInv => NoDescriptorLeak
  BY PromptRests DEF FdInv, HighInv, Accounted, NoDescriptorLeak
<1>2. QED
  BY <1>1, FdInvHolds, PTL

\* And those two leave nothing open but here-documents not come to and the read
\* end of a pipe.
THEOREM FailuresLeakReadEnds == Spec => []LeaksOnlyReadEnds
<1>1. FdInv => LeaksOnlyReadEnds
  BY PromptRests DEF FdInv, HighInv, Accounted, LeaksOnlyReadEnds
<1>2. QED
  BY <1>1, FdInvHolds, PTL

\* The descriptor 0 that the handler of SIGINT closes comes back, wherever in a
\* here-document the signal was taken and even where dup() kept no copy and no
\* signal came.
THEOREM StdioStaysOpen == Spec => []StdioNeverClosed
<1>1. FdInv => StdioNeverClosed
  <2> SUFFICES ASSUME FdInv, AtPrompt, Unlost, NEW f \in 0..2
               PROVE  IsOpen(fdt, f)
    BY DEF StdioNeverClosed, Unlost
  <2>1. IsOpen(fdt, 0) /\ IsOpen(fdt, 1) /\ IsOpen(fdt, 2)
    BY PromptRests DEF FdInv, OpenInv
  <2>2. f = 0 \/ f = 1 \/ f = 2
    OBVIOUS
  <2>3. QED
    BY <2>1, <2>2
<1>2. QED
  BY <1>1, FdInvHolds, PTL

\* When exec_single_parent calls the builtin, its descriptors are those that
\* the last redirect of each kind asks for.
THEOREM LastRedirectWins == Spec => []RedirectsInForce
<1>1. FdInv => RedirectsInForce
  <2> SUFFICES ASSUME FdInv, pc = "p_run", spoiled \subseteq {"failed"}
               PROVE  RedirectsInForce
    BY DEF RedirectsInForce
  <2>1. k > Len(cur.redirs) /\ Input /\ Output
    BY DEF FdInv, StdioInv, Live, Clean
  <2>2. cur.redirs \in Seq(Redirects) /\ k \in Nat
    BY CurType DEF FdInv, TypeOK, LineType
  <2>3. \A r \in DOMAIN cur.redirs : r < k /\ r \in Nat
    BY <2>1, <2>2
  <2>4. \A kinds : Applied(kinds) = {r \in DOMAIN cur.redirs : cur.redirs[r] \in kinds}
    BY <2>3 DEF Applied
  <2>5. fdt[1] = IF LastOf({"out"}) = {} THEN "stdout" ELSE "outfile"
    <3>1. CASE Applied({"out"}) = {} /\ fdt[1] = "stdout"
      BY <2>4, <3>1 DEF LastOf
    <3>2. CASE Applied({"out"}) # {}
      BY <2>1, <2>4, <3>2 DEF Output, LastOf
    <3>3. QED
      BY <2>1, <3>1, <3>2 DEF Output
  <2>6. ASSUME LastOf({"in", "heredoc"}) = {}
        PROVE  fdt[0] = "stdin"
    BY <2>1, <2>4, <2>6 DEF Input, LastOf
  <2>7. ASSUME NEW r \in LastOf({"in", "heredoc"})
        PROVE  fdt[0] = IF cur.redirs[r] = "in" THEN "infile" ELSE "tmp_r"
    <3>1. r \in Applied({"in", "heredoc"}) /\ \A s \in Applied({"in", "heredoc"}) : s <= r
      BY <2>4 DEF LastOf
    <3>2. PICK q \in Applied({"in", "heredoc"}) :
             /\ \A s \in Applied({"in", "heredoc"}) : s <= q
             /\ fdt[0] = IF cur.redirs[q] = "in" THEN "infile" ELSE "tmp_r"
      BY <2>1, <3>1 DEF Input
    <3>3. q = r
      BY <2>3, <3>1, <3>2 DEF Applied
    <3>4. QED
      BY <3>2, <3>3
  <2>8. QED
    BY <2>5, <2>6, <2>7 DEF RedirectsInForce
<1>2. QED
  BY <1>1, FdInvHolds, PTL
=============================================================================
