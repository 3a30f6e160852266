--------------------------- MODULE PipelineProofs ---------------------------
(***************************************************************************)
(* Theorems about Pipeline, for every set of pipelines of any length and   *)
(* every choice of calls that fail, however the children run and die.      *)
(***************************************************************************)
EXTENDS Pipeline, TLAPS

---------------------------------------------------------------------------
(* The pipeline does not change                                            *)

LEMMA PipelineShape ==
    ASSUME TypeOK
    PROVE  /\ count \in Nat \ {0} /\ count <= MaxCount
           /\ Commands = 1..count
           /\ \A j \in Commands : pl[j] \in CommandType
<1>1. pl \in Seq(CommandType) /\ Len(pl) \in 1..MaxCount
  BY PipelineAssumption DEF TypeOK
<1>2. QED
  BY <1>1, PipelineAssumption DEF count, Commands

LEMMA PipelineStays ==
    ASSUME [Next]_vars
    PROVE  /\ pl' = pl /\ count' = count /\ Commands' = Commands /\ Procs' = Procs
           /\ PipeEnds' = PipeEnds /\ Heredocs' = Heredocs
<1>1. pl' = pl
  BY DEF Next, vars, Shell, OpenPipe, Fork, ClosePipe, CloseHeredocs, Reap, NoChild,
         Child, ChildStart, ChildExec, Command, Read, Write, ExitFinished, Exit, Sigint
<1>2. QED
  BY <1>1 DEF count, Commands, Procs, PipeEnds, Heredocs

LEMMA EndsDiffer ==
    \A a, b : /\ R(a) # W(b) /\ R(a) # H(b) /\ W(a) # H(b)
              /\ R(a) = R(b) => a = b
              /\ W(a) = W(b) => a = b
BY DEF R, W, H

---------------------------------------------------------------------------
(* Type correctness, with where the shell's cursor is                      *)

Forking == ppc \in {"pipe", "fork", "close"}

CursorInv ==
    /\ Forking => i \in 1..count /\ prev = i - 1
    /\ ppc = "wait" => i \in 1..count

Typed == TypeOK /\ CursorInv

LEMMA TypedInit == Init => Typed
<1> SUFFICES ASSUME Init PROVE Typed
  OBVIOUS
<1>1. pl \in Seq(CommandType) /\ count \in 1..MaxCount /\ count \in Nat
  BY PipelineAssumption DEF Init, count
<1>2. held \in [Procs -> SUBSET (PipeEnds \cup Heredocs)]
  BY DEF Init
<1>3. sigs \in 0..MaxSig /\ wrote \in [Commands -> 0..Writes]
  BY PipelineAssumption DEF Init
<1>4. TypeOK
  BY <1>1, <1>2, <1>3 DEF Init, TypeOK, Statuses, Live
<1>5. CursorInv
  BY <1>1 DEF Init, CursorInv
<1>6. QED
  BY <1>4, <1>5 DEF Typed

LEMMA TypedNext == Typed /\ [Next]_vars => Typed'
<1> SUFFICES ASSUME Typed, [Next]_vars PROVE Typed'
  OBVIOUS
<1>a. /\ count \in Nat \ {0} /\ Commands = 1..count
      /\ pl' = pl /\ count' = count /\ Commands' = Commands /\ Procs' = Procs
      /\ PipeEnds' = PipeEnds /\ Heredocs' = Heredocs
      /\ Procs = {0} \cup Commands
  BY PipelineShape, PipelineStays DEF Typed, Procs
<1> DEFINE Ends == PipeEnds \cup Heredocs
<1>b. held \in [Procs -> SUBSET Ends]
  BY DEF Typed, TypeOK
<1>c. \A j \in 1..(count - 1) : R(j) \in PipeEnds /\ W(j) \in PipeEnds
  BY DEF PipeEnds
<1>d. Outcomes \subseteq Statuses /\ {0, 1, 126, 127, 130, 141} \subseteq Statuses
  BY DEF Statuses
<1> USE DEF Typed, TypeOK, CursorInv, Forking, Live
<1>1. CASE OpenPipe
  <2>1. held' \in [Procs -> SUBSET Ends]
    <3> HIDE DEF Ends, Typed
    <3>1. i < count => i \in 1..(count - 1)
      BY <1>a DEF Typed
    <3>2. i < count => R(i) \in Ends /\ W(i) \in Ends
      BY <1>c, <3>1 DEF Ends
    <3>3. QED
      BY <1>1, <1>a, <1>b, <3>2 DEF OpenPipe
  <2>2. QED
    BY <1>1, <1>a, <1>d, <2>1 DEF OpenPipe, childVars, sigVars
<1>2. CASE Fork
  <2>1. held' \in [Procs -> SUBSET Ends]
    <3> HIDE DEF Ends, Typed
    <3>1. QED
      BY <1>2, <1>a, <1>b DEF Fork
  <2>2. QED
    BY <1>2, <1>a, <1>d, <2>1 DEF Fork, childVars, sigVars
<1>3. CASE ClosePipe
  <2>1. held' \in [Procs -> SUBSET Ends]
    <3> HIDE DEF Ends, Typed
    <3>1. QED
      BY <1>3, <1>a, <1>b DEF ClosePipe
  <2>2. QED
    BY <1>3, <1>a, <1>d, <2>1 DEF ClosePipe, childVars, sigVars
<1>4. CASE CloseHeredocs
  <2>1. held' \in [Procs -> SUBSET Ends]
    <3> HIDE DEF Ends, Typed
    <3>1. QED
      BY <1>4, <1>a, <1>b DEF CloseHeredocs
  <2>2. QED
    BY <1>4, <1>a, <1>d, <2>1 DEF CloseHeredocs, childVars, sigVars
<1>5. CASE Reap
  <2>1. PICK c \in Reapable : /\ cpc[c] = "dead"
                              /\ cpc' = [cpc EXCEPT ![c] = "reaped"]
                              /\ ret' = IF KeepStatus(i) THEN status[c] ELSE ret
    BY <1>5 DEF Reap
  <2>2. c \in Commands
    BY <1>5, <1>a, <2>1 DEF Reap, Reapable
  <2>3. ret' \in Statuses /\ cpc' \in [Commands -> Live \cup {"none", "dead", "reaped"}]
    BY <2>1, <2>2
  <2>4. QED
    BY <1>5, <1>a, <2>3 DEF Reap, childVars, sigVars
<1>6. CASE NoChild
  BY <1>6, <1>a, <1>d DEF NoChild, childVars, sigVars
<1>7. ASSUME NEW j \in Commands, ChildStart(j)
      PROVE  Typed'
  <2>1. held' \in [Procs -> SUBSET Ends]
    <3> HIDE DEF Ends, Typed
    <3>1. QED
      BY <1>7, <1>a, <1>b DEF ChildStart
  <2>2. QED
    BY <1>7, <1>a, <2>1 DEF ChildStart, shellVars
<1>8. ASSUME NEW j \in Commands, NEW s \in Statuses, Die(j, s)
      PROVE  /\ held' \in [Procs -> SUBSET Ends]
             /\ cpc' \in [Commands -> Live \cup {"none", "dead", "reaped"}]
             /\ status' \in [Commands -> Statuses]
  <2>1. held' \in [Procs -> SUBSET Ends]
    <3> HIDE DEF Ends, Typed
    <3>1. QED
      BY <1>8, <1>a, <1>b DEF Die
  <2>2. QED
    BY <1>8, <1>a, <2>1 DEF Die
<1>9. ASSUME NEW j \in Commands, ChildExec(j)
      PROVE  Typed'
  <2>1. CASE \E s \in {0, 1, 126, 127} : Die(j, s)
    <3>1. PICK s \in {0, 1, 126, 127} : Die(j, s)
      BY <2>1
    <3>2. /\ held' \in [Procs -> SUBSET Ends]
          /\ cpc' \in [Commands -> Live \cup {"none", "dead", "reaped"}]
          /\ status' \in [Commands -> Statuses]
      BY <1>8, <1>d, <3>1
    <3>3. QED
      BY <1>9, <1>a, <3>2 DEF ChildExec, shellVars
  <2>2. CASE /\ cpc' = [cpc EXCEPT ![j] = "run"]
             /\ held' = [held EXCEPT ![j] = @ \ Replaced(j)]
             /\ UNCHANGED status
    <3>1. held' \in [Procs -> SUBSET Ends]
      <4> HIDE DEF Ends, Typed
      <4>1. QED
        BY <2>2, <1>a, <1>b
    <3>2. QED
      BY <1>9, <2>2, <1>a, <3>1 DEF ChildExec, shellVars
  <2>3. QED
    BY <1>9, <2>1, <2>2 DEF ChildExec
<1>10. ASSUME NEW j \in Commands, Read(j)
       PROVE  Typed'
  <2>1. pipe' \in [Commands -> 0..1]
    <3>1. pipe \in [Commands -> 0..1] /\ (InPipe(j) # 0 => InPipe(j) \in Commands)
      BY <1>a DEF InPipe
    <3> HIDE DEF Typed, TypeOK
    <3>2. QED
      BY <1>10, <3>1 DEF Read
  <2>2. QED
    BY <1>10, <1>a, <2>1 DEF Read, shellVars
<1>11. ASSUME NEW j \in Commands, Write(j)
       PROVE  Typed'
  <2>1. CASE Die(j, 141) /\ UNCHANGED <<pipe, wrote>>
    <3>1. /\ held' \in [Procs -> SUBSET Ends]
          /\ cpc' \in [Commands -> Live \cup {"none", "dead", "reaped"}]
          /\ status' \in [Commands -> Statuses]
      BY <1>8, <1>d, <2>1
    <3>2. QED
      BY <1>11, <1>a, <2>1, <3>1 DEF Write, shellVars
  <2>2. CASE /\ pipe' = [pipe EXCEPT ![j] = 1]
             /\ wrote' = [wrote EXCEPT ![j] = @ + 1]
             /\ UNCHANGED <<cpc, status, held>>
    <3>1. wrote' \in [Commands -> 0..Writes]
      BY <1>11, <1>a, <2>2, PipelineAssumption DEF Write
    <3>2. QED
      BY <1>11, <1>a, <2>2, <3>1 DEF Write, shellVars
  <2>3. QED
    BY <1>11, <2>1, <2>2 DEF Write
<1>12. ASSUME NEW j \in Commands, Exit(j)
       PROVE  Typed'
  <2>1. PICK s \in Outcomes : Die(j, s)
    BY <1>12 DEF Exit
  <2>2. /\ held' \in [Procs -> SUBSET Ends]
        /\ cpc' \in [Commands -> Live \cup {"none", "dead", "reaped"}]
        /\ status' \in [Commands -> Statuses]
    BY <1>8, <1>d, <2>1
  <2>3. QED
    BY <1>12, <1>a, <2>2 DEF Exit, shellVars
<1>13. CASE Sigint
  <2>1. held' \in [Procs -> SUBSET Ends]
    <3> HIDE DEF Ends, Typed
    <3>1. QED
      BY <1>13, <1>a, <1>b DEF Sigint
  <2>2. sigs' \in 0..MaxSig
    BY <1>13, PipelineAssumption DEF Sigint
  <2>3. QED
    BY <1>13, <1>a, <1>d, <2>1, <2>2 DEF Sigint
<1>14. CASE UNCHANGED vars
  BY <1>14, <1>a DEF vars, childVars, sigVars
<1> HIDE DEF Typed
<1>15. QED
  BY <1>1, <1>2, <1>3, <1>4, <1>5, <1>6, <1>7, <1>9, <1>10, <1>11, <1>12, <1>13, <1>14
     DEF Next, Shell, Child, Command, ExitFinished

---------------------------------------------------------------------------
(* What a step does to one child, and to the shell                         *)

Stays(c)  == cpc'[c] = cpc[c] /\ held'[c] = held[c] /\ status'[c] = status[c]
Forked(c) == Fork /\ c = i /\ cpc'[c] = "born" /\ held'[c] = held[0]
                /\ pids'[c] = "child" /\ status'[c] = status[c]
Starts(c) == cpc[c] = "born" /\ cpc'[c] = "ready" /\ held'[c] = held[c] \ {R(c)}
                /\ status'[c] = status[c]
Execs(c)  == cpc[c] = "ready" /\ cpc'[c] = "run" /\ held'[c] = held[c] \ Replaced(c)
                /\ status'[c] = status[c]
Dies(c)   == cpc[c] \in {"ready", "run"} /\ cpc'[c] = "dead" /\ held'[c] = {}
Reaped(c) == Reap /\ cpc[c] = "dead" /\ cpc'[c] = "reaped" /\ held'[c] = held[c]
                /\ status'[c] = status[c]

ChildMove(c) == Stays(c) \/ Forked(c) \/ Starts(c) \/ Execs(c) \/ Dies(c) \/ Reaped(c)

LEMMA ChildMoves ==
    ASSUME Typed, [Next]_vars, NEW c \in Commands
    PROVE  ChildMove(c)
<1>a. Commands = 1..count /\ count \in Nat \ {0} /\ Procs = {0} \cup Commands /\ c \in Procs /\ c # 0
  BY PipelineShape DEF Typed, Procs
<1>b. /\ cpc \in [Commands -> Live \cup {"none", "dead", "reaped"}]
      /\ status \in [Commands -> Statuses]
      /\ pids \in [Commands -> {"none", "child", "failed"}]
      /\ held \in [Procs -> SUBSET (PipeEnds \cup Heredocs)]
  BY DEF Typed, TypeOK
<1> DEFINE Ends == PipeEnds \cup Heredocs
<1>c. held \in [Procs -> SUBSET Ends]
  BY <1>b
<1> HIDE DEF Ends
<1>1. CASE OpenPipe
  BY <1>1, <1>a, <1>c DEF OpenPipe, childVars, ChildMove, Stays
<1>2. CASE Fork
  <2>1. CASE /\ pids' = [pids EXCEPT ![i] = "child"]
             /\ cpc' = [cpc EXCEPT ![i] = "born"]
             /\ held' = [held EXCEPT ![i] = held[0]]
    <3>1. status' = status
      BY <1>2 DEF Fork
    <3>2. CASE c = i
      BY <1>2, <2>1, <3>1, <3>2, <1>a, <1>b, <1>c DEF ChildMove, Forked
    <3>3. CASE c # i
      BY <2>1, <3>1, <3>3, <1>a, <1>b, <1>c DEF ChildMove, Stays
    <3>4. QED
      BY <3>2, <3>3
  <2>2. CASE UNCHANGED <<cpc, held>>
    BY <1>2, <2>2 DEF Fork, ChildMove, Stays
  <2>3. QED
    BY <1>2, <2>1, <2>2 DEF Fork
<1>3. CASE ClosePipe
  BY <1>3, <1>a, <1>c DEF ClosePipe, childVars, ChildMove, Stays
<1>4. CASE CloseHeredocs
  BY <1>4, <1>a, <1>c DEF CloseHeredocs, childVars, ChildMove, Stays
<1>5. CASE Reap
  <2>1. PICK d \in Reapable : cpc[d] = "dead" /\ cpc' = [cpc EXCEPT ![d] = "reaped"]
    BY <1>5 DEF Reap
  <2>2. status' = status /\ held' = held
    BY <1>5 DEF Reap
  <2>3. CASE c = d
    BY <1>5, <2>1, <2>2, <2>3, <1>b DEF ChildMove, Reaped
  <2>4. CASE c # d
    BY <2>1, <2>2, <2>4, <1>b DEF ChildMove, Stays
  <2>5. QED
    BY <2>3, <2>4
<1>6. CASE NoChild
  BY <1>6 DEF NoChild, childVars, ChildMove, Stays
<1>7. ASSUME NEW j \in Commands, ChildStart(j)
      PROVE  ChildMove(c)
  <2>1. CASE c = j
    BY <1>7, <2>1, <1>a, <1>b, <1>c DEF ChildStart, ClosedByChild, ChildMove, Starts
  <2>2. CASE c # j
    BY <1>7, <2>2, <1>a, <1>b, <1>c DEF ChildStart, ChildMove, Stays
  <2>3. QED
    BY <2>1, <2>2
<1>8. ASSUME NEW j \in Commands, NEW s \in Statuses, Die(j, s), cpc[j] \in {"ready", "run"}
      PROVE  ChildMove(c)
  <2>1. CASE c = j
    BY <1>8, <2>1, <1>a, <1>b, <1>c DEF Die, ChildMove, Dies
  <2>2. CASE c # j
    BY <1>8, <2>2, <1>a, <1>b, <1>c DEF Die, ChildMove, Stays
  <2>3. QED
    BY <2>1, <2>2
<1>d. Outcomes \subseteq Statuses /\ {0, 1, 126, 127, 130, 141} \subseteq Statuses
  BY DEF Statuses
<1>9. ASSUME NEW j \in Commands, ChildExec(j)
      PROVE  ChildMove(c)
  <2>1. CASE \E s \in {0, 1, 126, 127} : Die(j, s)
    <3>1. PICK s \in {0, 1, 126, 127} : Die(j, s)
      BY <2>1
    <3>2. QED
      BY <1>8, <1>9, <1>d, <3>1 DEF ChildExec
  <2>2. CASE /\ cpc' = [cpc EXCEPT ![j] = "run"]
             /\ held' = [held EXCEPT ![j] = @ \ Replaced(j)]
             /\ UNCHANGED status
    <3>1. CASE c = j
      BY <1>9, <2>2, <3>1, <1>a, <1>b, <1>c DEF ChildExec, ChildMove, Execs
    <3>2. CASE c # j
      BY <2>2, <3>2, <1>a, <1>b, <1>c DEF ChildMove, Stays
    <3>3. QED
      BY <3>1, <3>2
  <2>3. QED
    BY <1>9, <2>1, <2>2 DEF ChildExec
<1>10. ASSUME NEW j \in Commands, Read(j)
       PROVE  ChildMove(c)
  BY <1>10 DEF Read, ChildMove, Stays
<1>11. ASSUME NEW j \in Commands, Write(j)
       PROVE  ChildMove(c)
  <2>1. CASE Die(j, 141)
    BY <1>8, <1>11, <1>d, <2>1 DEF Write
  <2>2. CASE UNCHANGED <<cpc, status, held>>
    BY <2>2 DEF ChildMove, Stays
  <2>3. QED
    BY <1>11, <2>1, <2>2 DEF Write
<1>12. ASSUME NEW j \in Commands, Exit(j)
       PROVE  ChildMove(c)
  <2>1. PICK s \in Outcomes : Die(j, s)
    BY <1>12 DEF Exit
  <2>2. QED
    BY <1>8, <1>12, <1>d, <2>1 DEF Exit
<1>13. CASE Sigint
  <2> DEFINE hit == {j \in Commands : cpc[j] \in {"ready", "run"}}
  <2>1. /\ cpc' = [j \in Commands |-> IF j \in hit THEN "dead" ELSE cpc[j]]
        /\ status' = [j \in Commands |-> IF j \in hit THEN 130 ELSE status[j]]
        /\ held' = [p \in Procs |-> IF p \in hit THEN {} ELSE held[p]]
    BY <1>13 DEF Sigint
  <2>2. CASE c \in hit
    <3>1. cpc'[c] = "dead" /\ held'[c] = {}
      BY <2>1, <2>2, <1>a
    <3>2. QED
      BY <2>2, <3>1 DEF ChildMove, Dies
  <2>3. CASE c \notin hit
    <3> HIDE DEF hit
    <3>1. QED
      BY <2>1, <2>3, <1>a DEF ChildMove, Stays
  <2>4. QED
    BY <2>2, <2>3
<1>14. CASE UNCHANGED vars
  BY <1>14 DEF vars, childVars, ChildMove, Stays
<1>15. QED
  BY <1>1, <1>2, <1>3, <1>4, <1>5, <1>6, <1>7, <1>9, <1>10, <1>11, <1>12, <1>13, <1>14
     DEF Next, Shell, Child, Command, ExitFinished

LEMMA ShellRests ==
    ASSUME Typed, [Next]_vars, ~Shell
    PROVE  UNCHANGED <<ppc, i, prev, pids, ret, faulty>> /\ held'[0] = held[0]
<1>a. Commands = 1..count /\ count \in Nat \ {0} /\ Procs = {0} \cup Commands
      /\ 0 \in Procs /\ 0 \notin Commands
  BY PipelineShape DEF Typed, Procs
<1> DEFINE Ends == PipeEnds \cup Heredocs
<1>b. held \in [Procs -> SUBSET Ends]
  BY DEF Typed, TypeOK
<1> HIDE DEF Ends
<1>1. UNCHANGED <<ppc, i, prev, pids, ret, faulty>>
  BY DEF Next, vars, Shell, Child, ChildStart, ChildExec, Command, Read, Write, ExitFinished,
         Exit, Sigint, shellVars
<1>2. ASSUME NEW j \in Commands, NEW s \in Statuses, Die(j, s)
      PROVE  held'[0] = held[0]
  BY <1>2, <1>a, <1>b DEF Die
<1>3. ASSUME NEW j \in Commands, ChildStart(j) \/ ChildExec(j)
      PROVE  held'[0] = held[0]
  BY <1>3, <1>a, <1>b DEF ChildStart, ChildExec, Die
<1>4. ASSUME NEW j \in Commands, Read(j) \/ Write(j) \/ Exit(j)
      PROVE  held'[0] = held[0]
  BY <1>4, <1>a, <1>b DEF Read, Write, Exit, Die
<1>5. CASE Sigint
  BY <1>5, <1>a DEF Sigint
<1>6. CASE UNCHANGED vars
  BY <1>6 DEF vars
<1>7. QED
  BY <1>1, <1>3, <1>4, <1>5, <1>6 DEF Next, Child, Command, ExitFinished

---------------------------------------------------------------------------
(* The inductive invariant                                                 *)

\* fork_all has come past the fork of command c.
Passed(c) == Forking => c < i \/ (c = i /\ ppc = "close")

\* The pipe ends the shell holds: the read end handed on, and the new pipe.
ShellEnds ==
    IF Forking
    THEN {R(j) : j \in {i - 1} \ {0}}
             \cup {e \in {R(i), W(i)} : i < count /\ ppc # "pipe"}
    ELSE {}

ShellHeldInv ==
    /\ ppc # "done" \/ faulty = {} => held[0] \cap PipeEnds = ShellEnds
    /\ ppc = "wait" \/ (ppc = "done" /\ faulty = {}) => held[0] \cap Heredocs = {}

\* The pipe ends of the children.
ChildHeldInv ==
    \A c \in Commands, j \in 1..(count - 1) :
        /\ W(j) \in held[c] => c = j
        /\ R(j) \in held[c] => c = j + 1 \/ (c = j /\ cpc[c] = "born")

\* A child that lives and writes to its pipe holds its write end.
WriterInv ==
    \A c \in Commands : cpc[c] \in Live /\ OutPipe(c) # 0 => W(c) \in held[c]

\* Who has been forked.
ForkInv ==
    /\ \A c \in Commands : ~Passed(c) => pids[c] = "none"
    /\ \A c \in Commands : cpc[c] # "none" <=> pids[c] = "child"
    /\ \A c \in eof : cpc[c] # "none"

\* Who has been waited for.
ReapInv ==
    /\ Forking \/ ppc = "heredocs" => \A c \in Commands : cpc[c] # "reaped"
    /\ faulty = {} =>
           /\ \A c \in Commands : Passed(c) => pids[c] = "child"
           /\ ppc = "wait" => \A c \in Commands : cpc[c] = "reaped" <=> c < i
           /\ ppc = "done" => /\ \A c \in Commands : cpc[c] = "reaped"
                              /\ ret = status[count]

IInv == Typed /\ ShellHeldInv /\ ChildHeldInv /\ WriterInv /\ ForkInv /\ ReapInv /\ NoEarlyEof

LEMMA IInvInit == Init => IInv
<1> SUFFICES ASSUME Init PROVE IInv
  OBVIOUS
<1>1. Typed
  BY TypedInit
<1>2. Commands = 1..count /\ count \in Nat \ {0} /\ Procs = {0} \cup Commands
  BY <1>1, PipelineShape DEF Typed, Procs
<1>3. held[0] = Heredocs /\ \A c \in Commands : held[c] = {}
  BY <1>2 DEF Init
<1>4. \A c \in Commands : cpc[c] = "none" /\ pids[c] = "none"
  BY DEF Init
<1>5. Heredocs \cap PipeEnds = {}
  BY EndsDiffer DEF Heredocs, PipeEnds
<1>6. ShellHeldInv
  <2>1. ppc = "pipe" /\ i = 1
    BY DEF Init
  <2>2. {i - 1} \ {0} = {}
    BY <2>1
  <2>3. ShellEnds = {}
    BY <2>1, <2>2 DEF ShellEnds, Forking
  <2>4. QED
    BY <2>1, <2>3, <1>3, <1>5 DEF ShellHeldInv
<1>7. ChildHeldInv /\ WriterInv
  BY <1>3, <1>4 DEF ChildHeldInv, WriterInv, Live
<1>8. ForkInv
  BY <1>4 DEF Init, ForkInv
<1>9. ReapInv
  BY <1>2, <1>4 DEF Init, ReapInv, Passed, Forking
<1>10. NoEarlyEof
  BY DEF Init, NoEarlyEof
<1>11. QED
  BY <1>1, <1>6, <1>7, <1>8, <1>9, <1>10 DEF IInv

LEMMA ShellHeldNext ==
    ASSUME Typed, ShellHeldInv, [Next]_vars
    PROVE  ShellHeldInv'
<1>a. Commands = 1..count /\ count \in Nat \ {0} /\ Procs = {0} \cup Commands
      /\ 0 \in Procs /\ 0 \notin Commands
      /\ PipeEnds' = PipeEnds /\ Heredocs' = Heredocs /\ count' = count
  BY PipelineShape, PipelineStays DEF Typed, Procs
<1>b. held \in [Procs -> SUBSET (PipeEnds \cup Heredocs)]
  BY DEF Typed, TypeOK
<1>c. ppc \in {"pipe", "fork", "close", "heredocs", "wait", "done"}
  BY DEF Typed, TypeOK
<1>d. Forking => i \in 1..count /\ prev = i - 1
  BY DEF Typed, CursorInv
<1>e. Heredocs \cap PipeEnds = {}
  BY EndsDiffer DEF Heredocs, PipeEnds
<1>f. \A j \in 1..(count - 1) : R(j) \in PipeEnds /\ W(j) \in PipeEnds
  BY DEF PipeEnds
<1>1. CASE ~Shell
  BY <1>1, <1>a, ShellRests DEF ShellHeldInv, ShellEnds, Forking
<1>2. CASE OpenPipe
  <2>1. CASE ppc' = "fork" /\ held' = (IF i < count THEN [held EXCEPT ![0] = @ \cup {R(i), W(i)}] ELSE held)
    <3>1. held[0] \cap PipeEnds = {R(j) : j \in {i - 1} \ {0}}
      BY <1>2 DEF OpenPipe, ShellHeldInv, ShellEnds, Forking
    <3>2. CASE i < count
      <4>1. held'[0] = held[0] \cup {R(i), W(i)}
        BY <2>1, <3>2, <1>a, <1>b
      <4>2. {R(i), W(i)} \subseteq PipeEnds
        BY <1>2, <3>2, <1>a, <1>d, <1>f DEF OpenPipe, Forking
      <4>3. i' = i /\ ppc' = "fork"
        BY <1>2, <2>1 DEF OpenPipe
      <4>4. ShellEnds' = {R(j) : j \in {i - 1} \ {0}} \cup {R(i), W(i)}
        BY <4>3, <3>2, <1>a DEF ShellEnds, Forking
      <4>5. held'[0] \cap PipeEnds = ShellEnds'
        BY <3>1, <4>1, <4>2, <4>4
      <4>6. QED
        BY <4>3, <4>5, <1>a DEF ShellHeldInv
    <3>3. CASE ~(i < count)
      <4>1. held'[0] = held[0] /\ i' = i /\ ppc' = "fork"
        BY <1>2, <2>1, <3>3 DEF OpenPipe
      <4>2. ShellEnds' = {R(j) : j \in {i - 1} \ {0}}
        BY <4>1, <3>3, <1>a DEF ShellEnds, Forking
      <4>3. QED
        BY <3>1, <4>1, <4>2, <1>a DEF ShellHeldInv
    <3>4. QED
      BY <3>2, <3>3
  <2>2. CASE ppc' = "done" /\ faulty' = faulty \cup {"pipe"}
    BY <2>2 DEF ShellHeldInv
  <2>3. QED
    BY <1>2, <2>1, <2>2 DEF OpenPipe
<1>3. CASE Fork
  <2>1. i \in Commands
    BY <1>3, <1>a, <1>d DEF Fork, Forking
  <2>2. held'[0] = held[0]
    BY <1>3, <2>1, <1>a, <1>b DEF Fork
  <2>3. ppc = "fork" /\ ppc' = "close" /\ i' = i
    BY <1>3 DEF Fork
  <2>4. ShellEnds' = ShellEnds
    BY <2>3, <1>a DEF ShellEnds, Forking
  <2>5. QED
    BY <2>2, <2>3, <2>4, <1>a DEF ShellHeldInv
<1>4. CASE ClosePipe
  <2>1. held'[0] = held[0] \ {R(i - 1), W(i)}
    BY <1>4, <1>a, <1>b, <1>d DEF ClosePipe, ClosedByShell, Forking
  <2>2. /\ ppc = "close" /\ i \in 1..count /\ i' = i + 1
        /\ ppc' = IF i = count THEN "heredocs" ELSE "pipe"
    BY <1>4, <1>d DEF ClosePipe, Forking
  <2>3. held[0] \cap PipeEnds = {R(j) : j \in {i - 1} \ {0}} \cup {e \in {R(i), W(i)} : i < count}
    BY <2>2 DEF ShellHeldInv, ShellEnds, Forking
  <2>4. R(i) # R(i - 1) /\ R(i) # W(i)
    BY <2>2, EndsDiffer
  <2>5. CASE i = count
    <3>1. held'[0] \cap PipeEnds = {}
      BY <2>1, <2>2, <2>3, <2>5
    <3>2. ppc' = "heredocs" /\ ShellEnds' = {}
      BY <2>2, <2>5 DEF ShellEnds, Forking
    <3>3. QED
      BY <3>1, <3>2, <1>a DEF ShellHeldInv
  <2>6. CASE i # count
    <3>1. i < count /\ ppc' = "pipe"
      BY <2>2, <2>6, <1>a
    <3>2. held'[0] \cap PipeEnds = {R(i)}
      BY <2>1, <2>2, <2>3, <2>4, <3>1
    <3>3. ShellEnds' = {R(i)}
      <4>1. {i' - 1} \ {0} = {i}
        BY <2>2
      <4>2. QED
        BY <3>1, <4>1 DEF ShellEnds, Forking
    <3>4. QED
      BY <3>1, <3>2, <3>3, <1>a DEF ShellHeldInv
  <2>7. QED
    BY <2>5, <2>6
<1>5. CASE CloseHeredocs
  <2>1. held'[0] = held[0] \ Heredocs
    BY <1>5, <1>a, <1>b DEF CloseHeredocs
  <2>2. ppc = "heredocs" /\ ppc' = "wait"
    BY <1>5 DEF CloseHeredocs
  <2>3. held[0] \cap PipeEnds = {} /\ ShellEnds' = {}
    BY <2>2 DEF ShellHeldInv, ShellEnds, Forking
  <2>4. QED
    BY <2>1, <2>2, <2>3, <1>a, <1>e DEF ShellHeldInv
<1>6. CASE Reap \/ NoChild
  <2>1. held' = held /\ ppc = "wait" /\ ppc' \in {"wait", "done"}
    BY <1>6 DEF Reap, NoChild
  <2>2. ShellEnds = {} /\ ShellEnds' = {}
    BY <2>1 DEF ShellEnds, Forking
  <2>3. QED
    BY <2>1, <2>2, <1>a DEF ShellHeldInv
<1>7. QED
  BY <1>1, <1>2, <1>3, <1>4, <1>5, <1>6 DEF Shell

LEMMA ChildHeldNext ==
    ASSUME Typed, ShellHeldInv, ChildHeldInv, [Next]_vars
    PROVE  ChildHeldInv'
<1>a. Commands = 1..count /\ count \in Nat \ {0}
      /\ Commands' = Commands /\ count' = count /\ PipeEnds' = PipeEnds
  BY PipelineShape, PipelineStays DEF Typed
<1>b. Forking => i \in 1..count /\ prev = i - 1
  BY DEF Typed, CursorInv
<1> SUFFICES ASSUME NEW c \in Commands, NEW j \in 1..(count - 1)
             PROVE  /\ W(j) \in held'[c] => c = j
                    /\ R(j) \in held'[c] => c = j + 1 \/ (c = j /\ cpc'[c] = "born")
  BY <1>a DEF ChildHeldInv
<1>c. R(j) \in PipeEnds /\ W(j) \in PipeEnds
  BY DEF PipeEnds
<1>1. CASE Stays(c) \/ Reaped(c)
  BY <1>1 DEF Stays, Reaped, ChildHeldInv
<1>2. CASE Forked(c)
  <2>1. held[0] \cap PipeEnds = {R(k) : k \in {i - 1} \ {0}} \cup {e \in {R(i), W(i)} : i < count}
    BY <1>2 DEF Forked, Fork, ShellHeldInv, ShellEnds, Forking
  <2>2. c = i /\ held'[c] = held[0] /\ cpc'[c] = "born" /\ i \in 1..count
    BY <1>2, <1>b DEF Forked, Fork, Forking
  <2>3. W(j) \in held[0] => j = i
    BY <1>c, <2>1, EndsDiffer
  <2>4. R(j) \in held[0] => j = i \/ j = i - 1
    BY <1>c, <2>1, EndsDiffer
  <2>5. QED
    BY <2>2, <2>3, <2>4
<1>3. CASE Starts(c)
  <2>1. c = j => R(j) \notin held'[c]
    BY <1>3 DEF Starts
  <2>2. QED
    BY <1>3, <2>1 DEF Starts, ChildHeldInv
<1>4. CASE Execs(c)
  BY <1>4 DEF Execs, ChildHeldInv
<1>5. CASE Dies(c)
  BY <1>5 DEF Dies
<1>6. QED
  BY <1>1, <1>2, <1>3, <1>4, <1>5, ChildMoves DEF ChildMove

LEMMA WriterNext ==
    ASSUME Typed, ShellHeldInv, WriterInv, [Next]_vars
    PROVE  WriterInv'
<1>a. Commands = 1..count /\ count \in Nat \ {0} /\ pl' = pl
      /\ Commands' = Commands /\ count' = count
  BY PipelineShape, PipelineStays DEF Typed
<1> SUFFICES ASSUME NEW c \in Commands, cpc'[c] \in Live, OutPipe(c) # 0
             PROVE  W(c) \in held'[c]
  BY <1>a DEF WriterInv, OutPipe
<1>b. c < count /\ pl[c].out = "pipe"
  BY DEF OutPipe
<1>1. CASE Stays(c)
  BY <1>1 DEF Stays, WriterInv
<1>2. CASE Forked(c)
  <2>1. held[0] \cap PipeEnds = {R(k) : k \in {i - 1} \ {0}} \cup {e \in {R(i), W(i)} : i < count}
    BY <1>2 DEF Forked, Fork, ShellHeldInv, ShellEnds, Forking
  <2>2. QED
    BY <1>2, <1>b, <2>1 DEF Forked
<1>3. CASE Starts(c)
  BY <1>3, EndsDiffer DEF Starts, WriterInv, Live
<1>4. CASE Execs(c)
  <2>1. W(c) \notin Replaced(c)
    BY <1>b, EndsDiffer DEF Replaced
  <2>2. QED
    BY <1>4, <2>1 DEF Execs, WriterInv, Live
<1>5. CASE Dies(c) \/ Reaped(c)
  BY <1>5 DEF Dies, Reaped, Live
<1>6. QED
  BY <1>1, <1>2, <1>3, <1>4, <1>5, ChildMoves DEF ChildMove

LEMMA ForkNext ==
    ASSUME Typed, ForkInv, [Next]_vars
    PROVE  ForkInv'
<1>a. Commands = 1..count /\ count \in Nat \ {0} /\ Commands' = Commands /\ count' = count
  BY PipelineShape, PipelineStays DEF Typed
<1>b. Forking => i \in 1..count
  BY DEF Typed, CursorInv
<1>c. /\ cpc \in [Commands -> Live \cup {"none", "dead", "reaped"}]
      /\ pids \in [Commands -> {"none", "child", "failed"}]
  BY DEF Typed, TypeOK
<1>1. ASSUME NEW c \in Commands PROVE (~Passed(c))' => pids'[c] = "none"
  <2>1. CASE ~Shell
    BY <2>1, ShellRests DEF Passed, Forking, ForkInv
  <2>2. CASE OpenPipe
    BY <2>2 DEF OpenPipe, Passed, Forking, ForkInv
  <2>3. CASE Fork
    <3>1. i \in 1..count /\ i' = i /\ ppc = "fork" /\ ppc' = "close"
      BY <2>3, <1>b DEF Fork, Forking
    <3>2. c # i => pids'[c] = pids[c]
      BY <2>3, <1>a, <1>c DEF Fork
    <3>3. QED
      BY <3>1, <3>2 DEF Passed, Forking, ForkInv
  <2>4. CASE ClosePipe
    <3>1. i \in 1..count /\ i' = i + 1 /\ ppc = "close" /\ pids' = pids
          /\ ppc' \in {"heredocs", "pipe"}
      BY <2>4, <1>b DEF ClosePipe, Forking
    <3>2. QED
      BY <3>1, <1>a DEF Passed, Forking, ForkInv
  <2>5. CASE CloseHeredocs \/ Reap \/ NoChild
    <3>1. pids' = pids /\ ppc' \in {"wait", "done"}
      BY <2>5 DEF CloseHeredocs, Reap, NoChild
    <3>2. QED
      BY <3>1 DEF Passed, Forking
  <2>6. QED
    BY <2>1, <2>2, <2>3, <2>4, <2>5 DEF Shell
<1>2. ASSUME NEW c \in Commands PROVE (cpc'[c] # "none") <=> (pids'[c] = "child")
  <2>1. cpc[c] # "none" <=> pids[c] = "child"
    BY DEF ForkInv
  <2>2. CASE ~Fork
    <3>1. pids' = pids
      BY <2>2, ShellRests DEF Shell, OpenPipe, ClosePipe, CloseHeredocs, Reap, NoChild
    <3>2. QED
      BY <2>1, <2>2, <3>1, ChildMoves DEF ChildMove, Stays, Forked, Starts, Execs, Dies, Reaped
  <2>3. CASE Fork
    <3>1. CASE c # i
      <4>1. pids'[c] = pids[c] /\ cpc'[c] = cpc[c]
        BY <2>3, <3>1, <1>c DEF Fork
      <4>2. QED
        BY <2>1, <4>1
    <3>2. CASE c = i
      <4>1. pids[c] = "none" /\ cpc[c] = "none"
        BY <2>1, <2>3, <3>2, <1>b DEF Fork, ForkInv, Passed, Forking
      <4>2. CASE pids' = [pids EXCEPT ![i] = "child"] /\ cpc' = [cpc EXCEPT ![i] = "born"]
        BY <4>2, <3>2, <1>c
      <4>3. CASE pids' = [pids EXCEPT ![i] = "failed"] /\ cpc' = cpc
        BY <4>1, <4>3, <3>2, <1>c
      <4>4. QED
        BY <2>3, <4>2, <4>3 DEF Fork
    <3>3. QED
      BY <3>1, <3>2
  <2>4. QED
    BY <2>2, <2>3
<1>3. ASSUME NEW c \in eof' PROVE cpc'[c] # "none"
  <2>1. c \in Commands /\ (c \in eof \/ cpc[c] = "run")
    <3>1. eof \subseteq Commands
      BY DEF Typed, TypeOK
    <3>2. CASE c \in eof
      BY <3>1, <3>2
    <3>3. CASE c \notin eof
      <4>1. PICK j \in Commands : Read(j)
        BY <3>3 DEF Next, vars, childVars, Shell, OpenPipe, Fork, ClosePipe, CloseHeredocs, Reap,
                    NoChild, Child, ChildStart, ChildExec, Command, Write, ExitFinished,
                    Exit, Sigint
      <4>2. QED
        BY <3>3, <4>1 DEF Read
    <3>4. QED
      BY <3>2, <3>3
  <2>2. cpc[c] # "none"
    BY <2>1 DEF ForkInv
  <2>3. QED
    BY <2>1, <2>2, ChildMoves DEF ChildMove, Stays, Forked, Starts, Execs, Dies, Reaped
<1>4. QED
  BY <1>1, <1>2, <1>3, <1>a DEF ForkInv, Passed, Forking

LEMMA EofNext ==
    ASSUME Typed, WriterInv, ForkInv, NoEarlyEof, [Next]_vars
    PROVE  NoEarlyEof'
<1>a. Commands = 1..count /\ count \in Nat \ {0} /\ Procs = {0} \cup Commands /\ pl' = pl
      /\ Commands' = Commands /\ count' = count
  BY PipelineShape, PipelineStays DEF Typed, Procs
<1>b. eof \subseteq Commands
  BY DEF Typed, TypeOK
<1> SUFFICES ASSUME NEW j \in eof', OutPipe(j - 1) # 0, cpc'[j - 1] \in Live
             PROVE  FALSE
  BY <1>a DEF NoEarlyEof, OutPipe
<1> DEFINE c == j - 1
<1>1. CASE j \notin eof
  <2>1. Read(j) /\ j \in Commands
    <3>1. PICK k \in Commands : Read(k)
      BY <1>1 DEF Next, vars, childVars, Shell, OpenPipe, Fork, ClosePipe, CloseHeredocs, Reap,
                  NoChild, Child, ChildStart, ChildExec, Command, Write, ExitFinished,
                  Exit, Sigint
    <3>2. QED
      BY <1>1, <3>1 DEF Read
  <2>2. InPipe(j) = c /\ c \in Commands
    BY <2>1, <1>a DEF Read, InPipe
  <2>3. HoldersOf(W(c)) = {} /\ cpc' = cpc
    BY <1>1, <2>1, <2>2 DEF Read
  <2>4. W(c) \in held[c]
    BY <2>2, <2>3 DEF WriterInv
  <2>5. QED
    BY <2>2, <2>3, <2>4, <1>a DEF HoldersOf
<1>2. CASE j \in eof
  <2>1. j \in Commands /\ cpc[j] # "none" /\ cpc[c] \notin Live
    BY <1>2, <1>b DEF ForkInv, NoEarlyEof
  <2>2. c \in Commands
    BY <2>1, <1>a DEF OutPipe
  <2>3. Forked(c)
    BY <2>1, <2>2, ChildMoves DEF ChildMove, Stays, Starts, Execs, Dies, Reaped, Live
  <2>4. i = c /\ ppc = "fork"
    BY <2>3 DEF Forked, Fork
  <2>5. ~Passed(j)
    BY <2>1, <2>4, <1>a DEF Passed, Forking
  <2>6. QED
    BY <2>1, <2>5 DEF ForkInv
<1>3. QED
  BY <1>1, <1>2

LEMMA ReapNext ==
    ASSUME Typed, ForkInv, ReapInv, [Next]_vars
    PROVE  ReapInv'
<1>a. Commands = 1..count /\ count \in Nat \ {0} /\ Commands' = Commands /\ count' = count
      /\ count \in Commands
  BY PipelineShape, PipelineStays DEF Typed
<1>b. /\ Forking => i \in 1..count
      /\ ppc = "wait" => i \in 1..count
  BY DEF Typed, CursorInv
<1>c. /\ cpc \in [Commands -> Live \cup {"none", "dead", "reaped"}]
      /\ pids \in [Commands -> {"none", "child", "failed"}]
      /\ ppc \in {"pipe", "fork", "close", "heredocs", "wait", "done"}
  BY DEF Typed, TypeOK
<1>1. ASSUME NEW c \in Commands, Forking' \/ ppc' = "heredocs"
      PROVE  cpc'[c] # "reaped"
  <2>1. Forking \/ ppc = "heredocs"
    BY <1>1, ShellRests DEF Shell, OpenPipe, Fork, ClosePipe, CloseHeredocs, Reap, NoChild, Forking
  <2>2. ~Reap
    BY <2>1 DEF Reap, Forking
  <2>3. QED
    BY <2>1, <2>2, ChildMoves
       DEF ReapInv, ChildMove, Stays, Forked, Starts, Execs, Dies, Reaped
<1>2. ASSUME faulty' = {}
      PROVE  faulty = {}
  BY <1>2, ShellRests DEF Shell, OpenPipe, Fork, ClosePipe, CloseHeredocs, Reap, NoChild
<1>3. ASSUME faulty' = {}, NEW c \in Commands, Passed(c)'
      PROVE  pids'[c] = "child"
  <2>1. Passed(c) => pids[c] = "child"
    BY <1>2, <1>3 DEF ReapInv
  <2>2. CASE ~Shell
    BY <1>3, <2>1, <2>2, ShellRests DEF Passed, Forking
  <2>3. CASE OpenPipe
    <3>1. pids' = pids /\ ppc = "pipe" /\ ppc' = "fork" /\ i' = i
      BY <1>3, <2>3 DEF OpenPipe
    <3>2. QED
      BY <1>3, <2>1, <3>1 DEF Passed, Forking
  <2>4. CASE Fork
    <3>1. ppc = "fork" /\ ppc' = "close" /\ i' = i /\ i \in 1..count
      BY <2>4, <1>b DEF Fork, Forking
    <3>2. pids' = [pids EXCEPT ![i] = "child"]
      BY <1>3, <2>4 DEF Fork
    <3>3. CASE c = i
      BY <3>2, <3>3, <1>c
    <3>4. CASE c # i
      BY <1>3, <2>1, <3>1, <3>2, <3>4, <1>c DEF Passed, Forking
    <3>5. QED
      BY <3>3, <3>4
  <2>5. CASE ClosePipe
    <3>1. pids' = pids /\ ppc = "close" /\ i' = i + 1 /\ i \in 1..count
          /\ ppc' = IF i = count THEN "heredocs" ELSE "pipe"
      BY <2>5, <1>b DEF ClosePipe, Forking
    <3>2. c \in 1..count
      BY <1>a
    <3>3. Passed(c)
      BY <1>3, <3>1, <3>2, <1>a DEF Passed, Forking
    <3>4. QED
      BY <2>1, <3>1, <3>3
  <2>6. CASE CloseHeredocs \/ Reap \/ NoChild
    <3>1. pids' = pids /\ ppc \in {"heredocs", "wait"}
      BY <2>6 DEF CloseHeredocs, Reap, NoChild
    <3>2. QED
      BY <2>1, <3>1 DEF Passed, Forking
  <2>7. QED
    BY <2>2, <2>3, <2>4, <2>5, <2>6 DEF Shell
<1>4. ASSUME faulty = {}, ppc = "wait"
      PROVE  /\ ~NoChild
             /\ Reap => /\ cpc[i] = "dead"
                        /\ cpc' = [cpc EXCEPT ![i] = "reaped"]
                        /\ ret' = IF i = count THEN status[i] ELSE ret
  <2>1. i \in Commands /\ pids[i] = "child"
    BY <1>4, <1>a, <1>b DEF ReapInv, Passed, Forking
  <2>2. Reapable = {i}
    BY <2>1 DEF Reapable
  <2>3. cpc[i] # "none" /\ cpc[i] # "reaped"
    BY <1>4, <1>b, <2>1 DEF ForkInv, ReapInv
  <2>4. QED
    BY <2>2, <2>3 DEF NoChild, Reap, KeepStatus
<1>5. ASSUME faulty' = {}, ppc' = "wait", NEW c \in Commands
      PROVE  (cpc'[c] = "reaped") <=> (c < i')
  <2>1. CASE ~Shell
    <3>1. ppc = "wait" /\ i' = i /\ faulty = {} /\ ~Reap
      BY <1>5, <2>1, ShellRests DEF Shell
    <3>2. (cpc[c] = "reaped") <=> (c < i)
      BY <3>1 DEF ReapInv
    <3>3. QED
      BY <2>1, <3>1, <3>2, ChildMoves
         DEF ChildMove, Stays, Forked, Starts, Execs, Dies, Reaped, Shell
  <2>2. CASE CloseHeredocs
    <3>1. ppc = "heredocs" /\ i' = 1 /\ cpc' = cpc
      BY <2>2 DEF CloseHeredocs, childVars
    <3>2. cpc[c] # "reaped" /\ c \in 1..count
      BY <3>1, <1>a DEF ReapInv
    <3>3. QED
      BY <3>1, <3>2, <1>a
  <2>3. CASE Reap
    <3>1. ppc = "wait" /\ i' = i + 1 /\ faulty = {} /\ i \in 1..count
      BY <1>2, <1>5, <2>3, <1>b DEF Reap
    <3>2. cpc' = [cpc EXCEPT ![i] = "reaped"]
      BY <1>4, <2>3, <3>1
    <3>3. ((cpc[c] = "reaped") <=> (c < i)) /\ c \in 1..count
      BY <3>1, <1>a DEF ReapInv
    <3>4. QED
      BY <3>1, <3>2, <3>3, <1>a, <1>c
  <2>4. QED
    BY <1>5, <2>1, <2>2, <2>3 DEF Shell, OpenPipe, Fork, ClosePipe, NoChild
<1>6. ASSUME faulty' = {}, ppc' = "done"
      PROVE  (\A c \in Commands : cpc'[c] = "reaped") /\ ret' = status'[count]
  <2>1. CASE ~Shell
    <3>1. ppc = "done" /\ ret' = ret /\ faulty = {}
      BY <1>6, <2>1, ShellRests
    <3>2. (\A c \in Commands : cpc[c] = "reaped") /\ ret = status[count]
      BY <3>1 DEF ReapInv
    <3>3. \A c \in Commands : cpc'[c] = "reaped" /\ status'[c] = status[c]
      BY <2>1, <3>2, ChildMoves
         DEF ChildMove, Stays, Forked, Starts, Execs, Dies, Reaped, Shell
    <3>4. QED
      BY <3>1, <3>2, <3>3, <1>a
  <2>2. CASE Shell
    <3>1. Reap
      BY <1>2, <1>4, <1>6, <2>2
         DEF Shell, OpenPipe, Fork, ClosePipe, CloseHeredocs, NoChild
    <3>2. /\ ppc = "wait" /\ i = count /\ faulty = {} /\ status' = status
      BY <1>2, <1>6, <3>1 DEF Reap
    <3>3. cpc' = [cpc EXCEPT ![count] = "reaped"] /\ ret' = status[count]
      BY <1>4, <3>1, <3>2
    <3>4. \A c \in Commands : (cpc[c] = "reaped") <=> (c < count)
      BY <3>2 DEF ReapInv
    <3>5. \A c \in Commands : cpc'[c] = "reaped"
      BY <3>3, <3>4, <1>a, <1>c
    <3>6. QED
      BY <3>2, <3>3, <3>5
  <2>3. QED
    BY <2>1, <2>2
<1>7. QED
  BY <1>1, <1>3, <1>5, <1>6, <1>a DEF ReapInv, Passed, Forking

LEMMA IInvNext == IInv /\ [Next]_vars => IInv'
  BY TypedNext, ShellHeldNext, ChildHeldNext, WriterNext, ForkNext, ReapNext, EofNext DEF IInv

LEMMA IInvAlways == Spec => []IInv
<1>1. QED
  BY IInvInit, IInvNext, PTL DEF Spec

---------------------------------------------------------------------------
(* The theorems                                                            *)

\* Every variable of a forked pipeline keeps its type, for pipelines of any
\* length: the cursor of fork_all and wait_all stays within pids[].
THEOREM TypeCorrect == Spec => []TypeOK
<1>1. IInv => TypeOK
  BY DEF IInv, Typed
<1>2. QED
  BY <1>1, IInvAlways, PTL

\* fork_all and fork_child leave every pipe end with the one command that is to
\* use it, and the shell enters wait_all holding none, for any number of
\* commands and whatever pipe() or fork() fails.
THEOREM EndsStayInPlace == Spec => []EndsInPlace
<1>1. IInv => EndsInPlace
  <2> SUFFICES ASSUME IInv PROVE EndsInPlace
    OBVIOUS
  <2>1. Typed /\ ShellHeldInv /\ ChildHeldInv
    BY DEF IInv
  <2>2. Procs = {0} \cup Commands
    BY DEF Procs
  <2>3. ASSUME NEW j \in 1..(count - 1)
        PROVE  /\ HoldersOf(W(j)) \subseteq {0, j}
               /\ HoldersOf(R(j)) \subseteq {0, j + 1} \cup {c \in {j} : cpc[c] = "born"}
    BY <2>1, <2>2 DEF HoldersOf, ChildHeldInv
  <2>4. ppc \in {"heredocs", "wait"} => held[0] \cap PipeEnds = {}
    BY <2>1 DEF ShellHeldInv, ShellEnds, Forking
  <2>5. QED
    BY <2>3, <2>4 DEF EndsInPlace
<1>2. QED
  BY <1>1, IInvAlways, PTL

\* No command of a pipeline, of any length, reads end of file while the command
\* before it still lives and writes to the pipe.
THEOREM EofIsNeverEarly == Spec => []NoEarlyEof
<1>1. IInv => NoEarlyEof
  BY DEF IInv
<1>2. QED
  BY <1>1, IInvAlways, PTL

\* What wait_all returns is the status of the last command, whatever the order
\* the children end in, when every pipe and every child could be made.
THEOREM StatusIsTheLast == Spec => []LastStatus
<1>1. IInv => LastStatus
  BY PipelineShape DEF IInv, Typed, ReapInv, LastStatus
<1>2. QED
  BY <1>1, IInvAlways, PTL

\* When exec_forked_pipeline returns, and every pipe and every child could be
\* made, every child has been waited for and the shell holds none of the
\* pipeline's descriptors.
THEOREM NothingIsLeft == Spec => []NothingLeft
<1>1. IInv => NothingLeft
  <2> SUFFICES ASSUME IInv, ppc = "done", faulty = {}
               PROVE  held[0] = {} /\ \A j \in Commands : cpc[j] = "reaped"
    BY DEF NothingLeft
  <2>1. held[0] \subseteq PipeEnds \cup Heredocs
    BY DEF IInv, Typed, TypeOK, Procs
  <2>2. held[0] \cap PipeEnds = {} /\ held[0] \cap Heredocs = {}
    BY DEF IInv, ShellHeldInv, ShellEnds, Forking
  <2>3. \A j \in Commands : cpc[j] = "reaped"
    BY DEF IInv, ReapInv
  <2>4. QED
    BY <2>1, <2>2, <2>3
<1>2. QED
  BY <1>1, IInvAlways, PTL
=============================================================================
