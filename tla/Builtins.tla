------------------------------ MODULE Builtins ------------------------------
(***************************************************************************)
(* The builtins that change what the shell keeps between lines (export,    *)
(* unset, cd, exit: builtin/), run one after the other on the table of     *)
(* environment variables, which env_init has filled from the inherited     *)
(* environment.  Any allocation may fail.                                  *)
(* What export and env print, and echo and pwd, are left out.              *)
(***************************************************************************)
EXTENDS FiniteSets, EnvTable

CONSTANTS
    Sessions,   \* what a shell inherits and runs: [environ, script]
    Dirs,       \* directories, each by the text getcwd gives for it
    Paths,      \* [from, path, to]: in from, chdir of path may lead to to
    Names,      \* the names EnvMap is about
    MaxFail     \* bound: allocations that fail

Commands == [name : {"export", "unset", "cd", "exit", "env"}, args : Seq(Texts)]

\* A name has no "=": init_one cuts an entry at its first.
ASSUME BuiltinsAssumption ==
    /\ \A s \in Sessions : s.environ \in Seq(Var) /\ s.script \in Seq(Commands)
    /\ \A s \in Sessions : \A p \in DOMAIN s.environ :
           \A c \in DOMAIN s.environ[p].key : s.environ[p].key[c] # "="
    /\ Dirs \subseteq Texts
    /\ Paths \subseteq [from : Dirs, path : Texts, to : Dirs]
    /\ MaxFail \in Nat

PWD    == <<"PWD">>
OLDPWD == <<"OLDPWD">>
HOME   == <<"HOME">>

VARIABLES
    pc,         \* "init", "idle", "run", or how the shell ended
    env,        \* sh->env
    environ,    \* the inherited environment
    script,     \* the commands not run yet
    cmd,        \* the command being run, or the last one
    i,          \* cursor over environ, and over the words of cmd
    ret,        \* the command's status so far
    exit_code,  \* sh->exit_code; the status of the process once it is "exited"
    cwd,        \* the working directory
    fails,      \* allocations that failed
    was         \* history: env and cwd before the command

vars == <<pc, env, environ, script, cmd, i, ret, exit_code, cwd, fails, was>>

NoCommand == [name |-> "env", args |-> <<>>]

\* env_init allocates the table before it reads the first entry.
Init ==
    /\ \/ pc = "init" /\ fails = 0
       \/ pc = "failed" /\ fails = 1 /\ MaxFail > 0
    /\ env = EmptyTable
    /\ \E s \in Sessions : environ = s.environ /\ script = s.script
    /\ cmd = NoCommand /\ i = 1 /\ ret = 0 /\ exit_code = 0
    /\ cwd \in Dirs
    /\ was = [env |-> env, cwd |-> cwd]

\* The allocations that may still fail.
Fail(fail) == /\ fail = "none" \/ fails < MaxFail
              /\ fails' = fails + (IF fail = "none" THEN 0 ELSE 1)

\* env_init, one entry; init_shell gives up when it fails.
Inherit ==
    /\ pc = "init" /\ i <= Len(environ)
    /\ \E fail \in Failures :
           /\ Fail(fail)
           /\ env' = InitOne(env, environ[i], fail)
           /\ pc' = IF \/ fail = "table" /\ Full(env)
                       \/ fail \in {"key", "val"} /\ environ[i].val # NULL
                    THEN "failed" ELSE pc
    /\ i' = i + 1
    /\ UNCHANGED <<environ, script, cmd, ret, exit_code, cwd, was>>

Ready ==
    /\ pc = "init" /\ i > Len(environ)
    /\ pc' = "idle"
    /\ UNCHANGED <<env, environ, script, cmd, i, ret, exit_code, cwd, fails, was>>

\* run_builtin
Begin ==
    /\ pc = "idle" /\ script # <<>>
    /\ pc' = "run"
    /\ cmd' = Head(script) /\ script' = Tail(script)
    /\ i' = 1 /\ ret' = 0
    /\ was' = [env |-> env, cwd |-> cwd]
    /\ UNCHANGED <<env, environ, exit_code, cwd, fails>>

Running(name) == pc = "run" /\ cmd.name = name
AtWord(name)  == Running(name) /\ i <= Len(cmd.args)

\* The command is over with status s.
Return(s) == pc' = "idle" /\ exit_code' = s

\* The loops of bi_export and bi_unset have ended.
WordsDone ==
    /\ pc = "run" /\ i > Len(cmd.args) /\ cmd.args # <<>>
    /\ cmd.name \in {"export", "unset"}
    /\ Return(ret)
    /\ UNCHANGED <<env, environ, script, cmd, i, ret, cwd, fails, was>>

\* export_append and the assignment of export_one; a failed copy of the name
\* ("word") or of the joined value ("join") leaves the variable alone.
Exported(t, word, fail) ==
    LET key == KeyOf(word)
        old == EnvGet(t, key)
    IN CASE ~HasValue(word) -> EnvSet(t, word, NULL, fail)
         [] HasValue(word) /\ fail = "word" -> t
         [] HasValue(word) /\ fail = "join" -> t
         [] OTHER -> EnvSet(t, key, IF Appends(word) /\ old # NULL
                                    THEN old \o ValueOf(word) ELSE ValueOf(word), fail)

\* bi_export, one word: a bad one is reported and the others are still done.
ExportWord ==
    /\ AtWord("export")
    /\ IF ValidIdent(cmd.args[i])
       THEN /\ \E fail \in Failures \cup {"word", "join"} :
                   Fail(fail) /\ env' = Exported(env, cmd.args[i], fail)
            /\ UNCHANGED ret
       ELSE ret' = 1 /\ UNCHANGED <<env, fails>>
    /\ i' = i + 1
    /\ UNCHANGED <<pc, environ, script, cmd, exit_code, cwd, was>>

\* bi_unset, one word: `unset A=x` looks for a variable named A=x.
UnsetWord ==
    /\ AtWord("unset")
    /\ env' = IF ValidIdent(cmd.args[i]) THEN EnvUnset(env, cmd.args[i]) ELSE env
    /\ i' = i + 1
    /\ UNCHANGED <<pc, environ, script, cmd, ret, exit_code, cwd, fails, was>>

UnsetNothing ==
    /\ Running("unset") /\ cmd.args = <<>>
    /\ Return(0)
    /\ UNCHANGED <<env, environ, script, cmd, i, ret, cwd, fails, was>>

\* export without words sorts an array of places and prints it; env prints the
\* variables that have a value.  Neither changes the table.
ExportPrint ==
    /\ Running("export") /\ cmd.args = <<>>
    /\ \/ Fail("table") /\ Return(1)
       \/ Fail("none") /\ Return(0)
    /\ UNCHANGED <<env, environ, script, cmd, i, ret, cwd, was>>

EnvPrint ==
    /\ Running("env")
    /\ Return(IF cmd.args = <<>> THEN 0 ELSE 1)
    /\ UNCHANGED <<env, environ, script, cmd, i, ret, cwd, fails, was>>

\* The directory cd is asked for; NULL if there is none.
Target == IF cmd.args = <<>> THEN EnvGet(env, HOME) ELSE cmd.args[1]

\* cd with too many words, without HOME, or when chdir fails, as it may for any
\* text.
CdRefused ==
    /\ Running("cd")
    /\ Return(1)
    /\ UNCHANGED <<env, environ, script, cmd, i, ret, cwd, fails, was>>

\* Where a text leads depends on where the shell is, and is seldom the text: "..",
\* a name in this directory, a symbolic link, which may also be changed meanwhile.
Chdir ==
    /\ Running("cd") /\ Len(cmd.args) <= 1
    /\ cwd' \in {d \in Dirs : [from |-> cwd, path |-> Target, to |-> d] \in Paths}

\* The new directory is removed before getcwd: the shell stays in it.
CdUnknown ==
    /\ Chdir
    /\ Return(1)
    /\ UNCHANGED <<env, environ, script, cmd, i, ret, fails, was>>

\* Mutant: PWD is what cd was given.
Getcwd_Argument == Target

\* The getcwd after chdir.
Getcwd == cwd'

\* Mutant: PWD is set first, and OLDPWD from it.
UpdatePwd_PwdFirst(t, old, new, f, g) ==
    LET u == EnvSet(t, PWD, new, f) IN EnvSet(u, OLDPWD, EnvGet(u, PWD), g)

\* update_pwd: the results of env_set are not looked at.
UpdatePwd(t, old, new, f, g) == EnvSet(EnvSet(t, OLDPWD, old, f), PWD, new, g)

\* bi_cd and update_pwd; the old directory is "" when it has been removed.
CdMoves ==
    /\ Chdir
    /\ \E old \in {cwd, <<>>}, f, g \in Failures :
           /\ fails + Cardinality({h \in {1, 2} : <<f, g>>[h] # "none"}) <= MaxFail
           /\ fails' = fails + Cardinality({h \in {1, 2} : <<f, g>>[h] # "none"})
           /\ env' = UpdatePwd(env, old, Getcwd, f, g)
    /\ Return(0)
    /\ UNCHANGED <<environ, script, cmd, i, ret, was>>

\* shell_cleanup, and the process ends with status s.
Leave(s) ==
    /\ pc' = "exited"
    /\ exit_code' = s
    /\ env' = [env EXCEPT !.strs = EnvFree(env)]

\* bi_exit: the first word is read before the others are counted.
Exit ==
    /\ Running("exit")
    /\ CASE cmd.args = <<>> -> Leave(exit_code)
         [] cmd.args # <<>> /\ ~Atol(cmd.args[1]).ok -> Leave(2)
         [] Len(cmd.args) = 1 /\ Atol(cmd.args[1]).ok ->
                Leave(UnsignedChar(Atol(cmd.args[1]).n))
         [] OTHER -> Return(1) /\ UNCHANGED env
    /\ UNCHANGED <<environ, script, cmd, i, ret, cwd, fails, was>>

EndOfInput ==
    /\ pc = "idle" /\ script = <<>>
    /\ Leave(exit_code)
    /\ UNCHANGED <<environ, script, cmd, i, ret, cwd, fails, was>>

Ended == pc \in {"exited", "failed"} /\ UNCHANGED vars

Next ==
    \/ Inherit \/ Ready \/ Begin \/ WordsDone \/ ExportWord \/ UnsetWord
    \/ UnsetNothing \/ ExportPrint \/ EnvPrint \/ CdRefused \/ CdUnknown
    \/ CdMoves \/ Exit \/ EndOfInput \/ Ended

Spec == Init /\ [][Next]_vars

---------------------------------------------------------------------------
(* Properties                                                              *)

\* Every variable has its type.
TypeOK ==
    /\ pc \in {"init", "idle", "run", "exited", "failed"}
    /\ env \in Table
    /\ environ \in Seq(Var)
    /\ script \in Seq(Commands) /\ cmd \in Commands
    /\ i \in Nat \ {0}
    /\ ret \in 0..1 /\ exit_code \in 0..(2^CharBits - 1)
    /\ cwd \in Dirs
    /\ fails \in 0..MaxFail
    /\ was \in [env : Table, cwd : Dirs]

\* No variable is ever written past the end of the table, which grows in two
\* places; and every string is freed once: on the heap are the strings of the
\* table and no others, after a failed allocation too, and none at the end.
TableSound ==
    /\ Len(env.vars) < env.cap
    /\ pc \in {"init", "idle", "run"} => env.strs = FreedByEnvFree(env)
    /\ pc = "exited" => env.strs = 0

Keys(t) == {t.vars[p].key : p \in DOMAIN t.vars}

Inherited == {p \in DOMAIN environ : environ[p].val # NULL}

InheritedOnce ==
    \A p, q \in Inherited : environ[p].key = environ[q].key => p = q

KeysDistinct ==
    \A p, q \in DOMAIN env.vars : env.vars[p].key = env.vars[q].key => p = q

\* A child is given the environment the shell itself expands from: of every
\* name its first entry, also when the name was inherited twice.
ChildSees(n) ==
    LET arr == EnvToArr(env)
        of  == {p \in DOMAIN arr : arr[p].key = n}
    IN IF of = {} THEN EnvGet(env, n) = NULL
       ELSE \E p \in of : arr[p].val = EnvGet(env, n) /\ \A q \in of : p <= q

\* No name is in the table twice unless it was inherited so; every other one is
\* an identifier, although valid_ident and export_one split a word by different
\* rules; and the programs the shell runs see the variables it sees, unless
\* a failed allocation has cost one its value.
NamesSound ==
    /\ InheritedOnce => KeysDistinct
    /\ \A k \in Keys(env) : Identifier(k) \/ \E p \in Inherited : environ[p].key = k
    /\ fails = 0 => \A n \in Keys(env) : ChildSees(n)

\* The value of name n after word, by what the word says, when it was v before.
AfterWord(n, word, v) ==
    LET mine == {r \in Readings(word) : r.name = n /\ r.op # "none"}
    IN IF mine = {} THEN v
       ELSE LET r == CHOOSE r \in mine : TRUE
            IN IF r.op = "append" /\ v # NULL THEN v \o r.val ELSE r.val

\* The value of name n after all words of export.
ValueAfter(n) ==
    LET after[k \in 0..Len(cmd.args)] ==
            IF k = 0 THEN EnvGet(was.env, n)
            ELSE AfterWord(n, cmd.args[k], after[k - 1])
    IN after[Len(cmd.args)]

\* The variables that one of the words of unset names: a word that is no
\* identifier names none, not even a variable inherited with that name.
Named(t) == {p \in DOMAIN t.vars :
                \E k \in DOMAIN cmd.args :
                    Identifier(cmd.args[k]) /\ cmd.args[k] = t.vars[p].key}

Finished(name) == pc = "idle" /\ cmd.name = name /\ cmd.args # <<>> /\ fails = 0

\* When export is over every good word has taken effect, in order, whatever
\* bad ones stood between them, and the status is 1 exactly if there was one.
\* When unset is over the named variables are gone and the others are as they
\* were, in their order, if no name was inherited twice: otherwise unset removes
\* the first of a name, and what is seen then is said by ImplementsEnvMap.
WordsTakeEffect ==
    /\ Finished("export") =>
           /\ exit_code = 1 <=> \E k \in DOMAIN cmd.args : Readings(cmd.args[k]) = {}
           /\ \A n \in Names : EnvGet(env, n) = ValueAfter(n)
           /\ \A k \in DOMAIN cmd.args :
                  \A r \in Readings(cmd.args[k]) : r.name \in Keys(env)
    /\ Finished("unset") /\ InheritedOnce =>
           env.vars = Kept(was.env.vars, (DOMAIN was.env.vars) \ Named(was.env))

\* A cd that succeeds leaves the directory it has come to in PWD, wherever its
\* argument or HOME has led, and the one it came from in OLDPWD, also when OLDPWD
\* or PWD was unset; one that fails leaves all variables alone.
CdTellsTruth ==
    pc = "idle" /\ cmd.name = "cd" /\ fails = 0 =>
        IF exit_code = 0
        THEN /\ EnvGet(env, PWD) = cwd
             /\ EnvGet(env, OLDPWD) \in {was.cwd, <<>>}
        ELSE env = was.env

\* exit ends the process with the number its word spells, modulo the width of a
\* character, for every long, and with 2 for a word that spells none or one no
\* long can hold; with a number and more words it does not exit.
ExitCodeRight ==
    pc = "exited" /\ cmd.name = "exit" /\ cmd.args # <<>> =>
        LET longs == {n \in IntegerReadings(cmd.args[1]) : n \in (-LongMax - 1)..LongMax}
        IN exit_code = IF longs = {} THEN 2
                       ELSE IF Len(cmd.args) > 1 THEN 1
                       ELSE (CHOOSE n \in longs : TRUE) % 2^CharBits

ValuesOf(n) == Kept([p \in DOMAIN env.vars |-> env.vars[p].val],
                    {p \in DOMAIN env.vars : env.vars[p].key = n})

M == INSTANCE EnvMap WITH env    <- [n \in Names |-> ValuesOf(n)],
                          Pwd    <- PWD,
                          OldPwd <- OLDPWD

\* The table implements the map of names to values: see there.
ImplementsEnvMap == M!MapSpec
=============================================================================
