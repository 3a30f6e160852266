--------------------------- MODULE BuiltinsProofs ---------------------------
(* Whatever the builtins do to the table of variables, for any inherited    *)
(* environment, any script, any allocation failing and any size of a table: *)
(* it is never overrun and its strings are freed once.                      *)
EXTENDS Builtins, EnvTableProofs, FiniteSetTheorems

\* The table between any two steps.
TableInv ==
    /\ IsTable(env)
    /\ Len(env.vars) < env.cap
    /\ pc \in {"init", "idle", "run"} => Counted(env)
    /\ pc = "exited" => env.strs = 0

LEMMA InvSound ==
    ASSUME TableInv, pc \in {"init", "idle", "run"}
    PROVE  SoundTable(env)
BY DEF TableInv, SoundTable

LEMMA SoundInv ==
    ASSUME SoundTable(env'), pc' # "exited"
    PROVE  TableInv'
BY DEF TableInv, SoundTable

LEMMA ExportedSound ==
    ASSUME NEW t, SoundTable(t), NEW word, NEW fail
    PROVE  SoundTable(Exported(t, word, fail))
<1> DEFINE key == KeyOf(word)
           old == EnvGet(t, key)
           val == IF Appends(word) /\ old # NULL THEN old \o ValueOf(word) ELSE ValueOf(word)
<1>1. SoundTable(EnvSet(t, word, NULL, fail)) /\ SoundTable(EnvSet(t, key, val, fail))
  BY EnvSetSound
<1>2. \/ Exported(t, word, fail) = EnvSet(t, word, NULL, fail)
      \/ Exported(t, word, fail) = t
      \/ Exported(t, word, fail) = EnvSet(t, key, val, fail)
  BY Zenon DEF Exported
<1>3. QED
  BY <1>1, <1>2

\* shell_cleanup frees what the table holds, and nothing is left.
LEMMA LeaveInv ==
    ASSUME SoundTable(env), NEW s, Leave(s)
    PROVE  TableInv'
<1>1. PICK K, V : env \in TableOf(K, V)
  BY DEF SoundTable, IsTable
<1>2. EnvFree(env) = 0
  BY <1>1 DEF EnvFree, SoundTable, Counted, TableOf
<1>3. env' \in TableOf(K, V) /\ env'.vars = env.vars /\ env'.cap = env.cap /\ env'.strs = 0
  BY <1>1, <1>2 DEF Leave, TableOf
<1>4. QED
  BY <1>3 DEF Leave, TableInv, SoundTable, IsTable

LEMMA InheritInv ==
    ASSUME TableInv, Inherit
    PROVE  TableInv'
<1>1. SoundTable(env) /\ pc = "init"
  BY InvSound DEF Inherit
<1>2. PICK fail \in Failures :
          /\ env' = InitOne(env, environ[i], fail)
          /\ pc' = IF \/ fail = "table" /\ Full(env)
                      \/ fail \in {"key", "val"} /\ environ[i].val # NULL
                   THEN "failed" ELSE pc
  BY DEF Inherit
<1>3. /\ Len(env'.vars) < env'.cap /\ IsTable(env')
      /\ \/ fail = "table" /\ Full(env)
         \/ fail \in {"key", "val"} /\ environ[i].val # NULL
         \/ Counted(env')
  BY <1>1, <1>2, InitOneSound
<1>4. QED
  BY <1>1, <1>2, <1>3 DEF TableInv

LEMMA InitInv == Init => TableInv
BY EmptyTableSound DEF Init, TableInv, SoundTable

LEMMA NextInv == TableInv /\ [Next]_vars => TableInv'
<1> SUFFICES ASSUME TableInv, [Next]_vars PROVE TableInv'
  OBVIOUS
<1>1. CASE Inherit
  BY <1>1, InheritInv
<1>2. CASE Ready
  BY <1>2 DEF Ready, TableInv
<1>3. CASE Begin
  BY <1>3 DEF Begin, TableInv
<1>4. CASE WordsDone
  BY <1>4 DEF WordsDone, Return, TableInv
<1>5. CASE ExportWord
  <2>1. SoundTable(env) /\ pc' = "run"
    BY <1>5, InvSound DEF ExportWord, AtWord, Running
  <2>2. SoundTable(env')
    <3>1. env' = env \/ \E fail \in Failures \cup {"word", "join"} :
                            env' = Exported(env, cmd.args[i], fail)
      BY <1>5, Zenon DEF ExportWord
    <3>2. QED
      BY <2>1, <3>1, ExportedSound
  <2>3. QED
    BY <2>1, <2>2, SoundInv
<1>6. CASE UnsetWord
  <2>1. SoundTable(env) /\ pc' = "run"
    BY <1>6, InvSound DEF UnsetWord, AtWord, Running
  <2>2. SoundTable(env')
    BY <1>6, <2>1, EnvUnsetSound DEF UnsetWord
  <2>3. QED
    BY <2>1, <2>2, SoundInv
<1>7. CASE UnsetNothing
  BY <1>7 DEF UnsetNothing, Running, Return, TableInv
<1>8. CASE ExportPrint
  BY <1>8 DEF ExportPrint, Running, Return, TableInv
<1>9. CASE EnvPrint
  BY <1>9 DEF EnvPrint, Running, Return, TableInv
<1>10. CASE CdRefused
  BY <1>10 DEF CdRefused, Running, Return, TableInv
<1>11. CASE CdUnknown
  BY <1>11 DEF CdUnknown, Chdir, Running, Return, TableInv
<1>12. CASE CdMoves
  <2>1. SoundTable(env) /\ pc' = "idle"
    BY <1>12, InvSound DEF CdMoves, Chdir, Running, Return
  <2>2. PICK old \in {cwd, <<>>}, f, g \in Failures :
            env' = UpdatePwd(env, old, cwd', f, g)
    BY <1>12, Zenon DEF CdMoves, Getcwd
  <2>3. SoundTable(env')
    BY <2>1, <2>2, EnvSetSound DEF UpdatePwd
  <2>4. QED
    BY <2>1, <2>3, SoundInv
<1>13. CASE Exit
  <2>1. SoundTable(env) /\ pc = "run"
    BY <1>13, InvSound DEF Exit, Running
  <2>2. (\E s : Leave(s)) \/ (pc' = "idle" /\ env' = env)
    BY <1>13, Zenon DEF Exit, Return
  <2>3. QED
    BY <2>1, <2>2, LeaveInv, SoundInv
<1>14. CASE EndOfInput
  <2>1. SoundTable(env)
    BY <1>14, InvSound DEF EndOfInput
  <2>2. QED
    BY <1>14, <2>1, LeaveInv DEF EndOfInput
<1>15. CASE UNCHANGED vars
  BY <1>15 DEF vars, TableInv
<1>16. QED
  BY <1>1, <1>2, <1>3, <1>4, <1>5, <1>6, <1>7, <1>8, <1>9, <1>10, <1>11, <1>12, <1>13,
     <1>14, <1>15, Zenon DEF Next, Ended

\* No variable is written past the end of the table, and every string is freed
\* once, whatever is exported, unset and moved to and whichever allocation
\* fails (env_init, env_set, env_unset, env_free).
THEOREM TableAlwaysSound == Spec => []TableSound
<1>1. TableInv => TableSound
  BY DEF TableInv, TableSound, Counted
<1>2. QED
  BY <1>1, InitInv, NextInv, PTL DEF Spec
---------------------------------------------------------------------------
(* No name twice                                                           *)

\* The variables env_init has made come from entries it has passed.
FromEntry(p) ==
    \E q \in Inherited : q < i /\ environ[q].key = env.vars[p].key

NamesInv ==
    /\ TableInv
    /\ environ \in Seq(Var) /\ i \in Nat \ {0}
    /\ InheritedOnce => Distinct(env)
    /\ pc = "init" => \A p \in DOMAIN env.vars : FromEntry(p)

LEMMA ExportedDistinct ==
    ASSUME NEW t, SoundTable(t), Distinct(t), NEW word, NEW fail
    PROVE  Distinct(Exported(t, word, fail))
<1> DEFINE key == KeyOf(word)
           old == EnvGet(t, key)
           val == IF Appends(word) /\ old # NULL THEN old \o ValueOf(word) ELSE ValueOf(word)
<1>1. Distinct(EnvSet(t, word, NULL, fail)) /\ Distinct(EnvSet(t, key, val, fail))
  BY EnvSetDistinct
<1>2. \/ Exported(t, word, fail) = EnvSet(t, word, NULL, fail)
      \/ Exported(t, word, fail) = t
      \/ Exported(t, word, fail) = EnvSet(t, key, val, fail)
  BY Zenon DEF Exported
<1>3. QED
  BY <1>1, <1>2

\* Every entry but those passed over becomes the last variable.
LEMMA InheritNames ==
    ASSUME NamesInv, Inherit
    PROVE  NamesInv'
<1>1. SoundTable(env) /\ pc = "init" /\ environ' = environ /\ i' = i + 1 /\ i <= Len(environ)
  BY InvSound DEF Inherit, NamesInv
<1> DEFINE N == Len(env.vars)
           g == Grown(env)
           entry == environ[i]
           pushed == Pushed(g, entry.key, entry.val)
<1>2. N \in Nat /\ DOMAIN env.vars = 1..N
  BY <1>1, TableShape DEF SoundTable
<1>3. Inherited' = Inherited /\ InheritedOnce' = InheritedOnce
  BY <1>1 DEF Inherited, InheritedOnce
<1>4. env'.vars = env.vars \/ (env' = pushed /\ entry.val # NULL)
  BY <1>1, InitOneIs DEF Inherit
<1>5. TableInv'
  BY InheritInv DEF NamesInv
<1>6. environ' \in Seq(Var) /\ i' \in Nat \ {0}
  BY <1>1 DEF NamesInv
<1>7. CASE env'.vars = env.vars
  <2>1. (\A p \in DOMAIN env.vars : FromEntry(p))'
    <3>1. SUFFICES ASSUME NEW p \in DOMAIN env.vars
                   PROVE  \E q \in Inherited : q < i + 1 /\ environ[q].key = env.vars[p].key
      BY <1>1, <1>3, <1>7 DEF FromEntry
    <3>2. PICK q \in Inherited : q < i /\ environ[q].key = env.vars[p].key
      BY <1>1 DEF NamesInv, FromEntry
    <3>3. q \in Int /\ q < i + 1
      BY <3>2 DEF Inherited, NamesInv
    <3>4. QED
      BY <3>2, <3>3
  <2>2. (InheritedOnce => Distinct(env))'
    BY <1>3, <1>7 DEF Distinct, NamesInv
  <2>3. QED
    BY <1>5, <1>6, <2>1, <2>2 DEF NamesInv
<1>8. CASE env' = pushed /\ entry.val # NULL
  <2> HIDE DEF g, entry
  <2>1. /\ SoundTable(pushed) /\ Len(pushed.vars) = N + 1
        /\ pushed.vars[N + 1] = [key |-> entry.key, val |-> entry.val]
        /\ \A n \in 1..N : pushed.vars[n] = env.vars[n]
    <3>1. SoundTable(g) /\ g.vars = env.vars /\ Len(g.vars) + 1 < g.cap
      BY <1>1, GrownSound DEF g
    <3>2. QED
      BY <3>1, PushedSound
  <2>2. i \in Inherited
    BY <1>1, <1>8 DEF Inherited, NamesInv, entry
  <2>3. (\A p \in DOMAIN env.vars : FromEntry(p))'
    <3>1. DOMAIN env'.vars = 1..(N + 1)
      BY <1>8, <2>1, TableShape DEF SoundTable
    <3>2. SUFFICES ASSUME NEW p \in 1..(N + 1)
                   PROVE  \E q \in Inherited : q < i + 1 /\ environ[q].key = env'.vars[p].key
      BY <1>1, <1>3, <3>1 DEF FromEntry
    <3>3. CASE p = N + 1
      <4>1. env'.vars[p].key = environ[i].key
        BY <1>8, <2>1, <3>3 DEF entry
      <4>2. i < i + 1
        BY DEF NamesInv
      <4>3. QED
        BY <2>2, <4>1, <4>2
    <3>4. CASE p # N + 1
      <4>1. p \in 1..N /\ env'.vars[p] = env.vars[p]
        BY <1>2, <1>8, <2>1, <3>4
      <4>2. PICK q \in Inherited : q < i /\ environ[q].key = env.vars[p].key
        BY <1>1, <1>2, <4>1 DEF NamesInv, FromEntry
      <4>3. q \in Int /\ q < i + 1
        BY <4>2 DEF Inherited, NamesInv
      <4>4. QED
        BY <4>1, <4>2, <4>3
    <3>5. QED
      BY <3>3, <3>4
  <2>4. (InheritedOnce => Distinct(env))'
    <3>1. SUFFICES ASSUME InheritedOnce PROVE Distinct(env')
      BY <1>3
    <3>2. \A n \in 1..N : env.vars[n].key # entry.key
      <4>1. SUFFICES ASSUME NEW n \in 1..N, env.vars[n].key = entry.key PROVE FALSE
        OBVIOUS
      <4>2. PICK q \in Inherited : q < i /\ environ[q].key = env.vars[n].key
        BY <1>1, <1>2 DEF NamesInv, FromEntry
      <4>3. q = i
        BY <2>2, <3>1, <4>1, <4>2 DEF InheritedOnce, entry
      <4>4. QED
        BY <4>2, <4>3 DEF NamesInv
    <3>3. Distinct(env)
      BY <3>1 DEF NamesInv
    <3>4. QED
      BY <1>1, <1>8, <3>2, <3>3, PushedDistinct DEF g
  <2>5. QED
    BY <1>5, <1>6, <2>3, <2>4 DEF NamesInv
<1>9. QED
  BY <1>4, <1>7, <1>8

LEMMA InitNames == Init => NamesInv
<1> SUFFICES ASSUME Init PROVE NamesInv
  OBVIOUS
<1>1. TableInv /\ i \in Nat \ {0}
  BY InitInv DEF Init
<1>2. environ \in Seq(Var)
  BY BuiltinsAssumption DEF Init
<1>3. DOMAIN env.vars = {}
  BY DEF Init, EmptyTable
<1>4. QED
  BY <1>1, <1>2, <1>3 DEF NamesInv, Distinct

\* A step after env_init keeps the names distinct.
LEMMA NamesStep ==
    ASSUME NamesInv, [Next]_vars, environ' = environ, i' \in Nat \ {0}, pc' # "init",
           Distinct(env) => Distinct(env')
    PROVE  NamesInv'
<1>1. TableInv'
  BY NextInv DEF NamesInv
<1>2. InheritedOnce' = InheritedOnce
  BY DEF InheritedOnce, Inherited
<1>3. QED
  BY <1>1, <1>2 DEF NamesInv

LEMMA NextNames == NamesInv /\ [Next]_vars => NamesInv'
<1> SUFFICES ASSUME NamesInv, [Next]_vars PROVE NamesInv'
  OBVIOUS
<1>1. CASE Inherit
  BY <1>1, InheritNames
<1>2. CASE Ready
  BY <1>2, NamesStep DEF Ready, NamesInv
<1>3. CASE Begin
  BY <1>3, NamesStep DEF Begin, NamesInv
<1>4. CASE WordsDone
  BY <1>4, NamesStep DEF WordsDone, Return, NamesInv
<1>5. CASE ExportWord
  <2>1. /\ SoundTable(env) /\ pc' = "run" /\ environ' = environ
        /\ i \in Nat \ {0} /\ i' = i + 1
    BY <1>5, InvSound DEF ExportWord, AtWord, Running, NamesInv
  <2>2. env' = env \/ \E fail \in Failures \cup {"word", "join"} :
                          env' = Exported(env, cmd.args[i], fail)
    BY <1>5, Zenon DEF ExportWord
  <2>3. Distinct(env) => Distinct(env')
    BY <2>1, <2>2, ExportedDistinct
  <2>4. QED
    BY <2>1, <2>3, NamesStep
<1>6. CASE UnsetWord
  <2>1. /\ SoundTable(env) /\ pc' = "run" /\ environ' = environ
        /\ i \in Nat \ {0} /\ i' = i + 1
    BY <1>6, InvSound DEF UnsetWord, AtWord, Running, NamesInv
  <2>2. Distinct(env) => Distinct(env')
    BY <1>6, <2>1, EnvUnsetDistinct DEF UnsetWord
  <2>3. QED
    BY <2>1, <2>2, NamesStep
<1>7. CASE UnsetNothing
  BY <1>7, NamesStep DEF UnsetNothing, Return, NamesInv
<1>8. CASE ExportPrint
  BY <1>8, NamesStep DEF ExportPrint, Return, NamesInv
<1>9. CASE EnvPrint
  BY <1>9, NamesStep DEF EnvPrint, Return, NamesInv
<1>10. CASE CdRefused
  BY <1>10, NamesStep DEF CdRefused, Return, NamesInv
<1>11. CASE CdUnknown
  BY <1>11, NamesStep DEF CdUnknown, Return, NamesInv
<1>12. CASE CdMoves
  <2>1. SoundTable(env) /\ pc' = "idle" /\ environ' = environ /\ i' = i /\ i \in Nat \ {0}
    BY <1>12, InvSound DEF CdMoves, Chdir, Running, Return, NamesInv
  <2>2. PICK old \in {cwd, <<>>}, f, g \in Failures :
            env' = UpdatePwd(env, old, cwd', f, g)
    BY <1>12, Zenon DEF CdMoves, Getcwd
  <2>3. Distinct(env) => Distinct(env')
    BY <2>1, <2>2, EnvSetSound, EnvSetDistinct DEF UpdatePwd
  <2>4. QED
    BY <2>1, <2>3, NamesStep
<1>13. CASE Exit \/ EndOfInput
  <2>1. SoundTable(env) /\ environ' = environ /\ i' = i /\ i \in Nat \ {0}
    BY <1>13, InvSound DEF Exit, EndOfInput, Running, NamesInv
  <2>2. (\E s : Leave(s)) \/ (pc' = "idle" /\ env' = env)
    BY <1>13, Zenon DEF Exit, EndOfInput, Return
  <2>3. pc' # "init"
    BY <2>2 DEF Leave
  <2>4. Distinct(env) => Distinct(env')
    <3>1. PICK K, V : env \in TableOf(K, V)
      BY <2>1 DEF SoundTable, IsTable
    <3>2. env'.vars = env.vars
      BY <2>2, <3>1 DEF Leave, TableOf
    <3>3. QED
      BY <3>2 DEF Distinct
  <2>5. QED
    BY <2>1, <2>3, <2>4, NamesStep
<1>14. CASE UNCHANGED vars
  <2>1. TableInv' /\ InheritedOnce' = InheritedOnce
    BY <1>14, NextInv DEF NamesInv, vars, InheritedOnce, Inherited
  <2>2. (pc = "init" => \A p \in DOMAIN env.vars : FromEntry(p))'
    BY <1>14 DEF vars, NamesInv, FromEntry, Inherited
  <2>3. QED
    BY <1>14, <2>1, <2>2 DEF vars, NamesInv
<1>15. QED
  BY <1>1, <1>2, <1>3, <1>4, <1>5, <1>6, <1>7, <1>8, <1>9, <1>10, <1>11, <1>12, <1>13,
     <1>14, Zenon DEF Next, Ended

---------------------------------------------------------------------------
(* cd                                                                      *)

CdInv ==
    /\ TableInv
    /\ cwd \in Dirs /\ fails \in Nat
    /\ pc = "init" => cmd.name = "env"
    /\ pc = "run" /\ cmd.name = "cd" => env = was.env /\ cwd = was.cwd
    /\ CdTellsTruth

LEMMA OneAndTwo == IsFiniteSet({1, 2})
<1>1. IsFiniteSet(1..2)
  <2>1. 1 \in Int /\ 2 \in Int
    OBVIOUS
  <2>2. QED
    BY <2>1, FS_Interval, Zenon
<1>2. 1..2 = {1, 2}
  OBVIOUS
<1>3. QED
  BY <1>1, <1>2

\* No allocation fails among none.
LEMMA NoFailure ==
    ASSUME NEW f, NEW g, NEW n \in Nat,
           n + Cardinality({h \in {1, 2} : <<f, g>>[h] # "none"}) = 0
    PROVE  n = 0 /\ f = "none" /\ g = "none"
<1> DEFINE failed == {h \in {1, 2} : <<f, g>>[h] # "none"}
<1>1. IsFiniteSet({1, 2})
  BY OneAndTwo
<1>2. IsFiniteSet(failed)
  BY <1>1, FS_Subset
<1>3. Cardinality(failed) \in Nat
  BY <1>2, FS_CardinalityType
<1>4. Cardinality(failed) = 0 /\ n = 0
  BY <1>3
<1>5. failed = {}
  BY <1>2, <1>4, FS_EmptySet
<1>6. QED
  BY <1>4, <1>5

LEMMA InitCd == Init => CdInv
<1> SUFFICES ASSUME Init PROVE CdInv
  OBVIOUS
<1>1. TableInv
  BY InitInv
<1>2. QED
  BY <1>1 DEF Init, CdInv, CdTellsTruth, NoCommand

\* update_pwd, when every allocation succeeds.
LEMMA CdMovesTruth ==
    ASSUME CdInv, CdMoves
    PROVE  CdTellsTruth'
<1>1. /\ SoundTable(env) /\ pc = "run" /\ cmd.name = "cd" /\ env = was.env /\ cwd = was.cwd
      /\ cmd' = cmd /\ was' = was /\ exit_code' = 0 /\ cwd' \in Dirs
  BY InvSound DEF CdInv, CdMoves, Chdir, Running, Return
<1>2. PICK old \in {cwd, <<>>}, f, g \in Failures :
          /\ fails' = fails + Cardinality({h \in {1, 2} : <<f, g>>[h] # "none"})
          /\ env' = UpdatePwd(env, old, cwd', f, g)
  BY Zenon DEF CdMoves, Getcwd
<1>3. SUFFICES ASSUME fails' = 0
               PROVE  EnvGet(env', PWD) = cwd' /\ EnvGet(env', OLDPWD) \in {was.cwd, <<>>}
  <2>1. CdTellsTruth' <=> (pc' = "idle" /\ cmd'.name = "cd" /\ fails' = 0 =>
            IF exit_code' = 0
            THEN EnvGet(env', PWD) = cwd' /\ EnvGet(env', OLDPWD) \in {was'.cwd, <<>>}
            ELSE env' = was'.env)
    BY DEF CdTellsTruth
  <2>2. QED
    BY <1>1, <1>3, <2>1
<1>4. f = "none" /\ g = "none"
  BY <1>2, <1>3, NoFailure DEF CdInv
<1> DEFINE t == EnvSet(env, OLDPWD, old, "none")
<1>5. env' = EnvSet(t, PWD, cwd', "none")
  BY <1>2, <1>4 DEF UpdatePwd
<1>6. NULL \notin Texts /\ old \in Texts /\ cwd' \in Texts /\ <<>> \in Texts
  <2>1. cwd \in Texts /\ cwd' \in Texts
    BY <1>1, BuiltinsAssumption DEF CdInv
  <2>2. <<>> \in Texts
    BY DEF Texts
  <2>3. QED
    BY <1>2, <2>1, <2>2, EnvTableAssumption
<1>7. old # NULL /\ cwd' # NULL
  BY <1>6
<1>8. SoundTable(t)
  BY <1>1, EnvSetSound
<1>9. EnvGet(t, OLDPWD) = old
  BY <1>1, <1>7, GetAfterSet
<1>10. OLDPWD # PWD
  BY DEF OLDPWD, PWD
<1> HIDE DEF t
<1>11. EnvGet(env', PWD) = cwd' /\ EnvGet(env', OLDPWD) = EnvGet(t, OLDPWD)
  BY <1>5, <1>7, <1>8, <1>10, GetAfterSet
<1>12. QED
  BY <1>1, <1>2, <1>9, <1>11

LEMMA NextCd == CdInv /\ [Next]_vars => CdInv'
<1> SUFFICES ASSUME CdInv, [Next]_vars PROVE CdInv'
  OBVIOUS
<1>1. TableInv'
  BY NextInv DEF CdInv
<1>2. CASE Inherit
  BY <1>1, <1>2 DEF Inherit, Fail, CdInv, CdTellsTruth
<1>3. CASE Ready
  BY <1>1, <1>3 DEF Ready, CdInv, CdTellsTruth
<1>4. CASE Begin
  BY <1>1, <1>4 DEF Begin, CdInv, CdTellsTruth
<1>5. CASE WordsDone
  BY <1>1, <1>5 DEF WordsDone, Return, CdInv, CdTellsTruth
<1>6. CASE ExportWord
  <2>1. /\ cwd' = cwd /\ cmd' = cmd /\ pc' = "run" /\ cmd.name = "export"
        /\ fails' \in Nat
    <3>1. fails' = fails \/ \E fail : Fail(fail)
      BY <1>6, Zenon DEF ExportWord
    <3>2. QED
      BY <1>6, <3>1 DEF ExportWord, AtWord, Running, Fail, CdInv
  <2>2. QED
    BY <1>1, <2>1 DEF CdInv, CdTellsTruth
<1>7. CASE UnsetWord
  BY <1>1, <1>7 DEF UnsetWord, AtWord, Running, CdInv, CdTellsTruth
<1>8. CASE UnsetNothing
  BY <1>1, <1>8 DEF UnsetNothing, Running, Return, CdInv, CdTellsTruth
<1>9. CASE ExportPrint
  BY <1>1, <1>9 DEF ExportPrint, Running, Return, Fail, CdInv, CdTellsTruth
<1>10. CASE EnvPrint
  BY <1>1, <1>10 DEF EnvPrint, Running, Return, CdInv, CdTellsTruth
<1>11. CASE CdRefused
  BY <1>1, <1>11 DEF CdRefused, Running, Return, CdInv, CdTellsTruth
<1>12. CASE CdUnknown
  BY <1>1, <1>12 DEF CdUnknown, Chdir, Running, Return, CdInv, CdTellsTruth
<1>13. CASE CdMoves
  <2>1. /\ cwd' \in Dirs /\ pc' = "idle" /\ pc' # "init" /\ pc' # "run"
    BY <1>13 DEF CdMoves, Chdir, Return
  <2>2. fails' \in Nat
    <3>1. PICK f, g \in Failures :
              fails' = fails + Cardinality({h \in {1, 2} : <<f, g>>[h] # "none"})
      BY <1>13, Zenon DEF CdMoves
    <3>2. IsFiniteSet({1, 2})
      BY OneAndTwo
    <3>3. Cardinality({h \in {1, 2} : <<f, g>>[h] # "none"}) \in Nat
      BY <3>2, FS_Subset, FS_CardinalityType
    <3>4. QED
      BY <3>1, <3>3 DEF CdInv
  <2>3. QED
    BY <1>1, <1>13, <2>1, <2>2, CdMovesTruth DEF CdInv
<1>14. CASE Exit \/ EndOfInput
  <2>1. /\ cwd' = cwd /\ fails' = fails /\ cmd' = cmd /\ was' = was
        /\ pc' = "exited" \/ (pc' = "idle" /\ cmd.name = "exit")
    <3>1. (\E s : Leave(s)) \/ (pc' = "idle" /\ cmd.name = "exit")
      BY <1>14, Zenon DEF Exit, EndOfInput, Return, Running
    <3>2. QED
      BY <1>14, <3>1 DEF Exit, EndOfInput, Leave
  <2>2. QED
    BY <1>1, <2>1 DEF CdInv, CdTellsTruth
<1>15. CASE UNCHANGED vars
  BY <1>1, <1>15 DEF vars, CdInv, CdTellsTruth
<1>16. QED
  BY <1>2, <1>3, <1>4, <1>5, <1>6, <1>7, <1>8, <1>9, <1>10, <1>11, <1>12, <1>13,
     <1>14, <1>15, Zenon DEF Next, Ended

\* A cd that reports success has left the new directory in PWD and the old one
\* in OLDPWD, in whatever order the table holds them and however often it has
\* grown; one that fails has changed no variable (bi_cd, update_pwd).
THEOREM CdAlwaysTellsTruth == Spec => []CdTellsTruth
<1>1. CdInv => CdTellsTruth
  BY DEF CdInv
<1>2. QED
  BY <1>1, InitCd, NextCd, PTL DEF Spec
---------------------------------------------------------------------------
(* Types                                                                   *)

TypeInv == TypeOK /\ TableInv

Words0 == Texts \cup {NULL}

LEMMA CharWidth == 2^CharBits \in Nat /\ 2^CharBits >= 4
<1> DEFINE T == {n \in Nat : 2^(n + 2) >= 4}
<1>1. 0 \in T
  <2>1. 2^0 = 1
    OBVIOUS
  <2>2. 2^1 = 2 * 2^0 /\ 2^2 = 2 * 2^1
    <3>1. 0 \in Nat /\ 1 \in Nat /\ 0 + 1 = 1 /\ 1 + 1 = 2
      OBVIOUS
    <3>2. QED
      BY <3>1, PowerNext, Zenon
  <2>3. 2^2 = 4
    BY <2>1, <2>2
  <2>4. QED
    BY <2>3
<1>2. ASSUME NEW n \in Nat, n \in T PROVE n + 1 \in T
  <2> DEFINE a == n + 2
  <2>1. a \in Nat /\ a + 1 = (n + 1) + 2
    OBVIOUS
  <2> DEFINE x == 2^a
             y == 2^(a + 1)
  <2>2. x \in Nat /\ y = 2 * x
    BY <2>1, PowerNat, PowerNext, Zenon
  <2>3. x >= 4
    BY <1>2
  <2>4. y = 2^((n + 1) + 2)
    BY <2>1, Zenon
  <2> HIDE DEF x, y, a
  <2>5. y >= 4
    BY <2>2, <2>3
  <2>6. QED
    BY <2>4, <2>5
<1> HIDE DEF T
<1>3. Nat \subseteq T
  BY <1>1, <1>2, AllNaturals
<1>4. CharBits \in Nat /\ CharBits - 2 \in Nat /\ (CharBits - 2) + 2 = CharBits
  BY WordsAssumption
<1>5. CharBits - 2 \in T
  BY <1>3, <1>4
<1>6. 2^CharBits >= 4
  BY <1>4, <1>5 DEF T
<1>7. QED
  BY <1>4, <1>6, PowerNat

LEMMA CharType == \A n \in Int : UnsignedChar(n) \in 0..(2^CharBits - 1)
<1> DEFINE m == 2^CharBits
<1>1. m \in Nat /\ m >= 4
  BY CharWidth
<1> HIDE DEF m
<1>2. \A n \in Int : n % m \in 0..(m - 1)
  BY <1>1
<1>3. QED
  BY <1>2 DEF UnsignedChar, m

\* The statuses of the builtins are characters.
LEMMA Statuses == 0 \in 0..(2^CharBits - 1) /\ 1 \in 0..(2^CharBits - 1)
                  /\ 2 \in 0..(2^CharBits - 1)
BY CharWidth

LEMMA HoldsTable ==
    ASSUME NEW t \in Table
    PROVE  Holds(t, Texts, Words0)
<1>1. t \in TableOf(Texts, Words0)
  BY Zenon DEF Table, TableOf, Var, VarOf, Words0
<1>2. t.vars \in Seq(VarOf(Texts, Words0))
  BY <1>1 DEF TableOf
<1> HIDE DEF Words0
<1>3. \A n \in 1..Len(t.vars) : t.vars[n] \in VarOf(Texts, Words0)
  BY <1>2
<1>4. QED
  BY <1>1, <1>3 DEF Holds, IsTable, VarOf

\* export_one changes the table through env_set alone.
LEMMA ExportedSets ==
    ASSUME NEW K, NEW t, Holds(t, K, Words0), NEW word \in Texts, NEW fail
    PROVE  \/ Exported(t, word, fail) = t
           \/ ~HasValue(word) /\ Exported(t, word, fail) = EnvSet(t, word, NULL, fail)
           \/ /\ HasValue(word)
              /\ \E val \in Words0 : Exported(t, word, fail) = EnvSet(t, KeyOf(word), val, fail)
<1> DEFINE key == KeyOf(word)
           old == EnvGet(t, key)
           val == IF Appends(word) /\ old # NULL THEN old \o ValueOf(word) ELSE ValueOf(word)
<1>1. \/ Exported(t, word, fail) = EnvSet(t, word, NULL, fail) /\ ~HasValue(word)
      \/ Exported(t, word, fail) = t
      \/ Exported(t, word, fail) = EnvSet(t, key, val, fail) /\ HasValue(word)
  BY Zenon DEF Exported
<1>2. HasValue(word) => val \in Words0
  <2>1. HasValue(word) => ValueOf(word) \in Texts
    BY KeyIs
  <2>2. old \in Texts \/ old = NULL
    <3>1. old \in Words0 \cup {NULL}
      BY EnvGetHolds
    <3>2. QED
      BY <3>1 DEF Words0
  <2> HIDE DEF old
  <2>3. HasValue(word) /\ old \in Texts => old \o ValueOf(word) \in Texts
    BY <2>1 DEF Texts
  <2>4. QED
    BY <2>1, <2>2, <2>3 DEF Words0
<1> HIDE DEF val
<1>3. QED
  BY <1>1, <1>2

LEMMA ExportedHolds ==
    ASSUME NEW K, NEW t, SoundTable(t), Holds(t, K, Words0), NEW word \in Texts, NEW fail,
           HasValue(word) => KeyOf(word) \in K, ~HasValue(word) => word \in K
    PROVE  Holds(Exported(t, word, fail), K, Words0)
<1>1. NULL \in Words0
  BY DEF Words0
<1> HIDE DEF Words0
<1>2. HasValue(word) => \A val \in Words0 : Holds(EnvSet(t, KeyOf(word), val, fail), K, Words0)
  BY <1>1, EnvSetHolds
<1>3. ~HasValue(word) => Holds(EnvSet(t, word, NULL, fail), K, Words0)
  BY <1>1, EnvSetHolds
<1>4. QED
  BY <1>2, <1>3, ExportedSets

LEMMA UpdatePwdHolds ==
    ASSUME NEW K, NEW t, SoundTable(t), Holds(t, K, Words0), NEW old \in Texts,
           NEW new \in Texts, NEW f, NEW g, PWD \in K, OLDPWD \in K
    PROVE  Holds(UpdatePwd(t, old, new, f, g), K, Words0)
<1> DEFINE u == EnvSet(t, OLDPWD, old, f)
<1>1. NULL \in Words0 /\ old \in Words0 /\ new \in Words0
  BY DEF Words0
<1>2. SoundTable(u)
  BY EnvSetSound
<1>3. Holds(u, K, Words0)
  BY <1>1, EnvSetHolds
<1> HIDE DEF u
<1>4. Holds(EnvSet(u, PWD, new, g), K, Words0)
  BY <1>1, <1>2, <1>3, EnvSetHolds
<1>5. QED
  BY <1>4 DEF UpdatePwd, u

LEMMA LeaveHolds ==
    ASSUME SoundTable(env), NEW K, Holds(env, K, Words0), NEW s, Leave(s)
    PROVE  Holds(env', K, Words0) /\ env'.vars = env.vars
<1>1. PICK A, V : env \in TableOf(A, V)
  BY DEF SoundTable, IsTable
<1>2. EnvFree(env) = 0
  BY <1>1 DEF EnvFree, SoundTable, Counted, TableOf
<1>3. env' \in TableOf(A, V) /\ env'.vars = env.vars
  BY <1>1, <1>2 DEF Leave, TableOf
<1>4. QED
  BY <1>3, SameHolds DEF IsTable

LEMMA InitType == Init => TypeInv
<1> SUFFICES ASSUME Init PROVE TypeInv
  OBVIOUS
<1>1. env \in Table
  BY EmptyHolds, TableHolds DEF Init
<1>2. PICK s \in Sessions : environ = s.environ /\ script = s.script
  BY DEF Init
<1>3. environ \in Seq(Var) /\ script \in Seq(Commands)
  BY <1>2, BuiltinsAssumption
<1>4. cmd \in Commands
  BY DEF Init, NoCommand, Commands
<1>5. 0 \in 0..(2^CharBits - 1)
  BY Statuses
<1>6. MaxFail \in Nat
  BY BuiltinsAssumption
<1>7. was \in [env : Table, cwd : Dirs] /\ cwd \in Dirs
  BY <1>1 DEF Init
<1>8. TypeOK
  BY <1>1, <1>3, <1>4, <1>5, <1>6, <1>7 DEF Init, TypeOK
<1>9. QED
  BY <1>8, InitInv DEF TypeInv

\* The word a loop is at.
LEMMA WordType ==
    ASSUME TypeOK, NEW name, AtWord(name)
    PROVE  cmd.args[i] \in Texts
<1>1. cmd.args \in Seq(Texts) /\ i \in Nat \ {0} /\ i <= Len(cmd.args)
  BY DEF TypeOK, Commands, AtWord
<1> DEFINE a == cmd.args
<1>2. a \in Seq(Texts) /\ i \in 1..Len(a)
  BY <1>1
<1> HIDE DEF a
<1>3. a[i] \in Texts
  BY <1>2
<1>4. QED
  BY <1>3 DEF a

LEMMA FailType ==
    ASSUME TypeOK, NEW fail, Fail(fail)
    PROVE  fails' \in 0..MaxFail
BY BuiltinsAssumption DEF TypeOK, Fail

LEMMA NextType == TypeInv /\ [Next]_vars => TypeInv'
<1> SUFFICES ASSUME TypeInv, [Next]_vars PROVE TypeOK'
  BY NextInv DEF TypeInv
<1>0. TypeOK /\ TableInv
  BY DEF TypeInv
<1>h. Holds(env, Texts, Words0)
  BY <1>0, HoldsTable DEF TypeOK
<1>t. \A t : Holds(t, Texts, Words0) => t \in Table
  BY TableHolds DEF Words0
<1>1. CASE Inherit
  <2>1. SoundTable(env) /\ i <= Len(environ) /\ i \in Nat \ {0} /\ environ \in Seq(Var)
    BY <1>0, <1>1, InvSound DEF Inherit, TypeOK
  <2>2. PICK fail \in Failures : /\ Fail(fail)
                                 /\ env' = InitOne(env, environ[i], fail)
                                 /\ pc' \in {"failed", pc}
    BY <1>1 DEF Inherit
  <2>3. environ[i] \in Var
    BY <2>1
  <2>4. environ[i].key \in Texts /\ environ[i].val \in Words0
    BY <2>3 DEF Var, Words0
  <2>5. Holds(env', Texts, Words0)
    BY <1>h, <2>1, <2>2, <2>4, InitOneHolds
  <2>6. env' \in Table /\ fails' \in 0..MaxFail
    BY <1>0, <1>t, <2>2, <2>5, FailType
  <2>7. QED
    BY <1>0, <1>1, <2>2, <2>6 DEF TypeOK, Inherit
<1>2. CASE Ready
  BY <1>0, <1>2 DEF Ready, TypeOK
<1>3. CASE Begin
  <2>1. script \in Seq(Commands) /\ script # <<>> /\ script' = Tail(script) /\ cmd' = Head(script)
    BY <1>0, <1>3 DEF Begin, TypeOK
  <2> HIDE DEF Commands
  <2>2. script' \in Seq(Commands) /\ cmd' \in Commands
    BY <2>1
  <2>3. was' \in [env : Table, cwd : Dirs]
    BY <1>0, <1>3 DEF Begin, TypeOK
  <2>4. QED
    BY <1>0, <1>3, <2>2, <2>3 DEF Begin, TypeOK
<1>4. CASE WordsDone
  <2>1. ret \in 0..(2^CharBits - 1)
    BY <1>0, Statuses DEF TypeOK
  <2>2. QED
    BY <1>0, <1>4, <2>1 DEF WordsDone, Return, TypeOK
<1>5. CASE ExportWord
  <2>1. SoundTable(env) /\ cmd.args[i] \in Texts
    BY <1>0, <1>5, InvSound, WordType DEF ExportWord, AtWord, Running
  <2>2. CASE ValidIdent(cmd.args[i])
    <3>1. PICK fail \in Failures \cup {"word", "join"} :
              Fail(fail) /\ env' = Exported(env, cmd.args[i], fail)
      BY <1>5, <2>2 DEF ExportWord
    <3>2. Holds(env', Texts, Words0)
      BY <1>h, <2>1, <3>1, ExportedHolds, KeyIs
    <3>3. env' \in Table /\ fails' \in 0..MaxFail /\ ret' = ret
      BY <1>0, <1>5, <1>t, <2>2, <3>1, <3>2, FailType DEF ExportWord
    <3>4. QED
      BY <1>0, <1>5, <3>3 DEF ExportWord, TypeOK
  <2>3. CASE ~ValidIdent(cmd.args[i])
    BY <1>0, <1>5, <2>3 DEF ExportWord, TypeOK
  <2>4. QED
    BY <2>2, <2>3
<1>6. CASE UnsetWord
  <2>1. SoundTable(env)
    BY <1>0, <1>6, InvSound DEF UnsetWord, AtWord, Running
  <2>2. Holds(env', Texts, Words0)
    BY <1>6, <1>h, <2>1, EnvUnsetHolds DEF UnsetWord
  <2>3. QED
    BY <1>0, <1>6, <1>t, <2>2 DEF UnsetWord, TypeOK
<1>7. CASE UnsetNothing
  BY <1>0, <1>7, Statuses DEF UnsetNothing, Return, TypeOK
<1>8. CASE ExportPrint
  <2>1. fails' \in 0..MaxFail /\ exit_code' \in 0..(2^CharBits - 1) /\ pc' = "idle"
    BY <1>0, <1>8, Statuses, FailType DEF ExportPrint, Return
  <2>2. QED
    BY <1>0, <1>8, <2>1 DEF ExportPrint, TypeOK
<1>9. CASE EnvPrint
  BY <1>0, <1>9, Statuses DEF EnvPrint, Return, TypeOK
<1>10. CASE CdRefused
  BY <1>0, <1>10, Statuses DEF CdRefused, Return, TypeOK
<1>11. CASE CdUnknown
  BY <1>0, <1>11, Statuses DEF CdUnknown, Chdir, Return, TypeOK
<1>12. CASE CdMoves
  <2>1. SoundTable(env) /\ cwd' \in Dirs /\ cwd \in Dirs
    BY <1>0, <1>12, InvSound DEF CdMoves, Chdir, Running, TypeOK
  <2>2. PICK old \in {cwd, <<>>}, f, g \in Failures :
            /\ fails + Cardinality({h \in {1, 2} : <<f, g>>[h] # "none"}) <= MaxFail
            /\ fails' = fails + Cardinality({h \in {1, 2} : <<f, g>>[h] # "none"})
            /\ env' = UpdatePwd(env, old, cwd', f, g)
    BY <1>12, Zenon DEF CdMoves, Getcwd
  <2>3. old \in Texts /\ cwd' \in Texts
    <3>1. cwd \in Texts /\ cwd' \in Texts
      BY <2>1, BuiltinsAssumption
    <3>2. <<>> \in Texts
      BY DEF Texts
    <3>3. QED
      BY <2>2, <3>1, <3>2
  <2>4. PWD \in Texts /\ OLDPWD \in Texts
    BY DEF PWD, OLDPWD, Texts, Chars, Letters
  <2>5. Holds(env', Texts, Words0)
    BY <1>h, <2>1, <2>2, <2>3, <2>4, UpdatePwdHolds
  <2>6. fails' \in 0..MaxFail
    <3> DEFINE n == Cardinality({h \in {1, 2} : <<f, g>>[h] # "none"})
    <3>1. n \in Nat
      BY OneAndTwo, FS_Subset, FS_CardinalityType
    <3>2. fails \in Nat /\ fails + n <= MaxFail /\ fails' = fails + n /\ MaxFail \in Nat
      BY <1>0, <2>2, BuiltinsAssumption DEF TypeOK
    <3> HIDE DEF n
    <3>3. QED
      BY <3>1, <3>2
  <2>7. env' \in Table /\ cwd' \in Dirs
    BY <1>12, <1>t, <2>1, <2>5 DEF CdMoves
  <2>8. QED
    BY <1>0, <1>12, <2>6, <2>7, Statuses DEF CdMoves, Return, TypeOK
<1>13. CASE Exit
  <2>1. SoundTable(env)
    BY <1>0, <1>13, InvSound DEF Exit, Running
  <2>2. cmd.args # <<>> => Atol(cmd.args[1]).n \in Int
    <3> DEFINE a == cmd.args
    <3>1. a \in Seq(Texts)
      BY <1>0 DEF TypeOK, Commands
    <3> HIDE DEF a
    <3>2. a # <<>> => a[1] \in Texts
      BY <3>1
    <3>3. LongRange \subseteq Int
      BY Widths DEF LongRange
    <3>4. a # <<>> => Atol(a[1]).n \in Int
      BY <3>2, <3>3, AtolRight
    <3>5. QED
      BY <3>4 DEF a
  <2>3. \/ \E s \in 0..(2^CharBits - 1) : Leave(s)
        \/ Return(1) /\ env' = env
    <3>1. exit_code \in 0..(2^CharBits - 1)
      BY <1>0 DEF TypeOK
    <3>2. cmd.args # <<>> => UnsignedChar(Atol(cmd.args[1]).n) \in 0..(2^CharBits - 1)
      BY <2>2, CharType
    <3>3. \/ Leave(exit_code) \/ Leave(2)
          \/ cmd.args # <<>> /\ Leave(UnsignedChar(Atol(cmd.args[1]).n))
          \/ Return(1) /\ env' = env
      <4>1. Len(cmd.args) = 1 => cmd.args # <<>>
        <5>1. Len(<<>>) = 0
          OBVIOUS
        <5>2. QED
          BY <5>1
      <4>2. \/ Leave(exit_code) \/ Leave(2)
            \/ Len(cmd.args) = 1 /\ Leave(UnsignedChar(Atol(cmd.args[1]).n))
            \/ Return(1) /\ env' = env
        BY <1>13, Zenon DEF Exit
      <4>3. QED
        BY <4>1, <4>2, Zenon
    <3>4. QED
      BY <3>1, <3>2, <3>3, Statuses, Zenon
  <2>4. CASE \E s \in 0..(2^CharBits - 1) : Leave(s)
    <3>1. PICK s \in 0..(2^CharBits - 1) : Leave(s)
      BY <2>4
    <3>2. env' \in Table
      BY <1>h, <1>t, <2>1, <3>1, LeaveHolds
    <3>3. pc' = "exited" /\ exit_code' = s
      BY <3>1 DEF Leave
    <3>4. QED
      BY <1>0, <1>13, <3>2, <3>3 DEF Exit, TypeOK
  <2>5. CASE Return(1) /\ env' = env
    BY <1>0, <1>13, <2>5, Statuses DEF Exit, Return, TypeOK
  <2>6. QED
    BY <2>3, <2>4, <2>5
<1>14. CASE EndOfInput
  <2>1. SoundTable(env)
    BY <1>0, <1>14, InvSound DEF EndOfInput
  <2>2. env' \in Table
    BY <1>14, <1>h, <1>t, <2>1, LeaveHolds DEF EndOfInput
  <2>3. QED
    BY <1>0, <1>14, <2>2 DEF EndOfInput, Leave, TypeOK
<1>15. CASE UNCHANGED vars
  BY <1>0, <1>15 DEF vars, TypeOK
<1>16. QED
  BY <1>1, <1>2, <1>3, <1>4, <1>5, <1>6, <1>7, <1>8, <1>9, <1>10, <1>11, <1>12, <1>13,
     <1>14, <1>15, Zenon DEF Next, Ended

\* The builtins' variables keep their types: among other things no status ever
\* leaves the width of a character (bi_exit and the returns of the others).
THEOREM BuiltinsTypes == Spec => []TypeOK
<1>1. TypeInv => TypeOK
  BY DEF TypeInv
<1>2. QED
  BY <1>1, InitType, NextType, PTL DEF Spec
---------------------------------------------------------------------------
(* exit                                                                    *)

\* What bi_exit has made of its words, when the shell goes on and when not.
ExitRead ==
    /\ pc = "init" => cmd.name = "env"
    /\ cmd.name = "exit" /\ cmd.args # <<>> =>
           /\ pc = "idle" => /\ Atol(cmd.args[1]).ok /\ Len(cmd.args) > 1
                             /\ exit_code = 1
           /\ pc = "exited" =>
                  exit_code = IF ~Atol(cmd.args[1]).ok THEN 2
                              ELSE IF Len(cmd.args) > 1 THEN 1
                              ELSE UnsignedChar(Atol(cmd.args[1]).n)

ExitInv == TypeInv /\ ExitRead

LEMMA ExitReadRight ==
    ASSUME ExitInv
    PROVE  ExitCodeRight
<1>1. SUFFICES ASSUME pc = "exited", cmd.name = "exit", cmd.args # <<>>
               PROVE  exit_code = IF Longs(cmd.args[1]) = {} THEN 2
                                  ELSE IF Len(cmd.args) > 1 THEN 1
                                  ELSE (CHOOSE n \in Longs(cmd.args[1]) : TRUE) % 2^CharBits
  BY Zenon DEF ExitCodeRight, Longs, LongRange
<1> DEFINE a == cmd.args
           w == a[1]
<1>2. w \in Texts
  <2>1. a \in Seq(Texts) /\ a # <<>>
    BY <1>1 DEF ExitInv, TypeInv, TypeOK, Commands
  <2> HIDE DEF a
  <2>2. QED
    BY <2>1
<1>3. exit_code = IF ~Atol(w).ok THEN 2
                  ELSE IF Len(a) > 1 THEN 1 ELSE Atol(w).n % 2^CharBits
  BY <1>1, Zenon DEF ExitInv, ExitRead, UnsignedChar
<1> HIDE DEF w
<1>4. Longs(w) = IF Atol(w).ok THEN {Atol(w).n} ELSE {}
  BY <1>2, AtolRight
<1>5. CASE Atol(w).ok
  <2>1. Longs(w) # {} /\ (CHOOSE n \in Longs(w) : TRUE) = Atol(w).n
    BY <1>4, <1>5
  <2>2. QED
    BY <1>3, <1>5, <2>1, Zenon DEF w
<1>6. CASE ~Atol(w).ok
  BY <1>3, <1>4, <1>6, Zenon DEF w
<1>7. QED
  BY <1>5, <1>6

LEMMA InitExit == Init => ExitInv
BY InitType DEF Init, NoCommand, ExitInv, ExitRead

\* The end of another builtin.
LEMMA OtherEnds ==
    ASSUME cmd.name # "exit", cmd' = cmd, pc' # "init"
    PROVE  ExitRead'
BY DEF ExitRead

LEMMA NextExit == ExitInv /\ [Next]_vars => ExitInv'
<1> SUFFICES ASSUME ExitInv, [Next]_vars PROVE ExitRead'
  BY NextType DEF ExitInv
<1>0. TypeOK /\ ExitRead
  BY DEF ExitInv, TypeInv
<1>1. CASE Inherit
  <2>1. pc' \in {"init", "failed"} /\ pc = "init" /\ cmd' = cmd
    BY <1>1 DEF Inherit
  <2>2. QED
    BY <1>0, <2>1 DEF ExitRead
<1>2. CASE Ready
  BY <1>0, <1>2 DEF Ready, ExitRead
<1>3. CASE Begin
  BY <1>3 DEF Begin, ExitRead
<1>4. CASE WordsDone
  BY <1>4, OtherEnds DEF WordsDone, Return
<1>5. CASE ExportWord
  BY <1>5, OtherEnds DEF ExportWord, AtWord, Running
<1>6. CASE UnsetWord
  BY <1>6, OtherEnds DEF UnsetWord, AtWord, Running
<1>7. CASE UnsetNothing
  BY <1>7, OtherEnds DEF UnsetNothing, Running, Return
<1>8. CASE ExportPrint
  BY <1>8, OtherEnds DEF ExportPrint, Running, Return
<1>9. CASE EnvPrint
  BY <1>9, OtherEnds DEF EnvPrint, Running, Return
<1>10. CASE CdRefused
  BY <1>10, OtherEnds DEF CdRefused, Running, Return
<1>11. CASE CdUnknown
  BY <1>11, OtherEnds DEF CdUnknown, Chdir, Running, Return
<1>12. CASE CdMoves
  BY <1>12, OtherEnds DEF CdMoves, Chdir, Running, Return
<1>13. CASE Exit
  <2>1. cmd' = cmd /\ pc' # "init"
    <3>1. (\E s : Leave(s)) \/ pc' = "idle"
      BY <1>13, Zenon DEF Exit, Return
    <3>2. QED
      BY <1>13, <3>1 DEF Exit, Leave
  <2>2. SUFFICES ASSUME cmd.args # <<>>
                 PROVE  /\ pc' = "idle" => /\ Atol(cmd.args[1]).ok /\ Len(cmd.args) > 1
                                           /\ exit_code' = 1
                        /\ pc' = "exited" =>
                               exit_code' = IF ~Atol(cmd.args[1]).ok THEN 2
                                            ELSE IF Len(cmd.args) > 1 THEN 1
                                            ELSE UnsignedChar(Atol(cmd.args[1]).n)
    BY <2>1, Zenon DEF ExitRead
  <2>3. Len(cmd.args) \in Nat /\ Len(cmd.args) >= 1
    <3> DEFINE a == cmd.args
    <3>1. a \in Seq(Texts) /\ a # <<>>
      BY <1>0, <2>2 DEF TypeOK, Commands
    <3> HIDE DEF a
    <3>2. Len(a) \in Nat /\ Len(a) >= 1
      BY <3>1
    <3>3. QED
      BY <3>2 DEF a
  <2> DEFINE ok == Atol(cmd.args[1]).ok
             code == UnsignedChar(Atol(cmd.args[1]).n)
             n == Len(cmd.args)
  <2>4. \/ ~ok /\ pc' = "exited" /\ exit_code' = 2
        \/ ok /\ n = 1 /\ pc' = "exited" /\ exit_code' = code
        \/ ok /\ n # 1 /\ pc' = "idle" /\ exit_code' = 1
    BY <1>13, <2>2, Zenon DEF Exit, Leave, Return
  <2> HIDE DEF ok, code, n
  <2>5. /\ pc' = "idle" => ok /\ n > 1 /\ exit_code' = 1
        /\ pc' = "exited" => exit_code' = IF ~ok THEN 2 ELSE IF n > 1 THEN 1 ELSE code
    <3>1. n \in Nat /\ n >= 1
      BY <2>3 DEF n
    <3>2. QED
      BY <2>4, <3>1
  <2>6. QED
    BY <2>5, Zenon DEF ok, code, n
<1>14. CASE EndOfInput
  <2>1. pc = "idle" /\ pc' = "exited" /\ exit_code' = exit_code /\ cmd' = cmd
    BY <1>14 DEF EndOfInput, Leave
  <2>2. QED
    BY <1>0, <2>1 DEF ExitRead
<1>15. CASE UNCHANGED vars
  BY <1>0, <1>15 DEF vars, ExitRead
<1>16. QED
  BY <1>1, <1>2, <1>3, <1>4, <1>5, <1>6, <1>7, <1>8, <1>9, <1>10, <1>11, <1>12, <1>13,
     <1>14, <1>15, Zenon DEF Next, Ended

\* exit ends the process with the number its first word spells, cut to a
\* character, for every word, every number of digits and every width of a long;
\* with 2 for a word that spells none or one too large, and it does not exit
\* with more words (bi_exit, ft_atol, parse_digits).
THEOREM ExitCodeAlwaysRight == Spec => []ExitCodeRight
<1>1. ExitInv => ExitCodeRight
  BY ExitReadRight
<1>2. QED
  BY <1>1, InitExit, NextExit, PTL DEF Spec
---------------------------------------------------------------------------
(* The table implements the map                                            *)

\* The map the table stands for.
Mapped == [n \in Names |-> ValuesOf(n)]

LEMMA MappedIs == \A n : ValuesOf(n) = Values(env, n)
BY DEF ValuesOf, Values, Vals, Of

LEMMA MappedIsNext == \A n : ValuesOf(n)' = Values(env', n)
BY DEF ValuesOf, Values, Vals, Of

LEMMA MappedType == Mapped = [n \in Names |-> Values(env, n)] /\ Mapped' = [n \in Names |-> Values(env', n)]
<1>1. \A n \in Names : ValuesOf(n) = Values(env, n) /\ ValuesOf(n)' = Values(env', n)
  BY MappedIs, MappedIsNext
<1>2. QED
  BY <1>1 DEF Mapped

\* Every name but these keeps its values.
LEMMA OnlyThese ==
    ASSUME NEW S, \A n : n \notin S => Values(env', n) = Values(env, n)
    PROVE  M!Only(S)
<1>1. \A n \in Names : Mapped[n] = Values(env, n) /\ Mapped'[n] = Values(env', n)
  BY MappedType
<1>2. DOMAIN Mapped' = Names
  BY MappedType
<1>3. M!Only(S) <=> /\ DOMAIN Mapped' = Names
                    /\ \A n \in Names \ S : Mapped'[n] = Mapped[n]
  BY DEF M!Only, Mapped
<1>4. QED
  BY <1>1, <1>2, <1>3

LEMMA SameMapped ==
    ASSUME \A n \in Names : Values(env', n) = Values(env, n)
    PROVE  Mapped' = Mapped
BY MappedType

\* The first value of a name is another one.
LEMMA Topped ==
    ASSUME NEW n \in Names, Values(env', n) # <<>>,
           Tail(Values(env', n)) = Rest(Values(env, n))
    PROVE  M!NewTop(n)
<1>1. Mapped[n] = Values(env, n) /\ Mapped'[n] = Values(env', n)
  BY MappedType
<1>2. M!NewTop(n) <=> Mapped'[n] # <<>> /\ Tail(Mapped'[n]) = Rest(Mapped[n])
  BY DEF M!NewTop, M!Below, Rest, Mapped
<1>3. QED
  BY <1>1, <1>2

LEMMA SetMaps ==
    ASSUME NEW key, \A n : n # key => Values(env', n) = Values(env, n),
           \/ Values(env', key) = Values(env, key)
           \/ Values(env', key) # <<>> /\ Tail(Values(env', key)) = Rest(Values(env, key))
    PROVE  M!Set \/ Mapped' = Mapped
<1>1. CASE key \in Names /\ Values(env', key) # Values(env, key)
  <2>1. M!NewTop(key)
    BY <1>1, Topped
  <2>2. M!Only({key})
    BY OnlyThese
  <2>3. M!Set
    BY <1>1, <2>1, <2>2 DEF M!Set
  <2>4. QED
    BY <2>3
<1>2. CASE key \notin Names \/ Values(env', key) = Values(env, key)
  <2>1. \A n \in Names : Values(env', n) = Values(env, n)
    BY <1>2
  <2>2. QED
    BY <2>1, SameMapped
<1>3. QED
  BY <1>1, <1>2

LEMMA InheritMaps ==
    ASSUME NEW key, NEW val \in Words0, \A n : Values(env, n) \in Seq(Words0),
           \A n : Values(env', n) = IF n = key THEN Append(Values(env, n), val) ELSE Values(env, n)
    PROVE  M!Inherit \/ Mapped' = Mapped
<1>1. CASE key \in Names
  <2>1. M!Only({key})
    BY OnlyThese
  <2> DEFINE a == Values(env, key)
             b == Values(env', key)
  <2>2. a \in Seq(Words0) /\ b = Append(a, val)
    OBVIOUS
  <2> HIDE DEF a, b
  <2>3. Len(b) = Len(a) + 1 /\ SubSeq(b, 1, Len(a)) = a
    <3>1. Len(b) = Len(a) + 1
      BY <2>2
    <3>2. SubSeq(b, 1, Len(a)) = a
      BY <2>2
    <3>3. QED
      BY <3>1, <3>2
  <2>4. Mapped[key] = a /\ Mapped'[key] = b
    BY <1>1, MappedType DEF a, b
  <2>5. M!Inherit
    <3>1. M!Inherit <=> \E n \in Names : /\ M!Only({n})
                                         /\ Len(Mapped'[n]) = Len(Mapped[n]) + 1
                                         /\ SubSeq(Mapped'[n], 1, Len(Mapped[n])) = Mapped[n]
      BY Zenon DEF M!Inherit, Mapped
    <3>2. QED
      BY <1>1, <2>1, <2>3, <2>4, <3>1
  <2>6. QED
    BY <2>5
<1>2. CASE key \notin Names
  <2>1. \A n \in Names : Values(env', n) = Values(env, n)
    BY <1>2
  <2>2. QED
    BY <2>1, SameMapped
<1>3. QED
  BY <1>1, <1>2

LEMMA UnsetMaps ==
    ASSUME NEW key, \A n : n # key => Values(env', n) = Values(env, n),
           Values(env, key) # <<>>, Values(env', key) = Tail(Values(env, key))
    PROVE  M!Unset \/ Mapped' = Mapped
<1>1. CASE key \in Names
  <2>1. M!Only({key})
    BY OnlyThese
  <2>2. Mapped[key] = Values(env, key) /\ Mapped'[key] = Values(env', key)
    BY <1>1, MappedType
  <2>3. M!Unset <=> \E n \in Names : /\ M!Only({n})
                                     /\ Mapped[n] # <<>> /\ Mapped'[n] = Tail(Mapped[n])
    BY Zenon DEF M!Unset, Mapped
  <2>4. QED
    BY <1>1, <2>1, <2>2, <2>3
<1>2. CASE key \notin Names
  <2>1. \A n \in Names : Values(env', n) = Values(env, n)
    BY <1>2
  <2>2. QED
    BY <2>1, SameMapped
<1>3. QED
  BY <1>1, <1>2

MapStep == M!MapNext \/ Mapped' = Mapped

LEMMA CdMaps ==
    ASSUME TypeInv, CdMoves
    PROVE  MapStep
<1>1. SoundTable(env) /\ cwd' \in Dirs /\ cwd \in Dirs /\ Holds(env, Texts, Words0)
  BY InvSound, HoldsTable DEF TypeInv, CdMoves, Chdir, Running, TypeOK
<1>2. PICK old \in {cwd, <<>>}, f, g \in Failures : env' = UpdatePwd(env, old, cwd', f, g)
  BY Zenon DEF CdMoves, Getcwd
<1>3. /\ old \in Words0 /\ cwd' \in Words0 /\ NULL \in Words0
      /\ PWD \in Texts /\ OLDPWD \in Texts
  <2>1. cwd \in Texts /\ cwd' \in Texts
    BY <1>1, BuiltinsAssumption
  <2>2. <<>> \in Texts
    BY DEF Texts
  <2>3. PWD \in Texts /\ OLDPWD \in Texts
    BY DEF PWD, OLDPWD, Texts, Chars, Letters
  <2>4. QED
    BY <1>2, <2>1, <2>2, <2>3 DEF Words0
<1>4. PWD # OLDPWD
  BY DEF PWD, OLDPWD
<1> DEFINE u == EnvSet(env, OLDPWD, old, f)
           w == EnvSet(u, PWD, cwd', g)
<1>5. env' = w
  BY <1>2 DEF UpdatePwd
<1>6. /\ \A n : n # OLDPWD => Values(u, n) = Values(env, n)
      /\ \/ Values(u, OLDPWD) = Values(env, OLDPWD)
         \/ /\ Values(u, OLDPWD) # <<>>
            /\ Tail(Values(u, OLDPWD)) = Rest(Values(env, OLDPWD))
  BY <1>1, <1>3, ValuesSet
<1>7. SoundTable(u) /\ Holds(u, Texts, Words0)
  BY <1>1, <1>3, EnvSetSound, EnvSetHolds
<1> HIDE DEF u
<1>8. /\ \A n : n # PWD => Values(w, n) = Values(u, n)
      /\ \/ Values(w, PWD) = Values(u, PWD)
         \/ Values(w, PWD) # <<>> /\ Tail(Values(w, PWD)) = Rest(Values(u, PWD))
  BY <1>3, <1>7, ValuesSet
<1> HIDE DEF w
<1>9. \A n : n \notin {PWD, OLDPWD} => Values(env', n) = Values(env, n)
  BY <1>5, <1>6, <1>8
<1>10. M!Only({PWD, OLDPWD})
  BY <1>9, OnlyThese
<1>11. \A n \in {PWD, OLDPWD} :
          \/ Values(env', n) = Values(env, n)
          \/ Values(env', n) # <<>> /\ Tail(Values(env', n)) = Rest(Values(env, n))
  BY <1>4, <1>5, <1>6, <1>8
<1>12. \A n \in Names \cap {PWD, OLDPWD} : Mapped'[n] = Mapped[n] \/ M!NewTop(n)
  <2>1. \A n \in Names : Mapped[n] = Values(env, n) /\ Mapped'[n] = Values(env', n)
    BY MappedType
  <2>2. QED
    BY <1>11, <2>1, Topped
<1>13. M!Move <=> /\ M!Only({PWD, OLDPWD})
                  /\ \A n \in Names \cap {PWD, OLDPWD} : Mapped'[n] = Mapped[n] \/ M!NewTop(n)
  BY Zenon DEF M!Move, Mapped
<1>14. QED
  BY <1>10, <1>12, <1>13 DEF MapStep, M!MapNext

LEMMA KeepMaps ==
    ASSUME env'.vars = env.vars
    PROVE  MapStep
BY ValuesOfVars, SameMapped DEF MapStep

LEMMA NextMaps == TypeInv /\ [Next]_vars => MapStep
<1> SUFFICES ASSUME TypeInv, [Next]_vars PROVE MapStep
  OBVIOUS
<1>0. TypeOK /\ TableInv /\ NULL \in Words0
  BY DEF TypeInv, Words0
<1>h. Holds(env, Texts, Words0)
  BY <1>0, HoldsTable DEF TypeOK
<1>1. CASE Inherit
  <2>1. SoundTable(env) /\ i <= Len(environ) /\ i \in Nat \ {0} /\ environ \in Seq(Var)
    BY <1>0, <1>1, InvSound DEF Inherit, TypeOK
  <2>2. PICK fail \in Failures : env' = InitOne(env, environ[i], fail)
    BY <1>1 DEF Inherit
  <2>3. environ[i] \in Var
    BY <2>1
  <2> DEFINE key == environ[i].key
             val == environ[i].val
  <2>4. key \in Texts /\ val \in Words0
    BY <2>3 DEF Var, Words0
  <2>5. env'.vars = env.vars \/ env' = Pushed(Grown(env), key, val)
    BY <2>1, <2>2, InitOneIs
  <2> HIDE DEF key, val
  <2>6. CASE env' = Pushed(Grown(env), key, val)
    <3>1. \A n : Values(env', n) = IF n = key THEN Append(Values(env, n), val)
                                   ELSE Values(env, n)
      BY <2>1, <2>6, ValuesPushed
    <3>2. \A n : Values(env, n) \in Seq(Words0)
      BY <1>h, ValuesType
    <3>3. M!Inherit \/ Mapped' = Mapped
      BY <2>4, <3>1, <3>2, InheritMaps
    <3>4. QED
      BY <3>3 DEF MapStep, M!MapNext
  <2>7. QED
    BY <2>5, <2>6, KeepMaps
<1>2. CASE ExportWord
  <2>1. SoundTable(env) /\ cmd.args[i] \in Texts
    BY <1>0, <1>2, InvSound, WordType DEF ExportWord, AtWord, Running
  <2>2. CASE env' = env
    BY <2>2, KeepMaps
  <2>3. CASE env' # env
    <3>1. PICK fail : env' = Exported(env, cmd.args[i], fail)
      BY <1>2, <2>3 DEF ExportWord
    <3>2. PICK key : \E val \in Words0 : env' = EnvSet(env, key, val, fail)
      BY <1>0, <1>h, <2>1, <2>3, <3>1, ExportedSets
    <3>3. PICK val \in Words0 : env' = EnvSet(env, key, val, fail)
      BY <3>2
    <3>4. /\ \A n : n # key => Values(env', n) = Values(env, n)
          /\ \/ Values(env', key) = Values(env, key)
             \/ /\ Values(env', key) # <<>>
                /\ Tail(Values(env', key)) = Rest(Values(env, key))
      BY <1>0, <1>h, <2>1, <3>3, ValuesSet
    <3>5. M!Set \/ Mapped' = Mapped
      BY <3>4, SetMaps
    <3>6. QED
      BY <3>5 DEF MapStep, M!MapNext
  <2>4. QED
    BY <2>2, <2>3
<1>3. CASE UnsetWord
  <2>1. SoundTable(env)
    BY <1>0, <1>3, InvSound DEF UnsetWord, AtWord, Running
  <2> DEFINE key == cmd.args[i]
  <2>2. env' = env \/ env' = EnvUnset(env, key)
    BY <1>3 DEF UnsetWord
  <2> HIDE DEF key
  <2>3. CASE env' = EnvUnset(env, key) /\ FindKey(env, key) # 0
    <3>1. /\ \A n : n # key => Values(env', n) = Values(env, n)
          /\ Values(env, key) # <<>> /\ Values(env', key) = Tail(Values(env, key))
      BY <1>h, <2>1, <2>3, ValuesUnset
    <3>2. M!Unset \/ Mapped' = Mapped
      BY <3>1, UnsetMaps
    <3>3. QED
      BY <3>2 DEF MapStep, M!MapNext
  <2>4. CASE env' = env \/ FindKey(env, key) = 0
    <3>1. env' = env
      BY <2>2, <2>4 DEF EnvUnset
    <3>2. QED
      BY <3>1, KeepMaps
  <2>5. QED
    BY <2>2, <2>3, <2>4
<1>4. CASE CdMoves
  BY <1>4, CdMaps
<1>5. CASE Exit \/ EndOfInput
  <2>1. SoundTable(env)
    BY <1>0, <1>5, InvSound DEF Exit, EndOfInput, Running
  <2>2. (\E s : Leave(s)) \/ env' = env
    BY <1>5, Zenon DEF Exit, EndOfInput
  <2>3. env'.vars = env.vars
    BY <1>h, <2>1, <2>2, LeaveHolds
  <2>4. QED
    BY <2>3, KeepMaps
<1>6. CASE Ready \/ Begin \/ WordsDone \/ UnsetNothing \/ ExportPrint \/ EnvPrint
           \/ CdRefused \/ CdUnknown \/ UNCHANGED vars
  <2>1. env' = env
    BY <1>6 DEF Ready, Begin, WordsDone, UnsetNothing, ExportPrint, EnvPrint, CdRefused,
                CdUnknown, vars
  <2>2. QED
    BY <2>1, KeepMaps
<1>7. QED
  BY <1>1, <1>2, <1>3, <1>4, <1>5, <1>6, Zenon DEF Next, Ended

LEMMA InitMaps == Init => M!MapInit
<1> SUFFICES ASSUME Init PROVE M!MapInit
  OBVIOUS
<1>1. env = EmptyTable
  BY DEF Init
<1>2. \A n \in Names : ValuesOf(n) = <<>>
  BY <1>1, MappedIs, ValuesEmpty
<1>3. QED
  BY <1>2 DEF M!MapInit

\* Every step of the shell's table is a step of the map of names to values, or
\* leaves it as it is: whatever grows, fails or moves in the table, export, unset
\* and cd touch their own names and no other, and only the value that is seen.
THEOREM TableImplementsMap == Spec => ImplementsEnvMap
<1>1. TypeInv /\ [Next]_vars => [M!MapNext]_Mapped
  BY NextMaps DEF MapStep
<1>2. QED
  BY <1>1, InitType, NextType, InitMaps, PTL DEF Spec, ImplementsEnvMap, M!MapSpec, Mapped
---------------------------------------------------------------------------
(* The names of the table                                                  *)

\* The names a table may have.
GoodNames == {k \in Texts : Identifier(k)} \cup {environ[p].key : p \in Inherited}

SeenInv ==
    /\ TypeInv
    /\ Holds(env, GoodNames, Words0)
    /\ pc = "init" => Holds(env, Texts, Texts)
    /\ fails = 0 => NullsOnce(env)

LEMMA ValuedNulls ==
    ASSUME NEW t, Holds(t, Texts, Texts)
    PROVE  NullsOnce(t)
<1>1. DOMAIN t.vars = 1..Len(t.vars)
  BY TableShape DEF Holds
<1>2. QED
  BY <1>1, EnvTableAssumption DEF Holds, NullsOnce

LEMMA InitSeen == Init => SeenInv
<1> SUFFICES ASSUME Init PROVE SeenInv
  OBVIOUS
<1>1. env = EmptyTable /\ TypeInv
  BY InitType DEF Init
<1>2. Holds(env, GoodNames, Words0) /\ Holds(env, Texts, Texts)
  BY <1>1, EmptyHolds
<1>3. QED
  BY <1>1, <1>2, ValuedNulls DEF SeenInv

\* A step after env_init.
LEMMA SeenStep ==
    ASSUME SeenInv, [Next]_vars, environ' = environ, pc' # "init",
           Holds(env', GoodNames, Words0), fails' = 0 => fails = 0 /\ NullsOnce(env')
    PROVE  SeenInv'
<1>1. GoodNames' = GoodNames
  BY DEF GoodNames, Inherited
<1>2. TypeInv'
  BY NextType DEF SeenInv
<1>3. QED
  BY <1>1, <1>2 DEF SeenInv

\* The same when the table's variables stay.
LEMMA SeenKept ==
    ASSUME SeenInv, [Next]_vars, environ' = environ, pc' # "init", env' = env,
           fails' = 0 => fails = 0
    PROVE  SeenInv'
BY SeenStep DEF SeenInv

LEMMA NoFail ==
    ASSUME fails \in Nat, NEW fail, Fail(fail), fails' = 0
    PROVE  fails = 0 /\ fail = "none"
BY DEF Fail

LEMMA InheritSeen ==
    ASSUME SeenInv, Inherit
    PROVE  SeenInv'
<1>0. TypeOK /\ TableInv /\ TypeInv'
  BY NextType DEF SeenInv, TypeInv, Next
<1>1. /\ SoundTable(env) /\ i <= Len(environ) /\ i \in Nat \ {0} /\ environ \in Seq(Var)
      /\ pc = "init" /\ environ' = environ
  BY <1>0, InvSound DEF Inherit, TypeOK
<1>2. PICK fail \in Failures : env' = InitOne(env, environ[i], fail)
  BY DEF Inherit
<1>3. environ[i] \in Var
  BY <1>1
<1> DEFINE entry == environ[i]
<1>4. entry.key \in Texts /\ entry.val \in Texts \cup {NULL}
  BY <1>3 DEF Var
<1>5. entry.val # NULL => entry.key \in GoodNames
  BY <1>1 DEF Inherited, GoodNames
<1> HIDE DEF entry
<1>6. Holds(env', GoodNames, Words0)
  BY <1>1, <1>2, <1>4, <1>5, InitOneHolds DEF SeenInv, Words0, entry
<1>7. Holds(env', Texts, Texts)
  BY <1>1, <1>2, <1>4, InitOneHolds DEF SeenInv, entry
<1>8. GoodNames' = GoodNames
  BY <1>1 DEF GoodNames, Inherited
<1>9. QED
  BY <1>0, <1>6, <1>7, <1>8, ValuedNulls DEF SeenInv

LEMMA ExportSeen ==
    ASSUME SeenInv, ExportWord
    PROVE  SeenInv'
<1>0. TypeOK /\ TableInv /\ fails \in Nat /\ [Next]_vars
  BY BuiltinsAssumption DEF SeenInv, TypeInv, TypeOK, ExportWord, Next
<1>1. /\ SoundTable(env) /\ cmd.args[i] \in Texts /\ Holds(env, GoodNames, Words0)
      /\ pc' # "init" /\ environ' = environ
  BY <1>0, InvSound, WordType DEF ExportWord, AtWord, Running, SeenInv
<1>2. CASE ValidIdent(cmd.args[i])
  <2> DEFINE word == cmd.args[i]
  <2>1. PICK fail \in Failures \cup {"word", "join"} :
            Fail(fail) /\ env' = Exported(env, word, fail)
    BY <1>2 DEF ExportWord
  <2>2. /\ word \in Texts
        /\ HasValue(word) => KeyOf(word) \in GoodNames
        /\ ~HasValue(word) => word \in GoodNames
    BY <1>1, <1>2, ValidKey, KeyIs DEF GoodNames
  <2> HIDE DEF word
  <2>3. Holds(env', GoodNames, Words0)
    BY <1>1, <2>1, <2>2, ExportedHolds
  <2>4. fails' = 0 => fails = 0 /\ NullsOnce(env')
    <3>1. SUFFICES ASSUME fails' = 0 PROVE fails = 0 /\ NullsOnce(env')
      OBVIOUS
    <3>2. fails = 0 /\ fail = "none" /\ NullsOnce(env)
      BY <1>0, <2>1, <3>1, NoFail DEF SeenInv
    <3>3. env' = env \/ \E key, val : env' = EnvSet(env, key, val, fail)
      BY <1>1, <2>1, <2>2, ExportedSets
    <3>4. QED
      BY <1>1, <3>2, <3>3, EnvSetNulls
  <2>5. QED
    BY <1>0, <1>1, <2>3, <2>4, SeenStep
<1>3. CASE ~ValidIdent(cmd.args[i])
  BY <1>0, <1>1, <1>3, SeenKept DEF ExportWord
<1>4. QED
  BY <1>2, <1>3

LEMMA CdSeen ==
    ASSUME SeenInv, CdMoves
    PROVE  SeenInv'
<1>0. TypeOK /\ TableInv /\ fails \in Nat /\ [Next]_vars
  BY BuiltinsAssumption DEF SeenInv, TypeInv, TypeOK, Next
<1>1. /\ SoundTable(env) /\ cwd' \in Dirs /\ cwd \in Dirs /\ Holds(env, GoodNames, Words0)
      /\ pc' # "init" /\ environ' = environ
  BY <1>0, InvSound DEF CdMoves, Chdir, Running, Return, TypeOK, SeenInv
<1>2. PICK old \in {cwd, <<>>}, f, g \in Failures :
          /\ fails' = fails + Cardinality({h \in {1, 2} : <<f, g>>[h] # "none"})
          /\ env' = UpdatePwd(env, old, cwd', f, g)
  BY Zenon DEF CdMoves, Getcwd
<1>3. old \in Texts /\ cwd' \in Texts
  <2>1. cwd \in Texts /\ cwd' \in Texts
    BY <1>1, BuiltinsAssumption
  <2>2. <<>> \in Texts
    BY DEF Texts
  <2>3. QED
    BY <1>2, <2>1, <2>2
<1>4. PWD \in GoodNames /\ OLDPWD \in GoodNames
  <2>1. PWD \in Texts /\ OLDPWD \in Texts
    BY DEF PWD, OLDPWD, Texts, Chars, Letters
  <2>2. Identifier(PWD) /\ Identifier(OLDPWD)
    BY DEF Identifier, PWD, OLDPWD, Letters
  <2>3. QED
    BY <2>1, <2>2 DEF GoodNames
<1>5. Holds(env', GoodNames, Words0)
  BY <1>1, <1>2, <1>3, <1>4, UpdatePwdHolds
<1>6. fails' = 0 => fails = 0 /\ NullsOnce(env')
  <2>1. SUFFICES ASSUME fails' = 0 PROVE fails = 0 /\ NullsOnce(env')
    OBVIOUS
  <2>2. fails = 0 /\ f = "none" /\ g = "none"
    BY <1>0, <1>2, <2>1, NoFailure
  <2> DEFINE u == EnvSet(env, OLDPWD, old, f)
  <2>3. NullsOnce(u) /\ SoundTable(u)
    BY <1>1, <2>2, EnvSetNulls, EnvSetSound DEF SeenInv
  <2> HIDE DEF u
  <2>4. NullsOnce(EnvSet(u, PWD, cwd', g))
    BY <2>2, <2>3, EnvSetNulls
  <2>5. QED
    BY <1>2, <2>2, <2>4 DEF UpdatePwd, u
<1>7. QED
  BY <1>0, <1>1, <1>5, <1>6, SeenStep

LEMMA NextSeen == SeenInv /\ [Next]_vars => SeenInv'
<1> SUFFICES ASSUME SeenInv, [Next]_vars PROVE SeenInv'
  OBVIOUS
<1>0. TypeOK /\ TableInv /\ fails \in Nat
  BY BuiltinsAssumption DEF SeenInv, TypeInv, TypeOK
<1>1. CASE Inherit
  BY <1>1, InheritSeen
<1>2. CASE ExportWord
  BY <1>2, ExportSeen
<1>3. CASE UnsetWord
  <2>1. /\ SoundTable(env) /\ Holds(env, GoodNames, Words0)
        /\ pc' # "init" /\ environ' = environ /\ fails' = fails
    BY <1>0, <1>3, InvSound DEF UnsetWord, AtWord, Running, SeenInv
  <2>2. env' = env \/ env' = EnvUnset(env, cmd.args[i])
    BY <1>3 DEF UnsetWord
  <2>3. Holds(env', GoodNames, Words0)
    BY <2>1, <2>2, EnvUnsetHolds
  <2>4. NullsOnce(env) => NullsOnce(env')
    BY <2>1, <2>2, EnvUnsetNulls
  <2>5. QED
    BY <2>1, <2>3, <2>4, SeenStep DEF SeenInv
<1>4. CASE CdMoves
  BY <1>4, CdSeen
<1>5. CASE Exit \/ EndOfInput
  <2>1. SoundTable(env) /\ Holds(env, GoodNames, Words0) /\ environ' = environ /\ fails' = fails
    BY <1>0, <1>5, InvSound DEF Exit, EndOfInput, Running, SeenInv
  <2>2. (\E s : Leave(s)) \/ (pc' = "idle" /\ env' = env)
    BY <1>5, Zenon DEF Exit, EndOfInput, Return
  <2>3. pc' # "init"
    BY <2>2 DEF Leave
  <2>4. Holds(env', GoodNames, Words0) /\ env'.vars = env.vars
    BY <2>1, <2>2, LeaveHolds
  <2>5. QED
    BY <2>1, <2>3, <2>4, SeenStep, NullsOfVars DEF SeenInv
<1>6. CASE ExportPrint
  <2>1. environ' = environ /\ env' = env /\ pc' = "idle" /\ \E fail : Fail(fail)
    BY <1>6 DEF ExportPrint, Return
  <2>2. fails' = 0 => fails = 0
    BY <1>0, <2>1, NoFail
  <2>3. QED
    BY <2>1, <2>2, SeenKept
<1>7. CASE Ready \/ Begin \/ WordsDone \/ UnsetNothing \/ EnvPrint \/ CdRefused \/ CdUnknown
  <2>1. environ' = environ /\ env' = env /\ fails' = fails /\ pc' \in {"idle", "run"}
    BY <1>7 DEF Ready, Begin, WordsDone, UnsetNothing, EnvPrint, CdRefused, CdUnknown, Return
  <2>2. QED
    BY <2>1, SeenKept
<1>8. CASE UNCHANGED vars
  <2>1. GoodNames' = GoodNames
    BY <1>8 DEF vars, GoodNames, Inherited
  <2>2. QED
    BY <1>8, <2>1, NextType DEF vars, SeenInv
<1>9. QED
  BY <1>1, <1>2, <1>3, <1>4, <1>5, <1>6, <1>7, <1>8, Zenon DEF Next, Ended

LEMMA SeenSound ==
    ASSUME SeenInv, NamesInv
    PROVE  NamesSound
<1>1. InheritedOnce => KeysDistinct
  BY DEF NamesInv, Distinct, KeysDistinct
<1>2. IsTable(env) /\ DOMAIN env.vars = 1..Len(env.vars)
  BY TableShape DEF SeenInv, Holds
<1>3. \A k \in Keys(env) : Identifier(k) \/ \E p \in Inherited : environ[p].key = k
  <2>1. \A k \in Keys(env) : k \in GoodNames
    BY <1>2 DEF Keys, SeenInv, Holds
  <2>2. QED
    BY <2>1 DEF GoodNames
<1>4. fails = 0 => \A n \in Keys(env) : ChildSees(n)
  BY <1>2, ArraySees DEF SeenInv, ChildSees
<1>5. QED
  BY <1>1, <1>3, <1>4 DEF NamesSound

\* No name is twice in the table unless it was inherited so; each that was not
\* is an identifier, whatever export and cd were given (valid_ident against
\* export_one); and while no allocation has failed a child sees of every name
\* what the shell sees (env_to_arr against env_get).
THEOREM NamesAlwaysSound == Spec => []NamesSound
<1>1. SeenInv /\ NamesInv => NamesSound
  BY SeenSound
<1>2. QED
  BY <1>1, InitSeen, NextSeen, InitNames, NextNames, PTL DEF Spec

---------------------------------------------------------------------------
(* What the words of export and unset do                                   *)

\* The values of n after the words of export so far, t being the table before.
IsAfter(f, t, args, n) ==
    f = [k \in 0..Len(args) |-> IF k = 0 THEN EnvGet(t, n)
                                ELSE AfterWord(n, args[k], f[k - 1])]

After(t, args, n) == CHOOSE f : IsAfter(f, t, args, n)

LEMMA AfterExists ==
    ASSUME NEW t, NEW args, Len(args) \in Nat, NEW n
    PROVE  \E f : IsAfter(f, t, args, n)
<1> DEFINE L == Len(args)
           v0 == EnvGet(t, n)
           Turn(k, v) == AfterWord(n, args[k], v)
           Upto(f, e) == f = [k \in 0..e |-> IF k = 0 THEN v0 ELSE Turn(k, f[k - 1])]
           T == {m \in Nat : \E f : Upto(f, m)}
<1> HIDE DEF v0, Turn
<1>1. 0 \in T
  <2> DEFINE v == [k \in 0..0 |-> v0]
  <2>1. v = [k \in 0..0 |-> IF k = 0 THEN v0 ELSE Turn(k, v[k - 1])]
    OBVIOUS
  <2>2. Upto(v, 0)
    BY <2>1
  <2> HIDE DEF v, Upto
  <2>3. QED
    BY <2>2
<1>2. ASSUME NEW m \in Nat, m \in T PROVE m + 1 \in T
  <2>1. PICK f : Upto(f, m)
    BY <1>2
  <2>2. \A k \in 0..m : f[k] = IF k = 0 THEN v0 ELSE Turn(k, f[k - 1])
    BY <2>1, Zenon
  <2> DEFINE g == [k \in 0..(m + 1) |-> IF k = m + 1 THEN Turn(m + 1, f[m]) ELSE f[k]]
             h == [k \in 0..(m + 1) |-> IF k = 0 THEN v0 ELSE Turn(k, g[k - 1])]
  <2>3. \A k \in 0..(m + 1) : h[k] = g[k]
    <3>1. SUFFICES ASSUME NEW k \in 0..(m + 1)
                   PROVE  g[k] = IF k = 0 THEN v0 ELSE Turn(k, g[k - 1])
      OBVIOUS
    <3>2. CASE k = m + 1
      <4>1. k - 1 = m /\ k # 0 /\ m \in 0..(m + 1) /\ m # m + 1
        BY <3>2
      <4>2. g[m] = f[m] /\ g[k] = Turn(k, f[m])
        BY <3>2, <4>1
      <4>3. QED
        BY <4>1, <4>2
    <3>3. CASE k # m + 1
      <4>1. k \in 0..m /\ (k # 0 => k - 1 \in 0..(m + 1) /\ k - 1 # m + 1)
        BY <3>3
      <4>2. g[k] = f[k] /\ (k # 0 => g[k - 1] = f[k - 1])
        BY <3>3, <4>1
      <4>3. QED
        BY <2>2, <4>1, <4>2
    <3>4. QED
      BY <3>2, <3>3
  <2>4. g = [k \in 0..(m + 1) |-> g[k]] /\ h = [k \in 0..(m + 1) |-> h[k]]
    OBVIOUS
  <2>5. g = h
    <3> HIDE DEF g, h
    <3>1. QED
      BY <2>3, <2>4
  <2>6. Upto(g, m + 1)
    <3> HIDE DEF g
    <3>1. QED
      BY <2>5, Zenon DEF h
  <2> HIDE DEF g, Upto
  <2>7. QED
    BY <2>6
<1> HIDE DEF T
<1>3. Nat \subseteq T
  BY <1>1, <1>2, AllNaturals
<1>4. L \in T
  BY <1>3
<1>5. \E f : Upto(f, L)
  BY <1>4 DEF T
<1>6. QED
  BY <1>5, Zenon DEF IsAfter, v0, Turn

LEMMA AfterIs ==
    ASSUME NEW t, NEW args, Len(args) \in Nat, NEW n
    PROVE  /\ After(t, args, n)[0] = EnvGet(t, n)
           /\ \A k \in 1..Len(args) :
                  After(t, args, n)[k] = AfterWord(n, args[k], After(t, args, n)[k - 1])
<1> DEFINE f == After(t, args, n)
<1>1. IsAfter(f, t, args, n)
  BY AfterExists, Zenon DEF After
<1>2. \A k \in 0..Len(args) : f[k] = IF k = 0 THEN EnvGet(t, n)
                                     ELSE AfterWord(n, args[k], f[k - 1])
  BY <1>1, Zenon DEF IsAfter
<1> HIDE DEF f
<1>3. 0 \in 0..Len(args) /\ \A k \in 1..Len(args) : k \in 0..Len(args) /\ k # 0
  OBVIOUS
<1>4. f[0] = EnvGet(t, n) /\ \A k \in 1..Len(args) : f[k] = AfterWord(n, args[k], f[k - 1])
  BY <1>2, <1>3, Zenon
<1>5. QED
  BY <1>4 DEF f

LEMMA ValueAfterIs == \A n : ValueAfter(n) = After(was.env, cmd.args, n)[Len(cmd.args)]
BY Zenon DEF ValueAfter, After, IsAfter

\* What export_one makes of a word, when nothing fails, is what the word says.
LEMMA ExportedGet ==
    ASSUME NEW t, SoundTable(t), Holds(t, Texts, Words0), NEW word \in Texts,
           ValidIdent(word), NEW n
    PROVE  EnvGet(Exported(t, word, "none"), n) = AfterWord(n, word, EnvGet(t, n))
<1> DEFINE r == TheReading(word)
           v == EnvGet(t, n)
           mine == {x \in Readings(word) : x.name = n /\ x.op # "none"}
<1>1. Readings(word) = {r}
  BY ReadingsAreOne
<1>2. mine = IF r.name = n /\ r.op # "none" THEN {r} ELSE {}
  <2> HIDE DEF r
  <2>1. QED
    BY <1>1
<1>3. AfterWord(n, word, v) = IF mine = {} THEN v
                              ELSE LET x == CHOOSE x \in mine : TRUE
                                   IN IF x.op = "append" /\ v # NULL THEN v \o x.val ELSE x.val
  BY Zenon DEF AfterWord
<1>4. AfterWord(n, word, v) = IF r.name = n /\ r.op # "none"
                              THEN IF r.op = "append" /\ v # NULL THEN v \o r.val ELSE r.val
                              ELSE v
  <2> HIDE DEF r, v, mine
  <2>1. CASE mine = {}
    BY <1>2, <1>3, <2>1
  <2>2. CASE mine = {r} /\ r.name = n /\ r.op # "none"
    <3>1. mine # {} /\ (CHOOSE x \in mine : TRUE) = r
      BY <2>2
    <3>2. QED
      BY <1>3, <2>2, <3>1
  <2>3. QED
    BY <1>2, <2>1, <2>2
<1>5. CASE ~HasValue(word)
  <2>1. r.op = "none"
    BY <1>5 DEF TheReading
  <2>2. Exported(t, word, "none") = EnvSet(t, word, NULL, "none")
    BY <1>5, Zenon DEF Exported
  <2> HIDE DEF r
  <2>3. QED
    BY <1>4, <2>1, <2>2, GetAfterNull
<1>6. CASE HasValue(word)
  <2> DEFINE key == KeyOf(word)
             old == EnvGet(t, key)
             val == IF Appends(word) /\ old # NULL THEN old \o ValueOf(word) ELSE ValueOf(word)
  <2>1. /\ r.name = key /\ r.val = ValueOf(word) /\ r.op # "none"
        /\ r.op = "append" <=> Appends(word)
    BY <1>6 DEF TheReading
  <2>2. Exported(t, word, "none") = EnvSet(t, key, val, "none")
    <3>1. HasValue(word) => \/ Exported(t, word, "none") = EnvSet(t, key, val, "none")
                            \/ "none" = "word" \/ "none" = "join"
      BY Zenon DEF Exported
    <3>2. QED
      BY <1>6, <3>1
  <2>3. val # NULL
    <3>1. ValueOf(word) \in Texts
      BY <1>6, KeyIs
    <3>2. old \in Texts \/ old = NULL
      <4>1. old \in Words0 \cup {NULL}
        BY EnvGetHolds
      <4>2. QED
        BY <4>1 DEF Words0
    <3> HIDE DEF old
    <3>3. old \in Texts => old \o ValueOf(word) \in Texts
      BY <3>1 DEF Texts
    <3>4. QED
      BY <3>1, <3>2, <3>3, EnvTableAssumption
  <2> HIDE DEF val, r
  <2>4. /\ EnvGet(EnvSet(t, key, val, "none"), key) = val
        /\ \A k : k # key => EnvGet(EnvSet(t, key, val, "none"), k) = EnvGet(t, k)
    BY <2>3, GetAfterSet
  <2>5. CASE n = key
    <3>1. AfterWord(n, word, v) = IF r.op = "append" /\ v # NULL THEN v \o r.val ELSE r.val
      BY <1>4, <2>1, <2>5
    <3>2. v = old
      BY <2>5
    <3>3. AfterWord(n, word, v) = val
      BY <2>1, <3>1, <3>2 DEF val
    <3>4. QED
      BY <2>2, <2>4, <2>5, <3>3
  <2>6. CASE n # key
    <3>1. AfterWord(n, word, v) = v
      BY <1>4, <2>1, <2>6
    <3>2. QED
      BY <2>2, <2>4, <2>6, <3>1
  <2>7. QED
    BY <2>5, <2>6
<1>7. QED
  BY <1>5, <1>6

LEMMA ExportedNames ==
    ASSUME NEW t, SoundTable(t), NEW word \in Texts, ValidIdent(word)
    PROVE  /\ \A n : HasName(t, n) => HasName(Exported(t, word, "none"), n)
           /\ \A r \in Readings(word) : HasName(Exported(t, word, "none"), r.name)
<1> DEFINE key == KeyOf(word)
           old == EnvGet(t, key)
           val == IF Appends(word) /\ old # NULL THEN old \o ValueOf(word) ELSE ValueOf(word)
           name == IF HasValue(word) THEN key ELSE word
<1>1. Readings(word) = {TheReading(word)} /\ TheReading(word).name = name
  BY ReadingsAreOne DEF TheReading
<1>2. \E x : Exported(t, word, "none") = EnvSet(t, name, x, "none")
  <2>1. \/ ~HasValue(word) /\ Exported(t, word, "none") = EnvSet(t, word, NULL, "none")
        \/ HasValue(word) /\ Exported(t, word, "none") = EnvSet(t, key, val, "none")
        \/ "none" = "word" \/ "none" = "join"
    BY Zenon DEF Exported
  <2> HIDE DEF key, val
  <2>2. QED
    BY <2>1
<1> HIDE DEF name
<1>3. PICK x : Exported(t, word, "none") = EnvSet(t, name, x, "none")
  BY <1>2
<1>4. QED
  BY <1>1, <1>3, EnvSetNames

\* Between two words of export, as long as nothing has failed: every name has
\* the value that the words before place j give it, and r tells of a bad one.
ExportSoFar(t, w, args, j, r) ==
    /\ j <= Len(args) + 1
    /\ r = 1 <=> \E k \in 1..(j - 1) : Readings(args[k]) = {}
    /\ \A n : EnvGet(t, n) = After(w, args, n)[j - 1]
    /\ \A k \in 1..(j - 1) : \A x \in Readings(args[k]) : HasName(t, x.name)

\* The names unset still has to remove.
From(args, j) == {args[k] : k \in {k \in j..Len(args) : Identifier(args[k])}}

\* Between two words of unset: what the words to come will leave of the table is
\* what all of them leave of the table before.
UnsetSoFar(t, w, args, j) ==
    /\ j <= Len(args) + 1
    /\ Kept(t.vars, Spared(t, From(args, j))) = Kept(w.vars, Spared(w, From(args, 1)))

LEMMA ExportStarts ==
    ASSUME NEW t, NEW args \in Seq(Texts)
    PROVE  ExportSoFar(t, t, args, 1, 0)
<1>1. Len(args) \in Nat /\ 1..(1 - 1) = {} /\ 1 - 1 = 0
  OBVIOUS
<1>2. \A n : EnvGet(t, n) = After(t, args, n)[0]
  BY <1>1, AfterIs
<1>3. QED
  BY <1>1, <1>2 DEF ExportSoFar

LEMMA ExportGoesOn ==
    ASSUME NEW t, NEW w, NEW args \in Seq(Texts), NEW j \in 1..Len(args), NEW r,
           SoundTable(t), Holds(t, Texts, Words0), ExportSoFar(t, w, args, j, r)
    PROVE  /\ ValidIdent(args[j]) =>
                  ExportSoFar(Exported(t, args[j], "none"), w, args, j + 1, r)
           /\ ~ValidIdent(args[j]) => ExportSoFar(t, w, args, j + 1, 1)
<1> DEFINE word == args[j]
           u == Exported(t, word, "none")
<1>1. /\ Len(args) \in Nat /\ j \in Nat /\ j + 1 <= Len(args) + 1 /\ (j + 1) - 1 = j
      /\ word \in Texts /\ j - 1 + 1 = j
  OBVIOUS
<1>2. \A k \in 1..j : k \in 1..(j - 1) \/ k = j
  OBVIOUS
<1>3. j \in 1..j /\ \A k \in 1..(j - 1) : k \in 1..j
  OBVIOUS
<1>4. /\ r = 1 <=> \E k \in 1..(j - 1) : Readings(args[k]) = {}
      /\ \A n : EnvGet(t, n) = After(w, args, n)[j - 1]
      /\ \A k \in 1..(j - 1) : \A x \in Readings(args[k]) : HasName(t, x.name)
  BY Zenon DEF ExportSoFar
<1>5. \A n : After(w, args, n)[j] = AfterWord(n, word, After(w, args, n)[j - 1])
  BY <1>1, AfterIs
<1>6. ASSUME ValidIdent(word)
      PROVE  ExportSoFar(u, w, args, j + 1, r)
  <2>1. Readings(word) # {}
    BY <1>1, <1>6, ReadingsAreOne
  <2>2. r = 1 <=> \E k \in 1..j : Readings(args[k]) = {}
    BY <1>2, <1>3, <1>4, <2>1, Zenon
  <2>3. \A n : EnvGet(u, n) = AfterWord(n, word, EnvGet(t, n))
    BY <1>1, <1>6, ExportedGet
  <2>4. \A n : EnvGet(u, n) = After(w, args, n)[j]
    <3> HIDE DEF u, word
    <3>1. QED
      BY <1>4, <1>5, <2>3, Zenon
  <2>5. /\ \A n : HasName(t, n) => HasName(u, n)
        /\ \A x \in Readings(word) : HasName(u, x.name)
    BY <1>1, <1>6, ExportedNames
  <2>6. \A k \in 1..j : \A x \in Readings(args[k]) : HasName(u, x.name)
    <3> HIDE DEF u
    <3>1. QED
      BY <1>2, <1>4, <2>5, Zenon
  <2> HIDE DEF u
  <2>7. QED
    BY <1>1, <2>2, <2>4, <2>6 DEF ExportSoFar
<1>7. ASSUME ~ValidIdent(word)
      PROVE  ExportSoFar(t, w, args, j + 1, 1)
  <2>1. Readings(word) = {}
    BY <1>1, <1>7, ReadingsAreOne
  <2>2. 1 = 1 <=> \E k \in 1..j : Readings(args[k]) = {}
    BY <1>3, <2>1, Zenon
  <2>3. \A n : AfterWord(n, word, EnvGet(t, n)) = EnvGet(t, n)
    <3>1. \A n : {x \in Readings(word) : x.name = n /\ x.op # "none"} = {}
      <4> HIDE DEF word
      <4>1. QED
        BY <2>1
    <3>2. QED
      BY <3>1, Zenon DEF AfterWord
  <2>4. \A n : EnvGet(t, n) = After(w, args, n)[j]
    <3> HIDE DEF word
    <3>1. QED
      BY <1>4, <1>5, <2>3, Zenon
  <2>5. \A k \in 1..j : \A x \in Readings(args[k]) : HasName(t, x.name)
    BY <1>2, <1>4, <2>1, Zenon
  <2>6. QED
    BY <1>1, <2>2, <2>4, <2>5 DEF ExportSoFar
<1>8. QED
  BY <1>6, <1>7

LEMMA IdentifierValid ==
    ASSUME NEW s \in Texts, Identifier(s)
    PROVE  ValidIdent(s)
<1>1. Len(s) \in Nat /\ Len(s) >= 1 /\ DOMAIN s = 1..Len(s)
  BY DEF Identifier, Texts
<1>2. Len(s) + 1 \in 2..(Len(s) + 1) /\ ~(Len(s) + 1 <= Len(s))
  BY <1>1
<1>3. \A p \in 2..(Len(s) + 1 - 1) : s[p] \in Letters \cup Digits
  <2>1. \A p \in 2..(Len(s) + 1 - 1) : p \in 1..Len(s)
    BY <1>1
  <2>2. QED
    BY <1>1, <2>1, Zenon DEF Identifier
<1>4. QED
  BY <1>2, <1>3, ValidWhen DEF Identifier

\* What unset makes of one word: a good word that is no identifier has an "=",
\* and no variable has.
LEMMA UnsetGoesOn ==
    ASSUME NEW t, NEW w, NEW args \in Seq(Texts), NEW j \in 1..Len(args), NEW K,
           SoundTable(t), Distinct(t), Holds(t, K, Words0),
           \A k \in K : Identifier(k) \/ \A c \in DOMAIN k : k[c] # "=",
           UnsetSoFar(t, w, args, j)
    PROVE  UnsetSoFar(IF ValidIdent(args[j]) THEN EnvUnset(t, args[j]) ELSE t,
                      w, args, j + 1)
<1> DEFINE word == args[j]
           u == IF ValidIdent(word) THEN EnvUnset(t, word) ELSE t
           old == From(args, j)
           new == From(args, j + 1)
<1>1. Len(args) \in Nat /\ j \in Nat /\ j + 1 <= Len(args) + 1 /\ word \in Texts
  OBVIOUS
<1>2. Kept(t.vars, Spared(t, old)) = Kept(w.vars, Spared(w, From(args, 1)))
  BY Zenon DEF UnsetSoFar
<1>3. old = IF Identifier(word) THEN new \cup {word} ELSE new
  <2>1. /\ \A k \in j..Len(args) : k = j \/ k \in (j + 1)..Len(args)
        /\ j \in j..Len(args) /\ \A k \in (j + 1)..Len(args) : k \in j..Len(args)
    BY <1>1
  <2>2. CASE Identifier(word)
    BY <2>1, <2>2, Zenon DEF From
  <2>3. CASE ~Identifier(word)
    BY <2>1, <2>3, Zenon DEF From
  <2>4. QED
    BY <2>2, <2>3
<1>4. Kept(u.vars, Spared(u, new)) = Kept(t.vars, Spared(t, old))
  <2> HIDE DEF old, new, word
  <2>1. CASE Identifier(word)
    <3>1. ValidIdent(word)
      BY <1>1, <2>1, IdentifierValid
    <3>2. u = EnvUnset(t, word)
      BY <3>1
    <3>3. QED
      BY <1>3, <2>1, <3>2, UnsetSpares
  <2>2. CASE ~Identifier(word)
    <3>1. u = t
      <4>1. CASE ~ValidIdent(word)
        BY <4>1
      <4>2. CASE ValidIdent(word)
        <5>1. HasValue(word)
          BY <1>1, <2>2, <4>2, ValidKey
        <5>2. \E c \in DOMAIN word : word[c] = "="
          <6>1. Len(word) \in Nat /\ DOMAIN word = 1..Len(word)
            BY <1>1 DEF Texts
          <6>2. Equals(word) \in 1..(Len(word) + 1) /\ Equals(word) <= Len(word)
            BY <1>1, <5>1, EqualsIs DEF HasValue
          <6>3. word[Equals(word)] = "="
            BY <1>1, <6>2, EqualsIs
          <6>4. Equals(word) \in DOMAIN word
            BY <6>1, <6>2
          <6>5. QED
            BY <6>3, <6>4
        <5>3. word \notin K
          BY <2>2, <5>2
        <5>4. IsTable(t) /\ DOMAIN t.vars = 1..Len(t.vars) /\ Len(t.vars) \in Nat
          BY TableShape DEF SoundTable
        <5>5. \A n \in 1..Len(t.vars) : t.vars[n].key # word
          BY <5>3 DEF Holds
        <5>6. FindKey(t, word) = 0
          BY <5>4, <5>5, FindKeyFirst
        <5>7. EnvUnset(t, word) = t
          BY <5>6, Zenon DEF EnvUnset
        <5>8. QED
          BY <5>7
      <4>3. QED
        BY <4>1, <4>2
    <3> HIDE DEF u
    <3>2. QED
      BY <1>3, <2>2, <3>1
  <2>3. QED
    BY <2>1, <2>2
<1> HIDE DEF u
<1>5. UnsetSoFar(u, w, args, j + 1)
  BY <1>1, <1>2, <1>4 DEF UnsetSoFar
<1>6. QED
  BY <1>5 DEF u

\* The places in table t that Named is about.
NamedBy(args, t) == {p \in DOMAIN t.vars :
                        \E k \in DOMAIN args :
                            Identifier(args[k]) /\ args[k] = t.vars[p].key}

\* When no word is left, nothing more is removed.
LEMMA UnsetEnds ==
    ASSUME NEW t, NEW w, NEW args \in Seq(Texts), IsTable(t),
           NEW j \in Nat, j > Len(args), UnsetSoFar(t, w, args, j)
    PROVE  t.vars = Kept(w.vars, (DOMAIN w.vars) \ NamedBy(args, w))
<1>1. Len(args) \in Nat /\ DOMAIN args = 1..Len(args) /\ j..Len(args) = {}
  OBVIOUS
<1>2. From(args, j) = {}
  BY <1>1 DEF From
<1>3. Kept(t.vars, Spared(t, {})) = t.vars
  <2>1. PICK K, V : t \in TableOf(K, V)
    BY DEF IsTable
  <2>2. t.vars \in Seq(VarOf(K, V)) /\ DOMAIN t.vars = 1..Len(t.vars)
    BY <2>1 DEF TableOf
  <2>3. \A n \in 1..Len(t.vars) : n \in Spared(t, {})
    BY <2>2 DEF Spared
  <2>4. QED
    BY <2>2, <2>3, KeptAll
<1>4. Spared(w, From(args, 1)) = (DOMAIN w.vars) \ NamedBy(args, w)
  BY <1>1, Zenon DEF Spared, From, NamedBy
<1>5. QED
  BY <1>2, <1>3, <1>4 DEF UnsetSoFar

ExportRun ==
    pc = "run" /\ cmd.name = "export" /\ fails = 0 =>
        ExportSoFar(env, was.env, cmd.args, i, ret)

UnsetRun ==
    pc = "run" /\ cmd.name = "unset" /\ InheritedOnce =>
        UnsetSoFar(env, was.env, cmd.args, i)

\* No name of the inherited environment has an "=".
CutAtEquals == \A p \in DOMAIN environ : \A c \in DOMAIN environ[p].key : environ[p].key[c] # "="

EffectInv ==
    /\ SeenInv /\ NamesInv /\ CutAtEquals
    /\ pc = "init" => cmd.name = "env"
    /\ ExportRun /\ UnsetRun
    /\ WordsTakeEffect

LEMMA InitEffect == Init => EffectInv
<1> SUFFICES ASSUME Init PROVE EffectInv
  OBVIOUS
<1>1. SeenInv /\ NamesInv /\ pc \in {"init", "failed"} /\ cmd.name = "env"
  BY InitSeen, InitNames DEF Init, NoCommand
<1>2. CutAtEquals
  BY BuiltinsAssumption DEF Init, CutAtEquals
<1>3. QED
  BY <1>1, <1>2 DEF EffectInv, ExportRun, UnsetRun, WordsTakeEffect, Finished

\* A step after which no export and no unset runs or has just ended.
LEMMA EffectElsewhere ==
    ASSUME EffectInv, [Next]_vars, environ' = environ,
           pc' # "idle" \/ cmd'.name \notin {"export", "unset"} \/ cmd'.args = <<>>,
           pc' # "run", pc' = "init" => cmd'.name = "env"
    PROVE  EffectInv'
<1>1. SeenInv' /\ NamesInv'
  BY NextSeen, NextNames DEF EffectInv
<1>2. CutAtEquals'
  BY DEF EffectInv, CutAtEquals
<1>3. ~Finished("export")' /\ ~Finished("unset")'
  BY DEF Finished
<1>4. QED
  BY <1>1, <1>2, <1>3 DEF EffectInv, ExportRun, UnsetRun, WordsTakeEffect

\* A step in the middle of a command.
LEMMA EffectRuns ==
    ASSUME EffectInv, [Next]_vars, environ' = environ, pc' = "run", ExportRun', UnsetRun'
    PROVE  EffectInv'
<1>1. SeenInv' /\ NamesInv'
  BY NextSeen, NextNames DEF EffectInv
<1>2. CutAtEquals'
  BY DEF EffectInv, CutAtEquals
<1>3. ~Finished("export")' /\ ~Finished("unset")'
  BY DEF Finished
<1>4. QED
  BY <1>1, <1>2, <1>3 DEF EffectInv, WordsTakeEffect

LEMMA BeginEffect ==
    ASSUME EffectInv, Begin
    PROVE  EffectInv'
<1>1. /\ script \in Seq(Commands) /\ script # <<>> /\ cmd' = Head(script)
      /\ environ' = environ /\ pc' = "run" /\ i' = 1 /\ ret' = 0
      /\ env' = env /\ was'.env = env /\ [Next]_vars
  BY DEF Begin, EffectInv, SeenInv, TypeInv, TypeOK, Next
<1>2. cmd'.args \in Seq(Texts)
  <2> HIDE DEF Commands
  <2>1. cmd' \in Commands
    BY <1>1
  <2>2. QED
    BY <2>1 DEF Commands
<1>3. ExportSoFar(env', was'.env, cmd'.args, i', ret')
  BY <1>1, <1>2, ExportStarts
<1>4. UnsetSoFar(env', was'.env, cmd'.args, i')
  <2>1. 1 <= Len(cmd'.args) + 1
    BY <1>2
  <2>2. QED
    BY <1>1, <2>1 DEF UnsetSoFar
<1>5. ExportRun' /\ UnsetRun'
  BY <1>3, <1>4 DEF ExportRun, UnsetRun
<1>6. QED
  BY <1>1, <1>5, EffectRuns

LEMMA AtWordIs ==
    ASSUME EffectInv, NEW name, AtWord(name)
    PROVE  /\ pc = "run" /\ cmd.name = name /\ i \in 1..Len(cmd.args)
           /\ cmd.args \in Seq(Texts) /\ fails \in Nat
           /\ SoundTable(env) /\ Holds(env, Texts, Words0) /\ Holds(env, GoodNames, Words0)
<1>1. TypeOK /\ TableInv /\ Holds(env, GoodNames, Words0)
  BY DEF EffectInv, SeenInv, TypeInv
<1>2. pc = "run" /\ cmd.name = name /\ i <= Len(cmd.args)
  BY DEF AtWord, Running
<1>3. cmd.args \in Seq(Texts) /\ fails \in Nat /\ i \in Nat \ {0}
  BY <1>1, BuiltinsAssumption DEF TypeOK, Commands
<1>4. i \in 1..Len(cmd.args)
  BY <1>2, <1>3
<1>5. SoundTable(env) /\ Holds(env, Texts, Words0)
  BY <1>1, <1>2, InvSound, HoldsTable DEF TypeOK
<1>6. QED
  BY <1>1, <1>2, <1>3, <1>4, <1>5

LEMMA ExportEffect ==
    ASSUME EffectInv, ExportWord
    PROVE  EffectInv'
<1> DEFINE word == cmd.args[i]
<1>1. AtWord("export") /\ [Next]_vars
  BY DEF ExportWord, Next
<1>2. /\ pc = "run" /\ cmd.name = "export" /\ i \in 1..Len(cmd.args)
      /\ cmd.args \in Seq(Texts) /\ fails \in Nat
      /\ SoundTable(env) /\ Holds(env, Texts, Words0)
  BY <1>1, AtWordIs
<1>3. pc' = pc /\ cmd' = cmd /\ environ' = environ /\ i' = i + 1 /\ was' = was
  BY DEF ExportWord
<1>4. ExportRun'
  <2>1. SUFFICES ASSUME fails' = 0
                 PROVE  ExportSoFar(env', was.env, cmd.args, i + 1, ret')
    BY <1>3 DEF ExportRun
  <2>2. CASE ValidIdent(word)
    <3>1. PICK fail : Fail(fail) /\ env' = Exported(env, word, fail) /\ ret' = ret
      BY <2>2 DEF ExportWord
    <3>2. fails = 0 /\ fail = "none"
      BY <1>2, <2>1, <3>1, NoFail
    <3>3. ExportSoFar(env, was.env, cmd.args, i, ret)
      BY <1>2, <3>2 DEF EffectInv, ExportRun
    <3>4. QED
      BY <1>2, <2>2, <3>1, <3>2, <3>3, ExportGoesOn
  <2>3. CASE ~ValidIdent(word)
    <3>1. env' = env /\ fails' = fails /\ ret' = 1
      BY <2>3 DEF ExportWord
    <3>2. ExportSoFar(env, was.env, cmd.args, i, ret)
      BY <1>2, <2>1, <3>1 DEF EffectInv, ExportRun
    <3>3. QED
      BY <1>2, <2>3, <3>1, <3>2, ExportGoesOn
  <2>4. QED
    BY <2>2, <2>3
<1>5. UnsetRun'
  BY <1>2, <1>3 DEF UnsetRun
<1>6. QED
  BY <1>1, <1>2, <1>3, <1>4, <1>5, EffectRuns

LEMMA UnsetEffect ==
    ASSUME EffectInv, UnsetWord
    PROVE  EffectInv'
<1>1. AtWord("unset") /\ [Next]_vars
  BY DEF UnsetWord, Next
<1>2. /\ pc = "run" /\ cmd.name = "unset" /\ i \in 1..Len(cmd.args)
      /\ cmd.args \in Seq(Texts)
      /\ SoundTable(env) /\ Holds(env, GoodNames, Words0)
  BY <1>1, AtWordIs
<1>3. /\ pc' = pc /\ cmd' = cmd /\ environ' = environ /\ i' = i + 1 /\ was' = was
      /\ env' = IF ValidIdent(cmd.args[i]) THEN EnvUnset(env, cmd.args[i]) ELSE env
  BY DEF UnsetWord
<1>4. \A k \in GoodNames : Identifier(k) \/ \A c \in DOMAIN k : k[c] # "="
  BY DEF GoodNames, Inherited, EffectInv, CutAtEquals
<1>5. UnsetRun'
  <2>1. SUFFICES ASSUME InheritedOnce
                 PROVE  UnsetSoFar(env', was.env, cmd.args, i + 1)
    BY <1>3 DEF UnsetRun, InheritedOnce, Inherited
  <2>2. UnsetSoFar(env, was.env, cmd.args, i) /\ Distinct(env)
    BY <1>2, <2>1 DEF EffectInv, UnsetRun, NamesInv
  <2>3. UnsetSoFar(IF ValidIdent(cmd.args[i]) THEN EnvUnset(env, cmd.args[i]) ELSE env,
                   was.env, cmd.args, i + 1)
    BY <1>2, <1>4, <2>2, UnsetGoesOn
  <2>4. QED
    BY <1>3, <2>3
<1>6. ExportRun'
  BY <1>2, <1>3 DEF ExportRun
<1>7. QED
  BY <1>1, <1>2, <1>3, <1>5, <1>6, EffectRuns

LEMMA ValueAfterIsNext ==
    \A n : ValueAfter(n)' = After(was'.env, cmd'.args, n)[Len(cmd'.args)]
BY Zenon DEF ValueAfter, After, IsAfter

LEMMA WordsDoneEffect ==
    ASSUME EffectInv, WordsDone
    PROVE  EffectInv'
<1>1. /\ pc = "run" /\ i > Len(cmd.args) /\ pc' = "idle" /\ exit_code' = ret
      /\ env' = env /\ environ' = environ /\ cmd' = cmd /\ fails' = fails /\ was' = was
      /\ [Next]_vars
  BY DEF WordsDone, Return, Next
<1>2. /\ cmd.args \in Seq(Texts) /\ i \in Nat /\ SoundTable(env)
  BY <1>1, InvSound DEF EffectInv, SeenInv, TypeInv, TypeOK, Commands
<1>3. SeenInv' /\ NamesInv' /\ CutAtEquals'
  BY <1>1, NextSeen, NextNames DEF EffectInv, CutAtEquals
<1>4. ASSUME cmd.name = "export", fails = 0
      PROVE  /\ exit_code' = 1 <=> \E k \in DOMAIN cmd.args : Readings(cmd.args[k]) = {}
             /\ \A n : EnvGet(env, n) = After(was.env, cmd.args, n)[Len(cmd.args)]
             /\ \A k \in DOMAIN cmd.args :
                    \A r \in Readings(cmd.args[k]) : HasName(env, r.name)
  <2>1. ExportSoFar(env, was.env, cmd.args, i, ret)
    BY <1>1, <1>4 DEF EffectInv, ExportRun
  <2>2. i <= Len(cmd.args) + 1
    BY <2>1 DEF ExportSoFar
  <2>3. i - 1 = Len(cmd.args) /\ DOMAIN cmd.args = 1..(i - 1)
    BY <1>1, <1>2, <2>2
  <2>4. QED
    BY <1>1, <2>1, <2>3, Zenon DEF ExportSoFar
<1>5. ASSUME cmd.name = "unset", InheritedOnce
      PROVE  env.vars = Kept(was.env.vars, (DOMAIN was.env.vars) \ NamedBy(cmd.args, was.env))
  <2>1. UnsetSoFar(env, was.env, cmd.args, i) /\ IsTable(env)
    BY <1>1, <1>2, <1>5 DEF EffectInv, UnsetRun, SoundTable
  <2>2. QED
    BY <1>1, <1>2, <2>1, UnsetEnds
<1>6. WordsTakeEffect'
  <2>1. ASSUME Finished("export")'
        PROVE  /\ exit_code' = 1 <=> \E k \in DOMAIN cmd'.args : Readings(cmd'.args[k]) = {}
               /\ \A n \in Names : EnvGet(env', n) = ValueAfter(n)'
               /\ \A k \in DOMAIN cmd'.args :
                      \A r \in Readings(cmd'.args[k]) : r.name \in Keys(env')
    <3>1. cmd.name = "export" /\ fails = 0
      BY <1>1, <2>1 DEF Finished
    <3>2. \A n : HasName(env, n) => n \in Keys(env)
      BY DEF HasName, Keys
    <3>3. QED
      BY <1>1, <1>4, <3>1, <3>2, ValueAfterIsNext
  <2>2. ASSUME Finished("unset")', InheritedOnce'
        PROVE  env'.vars = Kept(was'.env.vars, (DOMAIN was'.env.vars) \ NamedBy(cmd'.args, was'.env))
    <3>1. cmd.name = "unset" /\ InheritedOnce
      BY <1>1, <2>2 DEF Finished, InheritedOnce, Inherited
    <3>2. QED
      BY <1>1, <1>5, <3>1
  <2>3. QED
    BY <2>1, <2>2 DEF WordsTakeEffect, Named, NamedBy
<1>7. QED
  BY <1>1, <1>3, <1>6 DEF EffectInv, ExportRun, UnsetRun

LEMMA NextEffect == EffectInv /\ [Next]_vars => EffectInv'
<1> SUFFICES ASSUME EffectInv, [Next]_vars PROVE EffectInv'
  OBVIOUS
<1>1. CASE Begin
  BY <1>1, BeginEffect
<1>2. CASE ExportWord
  BY <1>2, ExportEffect
<1>3. CASE UnsetWord
  BY <1>3, UnsetEffect
<1>4. CASE WordsDone
  BY <1>4, WordsDoneEffect
<1>5. CASE Inherit \/ Ready
  <2>1. /\ pc = "init" /\ environ' = environ /\ cmd' = cmd
        /\ pc' \in {"init", "idle", "failed"}
    BY <1>5 DEF Inherit, Ready
  <2>2. QED
    BY <2>1, EffectElsewhere DEF EffectInv
<1>6. CASE UnsetNothing \/ ExportPrint
  <2>1. environ' = environ /\ cmd' = cmd /\ cmd.args = <<>> /\ pc' = "idle"
    BY <1>6 DEF UnsetNothing, ExportPrint, Return
  <2>2. QED
    BY <2>1, EffectElsewhere
<1>7. CASE EnvPrint \/ CdRefused \/ CdUnknown \/ CdMoves
  <2>1. environ' = environ /\ cmd' = cmd /\ cmd.name \in {"env", "cd"} /\ pc' = "idle"
    BY <1>7 DEF EnvPrint, CdRefused, CdUnknown, CdMoves, Chdir, Running, Return
  <2>2. QED
    BY <2>1, EffectElsewhere
<1>8. CASE Exit
  <2>1. environ' = environ /\ cmd' = cmd /\ cmd.name = "exit"
    BY <1>8 DEF Exit, Running
  <2>2. (\E s : Leave(s)) \/ pc' = "idle"
    BY <1>8, Zenon DEF Exit, Return
  <2>3. pc' \in {"exited", "idle"}
    BY <2>2 DEF Leave
  <2>4. QED
    BY <2>1, <2>3, EffectElsewhere
<1>9. CASE EndOfInput
  <2>1. environ' = environ /\ pc' = "exited"
    BY <1>9 DEF EndOfInput, Leave
  <2>2. QED
    BY <2>1, EffectElsewhere
<1>10. CASE UNCHANGED vars
  <2>1. SeenInv' /\ NamesInv' /\ CutAtEquals'
    BY <1>10, NextSeen, NextNames DEF EffectInv, CutAtEquals, vars
  <2>2. ExportRun' /\ UnsetRun' /\ (pc' = "init" => cmd'.name = "env")
    BY <1>10 DEF EffectInv, ExportRun, UnsetRun, InheritedOnce, Inherited, vars
  <2>3. WordsTakeEffect'
    <3>1. /\ \A name : Finished(name)' = Finished(name)
          /\ InheritedOnce' = InheritedOnce /\ Named(was.env)' = Named(was.env)
      BY <1>10 DEF vars, Finished, InheritedOnce, Inherited, Named
    <3>2. \A n : ValueAfter(n)' = ValueAfter(n)
      BY <1>10, ValueAfterIs, ValueAfterIsNext DEF vars
    <3>3. QED
      BY <1>10, <3>1, <3>2 DEF vars, EffectInv, WordsTakeEffect
  <2>4. QED
    BY <2>1, <2>2, <2>3 DEF EffectInv
<1>11. QED
  BY <1>1, <1>2, <1>3, <1>4, <1>5, <1>6, <1>7, <1>8, <1>9, <1>10, Zenon DEF Next, Ended

\* While no allocation has failed, export gives every name the value its words
\* say, in order, and reports a bad word once it has done the others; and unset
\* leaves of the table what its words do not name, in the order it had (bi_export,
\* export_one, bi_unset, env_unset).
THEOREM WordsAlwaysTakeEffect == Spec => []WordsTakeEffect
<1>1. EffectInv => WordsTakeEffect
  BY DEF EffectInv
<1>2. QED
  BY <1>1, InitEffect, NextEffect, PTL DEF Spec
=============================================================================
