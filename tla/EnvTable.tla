------------------------------ MODULE EnvTable ------------------------------
(***************************************************************************)
(* The table of environment variables: env/env.c and env/env_getset.c.     *)
(* A table is an array of cap slots with a variable in each of the first   *)
(* ones, in the order of their creation.  Every operation that changes one *)
(* takes the allocation that fails in it, "none" if all succeed; strs      *)
(* counts the strings on the heap that env_free would have to free.        *)
(* The flag "exported" is left out: every caller in the shell sets it.     *)
(***************************************************************************)
EXTENDS Words

CONSTANTS
    NULL,       \* no value: `export NAME` without "="
    InitCap     \* slots of a new table: 64 in env_init

ASSUME EnvTableAssumption ==
    /\ NULL \notin Texts
    /\ InitCap \in Nat \ {0}

Var   == [key : Texts, val : Texts \cup {NULL}]
Table == [vars : Seq(Var), cap : Nat, strs : Int]

\* The allocations an operation makes, by what they are for.
Failures == {"none", "table", "key", "val"}

Strings(val) == IF val = NULL THEN 1 ELSE 2

\* env_init's table; that it may not be had is said where a shell begins.
EmptyTable == [vars |-> <<>>, cap |-> InitCap, strs |-> 0]

\* Mutant: the table grows when it is past its end.
Full_Late(t) == Len(t.vars) > t.cap

\* Two slots are kept free.
Full(t) == Len(t.vars) + 2 >= t.cap

\* env_grow
Grown(t) == IF Full(t) THEN [t EXCEPT !.cap = 2 * @] ELSE t

\* A variable in the first free slot of t, with its two strings.
Pushed(t, key, val) ==
    [t EXCEPT !.vars = Append(@, [key |-> key, val |-> val]),
              !.strs = @ + Strings(val)]

\* init_one: an entry without "=" is passed over, after the table has grown.
\* A failure makes env_init give up.
InitOne(t, entry, fail) ==
    IF Full(t) /\ fail = "table" THEN t
    ELSE IF entry.val = NULL THEN Grown(t)
    ELSE IF fail \in {"key", "val"} THEN [Grown(t) EXCEPT !.strs = @ + 1]
    ELSE Pushed(Grown(t), entry.key, entry.val)

\* Mutant: the search goes on to the last variable of this name.
FindKey_Last(t, key) ==
    LET at == {i \in DOMAIN t.vars : t.vars[i].key = key}
    IN IF at = {} THEN 0 ELSE CHOOSE i \in at : \A j \in at : j <= i

\* The place of the first variable of this name, 0 for -1.
FindKey(t, key) ==
    LET at == {i \in DOMAIN t.vars : t.vars[i].key = key}
    IN IF at = {} THEN 0 ELSE CHOOSE i \in at : \A j \in at : i <= j

\* env_get: NULL also for a variable that has no value.
EnvGet(t, key) ==
    IF FindKey(t, key) = 0 THEN NULL ELSE t.vars[FindKey(t, key)].val

\* set_new: the table stays grown when a string cannot be copied.
SetNew(t, key, val, fail) ==
    IF Full(t) /\ fail = "table" THEN t
    ELSE IF fail = "key" \/ (val # NULL /\ fail = "val") THEN Grown(t)
    ELSE Pushed(Grown(t), key, val)

\* The old value is freed before the new one is copied.
Overwritten(t, i, val, fail) ==
    LET new == IF fail = "val" THEN NULL ELSE val
    IN [t EXCEPT !.vars[i].val = new,
                 !.strs = @ - Strings(t.vars[i].val) + Strings(new)]

\* env_set: `export NAME` leaves the value of a variable it finds.
EnvSet(t, key, val, fail) ==
    CASE FindKey(t, key) = 0 -> SetNew(t, key, val, fail)
      [] FindKey(t, key) # 0 /\ val # NULL -> Overwritten(t, FindKey(t, key), val, fail)
      [] OTHER -> t

\* Mutant: as resources.md has it, the last variable takes the place.
Without_SwapLast(vars, i) ==
    [j \in 1..(Len(vars) - 1) |-> IF j = i THEN vars[Len(vars)] ELSE vars[j]]

\* The variables after place i move down by one.
Without(vars, i) ==
    [j \in 1..(Len(vars) - 1) |-> IF j < i THEN vars[j] ELSE vars[j + 1]]

\* env_unset
EnvUnset(t, key) ==
    LET i == FindKey(t, key)
    IN IF i = 0 THEN t
       ELSE [t EXCEPT !.vars = Without(@, i),
                      !.strs = @ - Strings(t.vars[i].val)]

\* The elements of s at these places, in order.
Kept(s, places) ==
    LET kept[n \in 0..Len(s)] ==
            IF n = 0 THEN <<>>
            ELSE IF n \in places THEN Append(kept[n - 1], s[n]) ELSE kept[n - 1]
    IN kept[Len(s)]

\* env_to_arr and bi_env: the variables that have a value, in order.  That
\* env_to_arr may run out of memory is left out: it leaves the table alone.
EnvToArr(t) == Kept(t.vars, {p \in DOMAIN t.vars : t.vars[p].val # NULL})

\* The strings that env_free frees.
FreedByEnvFree(t) ==
    LET freed[n \in 0..Len(t.vars)] ==
            IF n = 0 THEN 0 ELSE freed[n - 1] + Strings(t.vars[n].val)
    IN freed[Len(t.vars)]

\* env_free
EnvFree(t) == t.strs - FreedByEnvFree(t)
=============================================================================
