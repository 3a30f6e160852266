------------------------------- MODULE EnvMap -------------------------------
(***************************************************************************)
(* What the shell's environment promises, whatever the table it is kept    *)
(* in: for every name a stack of values, of which the top one is seen.     *)
(* There is more than one only when the shell has inherited a name twice.  *)
(* Setting a name replaces its top (by no value, if memory runs out),      *)
(* unsetting it removes the top, and no other name is touched.             *)
(***************************************************************************)
EXTENDS Integers, Sequences

CONSTANTS Names, Pwd, OldPwd

VARIABLE env    \* for every name, its values in the order they are seen

MapInit == env = [n \in Names |-> <<>>]

Below(stack) == IF stack = <<>> THEN <<>> ELSE Tail(stack)

\* All names but these keep their values.
Only(changed) == /\ DOMAIN env' = Names
                 /\ \A n \in Names \ changed : env'[n] = env[n]

NewTop(n) == env'[n] # <<>> /\ Tail(env'[n]) = Below(env[n])

\* One more value of a name is read from the inherited environment.
Inherit == \E n \in Names :
              /\ Only({n})
              /\ Len(env'[n]) = Len(env[n]) + 1
              /\ SubSeq(env'[n], 1, Len(env[n])) = env[n]

Set == \E n \in Names : Only({n}) /\ NewTop(n)

Unset == \E n \in Names : /\ Only({n})
                          /\ env[n] # <<>> /\ env'[n] = Tail(env[n])

\* cd sets two names at once.
Move == /\ Only({Pwd, OldPwd})
        /\ \A n \in Names \cap {Pwd, OldPwd} : env'[n] = env[n] \/ NewTop(n)

MapNext == Move \/ Inherit \/ Set \/ Unset

MapSpec == MapInit /\ [][MapNext]_env
=============================================================================
