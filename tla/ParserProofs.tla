---------------------------- MODULE ParserProofs ----------------------------
(***************************************************************************)
(* Parser, for every list of tokens: its types; that fill_cmd never writes *)
(* past the argv that count_argc sized; that the grammar is accepted; and  *)
(* where each token goes.  The two walks over a command go by different    *)
(* rules, so the invariant says what count_argc has seen (`visited`) in    *)
(* terms that do not depend on where fill_cmd is: its stops follow each    *)
(* other by Succ with nothing in between, its words are the ones it        *)
(* counted, in order, and fill_cmd stands on one of its stops.             *)
(***************************************************************************)
EXTENDS Parser, FiniteSetTheorems, TLAPS

Succ(p) == p + (IF IsRedirect(toks[p]) /\ p < Len(toks) THEN 2 ELSE 1)

\* i and the lists of lists keep in step.
StepInv == pc \in {"start", "one"} => i = Len(counted) + 1

\* What count_argc has seen of the command.
WalkInv ==
    pc \in {"count", "fill"} =>
        /\ \A p \in visited : InCommand(p) /\ Succ(p) <= walk
        /\ \A p \in visited : Succ(p) \in visited \/ Succ(p) = walk
        /\ \A p, q \in visited : p < q => Succ(p) <= q
        /\ \A p \in visited : toks[p] = "word" =>
               \E k \in 1..Len(counted[i]) : counted[i][k] = p
        /\ \A k \in 1..Len(counted[i]) :
               counted[i][k] \in visited /\ toks[counted[i][k]] = "word"
        /\ \A k, l \in 1..Len(counted[i]) : k < l => counted[i][k] < counted[i][l]
        /\ cur \in visited \/ cur = walk

\* Where fill_cmd is: the words it has stored are the ones before cur.
FillInv ==
    /\ pc = "count" => argv[i] = <<>> /\ \A p \in visited : cur <= p
    /\ pc = "fill" =>
        /\ ~InCommand(walk)
        /\ \A k \in 1..Len(counted[i]) :
               k <= Len(argv[i]) <=> counted[i][k] < cur

\* The commands before the one being parsed are full, and there are as many of
\* them as parse_cmds has gone through.
FullInv ==
    /\ pc # "done" => result = "none"
    /\ pc = "start" => i = 1
    /\ pc \in {"one", "count", "fill", "next"} => i <= count
    /\ pc = "end" => i = count + 1 /\ Len(counted) = count
    /\ pc # "done" =>
           \A c \in 1..Len(counted) : c < i => Len(argv[c]) = Len(counted[c])
    /\ pc = "next" => Len(argv[i]) = Len(counted[i])
    /\ ArgvFilled

ParserInv == TypeOK /\ StepInv /\ NoArgvOverrun /\ WalkInv /\ FillInv

---------------------------------------------------------------------------
(* Tokens                                                                  *)

LEMMA TokensTyped ==
    ASSUME toks \in TokenLists
    PROVE  /\ toks \in Seq(TokTypes) /\ Len(toks) \in Nat
           /\ \A p \in 1..Len(toks) :
                 toks[p] \in {"word", "pipe"} \/ IsRedirect(toks[p])
<1>1. TokTypes = {"word", "pipe", "in", "rw", "out", "append", "heredoc"}
  BY DEF TokTypes, TokOrder
<1> QED BY <1>1, ParserAssumption DEF IsRedirect

LEMMA RedirectTyped ==
    ASSUME NEW type, IsRedirect(type)
    PROVE  RedirectType(type) \in {RedirectOrder[t] : t \in DOMAIN RedirectOrder}
<1> DEFINE at(x) == CHOOSE t \in DOMAIN TokOrder : TokOrder[t] = x
<1>1. DOMAIN TokOrder = 1..7 /\ DOMAIN RedirectOrder = 1..5
  BY DEF TokOrder, RedirectOrder
<1>2. \A t \in 1..7 : TokOrder[t] = "in" <=> t = 3
  BY DEF TokOrder
<1>3. at("in") = 3
  BY <1>1, <1>2
<1>4. \E t \in 3..7 : TokOrder[t] = type
  BY DEF IsRedirect, TokOrder
<1>5. at(type) \in 1..7 /\ TokOrder[at(type)] = type
  BY <1>1, <1>4
<1>6. at(type) \in 3..7
  BY <1>5 DEF IsRedirect, TokOrder
<1>7. \A a, b : a \in 3..7 /\ b = 3 => a - b + 1 \in 1..5
  OBVIOUS
<1>8. at(type) - at("in") + 1 \in 1..5
  <2> HIDE DEF at
  <2> QED BY <1>3, <1>6, <1>7
<1> QED BY <1>1, <1>8 DEF RedirectType

\* A stop of either walk is followed by one within the list.
LEMMA SuccTyped ==
    ASSUME toks \in TokenLists, NEW p \in Places, InCommand(p)
    PROVE  Succ(p) \in Places /\ p < Succ(p) /\ p \in 1..Len(toks)
BY TokensTyped DEF Succ, Places, InCommand

---------------------------------------------------------------------------
(* Lists of lists: a new list is begun, or an element put at the end of one *)

LEMMA Rows ==
    ASSUME NEW S, NEW ss \in Seq(Seq(S))
    PROVE  /\ DOMAIN ss = 1..Len(ss) /\ Len(ss) \in Nat
           /\ \A c \in 1..Len(ss) : /\ ss[c] \in Seq(S) /\ Len(ss[c]) \in Nat
                                    /\ \A k \in 1..Len(ss[c]) : ss[c][k] \in S
<1> DEFINE T == Seq(S)
<1>1. /\ ss \in Seq(T) /\ \A s \in T : Len(s) \in Nat /\ \A k \in 1..Len(s) : s[k] \in S
  OBVIOUS
<1> HIDE DEF T
<1>2. DOMAIN ss = 1..Len(ss) /\ Len(ss) \in Nat /\ \A c \in 1..Len(ss) : ss[c] \in T
  BY <1>1
<1> QED BY <1>1, <1>2 DEF T

LEMMA Begun ==
    ASSUME NEW S, NEW ss \in Seq(Seq(S))
    PROVE  /\ Append(ss, <<>>) \in Seq(Seq(S))
           /\ Len(Append(ss, <<>>)) = Len(ss) + 1
           /\ \A c \in 1..Len(ss) : Append(ss, <<>>)[c] = ss[c]
           /\ Append(ss, <<>>)[Len(ss) + 1] = <<>>
<1>1. <<>> \in Seq(S)
  OBVIOUS
<1> DEFINE T == Seq(S)
<1> HIDE DEF T
<1>2. <<>> \in T /\ ss \in Seq(T)
  BY <1>1 DEF T
<1>3. Append(ss, <<>>) \in Seq(T)
  BY <1>2
<1> QED BY <1>2, <1>3 DEF T

LEMMA Extended ==
    ASSUME NEW S, NEW ss \in Seq(Seq(S)), NEW c \in 1..Len(ss), NEW x \in S
    PROVE  LET tt == [ss EXCEPT ![c] = Append(@, x)]
           IN /\ tt \in Seq(Seq(S))
              /\ Len(tt) = Len(ss)
              /\ \A d \in 1..Len(ss) : d # c => tt[d] = ss[d]
              /\ tt[c] = Append(ss[c], x)
              /\ Len(tt[c]) = Len(ss[c]) + 1
              /\ \A k \in 1..Len(ss[c]) : tt[c][k] = ss[c][k]
              /\ tt[c][Len(ss[c]) + 1] = x
<1> DEFINE T == Seq(S)
<1>1. ss[c] \in Seq(S)
  OBVIOUS
<1>2. Append(ss[c], x) \in Seq(S)
  BY <1>1
<1>3. /\ Len(Append(ss[c], x)) = Len(ss[c]) + 1
      /\ \A k \in 1..Len(ss[c]) : Append(ss[c], x)[k] = ss[c][k]
      /\ Append(ss[c], x)[Len(ss[c]) + 1] = x
  BY <1>1
<1> DEFINE new == Append(ss[c], x)
<1>4. [ss EXCEPT ![c] = Append(@, x)] = [ss EXCEPT ![c] = new]
  OBVIOUS
<1>5. new \in T /\ ss \in Seq(T)
  BY <1>2
<1> HIDE DEF T, new
<1>6. /\ [ss EXCEPT ![c] = new] \in Seq(T)
      /\ Len([ss EXCEPT ![c] = new]) = Len(ss)
      /\ \A d \in 1..Len(ss) : d # c => [ss EXCEPT ![c] = new][d] = ss[d]
      /\ [ss EXCEPT ![c] = new][c] = new
  BY <1>5
<1> QED BY <1>3, <1>4, <1>6 DEF T, new

---------------------------------------------------------------------------
(* Types                                                                   *)

LEMMA InitTyped == Init => ParserInv
<1> SUFFICES ASSUME Init PROVE ParserInv
  OBVIOUS
<1>1. Len(toks) \in Nat
  BY TokensTyped DEF Init
<1> QED
  BY <1>1 DEF Init, ParserInv, TypeOK, StepInv, NoArgvOverrun, WalkInv, FillInv, Places

\* Every action keeps the types, and keeps the lists of lists in step.
LEMMA TypesKept ==
    ASSUME TypeOK, StepInv, [Next]_vars
    PROVE  TypeOK' /\ StepInv'
<1> USE DEF TypeOK, StepInv
<1>0. /\ toks \in Seq(TokTypes) /\ Len(toks) \in Nat
      /\ \A p \in 1..Len(toks) : toks[p] \in {"word", "pipe"} \/ IsRedirect(toks[p])
  BY TokensTyped
<1> DEFINE Entry == {RedirectOrder[t] : t \in DOMAIN RedirectOrder} \X Places
<1>1. CASE Start
  <2>1. IsFiniteSet({p \in DOMAIN toks : toks[p] = "pipe"})
    <3>1. IsFiniteSet(1..Len(toks)) /\ DOMAIN toks = 1..Len(toks)
      BY <1>0, FS_Interval
    <3> QED BY <3>1, FS_Subset
  <2>2. count' \in Nat
    BY <1>1, <2>1, FS_CardinalityType DEF Start
  <2> QED BY <1>1, <2>2 DEF Start, Return, out, Places
<1>2. CASE ParseOne
  <2>1. CASE AtPipe(cur)
    BY <1>2, <2>1 DEF ParseOne, Return, input, out, Places
  <2>2. CASE ~AtPipe(cur)
    <3>1. redirs \in Seq(Seq(Entry)) /\ counted \in Seq(Seq(Places)) /\ argv \in Seq(Seq(Places))
      OBVIOUS
    <3>2. /\ counted' \in Seq(Seq(Places)) /\ argv' \in Seq(Seq(Places))
          /\ redirs' \in Seq(Seq(Entry))
          /\ Len(counted') = Len(counted) + 1 /\ Len(argv') = Len(argv) + 1
          /\ Len(redirs') = Len(redirs) + 1
      <4> HIDE DEF Entry, Places
      <4>1. counted' = Append(counted, <<>>) /\ argv' = Append(argv, <<>>) /\ redirs' = Append(redirs, <<>>)
        BY <1>2, <2>2 DEF ParseOne
      <4> QED BY ONLY <3>1, <4>1, Begun
    <3>4. /\ toks' = toks /\ count' = count /\ i' = i /\ cur' = cur /\ walk' = cur
          /\ visited' = {} /\ pc' = "count" /\ result' = result /\ pc = "one"
      BY <1>2, <2>2 DEF ParseOne, input
    <3> HIDE DEF Entry
    <3>5. Places' = Places /\ Entry' = Entry
      BY <3>4 DEF Places, Entry
    <3> QED BY <3>2, <3>4, <3>5 DEF Entry
  <2> QED BY <2>1, <2>2
<1>3. CASE NextCommand
  <2>1. (IF AtPipe(cur) THEN cur + 1 ELSE cur) \in Places
    BY <1>0 DEF AtPipe, Places
  <2> QED BY <1>3, <2>1 DEF NextCommand, Return, input, out, Places
<1>4. CASE Finish
  BY <1>4 DEF Finish, Return, input, out, Places
<1>5. CASE CountArgc
  <2>1. walk + Stride \in Places /\ walk \in DOMAIN toks
    BY <1>0, <1>5 DEF CountArgc, InCommand, Stride, Places
  <2>2. i = Len(counted) /\ i \in DOMAIN counted
    BY <1>5 DEF CountArgc
  <2>3. counted' \in Seq(Seq(Places)) /\ Len(counted') = Len(counted)
    <3>1. CASE toks[walk] = "word"
      BY <1>5, <2>2, <3>1, Extended DEF CountArgc
    <3> QED BY <1>5, <3>1 DEF CountArgc
  <2> QED BY <1>5, <2>1, <2>3 DEF CountArgc, input, out, Places
<1>6. CASE CountDone
  BY <1>6 DEF CountDone, input, out, Places
<1>7. CASE FillWord
  <2>1. cur + 1 \in Places
    BY <1>0, <1>7 DEF FillWord, InCommand, Places
  <2>2. i \in DOMAIN argv
    BY <1>7 DEF FillWord
  <2>3. argv' \in Seq(Seq(Places)) /\ Len(argv') = Len(argv)
    BY <1>7, <2>2, Extended DEF FillWord
  <2> QED BY <1>7, <2>1, <2>3 DEF FillWord, input, Places
<1>8. CASE FillRedirect
  <2>1. CASE HasTarget
    <3>1. /\ redirs' = [redirs EXCEPT ![i] = Append(@, <<RedirectType(toks[cur]), cur + 1>>)]
          /\ cur' = AfterRedirect /\ pc' = pc /\ pc = "fill" /\ result' = result
          /\ toks' = toks /\ count' = count /\ i' = i /\ walk' = walk
          /\ visited' = visited /\ counted' = counted /\ argv' = argv
          /\ InCommand(cur) /\ toks[cur] # "word"
      BY <1>8, <2>1 DEF FillRedirect, input
    <3>2. cur + 1 \in Places /\ cur + 2 \in Places /\ cur \in 1..Len(toks)
      BY <1>0, <2>1 DEF HasTarget, Places
    <3>3. IsRedirect(toks[cur])
      BY <1>0, <3>1, <3>2 DEF InCommand
    <3>4. <<RedirectType(toks[cur]), cur + 1>> \in Entry
      BY <3>2, <3>3, RedirectTyped
    <3> HIDE DEF Entry
    <3>5. redirs \in Seq(Seq(Entry)) /\ i \in DOMAIN redirs
      BY <3>1 DEF Entry
    <3>7. redirs' \in Seq(Seq(Entry)) /\ Len(redirs') = Len(redirs)
      BY <3>1, <3>4, <3>5, Extended
    <3>8. Places' = Places /\ Entry' = Entry
      BY <3>1 DEF Places, Entry
    <3>9. cur' = cur + 2
      BY <3>1, <3>3 DEF AfterRedirect
    <3> QED BY <3>1, <3>2, <3>7, <3>8, <3>9 DEF Entry
  <2>2. CASE ~HasTarget
    BY <1>8, <2>2 DEF FillRedirect, Return, input, Places
  <2> QED BY <2>1, <2>2
<1>9. CASE FillDone
  BY <1>9 DEF FillDone, input, out, Places
<1>10. CASE UNCHANGED vars
  BY <1>10 DEF vars, input, out, Places
<1> QED BY <1>1, <1>2, <1>3, <1>4, <1>5, <1>6, <1>7, <1>8, <1>9, <1>10 DEF Next

---------------------------------------------------------------------------
(* The two walks                                                           *)

LEMMA WalkKept ==
    ASSUME ParserInv, [Next]_vars
    PROVE  NoArgvOverrun' /\ WalkInv' /\ FillInv'
<1> USE DEF ParserInv
<1>0. /\ toks \in Seq(TokTypes) /\ Len(toks) \in Nat
      /\ \A p \in 1..Len(toks) : toks[p] \in {"word", "pipe"} \/ IsRedirect(toks[p])
      /\ \A p \in Places : InCommand(p) => Succ(p) \in Places /\ p < Succ(p) /\ p \in 1..Len(toks)
  BY TokensTyped, SuccTyped DEF TypeOK
<1>00. /\ counted \in Seq(Seq(Places)) /\ argv \in Seq(Seq(Places))
       /\ Len(counted) \in Nat /\ Len(argv) = Len(counted)
       /\ \A c \in 1..Len(counted) : counted[c] \in Seq(Places) /\ argv[c] \in Seq(Places)
       /\ DOMAIN argv = 1..Len(argv)
       /\ \A c \in 1..Len(counted) :
             /\ Len(counted[c]) \in Nat /\ Len(argv[c]) \in Nat
             /\ \A k \in 1..Len(counted[c]) : counted[c][k] \in Nat
  <2>1. /\ counted \in Seq(Seq(Places)) /\ argv \in Seq(Seq(Places))
        /\ Len(argv) = Len(counted) /\ Places \subseteq Nat
    BY <1>0 DEF TypeOK, Places
  <2> HIDE DEF Places, ParserInv
  <2> QED BY ONLY <2>1, Rows
<1>1. CASE Start
  BY <1>1 DEF Start, Return, out, NoArgvOverrun, WalkInv, FillInv
<1>2. CASE ParseOne
  <2>1. CASE AtPipe(cur)
    BY <1>2, <2>1 DEF ParseOne, Return, input, out, NoArgvOverrun, WalkInv, FillInv
  <2>2. CASE ~AtPipe(cur)
    <3>1. /\ counted' = Append(counted, <<>>) /\ argv' = Append(argv, <<>>)
          /\ toks' = toks /\ i' = i /\ cur' = cur /\ walk' = cur
          /\ visited' = {} /\ pc' = "count" /\ pc = "one"
      BY <1>2, <2>2 DEF ParseOne, input
    <3>2. /\ Len(counted') = Len(counted) + 1 /\ Len(argv') = Len(argv) + 1
          /\ \A c \in 1..Len(counted) : counted'[c] = counted[c] /\ argv'[c] = argv[c]
          /\ counted'[Len(counted) + 1] = <<>> /\ argv'[Len(argv) + 1] = <<>>
          /\ DOMAIN argv' = 1..Len(argv') /\ Len(<<>>) = 0
      <4> HIDE DEF Places
      <4>1. argv' \in Seq(Seq(Places))
        BY <1>00, <3>1, Begun
      <4> QED BY <1>00, <3>1, <4>1, Begun, Rows
    <3>3. i = Len(counted) + 1
      BY <3>1 DEF StepInv
    <3>4. NoArgvOverrun'
      <4>1. \A c \in 1..Len(counted) : Len(argv[c]) <= Len(counted[c])
        BY <1>00 DEF NoArgvOverrun
      <4> QED BY ONLY <1>00, <3>2, <4>1 DEF NoArgvOverrun
    <3> QED BY <1>00, <3>1, <3>2, <3>3, <3>4 DEF WalkInv, FillInv
  <2> QED BY <2>1, <2>2
<1>3. CASE NextCommand
  BY <1>3 DEF NextCommand, Return, input, out, NoArgvOverrun, WalkInv, FillInv
<1>4. CASE Finish
  BY <1>4 DEF Finish, Return, input, out, NoArgvOverrun, WalkInv, FillInv
<1>6. CASE CountDone
  <2>1. /\ toks' = toks /\ i' = i /\ cur' = cur /\ walk' = walk /\ visited' = visited
        /\ counted' = counted /\ argv' = argv
        /\ pc = "count" /\ pc' = "fill" /\ ~InCommand(walk)
    BY <1>6 DEF CountDone, input, out
  <2>2. i \in 1..Len(counted) /\ argv[i] = <<>>
    <3>1. i \in Nat \ {0} /\ i = Len(counted) /\ argv[i] = <<>>
      BY <2>1 DEF TypeOK, FillInv
    <3> QED BY ONLY <1>00, <3>1
  <2>3. \A k \in 1..Len(counted[i]) : counted[i][k] \in Nat /\ cur <= counted[i][k]
    BY <1>00, <2>1, <2>2 DEF WalkInv, FillInv, TypeOK, Places
  <2>4. FillInv'
    <3>1. \A k \in 1..Len(counted[i]) : ~(k <= 0) /\ ~(counted[i][k] < cur)
      <4>1. cur \in Nat
        BY <1>0 DEF TypeOK, Places
      <4> DEFINE m == Len(counted[i])
                 word(k) == counted[i][k]
      <4>2. m \in Nat /\ \A k \in 1..m : word(k) \in Nat /\ cur <= word(k)
        BY <1>00, <2>2, <2>3
      <4> HIDE DEF m, word
      <4>3. \A k \in 1..m : ~(k <= 0) /\ ~(word(k) < cur)
        BY ONLY <4>1, <4>2
      <4> QED BY <4>3 DEF m, word
    <3>2. Len(argv'[i']) = 0
      BY <2>1, <2>2
    <3>3. ~InCommand(walk)'
      BY <2>1 DEF InCommand
    <3> QED BY ONLY <2>1, <3>1, <3>2, <3>3 DEF FillInv
  <2> QED BY <2>1, <2>4 DEF NoArgvOverrun, WalkInv, Succ, InCommand
<1>9. CASE FillDone
  BY <1>9 DEF FillDone, input, out, NoArgvOverrun, WalkInv, FillInv
<1>10. CASE UNCHANGED vars
  BY <1>10 DEF vars, input, out, NoArgvOverrun, WalkInv, FillInv, Succ, InCommand
<1>5. CASE CountArgc
  <2>1. /\ toks' = toks /\ i' = i /\ cur' = cur /\ argv' = argv
        /\ pc = "count" /\ pc' = "count" /\ InCommand(walk)
        /\ walk' = Succ(walk) /\ visited' = visited \cup {walk}
    BY <1>5 DEF CountArgc, Stride, Succ, input, out
  <2>2. /\ walk \in Places /\ Succ(walk) \in Places /\ walk < Succ(walk)
        /\ walk \in 1..Len(toks) /\ cur \in Places /\ visited \subseteq 1..Len(toks)
        /\ i \in 1..Len(counted) /\ visited \subseteq Places
    <3>1. /\ walk \in Places /\ cur \in Places /\ visited \subseteq DOMAIN toks
          /\ i \in Nat \ {0} /\ i = Len(counted)
      BY <2>1 DEF TypeOK
    <3>2. Succ(walk) \in Places /\ walk < Succ(walk) /\ walk \in 1..Len(toks)
      BY <1>0, <2>1, <3>1
    <3>3. DOMAIN toks = 1..Len(toks) /\ 1..Len(toks) \subseteq Places
      BY <1>0 DEF Places
    <3>4. i \in 1..Len(counted)
      BY ONLY <1>00, <3>1
    <3> QED BY <3>1, <3>2, <3>3, <3>4
  <2>3. /\ \A p \in visited : InCommand(p) /\ p < Succ(p) /\ Succ(p) <= walk /\ Succ(p) \in Places
        /\ \A p \in visited : Succ(p) \in visited \/ Succ(p) = walk
        /\ \A p, q \in visited : p < q => Succ(p) <= q
        /\ \A p \in visited : toks[p] = "word" => \E k \in 1..Len(counted[i]) : counted[i][k] = p
        /\ \A k \in 1..Len(counted[i]) : counted[i][k] \in visited /\ toks[counted[i][k]] = "word"
        /\ \A k, l \in 1..Len(counted[i]) : k < l => counted[i][k] < counted[i][l]
        /\ cur \in visited \/ cur = walk
        /\ argv[i] = <<>> /\ \A p \in visited : cur <= p
    BY <1>0, <2>1, <2>2 DEF WalkInv, FillInv
  <2>4. /\ counted' \in Seq(Seq(Places)) /\ Len(counted') = Len(counted)
        /\ \A d \in 1..Len(counted) : d # i => counted'[d] = counted[d]
        /\ toks[walk] # "word" => counted'[i] = counted[i]
        /\ toks[walk] = "word" =>
              /\ Len(counted'[i]) = Len(counted[i]) + 1
              /\ \A k \in 1..Len(counted[i]) : counted'[i][k] = counted[i][k]
              /\ counted'[i][Len(counted[i]) + 1] = walk
    <3> HIDE DEF Places
    <3>1. CASE toks[walk] = "word"
      <4>1. counted' = [counted EXCEPT ![i] = Append(@, walk)]
        BY <1>5, <3>1 DEF CountArgc
      <4> QED BY <1>00, <2>2, <3>1, <4>1, Extended
    <3>2. CASE toks[walk] # "word"
      BY <1>00, <1>5, <3>2 DEF CountArgc
    <3> QED BY <3>1, <3>2
  <2>5. Len(counted[i]) \in Nat /\ \A c \in 1..Len(argv) : Len(argv[c]) \in Nat /\ Len(counted[c]) \in Nat
    BY <1>00, <2>2
  <2>6. NoArgvOverrun'
    <3> SUFFICES ASSUME NEW c \in 1..Len(argv) PROVE Len(argv[c]) <= Len(counted'[c])
      BY <1>00, <2>1 DEF NoArgvOverrun
    <3>1. Len(argv[c]) <= Len(counted[c])
      BY <1>00 DEF NoArgvOverrun
    <3>2. Len(counted'[c]) \in {Len(counted[c]), Len(counted[c]) + 1}
      BY <1>00, <2>4
    <3> QED BY ONLY <2>5, <3>1, <3>2
  <2>7. \A p : Succ(p)' = Succ(p) /\ InCommand(p)' = InCommand(p)
    BY <2>1 DEF Succ, InCommand
  <2>8. FillInv'
    BY <2>1, <2>2, <2>3 DEF FillInv, Places
  <2>9. /\ \A p \in visited' : InCommand(p)' /\ Succ(p)' <= walk'
        /\ \A p \in visited' : Succ(p)' \in visited' \/ Succ(p)' = walk'
        /\ \A p, q \in visited' : p < q => Succ(p)' <= q
        /\ cur' \in visited' \/ cur' = walk'
    BY <2>1, <2>2, <2>3, <2>7 DEF Places
  <2>10. CASE toks[walk] = "word"
    <3> DEFINE old == counted[i]
               new == counted'[i]
               n   == Len(counted[i])
    <3>1. /\ \A k \in 1..n : new[k] = old[k]
          /\ new[n + 1] = walk /\ Len(new) = n + 1 /\ n \in Nat
          /\ 1..(n + 1) = 1..n \cup {n + 1}
      BY <2>4, <2>5, <2>10
    <3>2. /\ \A k \in 1..n : old[k] \in visited /\ toks[old[k]] = "word"
          /\ \A k, l \in 1..n : k < l => old[k] < old[l]
          /\ \A p \in visited : toks[p] = "word" => \E k \in 1..n : old[k] = p
      BY <2>3
    <3>3. \A k \in 1..n : old[k] < walk
      <4> SUFFICES ASSUME NEW k \in 1..n PROVE old[k] < walk
        OBVIOUS
      <4> DEFINE p == old[k]
      <4>1. p \in visited
        BY <3>2
      <4> HIDE DEF p
      <4>2. p < Succ(p) /\ Succ(p) <= walk /\ p \in Nat /\ Succ(p) \in Nat /\ walk \in Nat
        BY <4>1, <2>2, <2>3 DEF Places
      <4>3. p < walk
        BY ONLY <4>2
      <4> QED BY <4>3 DEF p
    <3> HIDE DEF old, new, n
    <3>4. \A p \in visited \cup {walk} : toks[p] = "word" => \E k \in 1..(n + 1) : new[k] = p
      BY ONLY <3>1, <3>2
    <3>5. \A k \in 1..(n + 1) : new[k] \in visited \cup {walk} /\ toks[new[k]] = "word"
      BY ONLY <3>1, <3>2, <2>10
    <3>6. \A k, l \in 1..(n + 1) : k < l => new[k] < new[l]
      <4> SUFFICES ASSUME NEW k \in 1..(n + 1), NEW l \in 1..(n + 1), k < l
                   PROVE  new[k] < new[l]
        OBVIOUS
      <4>1. k \in 1..n /\ (l \in 1..n \/ l = n + 1)
        BY ONLY <3>1, k \in 1..(n + 1), l \in 1..(n + 1), k < l
      <4>2. new[k] = old[k] /\ old[k] < walk
        BY <4>1, <3>1, <3>3
      <4>3. CASE l \in 1..n
        BY <4>1, <4>3, <3>1, <3>2
      <4>4. CASE l = n + 1
        BY <4>2, <4>4, <3>1
      <4> QED BY <4>1, <4>3, <4>4
    <3>7. /\ \A p \in visited' : toks'[p] = "word" =>
                 \E k \in 1..Len(counted'[i']) : counted'[i'][k] = p
          /\ \A k \in 1..Len(counted'[i']) :
                 counted'[i'][k] \in visited' /\ toks'[counted'[i'][k]] = "word"
          /\ \A k, l \in 1..Len(counted'[i']) : k < l => counted'[i'][k] < counted'[i'][l]
      BY <2>1, <3>1, <3>4, <3>5, <3>6 DEF new
    <3> QED BY <2>6, <2>8, <2>9, <3>7 DEF WalkInv
  <2>11. CASE toks[walk] # "word"
    BY <2>1, <2>3, <2>4, <2>6, <2>8, <2>9, <2>11 DEF WalkInv
  <2> QED BY <2>10, <2>11
<1>7. CASE FillWord
  <2>1. /\ toks' = toks /\ i' = i /\ walk' = walk /\ visited' = visited /\ counted' = counted
        /\ pc = "fill" /\ pc' = "fill" /\ InCommand(cur) /\ toks[cur] = "word"
        /\ argv' = [argv EXCEPT ![i] = Append(@, cur)] /\ cur' = cur + 1
    BY <1>7 DEF FillWord, input
  <2>2. i \in 1..Len(counted) /\ cur \in Places /\ ~InCommand(walk) /\ cur \in visited
    <3>1. cur \in Places /\ i \in Nat \ {0} /\ i = Len(counted)
      BY <2>1 DEF TypeOK
    <3>2. i \in 1..Len(counted)
      BY ONLY <1>00, <3>1
    <3> QED BY <2>1, <3>1, <3>2 DEF WalkInv, FillInv
  <2>3. PICK j \in 1..Len(counted[i]) : counted[i][j] = cur
    BY <2>1, <2>2 DEF WalkInv
  <2>4. /\ Len(counted[i]) \in Nat /\ Len(argv[i]) \in Nat
        /\ \A k \in 1..Len(counted[i]) : counted[i][k] \in Nat
        /\ \A k, l \in 1..Len(counted[i]) : k < l => counted[i][k] < counted[i][l]
        /\ \A k \in 1..Len(counted[i]) : k <= Len(argv[i]) <=> counted[i][k] < cur
        /\ Len(argv[i]) <= Len(counted[i])
    BY <1>00, <2>1, <2>2 DEF WalkInv, FillInv, Places, NoArgvOverrun
  <2>5. j = Len(argv[i]) + 1
    <3>1. ~(j <= Len(argv[i]))
      BY <2>2, <2>3, <2>4 DEF Places
    <3>2. ASSUME j > Len(argv[i]) + 1 PROVE FALSE
      <4>1. Len(argv[i]) + 1 \in 1..Len(counted[i]) /\ Len(argv[i]) + 1 < j
        BY <2>3, <2>4, <3>2
      <4>2. counted[i][Len(argv[i]) + 1] < cur
        BY <2>3, <2>4, <4>1
      <4> QED BY <2>4, <4>1, <4>2
    <3> QED BY <2>3, <2>4, <3>1, <3>2
  <2>6. /\ argv' \in Seq(Seq(Places)) /\ Len(argv') = Len(argv)
        /\ \A d \in 1..Len(argv) : d # i => argv'[d] = argv[d]
        /\ Len(argv'[i]) = Len(argv[i]) + 1
    <3> HIDE DEF Places
    <3> QED BY <1>00, <2>1, <2>2, Extended
  <2>7. NoArgvOverrun'
    BY <1>00, <2>1, <2>2, <2>4, <2>5, <2>6 DEF NoArgvOverrun
  <2>8. cur + 1 = Succ(cur)
    BY <2>1 DEF Succ, IsRedirect
  <2>9. WalkInv'
    <3>1. cur' \in visited' \/ cur' = walk'
      BY <2>1, <2>2, <2>8 DEF WalkInv
    <3>2. \A p : Succ(p)' = Succ(p) /\ InCommand(p)' = InCommand(p)
      BY <2>1 DEF Succ, InCommand
    <3> QED BY <2>1, <3>1, <3>2 DEF WalkInv
  <2>10. \A k \in 1..Len(counted[i]) : k <= Len(argv[i]) + 1 <=> counted[i][k] < cur + 1
    <3> SUFFICES ASSUME NEW k \in 1..Len(counted[i])
                 PROVE  k <= Len(argv[i]) + 1 <=> counted[i][k] < cur + 1
      OBVIOUS
    <3>1. CASE k < j
      BY <2>2, <2>3, <2>4, <2>5, <3>1 DEF Places
    <3>2. CASE k = j
      BY <2>2, <2>3, <2>4, <2>5, <3>2 DEF Places
    <3>3. CASE k > j
      BY <2>2, <2>3, <2>4, <2>5, <3>3 DEF Places
    <3> QED BY <3>1, <3>2, <3>3, <2>3
  <2>11. FillInv'
    BY <2>1, <2>2, <2>6, <2>10 DEF FillInv, InCommand
  <2> QED BY <2>7, <2>9, <2>11
<1>8. CASE FillRedirect
  <2>1. CASE HasTarget
    <3>1. /\ toks' = toks /\ i' = i /\ walk' = walk /\ visited' = visited
          /\ counted' = counted /\ argv' = argv
          /\ pc = "fill" /\ pc' = "fill" /\ InCommand(cur) /\ toks[cur] # "word"
          /\ cur' = AfterRedirect /\ cur < Len(toks)
      BY <1>8, <2>1 DEF FillRedirect, HasTarget, input
    <3>2. i \in 1..Len(counted) /\ cur \in Places /\ ~InCommand(walk) /\ cur \in visited
      <4>1. cur \in Places /\ i \in Nat \ {0} /\ i = Len(counted)
        BY <3>1 DEF TypeOK
      <4>2. i \in 1..Len(counted)
        BY ONLY <1>00, <4>1
      <4> QED BY <3>1, <4>1, <4>2 DEF WalkInv, FillInv
    <3>3. IsRedirect(toks[cur]) /\ Succ(cur) = cur + 2 /\ cur' = cur + 2
      BY <1>0, <3>1, <3>2 DEF Succ, InCommand, AfterRedirect
    <3>4. \A p : Succ(p)' = Succ(p) /\ InCommand(p)' = InCommand(p)
      BY <3>1 DEF Succ, InCommand
    <3>5. WalkInv'
      <4>1. cur' \in visited' \/ cur' = walk'
        BY <3>1, <3>2, <3>3 DEF WalkInv
      <4> QED BY <3>1, <3>4, <4>1 DEF WalkInv
    <3>6. \A k \in 1..Len(counted[i]) : counted[i][k] < cur + 2 <=> counted[i][k] < cur
      <4> SUFFICES ASSUME NEW k \in 1..Len(counted[i])
                   PROVE  counted[i][k] < cur + 2 <=> counted[i][k] < cur
        OBVIOUS
      <4>1. counted[i][k] \in visited /\ toks[counted[i][k]] = "word" /\ counted[i][k] \in Nat
        BY <1>00, <3>1, <3>2 DEF WalkInv, Places
      <4>2. counted[i][k] # cur
        BY <3>1, <4>1
      <4>3. cur < counted[i][k] => cur + 2 <= counted[i][k]
        BY <3>1, <3>2, <3>3, <4>1 DEF WalkInv
      <4> QED BY <3>2, <4>1, <4>2, <4>3 DEF Places
    <3>7. FillInv'
      BY <3>1, <3>2, <3>3, <3>6 DEF FillInv, InCommand
    <3> QED BY <3>1, <3>5, <3>7 DEF NoArgvOverrun
  <2>2. CASE ~HasTarget
    BY <1>8, <2>2 DEF FillRedirect, Return, input, NoArgvOverrun, WalkInv, FillInv
  <2> QED BY <2>1, <2>2
<1> QED BY <1>1, <1>2, <1>3, <1>4, <1>5, <1>6, <1>7, <1>8, <1>9, <1>10 DEF Next

---------------------------------------------------------------------------
(* What fill_cmd has filled when it is through                             *)

\* fill_cmd ends where count_argc ended, past every word that was counted.
LEMMA FillEnds ==
    ASSUME ParserInv, FillDone
    PROVE  Len(argv[i]) = Len(counted[i]) /\ i \in 1..Len(counted)
<1>1. pc = "fill" /\ ~InCommand(cur)
  BY DEF FillDone
<1>2. /\ i \in 1..Len(counted) /\ DOMAIN argv = 1..Len(counted)
      /\ Len(counted[i]) \in Nat /\ Len(argv[i]) \in Nat /\ walk \in Nat
      /\ \A p \in visited : p \in Nat /\ p < Succ(p) /\ Succ(p) \in Nat
  <2>1. /\ counted \in Seq(Seq(Places)) /\ argv \in Seq(Seq(Places)) /\ Len(argv) = Len(counted)
        /\ i \in Nat \ {0} /\ i = Len(counted) /\ walk \in Places /\ visited \subseteq Places
        /\ Places \subseteq Nat
    BY <1>1, TokensTyped DEF ParserInv, TypeOK, Places
  <2>2. /\ DOMAIN argv = 1..Len(argv) /\ i \in 1..Len(counted)
        /\ Len(counted[i]) \in Nat /\ Len(argv[i]) \in Nat
    <3> HIDE DEF Places
    <3>1. i \in 1..Len(counted)
      BY ONLY <2>1
    <3> QED BY ONLY <2>1, <3>1, Rows
  <2>3. \A p \in visited : Succ(p) \in Places /\ p < Succ(p)
    BY <1>1, <2>1, SuccTyped DEF ParserInv, TypeOK, WalkInv
  <2> QED BY ONLY <2>1, <2>2, <2>3
<1>3. cur = walk
  BY <1>1 DEF ParserInv, WalkInv
<1>4. \A k \in 1..Len(counted[i]) : k <= Len(argv[i])
  <2> SUFFICES ASSUME NEW k \in 1..Len(counted[i]) PROVE k <= Len(argv[i])
    OBVIOUS
  <2> DEFINE p == counted[i][k]
  <2>1. p \in visited /\ Succ(p) <= walk /\ (k <= Len(argv[i]) <=> p < cur)
    BY <1>1 DEF ParserInv, WalkInv, FillInv
  <2> HIDE DEF p
  <2> QED BY ONLY <1>2, <1>3, <2>1
<1>5. Len(argv[i]) <= Len(counted[i])
  BY <1>2 DEF ParserInv, NoArgvOverrun
<1> DEFINE n == Len(counted[i])
           m == Len(argv[i])
<1>6. n \in Nat /\ m \in Nat /\ m <= n /\ \A k \in 1..n : k <= m
  BY <1>2, <1>4, <1>5
<1> HIDE DEF n, m
<1>7. m = n
  <2>1. n = 0 \/ n \in 1..n
    BY ONLY <1>6
  <2> QED BY ONLY <1>6, <2>1
<1> QED BY <1>2, <1>7 DEF n, m

LEMMA FullKept ==
    ASSUME ParserInv, FullInv, [Next]_vars, TypeOK'
    PROVE  FullInv'
<1>a. /\ \A a, b \in Nat : a <= b /\ a # b => a + 1 <= b
      /\ \A a, b \in Nat : 1..a = 1..b => a = b
      /\ \A a \in Nat : \A b \in 1..a : b < a \/ b = a
      /\ \A a, b \in Nat : a < b => a # b
  OBVIOUS
<1>0. /\ count \in Nat /\ count' \in Nat /\ i \in Nat \ {0} /\ Len(counted) \in Nat
      /\ Len(argv) = Len(counted) /\ DOMAIN argv = 1..Len(counted)
      /\ pc \in {"count", "fill", "next"} => i = Len(counted)
      /\ pc \in {"start", "one"} => i = Len(counted) + 1
  <2>1. counted \in Seq(Seq(Places)) /\ argv \in Seq(Seq(Places)) /\ Len(argv) = Len(counted)
    BY DEF ParserInv, TypeOK
  <2>2. Len(counted) \in Nat /\ DOMAIN argv = 1..Len(argv)
    <3> HIDE DEF Places
    <3> QED BY ONLY <2>1, Rows
  <2> QED BY <2>1, <2>2 DEF ParserInv, TypeOK, StepInv
<1>1. CASE Start
  <2>1. /\ count' >= 1 /\ i' = i /\ counted' = counted /\ argv' = argv
        /\ pc = "start" /\ i = 1 /\ Len(counted) = 0
        /\ \/ pc' = "done" /\ result' \in {"empty", "error"}
           \/ pc' = "one" /\ result' = result
    <3>1. /\ pc = "start" /\ i' = i /\ counted' = counted /\ argv' = argv
          /\ count' = 1 + Cardinality({p \in DOMAIN toks : toks[p] = "pipe"})
          /\ \/ pc' = "done" /\ result' \in {"empty", "error"}
             \/ pc' = "one" /\ result' = result
      BY <1>1 DEF Start, Return, out
    <3>2. i = 1
      BY <3>1 DEF FullInv
    <3>3. Cardinality({p \in DOMAIN toks : toks[p] = "pipe"}) \in Nat
      <4>1. IsFiniteSet(1..Len(toks)) /\ DOMAIN toks = 1..Len(toks)
        BY TokensTyped, FS_Interval DEF ParserInv, TypeOK
      <4> QED BY <4>1, FS_Subset, FS_CardinalityType
    <3> QED BY <1>0, <3>1, <3>2, <3>3
  <2> QED BY <1>0, <2>1 DEF FullInv, ArgvFilled
<1>2. CASE ParseOne
  <2>1. CASE AtPipe(cur)
    BY <1>2, <2>1 DEF ParseOne, Return, input, out, FullInv, ArgvFilled
  <2>2. CASE ~AtPipe(cur)
    <3>1. /\ counted' = Append(counted, <<>>) /\ argv' = Append(argv, <<>>)
          /\ i' = i /\ pc' = "count" /\ pc = "one" /\ result' = result /\ count' = count
      BY <1>2, <2>2 DEF ParseOne, input
    <3>2. /\ Len(counted') = Len(counted) + 1
          /\ \A c \in 1..Len(counted) : counted'[c] = counted[c] /\ argv'[c] = argv[c]
      <4>1. counted \in Seq(Seq(Places)) /\ argv \in Seq(Seq(Places)) /\ Len(argv) = Len(counted)
        BY DEF ParserInv, TypeOK
      <4> HIDE DEF Places
      <4> QED BY ONLY <3>1, <4>1, Begun
    <3>3. \A c \in 1..Len(counted') : c < i' => c \in 1..Len(counted)
      BY <1>0, <3>1, <3>2
    <3> QED BY <1>0, <3>1, <3>2, <3>3 DEF FullInv, ArgvFilled
  <2> QED BY <2>1, <2>2
<1>3. CASE NextCommand
  <2>1. /\ pc = "next" /\ counted' = counted /\ argv' = argv /\ count' = count
        /\ \/ pc' = "done" /\ result' = "error"
           \/ i' = i + 1 /\ pc' = "one" /\ i # count /\ result' = result
           \/ i' = i + 1 /\ pc' = "end" /\ i = count /\ result' = result
    BY <1>3 DEF NextCommand, Return, input, out
  <2>2. /\ i <= count /\ Len(argv[i]) = Len(counted[i]) /\ i = Len(counted) /\ result = "none"
        /\ \A c \in 1..Len(counted) : c < i => Len(argv[c]) = Len(counted[c])
    BY <1>0, <2>1 DEF FullInv
  <2>3. \A c \in 1..Len(counted) : Len(argv[c]) = Len(counted[c])
    <3> SUFFICES ASSUME NEW c \in 1..Len(counted) PROVE Len(argv[c]) = Len(counted[c])
      OBVIOUS
    <3>1. c < i \/ c = i
      BY ONLY <1>0, <1>a, <2>2, c \in 1..Len(counted)
    <3> QED BY <2>2, <3>1
  <2>4. CASE pc' = "done"
    BY <2>1, <2>4 DEF FullInv, ArgvFilled
  <2>5. CASE pc' # "done"
    <3>1. /\ i' = i + 1 /\ result' = "none"
          /\ \/ pc' = "one" /\ i # count
             \/ pc' = "end" /\ i = count
      BY <2>1, <2>2, <2>5
    <3>2. pc' = "one" => i' <= count'
      <4>1. ASSUME i # count PROVE i + 1 <= count
        BY ONLY <1>0, <1>a, <2>2, <4>1
      <4> QED BY <2>1, <3>1, <4>1
    <3>3. pc' = "end" => i' = count' + 1 /\ Len(counted') = count'
      BY <2>1, <2>2, <3>1
    <3>4. \A c \in 1..Len(counted') : Len(argv'[c]) = Len(counted'[c])
      BY <2>1, <2>3
    <3> QED BY ONLY <3>1, <3>2, <3>3, <3>4 DEF FullInv, ArgvFilled
  <2> QED BY <2>4, <2>5
<1>4. CASE Finish
  <2>1. /\ pc = "end" /\ pc' = "done" /\ counted' = counted /\ argv' = argv /\ count' = count
        /\ i = count + 1 /\ Len(counted) = count
        /\ \A c \in 1..Len(counted) : c < i => Len(argv[c]) = Len(counted[c])
    BY <1>4 DEF Finish, Return, input, out, FullInv
  <2> QED BY <1>0, <2>1 DEF FullInv, ArgvFilled
<1>5. CASE CountArgc
  <2>1. /\ pc = "count" /\ pc' = pc /\ i' = i /\ argv' = argv /\ result' = result /\ count' = count
        /\ counted' = counted \/ counted' = [counted EXCEPT ![i] = Append(@, walk)]
    BY <1>5 DEF CountArgc, input, out
  <2>2. Len(counted') = Len(counted) /\ \A c \in 1..Len(counted) : c < i => counted'[c] = counted[c]
    <3>1. counted \in Seq(Seq(Places))
      BY DEF ParserInv, TypeOK
    <3>2. CASE counted' = counted
      BY <3>2
    <3>3. CASE counted' = [counted EXCEPT ![i] = Append(@, walk)]
      <4>1. DOMAIN counted = 1..Len(counted)
        <5> HIDE DEF Places
        <5> QED BY ONLY <3>1, Rows
      <4>2. \A c \in DOMAIN counted : c # i => counted'[c] = counted[c]
        BY <3>3
      <4>3. DOMAIN counted' = DOMAIN counted /\ counted' \in Seq(Seq(Places'))
        BY <3>3 DEF TypeOK
      <4>4. DOMAIN counted' = 1..Len(counted') /\ Len(counted') \in Nat
        <5> DEFINE S == Places'
        <5>1. counted' \in Seq(Seq(S))
          BY <4>3
        <5> HIDE DEF S
        <5> QED BY ONLY <5>1, Rows
      <4>5. Len(counted') = Len(counted)
        BY ONLY <1>0, <1>a, <4>1, <4>3, <4>4
      <4>6. \A c \in 1..Len(counted) : c \in Nat
        OBVIOUS
      <4>7. \A c \in 1..Len(counted) : c < i => c # i
        BY ONLY <1>0, <1>a, <4>6
      <4> QED BY ONLY <4>1, <4>2, <4>5, <4>7
    <3> QED BY <2>1, <3>2, <3>3
  <2> QED BY <1>0, <2>1, <2>2 DEF FullInv, ArgvFilled
<1>6. CASE CountDone
  BY <1>6 DEF CountDone, input, out, FullInv, ArgvFilled
<1>7. CASE FillWord
  <2>1. /\ pc = "fill" /\ pc' = pc /\ i' = i /\ counted' = counted /\ result' = result /\ count' = count
        /\ argv' = [argv EXCEPT ![i] = Append(@, cur)]
    BY <1>7 DEF FillWord, input
  <2>2. \A c \in 1..Len(counted) : c < i => argv'[c] = argv[c]
    BY <1>0, <2>1
  <2> QED BY <1>0, <2>1, <2>2 DEF FullInv, ArgvFilled
<1>8. CASE FillRedirect
  <2>1. /\ pc = "fill" /\ i' = i /\ counted' = counted /\ argv' = argv /\ count' = count
        /\ \/ pc' = pc /\ result' = result
           \/ pc' = "done" /\ result' = "error"
    BY <1>8 DEF FillRedirect, Return, input
  <2> QED BY <2>1 DEF FullInv, ArgvFilled
<1>9. CASE FillDone
  <2>1. /\ pc = "fill" /\ pc' = "next" /\ i' = i /\ counted' = counted /\ argv' = argv
        /\ result' = result /\ count' = count
    BY <1>9 DEF FillDone, input, out
  <2> QED BY <1>9, <2>1, FillEnds DEF FullInv, ArgvFilled
<1>10. CASE UNCHANGED vars
  BY <1>10 DEF vars, input, out, FullInv, ArgvFilled
<1> QED BY <1>1, <1>2, <1>3, <1>4, <1>5, <1>6, <1>7, <1>8, <1>9, <1>10 DEF Next

---------------------------------------------------------------------------
(* The grammar                                                             *)

Parsing == pc \in {"one", "count", "fill", "next"}

\* The token at p is where the grammar has one.
WellPlaced(p) ==
    /\ toks[p] = "pipe" => p > 1 /\ p < Len(toks) /\ toks[p + 1] # "pipe"
    /\ toks[p] \notin {"word", "pipe"} => p < Len(toks) /\ toks[p + 1] = "word"

\* What each of the parser's checks has made sure of when cur is where it is.
\* A pipe is checked when the token after it is seen to begin a command.
GrammarInv ==
    /\ pc = "start" => cur = 1
    /\ pc \notin {"start", "done"} =>
           /\ Len(toks) >= 1 /\ toks[1] # "pipe"
           /\ count = 1 + PipesBefore(Len(toks) + 1)
           /\ ~(pc = "one" /\ AtPipe(cur)) => \A p \in 1..(cur - 1) : WellPlaced(p)
    /\ Parsing => PipesBefore(cur) = i - 1 /\ ~IsTarget(cur)
    /\ pc = "one" => cur <= Len(toks) /\ (cur = 1 \/ toks[cur - 1] = "pipe")
    /\ pc = "next" => ~InCommand(cur)
    /\ pc = "end" \/ result = "ok" => cur = Len(toks) + 1
    /\ AcceptsGrammar

LEMMA ListIs ==
    ASSUME toks \in TokenLists
    PROVE  /\ Len(toks) \in Nat /\ DOMAIN toks = 1..Len(toks)
           /\ toks = <<>> <=> Len(toks) = 0
           /\ \A p \in 1..Len(toks) :
                 toks[p] \in {"word", "pipe"} \/ IsRedirect(toks[p])
<1>1. toks \in Seq(TokTypes)
  BY TokensTyped
<1> HIDE DEF TokTypes
<1>2. toks = <<>> <=> Len(toks) = 0
  BY <1>1
<1> QED BY <1>1, <1>2, TokensTyped

LEMMA GrammaticalIs ==
    ASSUME toks \in TokenLists
    PROVE  Grammatical <=> Len(toks) # 0 /\ \A p \in 1..Len(toks) : WellPlaced(p)
  BY ListIs DEF Grammatical, WellPlaced

\* The pipes are counted one by one, in any part of the list.
LEMMA PipesNext ==
    ASSUME toks \in TokenLists
    PROVE  /\ PipesBefore(1) = 0
           /\ \A p \in 1..Len(toks) :
                 /\ PipesBefore(p) \in Nat
                 /\ PipesBefore(p + 1) = PipesBefore(p) + (IF toks[p] = "pipe" THEN 1 ELSE 0)
<1> DEFINE P(p) == {b \in 1..(p - 1) : toks[b] = "pipe"}
<1>1. \A p \in Nat : IsFiniteSet(P(p)) /\ Cardinality(P(p)) \in Nat
  <2>1. \A p \in Nat : IsFiniteSet(1..(p - 1))
    BY FS_Interval
  <2> QED BY <2>1, FS_Subset, FS_CardinalityType
<1>2. PipesBefore(1) = 0
  <2>1. P(1) = {}
    OBVIOUS
  <2> HIDE DEF P
  <2>2. Cardinality(P(1)) = 0
    BY <2>1, FS_EmptySet
  <2> QED BY <2>2 DEF PipesBefore, P
<1>3. ASSUME NEW p \in 1..Len(toks)
      PROVE  /\ PipesBefore(p) \in Nat
             /\ PipesBefore(p + 1) = PipesBefore(p) + (IF toks[p] = "pipe" THEN 1 ELSE 0)
  <2>0. p \in Nat /\ p + 1 \in Nat
    BY ListIs
  <2>1. P(p + 1) = IF toks[p] = "pipe" THEN P(p) \cup {p} ELSE P(p)
    <3>1. 1..((p + 1) - 1) = 1..(p - 1) \cup {p}
      BY ListIs
    <3> QED BY <3>1
  <2>2. p \notin P(p)
    BY <2>0
  <2> HIDE DEF P
  <2>3. Cardinality(P(p) \cup {p}) = Cardinality(P(p)) + 1
    BY <1>1, <2>0, <2>2, FS_AddElement
  <2>4. Cardinality(P(p + 1)) = Cardinality(P(p)) + (IF toks[p] = "pipe" THEN 1 ELSE 0)
    <3>1. CASE toks[p] = "pipe"
      BY <2>1, <2>3, <3>1
    <3>2. CASE toks[p] # "pipe"
      <4>1. P(p + 1) = P(p) /\ Cardinality(P(p)) \in Nat
        BY <1>1, <2>0, <2>1, <3>2
      <4> DEFINE m == Cardinality(P(p))
      <4> HIDE DEF m
      <4>2. Cardinality(P(p + 1)) = m /\ m \in Nat
        BY <4>1 DEF m
      <4>3. m = m + 0
        BY <4>2
      <4> QED BY <3>2, <4>2, <4>3 DEF m
    <3> QED BY <3>1, <3>2
  <2>5. Cardinality(P(p)) \in Nat
    BY <1>1, <2>0
  <2> QED BY <2>4, <2>5 DEF PipesBefore, P
<1> QED BY <1>2, <1>3

\* As many pipes stand before a place as before one after it, or fewer.
LEMMA PipesGrow ==
    ASSUME toks \in TokenLists, NEW p \in Places, NEW q \in Places, p <= q
    PROVE  PipesBefore(p) \in Nat /\ PipesBefore(q) \in Nat /\ PipesBefore(p) <= PipesBefore(q)
<1> DEFINE P(n) == {b \in 1..(n - 1) : toks[b] = "pipe"}
<1>1. p \in Nat /\ q \in Nat
  BY ListIs DEF Places
<1>2. IsFiniteSet(P(q)) /\ P(p) \subseteq P(q)
  <2>1. IsFiniteSet(1..(q - 1))
    BY <1>1, FS_Interval
  <2>2. IsFiniteSet(P(q))
    BY <2>1, FS_Subset
  <2> QED BY <1>1, <2>2
<1> HIDE DEF P
<1>3. /\ Cardinality(P(p)) \in Nat /\ Cardinality(P(q)) \in Nat
      /\ Cardinality(P(p)) <= Cardinality(P(q))
  BY <1>2, FS_Subset, FS_CardinalityType
<1> QED BY <1>3 DEF PipesBefore, P

\* The step of every action.
LEMMA GrammarKept ==
    ASSUME ParserInv, FullInv, GrammarInv, [Next]_vars
    PROVE  GrammarInv'
<1>0. /\ toks \in TokenLists /\ Len(toks) \in Nat /\ DOMAIN toks = 1..Len(toks)
      /\ toks = <<>> <=> Len(toks) = 0
      /\ \A p \in 1..Len(toks) : toks[p] \in {"word", "pipe"} \/ IsRedirect(toks[p])
      /\ cur \in Places /\ cur \in Nat \ {0} /\ cur <= Len(toks) + 1
      /\ i \in Nat \ {0} /\ count \in Nat
  BY ListIs DEF ParserInv, TypeOK, Places
<1>g. Grammatical <=> Len(toks) # 0 /\ \A p \in 1..Len(toks) : WellPlaced(p)
  BY <1>0, GrammaticalIs
<1>p. /\ PipesBefore(1) = 0
      /\ \A p \in 1..Len(toks) :
            /\ PipesBefore(p) \in Nat
            /\ PipesBefore(p + 1) = PipesBefore(p) + (IF toks[p] = "pipe" THEN 1 ELSE 0)
  BY <1>0, PipesNext
<1>r. pc # "done" => result = "none"
  BY DEF FullInv
<1>s. ASSUME toks' = toks, cur' = cur
      PROVE  /\ \A p : /\ WellPlaced(p)' = WellPlaced(p) /\ PipesBefore(p)' = PipesBefore(p)
                       /\ IsTarget(p)' = IsTarget(p) /\ AtPipe(p)' = AtPipe(p)
                       /\ InCommand(p)' = InCommand(p)
             /\ Grammatical' = Grammatical
  BY <1>s DEF WellPlaced, PipesBefore, IsTarget, AtPipe, InCommand, Grammatical
\* fill_cmd goes over tokens that are well placed, the last of them a word.
<1>f. ASSUME pc = "fill", pc' = pc, toks' = toks, count' = count, i' = i, result' = result,
             cur' \in 1..(Len(toks) + 1), PipesBefore(cur') = PipesBefore(cur),
             cur' - 1 >= 1, toks'[cur' - 1] = "word",
             \A p \in 1..(cur' - 1) : p \in 1..(cur - 1) \/ WellPlaced(p)
      PROVE  GrammarInv'
  <2>1. /\ \A p : WellPlaced(p)' <=> WellPlaced(p)
        /\ PipesBefore(cur)' = PipesBefore(cur')
        /\ PipesBefore(Len(toks) + 1)' = PipesBefore(Len(toks) + 1)
    BY <1>f DEF WellPlaced, PipesBefore
  <2>2. ~IsTarget(cur)'
    BY <1>f DEF IsTarget
  <2>3. \A p \in 1..(cur' - 1) : WellPlaced(p)'
    <3>1. \A p \in 1..(cur - 1) : WellPlaced(p)
      BY <1>f DEF GrammarInv
    <3> QED BY <1>f, <2>1, <3>1
  <2>4. PipesBefore(cur)' = i' - 1 /\ count' = 1 + PipesBefore(Len(toks) + 1)'
    BY <1>f, <2>1 DEF GrammarInv, Parsing
  <2> QED BY <1>f, <1>r, <2>2, <2>3, <2>4 DEF GrammarInv, Parsing, AcceptsGrammar
<1>1. CASE Start
  <2>1. /\ pc = "start" /\ toks' = toks /\ cur' = cur /\ i' = i /\ i = 1 /\ cur = 1
        /\ count' = 1 + Cardinality({p \in DOMAIN toks : toks[p] = "pipe"})
        /\ \/ Len(toks) = 0 /\ pc' = "done" /\ result' = "empty"
           \/ Len(toks) # 0 /\ AtPipe(1) /\ pc' = "done" /\ result' = "error"
           \/ Len(toks) # 0 /\ ~AtPipe(1) /\ pc' = "one" /\ result' = result
    BY <1>0, <1>1 DEF Start, Return, FullInv, GrammarInv
  <2>2. count' = 1 + PipesBefore(Len(toks) + 1)
    <3>1. DOMAIN toks = 1..((Len(toks) + 1) - 1)
      BY <1>0
    <3> QED BY <2>1, <3>1 DEF PipesBefore
  <2>3. AcceptsGrammar'
    <3>1. CASE Len(toks) = 0
      <4>1. toks' = <<>> /\ pc' = "done" /\ result' = "empty"
        BY <1>0, <2>1, <3>1
      <4> QED BY ONLY <4>1 DEF AcceptsGrammar, Grammatical
    <3>2. CASE Len(toks) # 0 /\ AtPipe(1)
      <4>1. ~WellPlaced(1) /\ 1 \in 1..Len(toks)
        BY <1>0, <3>2 DEF WellPlaced, AtPipe
      <4> QED BY <1>0, <1>g, <1>s, <2>1, <3>2, <4>1 DEF AcceptsGrammar
    <3>3. CASE Len(toks) # 0 /\ ~AtPipe(1)
      BY <2>1, <3>3 DEF AcceptsGrammar
    <3> QED BY <3>1, <3>2, <3>3
  <2>4. result' # "ok"
    BY <1>r, <2>1
  <2>5. pc' = "one" => Len(toks) >= 1 /\ toks[1] # "pipe" /\ ~AtPipe(1) /\ ~IsTarget(1)
    BY <1>0, <2>1 DEF AtPipe, IsTarget
  <2>6. /\ PipesBefore(Len(toks) + 1)' = PipesBefore(Len(toks) + 1)
        /\ PipesBefore(cur)' = 0 /\ IsTarget(cur)' = IsTarget(1) /\ AtPipe(cur)' = AtPipe(1)
    BY <1>p, <1>s, <2>1 DEF PipesBefore
  <2>7. CASE pc' = "done"
    BY <2>1, <2>3, <2>4, <2>7 DEF GrammarInv, Parsing
  <2>8. CASE pc' = "one"
    <3>1. cur' = 1 /\ i' = 1 /\ toks' = toks /\ \A p \in 1..(cur' - 1) : FALSE
      BY <2>1
    <3> QED BY <2>1, <2>2, <2>3, <2>4, <2>5, <2>6, <2>8, <3>1 DEF GrammarInv, Parsing
  <2> QED BY <2>1, <2>7, <2>8
<1>2. CASE ParseOne
  <2>1. /\ pc = "one" /\ toks' = toks /\ cur' = cur /\ i' = i /\ count' = count
        /\ \/ AtPipe(cur) /\ pc' = "done" /\ result' = "error"
           \/ ~AtPipe(cur) /\ pc' = "count" /\ result' = result
    BY <1>2 DEF ParseOne, Return, input
  <2>2. CASE AtPipe(cur)
    <3>1. cur # 1 /\ toks[cur - 1] = "pipe" /\ toks[cur] = "pipe" /\ cur <= Len(toks)
      BY <2>1, <2>2 DEF GrammarInv, AtPipe
    <3>2. cur - 1 \in 1..Len(toks) /\ (cur - 1) + 1 = cur
      BY <1>0, <3>1
    <3>3. ~WellPlaced(cur - 1)
      BY <3>1, <3>2 DEF WellPlaced
    <3>4. AcceptsGrammar'
      BY <1>0, <1>g, <1>s, <2>1, <2>2, <3>1, <3>2, <3>3 DEF AcceptsGrammar
    <3> QED BY <2>1, <2>2, <3>4 DEF GrammarInv, Parsing
  <2>3. CASE ~AtPipe(cur)
    BY <1>r, <1>s, <2>1, <2>3 DEF GrammarInv, Parsing, AcceptsGrammar
  <2> QED BY <2>2, <2>3
<1>3. CASE NextCommand
  <2>1. /\ pc = "next" /\ toks' = toks /\ count' = count
        /\ cur' = IF AtPipe(cur) THEN cur + 1 ELSE cur
        /\ \/ i < count /\ cur' > Len(toks) /\ pc' = "done" /\ result' = "error"
           \/ /\ ~(i < count /\ cur' > Len(toks))
              /\ i' = i + 1 /\ pc' = (IF i = count THEN "end" ELSE "one") /\ result' = result
    BY <1>3 DEF NextCommand, Return, input
  <2>2. /\ Len(toks) >= 1 /\ toks[1] # "pipe" /\ count = 1 + PipesBefore(Len(toks) + 1)
        /\ \A p \in 1..(cur - 1) : WellPlaced(p)
        /\ PipesBefore(cur) = i - 1 /\ ~InCommand(cur) /\ i <= count
    BY <2>1 DEF GrammarInv, Parsing, FullInv
  <2>3. CASE AtPipe(cur)
    <3>1. cur \in 1..Len(toks) /\ cur # 1 /\ toks[cur] = "pipe" /\ cur' = cur + 1
      BY <1>0, <2>1, <2>2, <2>3 DEF AtPipe
    <3>2. PipesBefore(cur + 1) = i
      <4>1. PipesBefore(cur + 1) = PipesBefore(cur) + 1
        BY <1>p, <3>1
      <4> QED BY <1>0, <2>2, <4>1
    <3>3. PipesBefore(cur + 1) <= PipesBefore(Len(toks) + 1) /\ PipesBefore(Len(toks) + 1) \in Nat
      <4>1. cur + 1 \in Places /\ Len(toks) + 1 \in Places /\ cur + 1 <= Len(toks) + 1
        BY <1>0, <3>1 DEF Places
      <4> QED BY <1>0, <4>1, PipesGrow
    <3>4. i < count
      BY <1>0, <2>2, <3>2, <3>3
    <3>5. CASE cur + 1 > Len(toks)
      <4>1. ~WellPlaced(cur)
        BY <1>0, <3>1, <3>5 DEF WellPlaced
      <4>2. pc' = "done" /\ result' = "error"
        BY <2>1, <3>1, <3>4, <3>5
      <4>3. ~Grammatical'
        BY <1>g, <2>1, <3>1, <4>1 DEF Grammatical
      <4>4. AcceptsGrammar'
        BY <1>0, <2>1, <2>2, <4>2, <4>3 DEF AcceptsGrammar
      <4> QED BY <4>2, <4>4 DEF GrammarInv, Parsing
    <3>6. CASE cur + 1 <= Len(toks)
      <4>1. pc' = "one" /\ i' = i + 1 /\ result' = "none"
        BY <1>0, <1>r, <2>1, <3>1, <3>4, <3>6
      <4>2. ~AtPipe(cur + 1) => WellPlaced(cur)
        BY <1>0, <3>1, <3>6 DEF WellPlaced, AtPipe
      <4>3. \A p \in 1..((cur + 1) - 1) : p \in 1..(cur - 1) \/ p = cur
        BY <1>0
      <4>4. ~(pc' = "one" /\ AtPipe(cur)') => \A p \in 1..(cur' - 1) : WellPlaced(p)'
        BY <2>1, <2>2, <3>1, <4>1, <4>2, <4>3 DEF AtPipe, WellPlaced
      <4>5. ~IsTarget(cur)'
        BY <1>0, <2>1, <3>1 DEF IsTarget
      <4>6. PipesBefore(cur)' = i' - 1 /\ count' = 1 + PipesBefore(Len(toks) + 1)'
        <5>1. /\ PipesBefore(cur)' = PipesBefore(cur + 1)
              /\ PipesBefore(Len(toks) + 1)' = PipesBefore(Len(toks) + 1)
          BY <2>1, <3>1 DEF PipesBefore
        <5> QED BY <1>0, <2>1, <2>2, <3>2, <4>1, <5>1
      <4>7. cur' <= Len(toks') /\ toks'[cur' - 1] = "pipe"
        BY <1>0, <2>1, <3>1, <3>6
      <4> QED BY <2>1, <2>2, <4>1, <4>4, <4>5, <4>6, <4>7 DEF GrammarInv, Parsing, AcceptsGrammar
    <3> QED BY <1>0, <3>5, <3>6
  <2>4. CASE ~AtPipe(cur)
    <3>1. cur = Len(toks) + 1 /\ cur' = cur
      BY <1>0, <2>1, <2>2, <2>4 DEF AtPipe, InCommand
    <3>2. i = count
      BY <1>0, <2>2, <3>1
    <3>3. pc' = "end" /\ result' = "none"
      BY <1>0, <1>r, <2>1, <3>2
    <3> QED BY <1>s, <2>1, <2>2, <3>1, <3>3 DEF GrammarInv, Parsing, AcceptsGrammar
  <2> QED BY <2>3, <2>4
<1>4. CASE Finish
  <2>1. /\ pc = "end" /\ toks' = toks /\ cur' = cur /\ count' = count /\ i' = i /\ pc' = "done"
        /\ result' = IF cur <= Len(toks) THEN "error" ELSE "ok"
    BY <1>4 DEF Finish, Return, input
  <2>2. cur = Len(toks) + 1 /\ Len(toks) >= 1 /\ \A p \in 1..(cur - 1) : WellPlaced(p)
    BY <2>1 DEF GrammarInv
  <2>3. Grammatical /\ result' = "ok"
    BY <1>0, <1>g, <2>1, <2>2
  <2> QED BY <1>0, <1>s, <2>1, <2>2, <2>3 DEF GrammarInv, Parsing, AcceptsGrammar
<1>5. CASE CountArgc
  <2>1. /\ pc = "count" /\ pc' = pc /\ toks' = toks /\ cur' = cur /\ count' = count /\ i' = i
        /\ result' = result
    BY <1>5 DEF CountArgc, input
  <2> QED BY <1>r, <1>s, <2>1 DEF GrammarInv, Parsing, AcceptsGrammar
<1>6. CASE CountDone
  <2>1. /\ pc = "count" /\ pc' = "fill" /\ toks' = toks /\ cur' = cur /\ count' = count /\ i' = i
        /\ result' = result
    BY <1>6 DEF CountDone, input
  <2> QED BY <1>r, <1>s, <2>1 DEF GrammarInv, Parsing, AcceptsGrammar
<1>7. CASE FillWord
  <2>1. /\ pc = "fill" /\ pc' = pc /\ toks' = toks /\ cur' = cur + 1 /\ count' = count /\ i' = i
        /\ result' = result /\ cur <= Len(toks) /\ toks[cur] = "word"
    BY <1>7 DEF FillWord, input, InCommand
  <2>2. cur \in 1..Len(toks) /\ toks'[(cur + 1) - 1] = "word" /\ WellPlaced(cur)
    BY <1>0, <2>1 DEF WellPlaced
  <2>3. PipesBefore(cur + 1) = PipesBefore(cur)
    BY <1>p, <2>1, <2>2
  <2> QED BY <1>f, <2>1, <2>2, <2>3
<1>8. CASE FillRedirect
  <2>1. /\ pc = "fill" /\ toks' = toks /\ count' = count /\ i' = i
        /\ cur \in 1..Len(toks) /\ toks[cur] \notin {"word", "pipe"} /\ IsRedirect(toks[cur])
        /\ \/ HasTarget /\ cur' = cur + 2 /\ pc' = pc /\ result' = result
           \/ ~HasTarget /\ cur' = cur /\ pc' = "done" /\ result' = "error"
    BY <1>0, <1>8 DEF FillRedirect, Return, input, InCommand, AfterRedirect
  <2>2. CASE HasTarget
    <3>1. /\ cur < Len(toks) /\ toks[cur + 1] = "word" /\ cur + 1 \in 1..Len(toks)
          /\ toks'[(cur + 2) - 1] = "word" /\ cur + 2 \in 1..(Len(toks) + 1)
      BY <1>0, <2>1, <2>2 DEF HasTarget
    <3>2. WellPlaced(cur) /\ WellPlaced(cur + 1)
      BY <2>1, <3>1 DEF WellPlaced
    <3>3. PipesBefore(cur + 2) = PipesBefore(cur)
      <4>1. PipesBefore(cur) \in Nat /\ PipesBefore(cur + 1) = PipesBefore(cur) + 0
        BY <1>p, <2>1
      <4>2. PipesBefore((cur + 1) + 1) = PipesBefore(cur + 1) + 0
        BY <1>p, <3>1
      <4>3. (cur + 1) + 1 = cur + 2
        BY <1>0
      <4> QED BY <4>1, <4>2, <4>3
    <3>4. pc' = pc /\ cur' = cur + 2 /\ result' = result
      BY <2>1, <2>2
    <3>5. \A p \in 1..((cur + 2) - 1) : p \in 1..(cur - 1) \/ p = cur \/ p = cur + 1
      BY <1>0
    <3> QED BY <1>f, <2>1, <3>1, <3>2, <3>3, <3>4, <3>5
  <2>3. CASE ~HasTarget
    <3>1. ~WellPlaced(cur) /\ pc' = "done" /\ result' = "error" /\ cur' = cur
      BY <2>1, <2>3 DEF WellPlaced, HasTarget
    <3>2. AcceptsGrammar'
      BY <1>0, <1>g, <1>s, <2>1, <3>1 DEF AcceptsGrammar
    <3> QED BY <3>1, <3>2 DEF GrammarInv, Parsing
  <2> QED BY <2>2, <2>3
<1>9. CASE FillDone
  <2>1. /\ pc = "fill" /\ pc' = "next" /\ toks' = toks /\ cur' = cur /\ count' = count /\ i' = i
        /\ result' = result /\ ~InCommand(cur)
    BY <1>9 DEF FillDone, input
  <2> QED BY <1>r, <1>s, <2>1 DEF GrammarInv, Parsing, AcceptsGrammar
<1>10. CASE UNCHANGED vars
  <2>1. /\ pc' = pc /\ toks' = toks /\ cur' = cur /\ count' = count /\ i' = i /\ result' = result
    BY <1>10 DEF vars, input
  <2> QED BY <1>s, <2>1 DEF GrammarInv, Parsing, AcceptsGrammar
<1> QED BY <1>1, <1>2, <1>3, <1>4, <1>5, <1>6, <1>7, <1>8, <1>9, <1>10 DEF Next

---------------------------------------------------------------------------
(* Where the tokens go                                                     *)

\* The words of command c before place b that are arguments, and targets.
Arguments(c, b) == {p \in 1..(b - 1) : /\ PipesBefore(p) = c - 1
                                       /\ toks[p] = "word" /\ ~IsTarget(p)}
Targets(c, b)   == {p \in 1..(b - 1) : /\ PipesBefore(p) = c - 1
                                       /\ toks[p] = "word" /\ IsTarget(p)}

\* s holds the places P, in order.
Lists(s, P) ==
    /\ \A k \in 1..Len(s) : s[k] \in P
    /\ \A p \in P : \E k \in 1..Len(s) : s[k] = p
    /\ \A k, l \in 1..Len(s) : k < l => s[k] < s[l]

\* The same for redirects, by their targets; each has the type of its token.
ListsTargets(s, P) ==
    /\ \A k \in 1..Len(s) : s[k][2] \in P /\ s[k][1] = toks[s[k][2] - 1]
    /\ \A p \in P : \E k \in 1..Len(s) : s[k][2] = p
    /\ \A k, l \in 1..Len(s) : k < l => s[k][2] < s[l][2]

\* What is before cur is in its place, as far as commands have been begun.
RowInv(c) == /\ Lists(argv[c], Arguments(c, cur))
             /\ ListsTargets(redirs[c], Targets(c, cur))

PlacedInv ==
    pc # "done" \/ result = "ok" => \A c \in 1..Len(counted) : RowInv(c)

LEMMA RedirectTypeIs ==
    ASSUME NEW type, IsRedirect(type)
    PROVE  RedirectType(type) = type
<1> DEFINE at(x) == CHOOSE t \in DOMAIN TokOrder : TokOrder[t] = x
<1>1. DOMAIN TokOrder = 1..7
  BY DEF TokOrder
<1>2. \A t \in 1..7 : TokOrder[t] = "in" <=> t = 3
  BY DEF TokOrder
<1>3. at("in") = 3
  BY <1>1, <1>2
<1>4. \E t \in 3..7 : TokOrder[t] = type
  BY DEF IsRedirect, TokOrder
<1>5. at(type) \in 1..7 /\ TokOrder[at(type)] = type
  BY <1>1, <1>4
<1>6. at(type) \in 3..7
  BY <1>5 DEF IsRedirect, TokOrder
<1>7. \A t \in 3..7 : RedirectOrder[t - 3 + 1] = TokOrder[t]
  <2>1. \A t \in 3..7 : t = 3 \/ t = 4 \/ t = 5 \/ t = 6 \/ t = 7
    OBVIOUS
  <2>2. /\ 3 - 3 + 1 = 1 /\ 4 - 3 + 1 = 2 /\ 5 - 3 + 1 = 3 /\ 6 - 3 + 1 = 4 /\ 7 - 3 + 1 = 5
    OBVIOUS
  <2> QED BY <2>1, <2>2 DEF TokOrder, RedirectOrder
<1>8. RedirectOrder[at(type) - at("in") + 1] = type
  <2> HIDE DEF at
  <2> QED BY <1>3, <1>5, <1>6, <1>7
<1> QED BY <1>8 DEF RedirectType

\* One more place at the end, beyond all the others.
LEMMA ListsMore ==
    ASSUME NEW s, NEW t, NEW P \in SUBSET Nat, NEW p \in Nat, Len(s) \in Nat,
           Len(t) = Len(s) + 1, \A k \in 1..Len(s) : t[k] = s[k], t[Len(s) + 1] = p,
           \A q \in P : q < p, Lists(s, P)
    PROVE  Lists(t, P \cup {p})
<1>1. \A k \in 1..Len(t) : k \in 1..Len(s) \/ k = Len(s) + 1
  OBVIOUS
<1>2. \A k \in 1..Len(s) : k \in 1..Len(t) /\ t[k] = s[k] /\ s[k] \in P /\ s[k] < p
  <2>1. \A k \in 1..Len(s) : k \in 1..Len(t)
    OBVIOUS
  <2>2. \A k \in 1..Len(s) : s[k] \in P
    BY DEF Lists
  <2> QED BY <2>1, <2>2
<1>3. Len(s) + 1 \in 1..Len(t)
  OBVIOUS
<1>4. \A k, l \in 1..Len(t) : k < l => t[k] < t[l]
  <2> SUFFICES ASSUME NEW k \in 1..Len(t), NEW l \in 1..Len(t), k < l PROVE t[k] < t[l]
    OBVIOUS
  <2>1. k \in 1..Len(s)
    OBVIOUS
  <2>2. CASE l \in 1..Len(s)
    BY <1>2, <2>1, <2>2 DEF Lists
  <2>3. CASE l = Len(s) + 1
    BY <1>2, <2>1, <2>3
  <2> QED BY <1>1, <2>2, <2>3
<1>5. \A q \in P : \E k \in 1..Len(t) : t[k] = q
  BY <1>2 DEF Lists
<1> QED BY <1>1, <1>2, <1>3, <1>4, <1>5 DEF Lists

LEMMA ListsTargetsMore ==
    ASSUME NEW s, NEW t, NEW P \in SUBSET Nat, NEW p \in Nat, NEW type, Len(s) \in Nat,
           Len(t) = Len(s) + 1, \A k \in 1..Len(s) : t[k] = s[k],
           t[Len(s) + 1] = <<type, p>>, type = toks[p - 1],
           \A q \in P : q < p, ListsTargets(s, P)
    PROVE  ListsTargets(t, P \cup {p})
<1>1. \A k \in 1..Len(t) : k \in 1..Len(s) \/ k = Len(s) + 1
  OBVIOUS
<1>2. \A k \in 1..Len(s) : /\ k \in 1..Len(t) /\ t[k] = s[k] /\ s[k][2] \in P /\ s[k][2] < p
                           /\ s[k][1] = toks[s[k][2] - 1]
  <2>1. \A k \in 1..Len(s) : k \in 1..Len(t)
    OBVIOUS
  <2>2. \A k \in 1..Len(s) : s[k][2] \in P /\ s[k][1] = toks[s[k][2] - 1]
    BY DEF ListsTargets
  <2> QED BY <2>1, <2>2
<1>3. Len(s) + 1 \in 1..Len(t) /\ t[Len(s) + 1][1] = type /\ t[Len(s) + 1][2] = p
  OBVIOUS
<1>4. \A k, l \in 1..Len(t) : k < l => t[k][2] < t[l][2]
  <2> SUFFICES ASSUME NEW k \in 1..Len(t), NEW l \in 1..Len(t), k < l
               PROVE  t[k][2] < t[l][2]
    OBVIOUS
  <2>1. k \in 1..Len(s)
    OBVIOUS
  <2>2. CASE l \in 1..Len(s)
    BY <1>2, <2>1, <2>2 DEF ListsTargets
  <2>3. CASE l = Len(s) + 1
    BY <1>2, <1>3, <2>1, <2>3
  <2> QED BY <1>1, <2>2, <2>3
<1>5. \A q \in P : \E k \in 1..Len(t) : t[k][2] = q
  BY <1>2 DEF ListsTargets
<1> QED BY <1>1, <1>2, <1>3, <1>4, <1>5 DEF ListsTargets

\* What a place more makes of the words of a command.
LEMMA ArgumentsNext ==
    ASSUME toks \in TokenLists, NEW b \in 1..Len(toks), NEW c
    PROVE  /\ Arguments(c, b + 1) = Arguments(c, b) \cup
                  (IF PipesBefore(b) = c - 1 /\ toks[b] = "word" /\ ~IsTarget(b) THEN {b} ELSE {})
           /\ Targets(c, b + 1) = Targets(c, b) \cup
                  (IF PipesBefore(b) = c - 1 /\ toks[b] = "word" /\ IsTarget(b) THEN {b} ELSE {})
           /\ Arguments(c, b) \in SUBSET Nat /\ Targets(c, b) \in SUBSET Nat
           /\ \A q \in Arguments(c, b) \cup Targets(c, b) : q < b
<1>1. b \in Nat /\ \A p : p \in 1..((b + 1) - 1) <=> p \in 1..(b - 1) \/ p = b
  BY ListIs
<1> QED BY <1>1 DEF Arguments, Targets

LEMMA PlacedKept ==
    ASSUME ParserInv, FullInv, GrammarInv, PlacedInv, [Next]_vars, TypeOK', FullInv'
    PROVE  PlacedInv'
<1> DEFINE Entry == {RedirectOrder[t] : t \in DOMAIN RedirectOrder} \X Places
<1>0. /\ toks \in TokenLists /\ Len(toks) \in Nat
      /\ \A p \in 1..Len(toks) : toks[p] \in {"word", "pipe"} \/ IsRedirect(toks[p])
      /\ cur \in Places /\ cur \in Nat \ {0} /\ cur <= Len(toks) + 1 /\ i \in Nat \ {0}
      /\ pc \in {"count", "fill", "next"} => i = Len(counted)
      /\ pc \in {"start", "one"} => i = Len(counted) + 1
  BY ListIs DEF ParserInv, TypeOK, StepInv, Places
<1>1. /\ counted \in Seq(Seq(Places)) /\ argv \in Seq(Seq(Places)) /\ redirs \in Seq(Seq(Entry))
      /\ Len(counted) \in Nat /\ Len(argv) = Len(counted) /\ Len(redirs) = Len(counted)
      /\ \A c \in 1..Len(counted) : Len(argv[c]) \in Nat /\ Len(redirs[c]) \in Nat
  <2>1. /\ counted \in Seq(Seq(Places)) /\ argv \in Seq(Seq(Places)) /\ redirs \in Seq(Seq(Entry))
        /\ Len(argv) = Len(counted) /\ Len(redirs) = Len(counted)
    BY DEF ParserInv, TypeOK
  <2> HIDE DEF Places, Entry
  <2> QED BY ONLY <2>1, Rows
<1>2. pc # "done" => result = "none"
  BY DEF FullInv
\* Where cur, the rows and the tokens stay, so does everything.
<1>3. ASSUME toks' = toks, cur' = cur, argv' = argv, redirs' = redirs, Len(counted') = Len(counted),
             pc # "done" \/ result = "ok"
      PROVE  PlacedInv'
  <2>1. ASSUME NEW c PROVE RowInv(c)' <=> RowInv(c)
    <3>1. Arguments(c, cur)' = Arguments(c, cur) /\ Targets(c, cur)' = Targets(c, cur)
      BY <1>3 DEF Arguments, Targets, PipesBefore, IsTarget
    <3>2. Lists(argv[c], Arguments(c, cur))' <=> Lists(argv[c], Arguments(c, cur))
      BY <1>3, <3>1 DEF Lists
    <3>3. ListsTargets(redirs[c], Targets(c, cur))' <=> ListsTargets(redirs[c], Targets(c, cur))
      BY <1>3, <3>1 DEF ListsTargets
    <3> QED BY <3>2, <3>3 DEF RowInv
  <2> QED BY <1>3, <2>1 DEF PlacedInv
<1>a. CASE Start
  <2>1. /\ pc = "start" /\ toks' = toks /\ cur' = cur /\ argv' = argv /\ redirs' = redirs
        /\ counted' = counted
    BY <1>a DEF Start, out
  <2> QED BY <1>3, <2>1
<1>b. CASE ParseOne
  <2>1. CASE AtPipe(cur)
    <3>1. pc' = "done" /\ result' = "error"
      BY <1>b, <2>1 DEF ParseOne, Return
    <3> QED BY <3>1 DEF PlacedInv
  <2>2. CASE ~AtPipe(cur)
    <3>1. /\ counted' = Append(counted, <<>>) /\ argv' = Append(argv, <<>>)
          /\ redirs' = Append(redirs, <<>>) /\ toks' = toks /\ cur' = cur /\ pc = "one"
      BY <1>b, <2>2 DEF ParseOne, input
    <3>2. /\ Len(counted') = Len(counted) + 1 /\ i = Len(counted) + 1
          /\ \A c \in 1..Len(counted) : argv'[c] = argv[c] /\ redirs'[c] = redirs[c]
          /\ argv'[i] = <<>> /\ redirs'[i] = <<>>
      <4>1. i = Len(counted) + 1
        BY <1>0, <3>1
      <4> HIDE DEF Places, Entry
      <4> QED BY ONLY <1>1, <3>1, <4>1, Begun
    <3>3. \A p \in 1..(cur - 1) : PipesBefore(p) = i - 1 => toks[p] # "word"
      <4> SUFFICES ASSUME NEW p \in 1..(cur - 1), PipesBefore(p) = i - 1, toks[p] = "word"
                   PROVE  FALSE
        OBVIOUS
      <4>1. cur <= Len(toks) /\ (cur = 1 \/ toks[cur - 1] = "pipe") /\ PipesBefore(cur) = i - 1
        BY <3>1 DEF GrammarInv, Parsing
      <4>2. cur - 1 \in 1..Len(toks) /\ toks[cur - 1] = "pipe" /\ p <= cur - 1
            /\ p \in Places /\ cur - 1 \in Places /\ (cur - 1) + 1 = cur
        BY <1>0, <4>1 DEF Places
      <4>3. PipesBefore(cur) = PipesBefore(cur - 1) + 1
        BY <1>0, <4>2, PipesNext
      <4>4. PipesBefore(p) <= PipesBefore(cur - 1) /\ PipesBefore(cur - 1) \in Nat
        BY <1>0, <4>2, PipesGrow
      <4> QED BY <1>0, <4>1, <4>3, <4>4
    <3>4. Arguments(i, cur) = {} /\ Targets(i, cur) = {}
      BY <3>3 DEF Arguments, Targets
    <3>5. \A c : Arguments(c, cur)' = Arguments(c, cur) /\ Targets(c, cur)' = Targets(c, cur)
      BY <3>1 DEF Arguments, Targets, PipesBefore, IsTarget
    <3>6. RowInv(i)'
      <4>1. Lists(<<>>, {}) /\ ListsTargets(<<>>, {})'
        BY DEF Lists, ListsTargets
      <4>2. argv'[i'] = <<>> /\ redirs'[i'] = <<>> /\ i' = i
        BY <1>b, <3>2 DEF ParseOne
      <4> QED BY <3>4, <3>5, <4>1, <4>2 DEF RowInv
    <3>7. ASSUME NEW c \in 1..Len(counted) PROVE RowInv(c)'
      <4>1. RowInv(c)
        BY <1>2, <3>1 DEF PlacedInv
      <4>2. argv'[c] = argv[c] /\ redirs'[c] = redirs[c]
        BY <3>2
      <4>3. Lists(argv[c], Arguments(c, cur))'
        BY <3>5, <4>1, <4>2 DEF RowInv, Lists
      <4>4. ListsTargets(redirs[c], Targets(c, cur))'
        BY <3>1, <3>5, <4>1, <4>2 DEF RowInv, ListsTargets
      <4> QED BY <4>3, <4>4 DEF RowInv
    <3>8. \A c \in 1..Len(counted') : c \in 1..Len(counted) \/ c = i
      BY <1>1, <3>2
    <3>9. i' = i
      BY <1>b DEF ParseOne
    <3> QED BY <3>6, <3>7, <3>8, <3>9 DEF PlacedInv
  <2> QED BY <2>1, <2>2
<1>c. CASE NextCommand
  <2>1. /\ pc = "next" /\ toks' = toks /\ argv' = argv /\ redirs' = redirs /\ counted' = counted
        /\ cur' = IF AtPipe(cur) THEN cur + 1 ELSE cur
    BY <1>c DEF NextCommand, Return, input, out
  <2>2. CASE AtPipe(cur)
    <3>1. cur' = cur + 1 /\ cur \in 1..Len(toks) /\ toks[cur] = "pipe"
      BY <1>0, <2>1, <2>2 DEF AtPipe
    <3>2. ASSUME NEW c \in 1..Len(counted) PROVE RowInv(c)'
      <4>1. Arguments(c, cur + 1) = Arguments(c, cur) /\ Targets(c, cur + 1) = Targets(c, cur)
        BY <1>0, <3>1, ArgumentsNext
      <4>2. Arguments(c, cur)' = Arguments(c, cur + 1) /\ Targets(c, cur)' = Targets(c, cur + 1)
        BY <2>1, <3>1 DEF Arguments, Targets, PipesBefore, IsTarget
      <4>3. RowInv(c)
        BY <1>2, <2>1 DEF PlacedInv
      <4>4. Lists(argv[c], Arguments(c, cur))'
        BY <2>1, <4>1, <4>2, <4>3 DEF RowInv, Lists
      <4>5. ListsTargets(redirs[c], Targets(c, cur))'
        BY <2>1, <4>1, <4>2, <4>3 DEF RowInv, ListsTargets
      <4> QED BY <4>4, <4>5 DEF RowInv
    <3> QED BY <2>1, <3>2 DEF PlacedInv
  <2>3. CASE ~AtPipe(cur)
    BY <1>3, <2>1, <2>3
  <2> QED BY <2>2, <2>3
<1>d. CASE Finish
  <2>1. /\ pc = "end" /\ toks' = toks /\ cur' = cur /\ argv' = argv /\ redirs' = redirs
        /\ counted' = counted
    BY <1>d DEF Finish, Return, input, out
  <2> QED BY <1>3, <2>1
<1>e. CASE CountArgc
  <2>1. /\ pc = "count" /\ toks' = toks /\ cur' = cur /\ argv' = argv /\ redirs' = redirs
        /\ counted' = counted \/ counted' = [counted EXCEPT ![i] = Append(@, walk)]
    BY <1>e DEF CountArgc, input, out
  <2>2. Len(counted') = Len(counted)
    BY <1>1, <2>1 DEF TypeOK
  <2> QED BY <1>3, <2>1, <2>2
<1>f. CASE CountDone
  <2>1. /\ pc = "count" /\ toks' = toks /\ cur' = cur /\ argv' = argv /\ redirs' = redirs
        /\ counted' = counted
    BY <1>f DEF CountDone, input, out
  <2> QED BY <1>3, <2>1
<1>g. CASE FillWord
  <2>1. /\ pc = "fill" /\ toks' = toks /\ redirs' = redirs /\ counted' = counted
        /\ cur' = cur + 1 /\ cur \in 1..Len(toks) /\ toks[cur] = "word"
        /\ argv' = [argv EXCEPT ![i] = Append(@, cur)]
    BY <1>0, <1>g DEF FillWord, InCommand, input
  <2>2. i \in 1..Len(counted) /\ PipesBefore(cur) = i - 1 /\ ~IsTarget(cur)
    BY <1>0, <1>1, <2>1 DEF GrammarInv, Parsing
  <2>3. /\ Len(argv'[i]) = Len(argv[i]) + 1 /\ argv'[i][Len(argv[i]) + 1] = cur
        /\ \A k \in 1..Len(argv[i]) : argv'[i][k] = argv[i][k]
        /\ \A c \in 1..Len(counted) : c # i => argv'[c] = argv[c]
    <3>1. i \in 1..Len(argv) /\ cur \in Places /\ argv \in Seq(Seq(Places))
      BY <1>0, <1>1, <2>2
    <3> HIDE DEF Places
    <3> QED BY ONLY <1>1, <2>1, <3>1, Extended
  <2>4. ASSUME NEW c \in 1..Len(counted) PROVE RowInv(c)'
    <3>1. RowInv(c)
      BY <1>2, <2>1 DEF PlacedInv
    <3>2. Arguments(c, cur)' = Arguments(c, cur + 1) /\ Targets(c, cur)' = Targets(c, cur + 1)
      BY <2>1 DEF Arguments, Targets, PipesBefore, IsTarget
    <3>3. /\ Arguments(c, cur + 1) = Arguments(c, cur) \cup (IF c = i THEN {cur} ELSE {})
          /\ Targets(c, cur + 1) = Targets(c, cur)
          /\ Arguments(c, cur) \in SUBSET Nat /\ \A q \in Arguments(c, cur) : q < cur
      <4>1. PipesBefore(cur) = c - 1 <=> c = i
        BY <1>0, <2>2
      <4> QED BY <1>0, <2>1, <2>2, <4>1, ArgumentsNext
    <3>4. ListsTargets(redirs[c], Targets(c, cur))'
      BY <2>1, <3>1, <3>2, <3>3 DEF RowInv, ListsTargets
    <3>5. CASE c = i
      <4>1. Lists(argv'[i], Arguments(i, cur) \cup {cur})
        <5> DEFINE s == argv[i]
                   t == argv'[i]
                   P == Arguments(i, cur)
        <5>1. /\ Len(s) \in Nat /\ Len(t) = Len(s) + 1 /\ t[Len(s) + 1] = cur
              /\ \A k \in 1..Len(s) : t[k] = s[k]
          BY <1>1, <2>2, <2>3
        <5>2. Lists(s, P) /\ P \in SUBSET Nat /\ cur \in Nat /\ \A q \in P : q < cur
          BY <1>0, <3>1, <3>3, <3>5 DEF RowInv
        <5> HIDE DEF s, t, P
        <5>3. Lists(t, P \cup {cur})
          BY ONLY <5>1, <5>2, ListsMore
        <5> QED BY <5>3 DEF t, P
      <4>2. Lists(argv[c], Arguments(c, cur))'
        BY <3>2, <3>3, <3>5, <4>1 DEF Lists
      <4> QED BY <3>4, <4>2 DEF RowInv
    <3>6. CASE c # i
      <4>1. argv'[c] = argv[c] /\ Arguments(c, cur)' = Arguments(c, cur)
        BY <2>3, <3>2, <3>3, <3>6
      <4>2. Lists(argv[c], Arguments(c, cur))'
        BY <3>1, <4>1 DEF RowInv, Lists
      <4> QED BY <3>4, <4>2 DEF RowInv
    <3> QED BY <3>5, <3>6
  <2> QED BY <2>1, <2>4 DEF PlacedInv
<1>h. CASE FillRedirect
  <2>1. CASE ~HasTarget
    <3>1. pc' = "done" /\ result' = "error"
      BY <1>h, <2>1 DEF FillRedirect, Return
    <3> QED BY <3>1 DEF PlacedInv
  <2>2. CASE HasTarget
    <3> DEFINE type == RedirectType(toks[cur])
    <3>1. /\ pc = "fill" /\ toks' = toks /\ argv' = argv /\ counted' = counted
          /\ cur \in 1..Len(toks) /\ IsRedirect(toks[cur]) /\ toks[cur] \notin {"word", "pipe"}
          /\ cur + 1 \in 1..Len(toks) /\ toks[cur + 1] = "word" /\ cur' = cur + 2
          /\ redirs' = [redirs EXCEPT ![i] = Append(@, <<type, cur + 1>>)]
      BY <1>0, <1>h, <2>2 DEF FillRedirect, HasTarget, InCommand, AfterRedirect, input
    <3>2. type = toks[(cur + 1) - 1] /\ <<type, cur + 1>> \in Entry
      <4>1. type \in {RedirectOrder[t] : t \in DOMAIN RedirectOrder} /\ type = toks[cur]
        BY <3>1, RedirectTyped, RedirectTypeIs
      <4>2. cur + 1 \in Places /\ (cur + 1) - 1 = cur
        BY <1>0, <3>1 DEF Places
      <4> QED BY <4>1, <4>2
    <3> HIDE DEF type
    <3>3. i \in 1..Len(counted) /\ PipesBefore(cur) = i - 1 /\ PipesBefore(cur + 1) = i - 1
      <4>1. i \in 1..Len(counted) /\ PipesBefore(cur) = i - 1
        BY <1>0, <1>1, <3>1 DEF GrammarInv, Parsing
      <4>2. PipesBefore(cur) \in Nat /\ PipesBefore(cur + 1) = PipesBefore(cur) + 0
        BY <1>0, <3>1, PipesNext
      <4> QED BY <4>1, <4>2
    <3>4. IsTarget(cur + 1)
      BY <1>0, <3>1 DEF IsTarget
    <3>5. /\ Len(redirs'[i]) = Len(redirs[i]) + 1
          /\ redirs'[i][Len(redirs[i]) + 1] = <<type, cur + 1>>
          /\ \A k \in 1..Len(redirs[i]) : redirs'[i][k] = redirs[i][k]
          /\ \A c \in 1..Len(counted) : c # i => redirs'[c] = redirs[c]
      <4>1. i \in 1..Len(redirs)
        BY <1>1, <3>3
      <4> HIDE DEF Places, Entry
      <4> QED BY ONLY <1>1, <3>1, <3>2, <4>1, Extended
    <3>6. ASSUME NEW c \in 1..Len(counted) PROVE RowInv(c)'
      <4>1. RowInv(c)
        BY <1>2, <3>1 DEF PlacedInv
      <4>2. Arguments(c, cur)' = Arguments(c, cur + 2) /\ Targets(c, cur)' = Targets(c, cur + 2)
        BY <3>1 DEF Arguments, Targets, PipesBefore, IsTarget
      <4>3. Arguments(c, cur + 1) = Arguments(c, cur) /\ Targets(c, cur + 1) = Targets(c, cur)
        <5>1. toks \in TokenLists /\ cur \in 1..Len(toks) /\ toks[cur] # "word"
          BY <1>0, <3>1
        <5> QED BY ONLY <5>1, ArgumentsNext
      <4>4. /\ Arguments(c, cur + 2) = Arguments(c, cur + 1)
            /\ Targets(c, cur + 2) = Targets(c, cur + 1) \cup (IF c = i THEN {cur + 1} ELSE {})
            /\ Targets(c, cur + 1) \in SUBSET Nat /\ \A q \in Targets(c, cur + 1) : q < cur + 1
        <5>1. PipesBefore(cur + 1) = c - 1 <=> c = i
          BY <1>0, <3>3
        <5>2. (cur + 1) + 1 = cur + 2
          BY <1>0
        <5> QED BY <1>0, <3>1, <3>4, <5>1, <5>2, ArgumentsNext
      <4>5. Lists(argv[c], Arguments(c, cur))'
        BY <3>1, <4>1, <4>2, <4>3, <4>4 DEF RowInv, Lists
      <4>6. CASE c = i
        <5>1. ListsTargets(redirs'[i], Targets(i, cur) \cup {cur + 1})
          <6> DEFINE s == redirs[i]
                     t == redirs'[i]
                     P == Targets(i, cur)
                     p == cur + 1
          <6>1. /\ Len(s) \in Nat /\ Len(t) = Len(s) + 1 /\ t[Len(s) + 1] = <<type, p>>
                /\ \A k \in 1..Len(s) : t[k] = s[k]
            BY <1>1, <3>3, <3>5
          <6>2. /\ ListsTargets(s, P) /\ P \in SUBSET Nat /\ p \in Nat
                /\ \A q \in P : q < p
            BY <1>0, <4>1, <4>3, <4>4, <4>6 DEF RowInv
          <6>3. type = toks[p - 1]
            BY <3>2
          <6> HIDE DEF s, t, P, p
          <6>4. ListsTargets(t, P \cup {p})
            BY ONLY <6>1, <6>2, <6>3, ListsTargetsMore
          <6> QED BY <6>4 DEF t, P, p
        <5>2. Targets(c, cur)' = Targets(i, cur) \cup {cur + 1}
          BY <4>2, <4>3, <4>4, <4>6
        <5>3. ListsTargets(redirs[c], Targets(c, cur))'
          BY <3>1, <4>6, <5>1, <5>2 DEF ListsTargets
        <5> QED BY <4>5, <5>3 DEF RowInv
      <4>7. CASE c # i
        <5>1. redirs'[c] = redirs[c] /\ Targets(c, cur)' = Targets(c, cur)
          BY <3>5, <4>2, <4>3, <4>4, <4>7
        <5>2. ListsTargets(redirs[c], Targets(c, cur))'
          BY <3>1, <4>1, <5>1 DEF RowInv, ListsTargets
        <5> QED BY <4>5, <5>2 DEF RowInv
      <4> QED BY <4>6, <4>7
    <3> QED BY <3>1, <3>6 DEF PlacedInv
  <2> QED BY <2>1, <2>2
<1>i. CASE FillDone
  <2>1. /\ pc = "fill" /\ toks' = toks /\ cur' = cur /\ argv' = argv /\ redirs' = redirs
        /\ counted' = counted
    BY <1>i DEF FillDone, input, out
  <2> QED BY <1>3, <2>1
<1>j. CASE UNCHANGED vars
  <2>1. /\ pc' = pc /\ result' = result /\ toks' = toks /\ cur' = cur
        /\ argv' = argv /\ redirs' = redirs /\ counted' = counted
    BY <1>j DEF vars, input, out
  <2>2. CASE pc # "done" \/ result = "ok"
    BY <1>3, <2>1, <2>2
  <2>3. CASE ~(pc # "done" \/ result = "ok")
    BY <2>1, <2>3 DEF PlacedInv
  <2> QED BY <2>2, <2>3
<1> QED BY <1>a, <1>b, <1>c, <1>d, <1>e, <1>f, <1>g, <1>h, <1>i, <1>j DEF Next

LEMMA PlacedAtEnd ==
    ASSUME ParserInv, FullInv, GrammarInv, PlacedInv
    PROVE  EachTokenPlaced
<1> SUFFICES ASSUME result = "ok", NEW c \in 1..count
             PROVE  LET own   == {p \in DOMAIN toks : PipesBefore(p) = c - 1}
                        words == {p \in own : toks[p] = "word" /\ ~IsTarget(p)}
                        moved == {r[2] : r \in {redirs[c][k] : k \in DOMAIN redirs[c]}}
                    IN /\ {argv[c][k] : k \in DOMAIN argv[c]} = words
                       /\ Increasing(argv[c])
                       /\ moved = {p \in own : toks[p] = "word" /\ IsTarget(p)}
                       /\ Increasing([k \in DOMAIN redirs[c] |-> redirs[c][k][2]])
                       /\ \A k \in DOMAIN redirs[c] :
                              redirs[c][k][1] = toks[redirs[c][k][2] - 1]
  BY DEF EachTokenPlaced
<1> DEFINE Entry == {RedirectOrder[t] : t \in DOMAIN RedirectOrder} \X Places
<1>1. c \in 1..Len(counted) /\ Len(argv) = Len(counted) /\ Len(redirs) = Len(counted)
  BY DEF FullInv, ArgvFilled, ParserInv, TypeOK
<1>2. DOMAIN argv[c] = 1..Len(argv[c]) /\ DOMAIN redirs[c] = 1..Len(redirs[c])
  <2>1. argv \in Seq(Seq(Places)) /\ redirs \in Seq(Seq(Entry))
    BY DEF ParserInv, TypeOK
  <2>2. argv[c] \in Seq(Places) /\ redirs[c] \in Seq(Entry)
    <3> HIDE DEF Places, Entry
    <3> QED BY ONLY <1>1, <2>1, Rows
  <2> HIDE DEF Places, Entry
  <2> QED BY <2>2
<1>3. DOMAIN toks = 1..(cur - 1)
  BY ListIs DEF ParserInv, TypeOK, GrammarInv
<1>4. Lists(argv[c], Arguments(c, cur)) /\ ListsTargets(redirs[c], Targets(c, cur))
  BY <1>1 DEF PlacedInv, RowInv
<1> DEFINE own == {p \in DOMAIN toks : PipesBefore(p) = c - 1}
<1>5. /\ Arguments(c, cur) = {p \in own : toks[p] = "word" /\ ~IsTarget(p)}
      /\ Targets(c, cur) = {p \in own : toks[p] = "word" /\ IsTarget(p)}
  BY <1>3 DEF Arguments, Targets
<1>6. {argv[c][k] : k \in DOMAIN argv[c]} = Arguments(c, cur) /\ Increasing(argv[c])
  BY <1>2, <1>4 DEF Lists, Increasing
<1>7. /\ {r[2] : r \in {redirs[c][k] : k \in DOMAIN redirs[c]}} = Targets(c, cur)
      /\ Increasing([k \in DOMAIN redirs[c] |-> redirs[c][k][2]])
      /\ \A k \in DOMAIN redirs[c] : redirs[c][k][1] = toks[redirs[c][k][2] - 1]
  BY <1>2, <1>4 DEF ListsTargets, Increasing
<1> QED BY <1>5, <1>6, <1>7

---------------------------------------------------------------------------
(* Theorems                                                                *)

LEMMA ParserInvariant == Spec => [](ParserInv /\ FullInv)
<1>1. Init => ParserInv /\ FullInv
  <2>1. Init => FullInv
    BY DEF Init, FullInv, ArgvFilled
  <2> QED BY <2>1, InitTyped
<1>2. ParserInv /\ FullInv /\ [Next]_vars => ParserInv' /\ FullInv'
  BY TypesKept, WalkKept, FullKept DEF ParserInv
<1> QED BY <1>1, <1>2, PTL DEF Spec

\* Every variable of the parser has its type; in particular the cursors of
\* fill_cmd and count_argc never run past the NULL that ends the list.
THEOREM ParserTyped == Spec => []TypeOK
<1>1. ParserInv => TypeOK
  BY DEF ParserInv
<1> QED BY <1>1, ParserInvariant, PTL

\* fill_cmd never stores more words in argv than count_argc asked for, for any
\* list of tokens, grammatical or not.
THEOREM ArgvNeverOverrun == Spec => []NoArgvOverrun
<1>1. ParserInv => NoArgvOverrun
  BY DEF ParserInv
<1> QED BY <1>1, ParserInvariant, PTL

\* A pipeline that is run has one argv for every command, and each is full up
\* to the NULL that count_argc made room for, for any list of tokens.
THEOREM ArgvAlwaysFilled == Spec => []ArgvFilled
<1>1. FullInv => ArgvFilled
  BY DEF FullInv
<1> QED BY <1>1, ParserInvariant, PTL

LEMMA GrammarInvariant ==
    Spec => [](ParserInv /\ FullInv /\ GrammarInv /\ PlacedInv)
<1>1. Init => GrammarInv /\ PlacedInv
  <2> SUFFICES ASSUME Init PROVE GrammarInv /\ PlacedInv
    OBVIOUS
  <2>1. Len(counted) = 0
    BY DEF Init
  <2> QED BY <2>1 DEF Init, GrammarInv, Parsing, AcceptsGrammar, PlacedInv
<1>2. /\ ParserInv /\ FullInv /\ GrammarInv /\ PlacedInv /\ [Next]_vars
      /\ ParserInv' /\ FullInv'
      => GrammarInv' /\ PlacedInv'
  BY GrammarKept, PlacedKept DEF ParserInv
<1> QED BY <1>1, <1>2, ParserInvariant, PTL DEF Spec

\* The parser accepts the lists of tokens that are commands separated by pipes,
\* words and redirects with a word after them, and no others, though parse_cmds,
\* parse_one and fill_cmd each look at a part of the rule: for any list.
THEOREM GrammarIsAccepted == Spec => []AcceptsGrammar
<1>1. GrammarInv => AcceptsGrammar
  BY DEF GrammarInv
<1> QED BY <1>1, GrammarInvariant, PTL

\* Of a pipeline that is run every word has become an argument or the target of
\* the redirect before it, of its own command, in the order of the line, and
\* every redirect has the type of its token (fill_cmd).
THEOREM TokensArePlaced == Spec => []EachTokenPlaced
<1>1. ParserInv /\ FullInv /\ GrammarInv /\ PlacedInv => EachTokenPlaced
  BY PlacedAtEnd
<1> QED BY <1>1, GrammarInvariant, PTL
=============================================================================
