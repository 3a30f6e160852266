---------------------------- MODULE ExpandProofs ----------------------------
(* What expand_pipeline makes of any pipeline, and that its two passes over *)
(* the words agree, for any value of the variable and any allocation that   *)
(* fails.                                                                   *)
EXTENDS Expand, WellFoundedInduction, TLAPS

---------------------------------------------------------------------------
(* Natural numbers                                                         *)

LEMMA LeastNatural ==
    ASSUME NEW T \in SUBSET Nat, T # {}
    PROVE  \E x \in T : \A y \in T : x <= y
<1>1. PICK x \in T : \A y \in T : ~ (<<y, x>> \in OpToRel(<, Nat))
  BY NatLessThanWellFounded, WFMin, Zenon
<1>2. \A y \in T : y \in Nat /\ ~(y < x)
  BY <1>1 DEF OpToRel
<1>3. QED
  BY <1>2

\* Induction from a to b, over the set of the numbers that have the property.
LEMMA UpTo ==
    ASSUME NEW a \in Nat, NEW b \in Nat, NEW T, a \in T,
           \A n \in a..(b - 1) : n \in T => n + 1 \in T
    PROVE  \A n \in a..b : n \in T
<1>1. SUFFICES ASSUME NEW m \in a..b, m \notin T PROVE FALSE
  OBVIOUS
<1> DEFINE S == {n \in a..b : n \notin T}
<1>2. S \in SUBSET Nat /\ S # {}
  BY <1>1
<1>3. PICK x \in S : \A y \in S : x <= y
  BY <1>2, LeastNatural
<1>4. x # a /\ x - 1 \in a..(b - 1) /\ x - 1 \in T
  BY <1>3
<1>5. QED
  BY <1>3, <1>4

\* From p on there is a first place not in S, or none up to m.
LEMMA FirstPlace ==
    ASSUME NEW p \in Nat, NEW m \in Nat, p <= m, NEW S
    PROVE  \E e \in p..m : (\A b \in p..(e - 1) : b \in S) /\ (e = m \/ e \notin S)
<1> DEFINE T == {e \in p..m : e = m \/ e \notin S}
<1>1. T \in SUBSET Nat /\ m \in T
  OBVIOUS
<1>2. PICK e \in T : \A y \in T : e <= y
  BY <1>1, LeastNatural
<1>3. \A b \in p..(e - 1) : b \in S
  <2>1. \A b \in p..(e - 1) : b \in p..m /\ b < e /\ b # m
    BY <1>2
  <2>2. QED
    BY <1>2, <2>1
<1>4. QED
  BY <1>2, <1>3

\* f begins with z, and each value is made of the one before.
Recursive(f, N, X, z, G) ==
    f \in [0..N -> X] /\ f[0] = z /\ \A n \in 1..N : f[n] = G[n][f[n - 1]]

\* A function may be defined so.
LEMMA Recursion ==
    ASSUME NEW N \in Nat, NEW X, NEW z \in X, NEW G \in [1..N -> [X -> X]]
    PROVE  \E f : Recursive(f, N, X, z, G)
<1> DEFINE Upto(f, m) == /\ f \in [0..m -> X] /\ f[0] = z
                         /\ \A n \in 1..m : f[n] = G[n][f[n - 1]]
           T == {m \in Nat : \E f : Upto(f, m)}
<1>1. 0 \in T
  <2>1. Upto([n \in 0..0 |-> z], 0)
    OBVIOUS
  <2> HIDE DEF Upto
  <2>2. QED
    BY <2>1
<1>2. ASSUME NEW m \in 0..(N - 1), m \in T PROVE m + 1 \in T
  <2>1. PICK f : Upto(f, m)
    BY <1>2
  <2> DEFINE g == [n \in 0..(m + 1) |-> IF n = m + 1 THEN G[m + 1][f[m]] ELSE f[n]]
  <2>2. G[m + 1][f[m]] \in X
    <3>1. m + 1 \in 1..N /\ m \in 0..m
      BY <1>2
    <3>2. QED
      BY <2>1, <3>1
  <2>3. g \in [0..(m + 1) -> X] /\ g[0] = z /\ g[m + 1] = G[m + 1][f[m]]
    <3>1. \A n \in 0..(m + 1) : n = m + 1 \/ n \in 0..m
      OBVIOUS
    <3>2. m + 1 \in 0..(m + 1) /\ 0 \in 0..(m + 1) /\ 0 # m + 1
      OBVIOUS
    <3>3. QED
      BY <2>1, <2>2, <3>1, <3>2
  <2>4. \A n \in 0..m : g[n] = f[n]
    OBVIOUS
  <2> HIDE DEF g
  <2>5. \A n \in 1..(m + 1) : g[n] = G[n][g[n - 1]]
    <3>1. ASSUME NEW n \in 1..(m + 1) PROVE g[n] = G[n][g[n - 1]]
      <4>1. CASE n = m + 1
        <5>1. n - 1 = m /\ m \in 0..m
          BY <4>1
        <5>2. QED
          BY <2>3, <2>4, <4>1, <5>1
      <4>2. CASE n # m + 1
        <5>1. n \in 1..m /\ n \in 0..m /\ n - 1 \in 0..m
          BY <4>2
        <5>2. QED
          BY <2>1, <2>4, <5>1
      <4>3. QED
        BY <4>1, <4>2
    <3>2. QED
      BY <3>1
  <2>6. Upto(g, m + 1)
    BY <2>3, <2>5
  <2> HIDE DEF Upto
  <2>7. QED
    BY <2>6
<1> HIDE DEF T
<1>3. \A m \in 0..N : m \in T
  BY <1>1, <1>2, UpTo
<1>4. \E f : Upto(f, N)
  BY <1>3 DEF T
<1>5. QED
  BY <1>4, Zenon DEF Recursive

\* If each value stays in X when the one before is in it, all are.
LEMMA StaysIn ==
    ASSUME NEW N \in Nat, NEW X, NEW h, h[0] \in X,
           \A n \in 1..N : h[n - 1] \in X => h[n] \in X
    PROVE  \A n \in 0..N : h[n] \in X
<1> DEFINE T == {n \in 0..N : h[n] \in X}
<1>1. 0 \in T
  OBVIOUS
<1>2. ASSUME NEW n \in 0..(N - 1), n \in T PROVE n + 1 \in T
  <2>1. n + 1 \in 1..N /\ n + 1 \in 0..N /\ (n + 1) - 1 = n
    OBVIOUS
  <2>2. QED
    BY <1>2, <2>1
<1> HIDE DEF T
<1>3. \A n \in 0..N : n \in T
  BY <1>1, <1>2, UpTo
<1>4. QED
  BY <1>3 DEF T

---------------------------------------------------------------------------
(* Places in a text                                                        *)

LEMMA TextIs ==
    ASSUME NEW t \in Texts
    PROVE  /\ Len(t) \in Nat /\ DOMAIN t = 1..Len(t)
           /\ \A p \in 1..Len(t) : t[p] \in Chars /\ At(t, p) = t[p]
           /\ At(t, Len(t) + 1) = "NUL"
<1>1. /\ Len(t) \in Nat /\ DOMAIN t = 1..Len(t)
      /\ \A p \in 1..Len(t) : t[p] \in Chars
  BY DEF Texts
<1>2. Len(t) + 1 \notin 1..Len(t)
  BY <1>1
<1>3. QED
  BY <1>1, <1>2 DEF At

LEMMA CharsApart ==
    /\ "NUL" \notin Chars /\ "none" \notin Chars /\ "blank" # "NUL"
    /\ "$" \notin Letters \cup Digits \cup Quotes
    /\ "?" \notin Letters \cup Digits \cup Quotes \cup {"$"}
    /\ \A ch \in Letters \cup Digits : ch \notin Quotes
BY DEF Chars, Letters, Digits, Quotes

LEMMA PastIfsIs ==
    ASSUME NEW t \in Texts, NEW p \in 1..(Len(t) + 1)
    PROVE  /\ PastIfs(t, p) \in p..(Len(t) + 1)
           /\ \A b \in p..(PastIfs(t, p) - 1) : t[b] = "blank"
           /\ PastIfs(t, p) <= Len(t) => t[PastIfs(t, p)] # "blank"
<1> DEFINE L == Len(t)
           S == {b \in 1..L : t[b] = "blank"}
           Is(n) == /\ \A b \in p..(n - 1) : t[b] = "blank"
                    /\ At(t, n) # "blank"
<1>1. L \in Nat
  BY TextIs
<1>2. PICK e \in p..(L + 1) : (\A b \in p..(e - 1) : b \in S) /\ (e = L + 1 \/ e \notin S)
  <2>1. p \in Nat /\ L + 1 \in Nat /\ p <= L + 1
    BY <1>1
  <2> HIDE DEF S
  <2>2. QED
    BY <2>1, FirstPlace
<1>3. \E n \in p..(L + 1) : Is(n)
  <2>1. At(t, e) # "blank"
    <3>1. CASE e = L + 1
      BY <3>1, TextIs, CharsApart
    <3>2. CASE e # L + 1
      <4>1. e \in 1..L
        BY <1>1, <3>2
      <4>2. QED
        BY <1>2, <3>2, <4>1, TextIs
    <3>3. QED
      BY <3>1, <3>2
  <2>2. QED
    BY <1>2, <2>1
<1>4. PastIfs(t, p) \in p..(L + 1) /\ Is(PastIfs(t, p))
  <2>1. PastIfs(t, p) = CHOOSE n \in p..(L + 1) : Is(n)
    BY Zenon DEF PastIfs
  <2> HIDE DEF Is
  <2>2. QED
    BY <1>3, <2>1
<1>5. PastIfs(t, p) <= L => PastIfs(t, p) \in 1..L
  BY <1>1, <1>4
<1>6. QED
  BY <1>4, <1>5, TextIs

LEMMA PastFieldIs ==
    ASSUME NEW t \in Texts, NEW p \in 1..(Len(t) + 1)
    PROVE  /\ PastField(t, p) \in p..(Len(t) + 1)
           /\ \A b \in p..(PastField(t, p) - 1) : t[b] # "blank"
           /\ PastField(t, p) <= Len(t) => t[PastField(t, p)] = "blank"
<1> DEFINE L == Len(t)
           S == {b \in 1..L : t[b] # "blank"}
           Is(n) == /\ \A b \in p..(n - 1) : t[b] # "blank"
                    /\ At(t, n) \in {"blank", "NUL"}
<1>1. L \in Nat
  BY TextIs
<1>2. PICK e \in p..(L + 1) : (\A b \in p..(e - 1) : b \in S) /\ (e = L + 1 \/ e \notin S)
  <2>1. p \in Nat /\ L + 1 \in Nat /\ p <= L + 1
    BY <1>1
  <2> HIDE DEF S
  <2>2. QED
    BY <2>1, FirstPlace
<1>3. \E n \in p..(L + 1) : Is(n)
  <2>1. At(t, e) \in {"blank", "NUL"}
    <3>1. CASE e = L + 1
      BY <3>1, TextIs
    <3>2. CASE e # L + 1
      <4>1. e \in 1..L
        BY <1>1, <3>2
      <4>2. QED
        BY <1>2, <3>2, <4>1, TextIs
    <3>3. QED
      BY <3>1, <3>2
  <2>2. QED
    BY <1>2, <2>1
<1>4. PastField(t, p) \in p..(L + 1) /\ Is(PastField(t, p))
  <2>1. PastField(t, p) = CHOOSE n \in p..(L + 1) : Is(n)
    BY Zenon DEF PastField
  <2> HIDE DEF Is
  <2>2. QED
    BY <1>3, <2>1
<1>5. PastField(t, p) <= L => PastField(t, p) \in 1..L
  BY <1>1, <1>4
<1>6. PastField(t, p) <= L => t[PastField(t, p)] # "NUL"
  BY <1>5, TextIs, CharsApart
<1>7. QED
  BY <1>4, <1>5, <1>6, TextIs

LEMMA NameEndIs ==
    ASSUME NEW t \in Texts, NEW p \in 1..(Len(t) + 1)
    PROVE  /\ NameEnd(t, p) \in p..(Len(t) + 1)
           /\ \A b \in p..(NameEnd(t, p) - 1) : t[b] \in Letters \cup Digits
           /\ NameEnd(t, p) <= Len(t) => t[NameEnd(t, p)] \notin Letters \cup Digits
<1> DEFINE L == Len(t)
           W == Letters \cup Digits
           S == {b \in 1..L : t[b] \in W}
           Is(n) == /\ \A b \in p..(n - 1) : t[b] \in Letters \cup Digits
                    /\ At(t, n) \notin Letters \cup Digits
<1>1. L \in Nat
  BY TextIs
<1>2. PICK e \in p..(L + 1) : (\A b \in p..(e - 1) : b \in S) /\ (e = L + 1 \/ e \notin S)
  <2>1. p \in Nat /\ L + 1 \in Nat /\ p <= L + 1
    BY <1>1
  <2> HIDE DEF S
  <2>2. QED
    BY <2>1, FirstPlace
<1>3. \E n \in p..(L + 1) : Is(n)
  <2>1. At(t, e) \notin Letters \cup Digits
    <3>1. CASE e = L + 1
      BY <3>1, TextIs, CharsApart DEF Chars
    <3>2. CASE e # L + 1
      <4>1. e \in 1..L
        BY <1>1, <3>2
      <4>2. QED
        BY <1>2, <3>2, <4>1, TextIs
    <3>3. QED
      BY <3>1, <3>2
  <2>2. QED
    BY <1>2, <2>1
<1>4. NameEnd(t, p) \in p..(L + 1) /\ Is(NameEnd(t, p))
  <2>1. NameEnd(t, p) = CHOOSE n \in p..(L + 1) : Is(n)
    BY Zenon DEF NameEnd
  <2> HIDE DEF Is
  <2>2. QED
    BY <1>3, <2>1
<1>5. NameEnd(t, p) <= L => NameEnd(t, p) \in 1..L
  BY <1>1, <1>4
<1>6. QED
  BY <1>4, <1>5, TextIs

\* A run is known by its end.
LEMMA RunIs ==
    ASSUME NEW t \in Texts, NEW p \in 1..Len(t), NEW e \in p..Len(t),
           \A b \in p..e : t[b] # "blank", e < Len(t) => t[e + 1] = "blank"
    PROVE  Run(t, p) = SubSeq(t, p, e)
<1> DEFINE L == Len(t)
           Is(x) == (\A b \in p..x : t[b] # "blank") /\ (x = L \/ t[x + 1] = "blank")
           last == CHOOSE x \in p..L : Is(x)
<1>1. L \in Nat /\ p \in Nat /\ e \in Nat
  BY TextIs
<1>2. Is(e)
  BY <1>1
<1>3. \A x \in p..L : Is(x) => x = e
  <2>1. ASSUME NEW x \in p..L, Is(x), x < e PROVE FALSE
    <3>1. x + 1 \in p..e /\ x # L
      BY <1>1, <2>1
    <3>2. QED
      BY <2>1, <3>1
  <2>2. ASSUME NEW x \in p..L, Is(x), e < x PROVE FALSE
    <3>1. e + 1 \in p..x /\ e < L
      BY <1>1, <2>2
    <3>2. QED
      BY <2>2, <3>1
  <2>3. QED
    BY <1>1, <2>1, <2>2
<1>4. last = e
  <2> HIDE DEF Is
  <2>1. QED
    BY <1>2, <1>3
<1>5. Run(t, p) = SubSeq(t, p, last)
  BY Zenon DEF Run
<1>6. QED
  BY <1>4, <1>5

---------------------------------------------------------------------------
(* The fields of a text                                                    *)

\* Past the blanks, and past the field behind them.
LEMMA FieldEnds ==
    ASSUME NEW t \in Texts, NEW p \in 1..Len(t)
    PROVE  /\ PastIfs(t, p) \in p..(Len(t) + 1)
           /\ PastField(t, PastIfs(t, p)) \in (p + 1)..(Len(t) + 1)
           /\ PastIfs(t, p) <= PastField(t, PastIfs(t, p))
           /\ PastIfs(t, p) <= Len(t) <=> PastIfs(t, p) < PastField(t, PastIfs(t, p))
<1> DEFINE L == Len(t)
           st == PastIfs(t, p)
           end == PastField(t, st)
<1>1. L \in Nat /\ p \in Nat /\ p \in 1..(L + 1)
  BY TextIs
<1>2. st \in p..(L + 1) /\ (st <= L => t[st] # "blank")
  BY <1>1, PastIfsIs
<1>3. st \in 1..(L + 1)
  BY <1>1, <1>2
<1>4. end \in st..(L + 1) /\ (end <= L => t[end] = "blank")
  BY <1>3, PastFieldIs
<1> HIDE DEF st, end
<1>5. st <= L => end # st
  BY <1>1, <1>2, <1>3, <1>4
<1>6. QED
  BY <1>1, <1>2, <1>3, <1>4, <1>5 DEF st, end

\* Runs, from place to place.
LEMMA RunsAre ==
    ASSUME NEW t \in Texts
    PROVE  \E f \in [0..Len(t) -> Seq({Run(t, p) : p \in 1..Len(t)})] :
               /\ f[0] = <<>>
               /\ \A n \in 1..Len(t) : f[n] = f[n - 1] \o (IF Begins(t, n) THEN <<Run(t, n)>> ELSE <<>>)
               /\ Runs(t) = f[Len(t)]
<1> DEFINE L == Len(t)
           X == Seq({Run(t, p) : p \in 1..Len(t)})
           z == <<>>
           Turn(n, x) == x \o (IF Begins(t, n) THEN <<Run(t, n)>> ELSE <<>>)
           G == [n \in 1..L |-> [x \in X |-> Turn(n, x)]]
           Is(f) == f = [n \in 0..L |-> IF n = 0 THEN z ELSE Turn(n, f[n - 1])]
           h == CHOOSE f : Is(f)
<1>1. L \in Nat /\ z \in X
  BY TextIs
<1>2. \A n \in 1..L : \A x \in X : Turn(n, x) \in X
  <2>1. ASSUME NEW n \in 1..L, NEW x \in X PROVE Turn(n, x) \in X
    <3> DEFINE S == {Run(t, p) : p \in 1..Len(t)}
    <3>1. Run(t, n) \in S
      OBVIOUS
    <3> HIDE DEF S
    <3>2. (IF Begins(t, n) THEN <<Run(t, n)>> ELSE <<>>) \in Seq(S)
      BY <3>1
    <3>3. x \in Seq(S)
      BY DEF S
    <3> DEFINE more == IF Begins(t, n) THEN <<Run(t, n)>> ELSE <<>>
    <3> HIDE DEF more
    <3>4. x \o more \in Seq(S)
      BY <3>2, <3>3 DEF more
    <3>5. QED
      BY <3>4 DEF S, more
  <2>2. QED
    BY <2>1
<1>3. Runs(t) = h[Len(t)]
  BY Zenon DEF Runs
<1>4. h \in [0..L -> X] /\ h[0] = z /\ \A n \in 1..L : h[n] = Turn(n, h[n - 1])
  <2> HIDE DEF L, X, z, Turn
  <2>1. G \in [1..L -> [X -> X]]
    BY <1>2
  <2>2. PICK f : Recursive(f, L, X, z, G)
    <3> HIDE DEF G
    <3>1. QED
      BY <1>1, <2>1, Recursion
  <2>3. /\ \A n \in 1..L : n \in 0..L /\ n - 1 \in 0..L /\ n # 0
        /\ \A n \in 0..L : n = 0 \/ n \in 1..L
    BY <1>1
  <2>4. \A n \in 0..L : f[n] = IF n = 0 THEN z ELSE Turn(n, f[n - 1])
    BY <2>2, <2>3 DEF Recursive
  <2>5. Is(f)
    BY <2>2, <2>4 DEF Recursive
  <2>6. Is(h)
    <3> HIDE DEF Is
    <3>1. QED
      BY <2>5
  <2>7. h = [n \in 0..L |-> h[n]]
    BY <2>6
  <2>8. \A n \in 0..L : h[n] = IF n = 0 THEN z ELSE Turn(n, h[n - 1])
    BY <2>6, Zenon
  <2> HIDE DEF h, Is
  <2>9. h[0] = z /\ \A n \in 1..L : h[n] = Turn(n, h[n - 1])
    BY <1>1, <2>3, <2>8
  <2>10. \A n \in 0..L : h[n] \in X
    BY <1>1, <1>2, <2>9, StaysIn
  <2>11. QED
    BY <2>7, <2>9, <2>10
<1> HIDE DEF h
<1>5. QED
  BY <1>3, <1>4

\* ifs_wc, from turn to turn.
LEMMA WcAre ==
    ASSUME NEW t \in Texts
    PROVE  \E f \in [0..Len(t) -> [at : 1..(Len(t) + 1), n : Nat]] :
               /\ f[0] = [at |-> 1, n |-> 0]
               /\ \A n \in 1..Len(t) : f[n] = WcTurn(t, f[n - 1])
               /\ IfsWc(t) = f[Len(t)].n
<1> DEFINE L == Len(t)
           X == [at : 1..(Len(t) + 1), n : Nat]
           z == [at |-> 1, n |-> 0]
           Turn(n, x) == WcTurn(t, x)
           G == [n \in 1..L |-> [x \in X |-> Turn(n, x)]]
           Is(f) == f = [n \in 0..L |-> IF n = 0 THEN z ELSE Turn(n, f[n - 1])]
           h == CHOOSE f : Is(f)
<1>1. L \in Nat /\ z \in X
  BY TextIs
<1>2. \A n \in 1..L : \A x \in X : Turn(n, x) \in X
  <2>1. ASSUME NEW x \in X, x.at <= L PROVE WcTurn(t, x) \in X
    <3>1. L \in Nat /\ x.at \in 1..L
      BY <1>1, <2>1
    <3>2. PastField(t, PastIfs(t, x.at)) \in 1..(L + 1)
      BY <3>1, FieldEnds
    <3>3. QED
      BY <2>1, <3>1, <3>2 DEF WcTurn
  <2>2. ASSUME NEW x \in X, ~(x.at <= L) PROVE WcTurn(t, x) \in X
    BY <1>1, <2>2 DEF WcTurn
  <2>3. QED
    BY <2>1, <2>2
<1>3. IfsWc(t) = h[Len(t)].n
  BY Zenon DEF IfsWc
<1>4. h \in [0..L -> X] /\ h[0] = z /\ \A n \in 1..L : h[n] = Turn(n, h[n - 1])
  <2> HIDE DEF L, X, z, Turn
  <2>1. G \in [1..L -> [X -> X]]
    BY <1>2
  <2>2. PICK f : Recursive(f, L, X, z, G)
    <3> HIDE DEF G
    <3>1. QED
      BY <1>1, <2>1, Recursion
  <2>3. /\ \A n \in 1..L : n \in 0..L /\ n - 1 \in 0..L /\ n # 0
        /\ \A n \in 0..L : n = 0 \/ n \in 1..L
    BY <1>1
  <2>4. \A n \in 0..L : f[n] = IF n = 0 THEN z ELSE Turn(n, f[n - 1])
    BY <2>2, <2>3 DEF Recursive
  <2>5. Is(f)
    BY <2>2, <2>4 DEF Recursive
  <2>6. Is(h)
    <3> HIDE DEF Is
    <3>1. QED
      BY <2>5
  <2>7. h = [n \in 0..L |-> h[n]]
    BY <2>6
  <2>8. \A n \in 0..L : h[n] = IF n = 0 THEN z ELSE Turn(n, h[n - 1])
    BY <2>6, Zenon
  <2> HIDE DEF h, Is
  <2>9. h[0] = z /\ \A n \in 1..L : h[n] = Turn(n, h[n - 1])
    BY <1>1, <2>3, <2>8
  <2>10. \A n \in 0..L : h[n] \in X
    BY <1>1, <1>2, <2>9, StaysIn
  <2>11. QED
    BY <2>7, <2>9, <2>10
<1> HIDE DEF h
<1>5. QED
  BY <1>3, <1>4

\* split_ifs, from turn to turn.
LEMMA SplitAre ==
    ASSUME NEW t \in Texts
    PROVE  \E f \in [0..Len(t) -> [at : 1..(Len(t) + 1), arr : Seq(Texts)]] :
               /\ f[0] = [at |-> 1, arr |-> <<>>]
               /\ \A n \in 1..Len(t) : f[n] = SplitTurn(t, f[n - 1])
               /\ SplitIfs(t) = f[Len(t)].arr
<1> DEFINE L == Len(t)
           X == [at : 1..(Len(t) + 1), arr : Seq(Texts)]
           z == [at |-> 1, arr |-> <<>>]
           Turn(n, x) == SplitTurn(t, x)
           G == [n \in 1..L |-> [x \in X |-> Turn(n, x)]]
           Is(f) == f = [n \in 0..L |-> IF n = 0 THEN z ELSE Turn(n, f[n - 1])]
           h == CHOOSE f : Is(f)
<1>1. L \in Nat /\ z \in X
  BY TextIs
<1>2. \A n \in 1..L : \A x \in X : Turn(n, x) \in X
  <2>1. ASSUME NEW x \in X, x.at <= L PROVE SplitTurn(t, x) \in X
    <3> DEFINE st == PastIfs(t, x.at)
               end == PastField(t, st)
    <3>1. L \in Nat /\ x.at \in 1..L
      BY <1>1, <2>1
    <3>2. st \in 1..(L + 1) /\ end \in 1..(L + 1)
      BY <3>1, FieldEnds
    <3>3. SubSeq(t, st, end - 1) \in Texts
      <4> HIDE DEF st, end
      <4>1. QED
        BY <3>1, <3>2 DEF Texts
    <3>4. SplitTurn(t, x) = [at |-> end, arr |-> IF end > st THEN Append(x.arr, SubSeq(t, st, end - 1)) ELSE x.arr]
      BY <2>1, <3>1 DEF SplitTurn
    <3> HIDE DEF st, end
    <3>5. QED
      BY <2>1, <3>2, <3>3, <3>4
  <2>2. ASSUME NEW x \in X, ~(x.at <= L) PROVE SplitTurn(t, x) \in X
    BY <1>1, <2>2 DEF SplitTurn
  <2>3. QED
    BY <2>1, <2>2
<1>3. SplitIfs(t) = h[Len(t)].arr
  BY Zenon DEF SplitIfs
<1>4. h \in [0..L -> X] /\ h[0] = z /\ \A n \in 1..L : h[n] = Turn(n, h[n - 1])
  <2> HIDE DEF L, X, z, Turn
  <2>1. G \in [1..L -> [X -> X]]
    BY <1>2
  <2>2. PICK f : Recursive(f, L, X, z, G)
    <3> HIDE DEF G
    <3>1. QED
      BY <1>1, <2>1, Recursion
  <2>3. /\ \A n \in 1..L : n \in 0..L /\ n - 1 \in 0..L /\ n # 0
        /\ \A n \in 0..L : n = 0 \/ n \in 1..L
    BY <1>1
  <2>4. \A n \in 0..L : f[n] = IF n = 0 THEN z ELSE Turn(n, f[n - 1])
    BY <2>2, <2>3 DEF Recursive
  <2>5. Is(f)
    BY <2>2, <2>4 DEF Recursive
  <2>6. Is(h)
    <3> HIDE DEF Is
    <3>1. QED
      BY <2>5
  <2>7. h = [n \in 0..L |-> h[n]]
    BY <2>6
  <2>8. \A n \in 0..L : h[n] = IF n = 0 THEN z ELSE Turn(n, h[n - 1])
    BY <2>6, Zenon
  <2> HIDE DEF h, Is
  <2>9. h[0] = z /\ \A n \in 1..L : h[n] = Turn(n, h[n - 1])
    BY <1>1, <2>3, <2>8
  <2>10. \A n \in 0..L : h[n] \in X
    BY <1>1, <1>2, <2>9, StaysIn
  <2>11. QED
    BY <2>7, <2>9, <2>10
<1> HIDE DEF h
<1>5. QED
  BY <1>3, <1>4

\* r is Runs, from place to place.
RunsUpTo(r, t) ==
    /\ r \in [0..Len(t) -> Seq({Run(t, p) : p \in 1..Len(t)})]
    /\ \A p \in 1..Len(t) :
           r[p] = r[p - 1] \o (IF Begins(t, p) THEN <<Run(t, p)>> ELSE <<>>)

\* What one turn of the two loops passes over holds one run, or none at the end.
LEMMA RunsPassed ==
    ASSUME NEW t \in Texts, NEW r, RunsUpTo(r, t), NEW a \in 1..Len(t),
           a = 1 \/ t[a] = "blank"
    PROVE  LET st  == PastIfs(t, a)
               end == PastField(t, st)
           IN r[end - 1] = IF end > st THEN Append(r[a - 1], SubSeq(t, st, end - 1))
                           ELSE r[a - 1]
<1> DEFINE L == Len(t)
           st == PastIfs(t, a)
           end == PastField(t, st)
           S == {Run(t, p) : p \in 1..Len(t)}
<1>1. L \in Nat /\ a \in Nat /\ a \in 1..(L + 1) /\ a <= L
  BY TextIs
<1>2. /\ st \in a..(L + 1) /\ st \in 1..(L + 1) /\ (st <= L => t[st] # "blank")
      /\ \A b \in a..(st - 1) : t[b] = "blank"
  BY <1>1, PastIfsIs
<1>3. /\ end \in st..(L + 1) /\ (end <= L => t[end] = "blank")
      /\ \A b \in st..(end - 1) : t[b] # "blank"
  BY <1>2, PastFieldIs
<1>4. end \in (a + 1)..(L + 1) /\ (st <= L <=> st < end)
  BY FieldEnds
<1> HIDE DEF st, end
<1>5. ASSUME NEW b \in 0..L, NEW e \in b..L, \A p \in (b + 1)..e : ~Begins(t, p)
      PROVE  r[e] = r[b]
  <2> DEFINE T == {p \in b..e : r[p] = r[b]}
  <2>1. b \in T /\ b \in Nat /\ e \in Nat
    BY <1>1
  <2>2. ASSUME NEW p \in b..(e - 1), p \in T PROVE p + 1 \in T
    <3>1. /\ p + 1 \in 1..L /\ p + 1 \in (b + 1)..e /\ (p + 1) - 1 = p /\ p \in 0..L
          /\ p + 1 \in b..e
      BY <1>1
    <3>2. r[p + 1] = r[p] \o <<>>
      BY <1>5, <3>1 DEF RunsUpTo
    <3>3. r[p] \in Seq(S)
      BY <3>1 DEF RunsUpTo
    <3> HIDE DEF S
    <3>4. r[p + 1] = r[p]
      BY <3>2, <3>3
    <3>5. QED
      BY <2>2, <3>1, <3>4
  <2> HIDE DEF T
  <2>3. \A p \in b..e : p \in T
    BY <2>1, <2>2, UpTo
  <2>4. e \in T
    BY <2>1, <2>3
  <2>5. QED
    BY <2>4 DEF T
<1>6. r[st - 1] = r[a - 1]
  <2>1. \A p \in a..(st - 1) : ~Begins(t, p)
    BY <1>2 DEF Begins
  <2>2. a - 1 \in 0..L /\ st - 1 \in (a - 1)..L /\ (a - 1) + 1 = a
    BY <1>1, <1>2
  <2>3. QED
    BY <1>5, <2>1, <2>2
<1>7. CASE st <= L
  <2>1. st \in 1..L /\ st < end /\ st - 1 \in 0..L
    BY <1>1, <1>2, <1>4, <1>7
  <2>2. Begins(t, st)
    <3>1. st # a => st - 1 \in a..(st - 1)
      BY <1>1, <1>2
    <3>2. st = a => a = 1
      BY <1>2, <1>7
    <3>3. st # a => t[st - 1] = "blank"
      BY <1>2, <3>1
    <3>4. QED
      BY <1>2, <1>7, <3>2, <3>3 DEF Begins
  <2>3. Run(t, st) = SubSeq(t, st, end - 1)
    <3>1. end - 1 \in st..L /\ (end - 1) + 1 = end /\ (end - 1 < L => end <= L)
      BY <1>1, <1>3, <2>1
    <3>2. QED
      BY <1>3, <2>1, <3>1, RunIs
  <2>4. r[st] = r[st - 1] \o <<Run(t, st)>>
    BY <2>1, <2>2 DEF RunsUpTo
  <2>5. r[end - 1] = r[st]
    <3>1. \A p \in (st + 1)..(end - 1) : p - 1 \in st..(end - 1) /\ p # 1
      BY <1>1, <1>2, <1>3
    <3>2. \A p \in (st + 1)..(end - 1) : ~Begins(t, p)
      BY <1>3, <3>1 DEF Begins
    <3>3. st \in 0..L /\ end - 1 \in st..L
      BY <1>1, <1>3, <2>1
    <3>4. QED
      BY <1>5, <3>2, <3>3
  <2>6. r[st - 1] \in Seq(S)
    BY <2>1 DEF RunsUpTo
  <2> DEFINE x == Run(t, st)
  <2>7. x \in S
    BY <2>1
  <2> HIDE DEF S, x
  <2>8. r[st - 1] \o <<x>> = Append(r[st - 1], x)
    BY <2>6, <2>7
  <2>9. r[end - 1] = Append(r[a - 1], SubSeq(t, st, end - 1))
    BY <1>6, <2>3, <2>4, <2>5, <2>8 DEF x
  <2>10. QED
    BY <2>1, <2>9 DEF st, end
<1>8. CASE ~(st <= L)
  <2>1. end = st
    BY <1>1, <1>2, <1>3, <1>8
  <2>2. ~(end > st)
    BY <1>2, <2>1
  <2>3. r[end - 1] = r[a - 1]
    BY <1>6, <2>1
  <2>4. QED
    BY <2>2, <2>3 DEF st, end
<1>9. QED
  BY <1>7, <1>8

\* ifs_wc counts the fields that split_ifs stores, and these are the runs.
LEMMA FieldsAgree ==
    ASSUME NEW t \in Texts
    PROVE  /\ SplitIfs(t) \in Seq(Texts)
           /\ IfsWc(t) = Len(SplitIfs(t))
           /\ SplitIfs(t) = Runs(t)
<1> DEFINE L == Len(t)
           State == [at : 1..(L + 1), arr : Seq(Texts)]
<1>1. L \in Nat
  BY TextIs
<1>2. PICK r \in [0..L -> Seq({Run(t, p) : p \in 1..L})] :
          /\ r[0] = <<>>
          /\ \A n \in 1..L : r[n] = r[n - 1] \o (IF Begins(t, n) THEN <<Run(t, n)>> ELSE <<>>)
          /\ Runs(t) = r[L]
  BY RunsAre
<1>3. PICK w \in [0..L -> [at : 1..(L + 1), n : Nat]] :
          /\ w[0] = [at |-> 1, n |-> 0]
          /\ \A n \in 1..L : w[n] = WcTurn(t, w[n - 1])
          /\ IfsWc(t) = w[L].n
  BY WcAre
<1>4. PICK s \in [0..L -> State] :
          /\ s[0] = [at |-> 1, arr |-> <<>>]
          /\ \A n \in 1..L : s[n] = SplitTurn(t, s[n - 1])
          /\ SplitIfs(t) = s[L].arr
  BY SplitAre
<1>5. RunsUpTo(r, t)
  BY <1>2 DEF RunsUpTo
<1> DEFINE Agree(n) == /\ s[n].at = w[n].at /\ Len(s[n].arr) = w[n].n
                       /\ s[n].arr = r[s[n].at - 1]
                       /\ s[n].at = 1 \/ s[n].at = L + 1 \/ t[s[n].at] = "blank"
                       /\ n < s[n].at \/ s[n].at = L + 1
           T == {n \in 0..L : Agree(n)}
<1>6. 0 \in T
  BY <1>1, <1>2, <1>3, <1>4
<1>7. ASSUME NEW n \in 0..(L - 1), n \in T PROVE n + 1 \in T
  <2> DEFINE x == s[n]
             y == w[n]
             a == x.at
             st == PastIfs(t, a)
             end == PastField(t, st)
  <2>1. n + 1 \in 1..L /\ n + 1 \in 0..L /\ n \in 0..L /\ (n + 1) - 1 = n
    BY <1>1
  <2>2. /\ x \in State /\ y \in [at : 1..(L + 1), n : Nat]
        /\ s[n + 1] = SplitTurn(t, x) /\ w[n + 1] = WcTurn(t, y)
    BY <1>3, <1>4, <2>1
  <2>3. Agree(n)
    BY <1>7
  <2>4. CASE a > L
    <3>1. s[n + 1] = x /\ w[n + 1] = y
      BY <2>2, <2>3, <2>4 DEF SplitTurn, WcTurn
    <3>2. a = L + 1
      BY <1>1, <2>2, <2>4
    <3>3. Agree(n + 1)
      BY <2>3, <3>1, <3>2
    <3>4. QED
      BY <2>1, <3>3
  <2>5. CASE ~(a > L)
    <3>1. a \in 1..L /\ y.at = a
      BY <1>1, <2>2, <2>3, <2>5
    <3>2. s[n + 1] = [at |-> end, arr |-> IF end > st THEN Append(x.arr, SubSeq(t, st, end - 1))
                                          ELSE x.arr]
      BY <2>2, <2>5, Zenon DEF SplitTurn
    <3>3. w[n + 1] = [at |-> end, n |-> y.n + (IF st <= L THEN 1 ELSE 0)]
      BY <2>2, <2>5, <3>1, Zenon DEF WcTurn
    <3>4. /\ st \in a..(L + 1) /\ end \in (a + 1)..(L + 1)
          /\ st <= end /\ (st <= L <=> st < end)
      BY <3>1, FieldEnds
    <3>5. end <= L => t[end] = "blank"
      <4>1. st \in 1..(L + 1)
        BY <1>1, <3>1, <3>4
      <4>2. QED
        BY <4>1, PastFieldIs
    <3>6. r[end - 1] = IF end > st THEN Append(r[a - 1], SubSeq(t, st, end - 1)) ELSE r[a - 1]
      <4>1. a = 1 \/ t[a] = "blank"
        BY <1>1, <2>3, <3>1
      <4>2. a \in 1..L
        BY <3>1
      <4> HIDE DEF x, a, T, Agree
      <4>3. QED
        BY ONLY t \in Texts, <1>5, <4>1, <4>2, RunsPassed
    <3>7. x.arr = r[a - 1] /\ Len(x.arr) = y.n /\ x.arr \in Seq(Texts) /\ y.n \in Nat
      BY <2>2, <2>3
    <3>8. \A b : Len(Append(x.arr, b)) = y.n + 1
      BY <3>7
    <3> HIDE DEF x, y, a, st, end
    <3>9. s[n + 1].at = end /\ w[n + 1].at = end /\ end \in Nat /\ st \in Nat /\ a \in Nat
      BY <1>1, <3>1, <3>2, <3>3, <3>4
    <3>10. s[n + 1].arr = r[end - 1]
      BY <3>2, <3>6, <3>7
    <3>11. Len(s[n + 1].arr) = w[n + 1].n
      <4>1. end > st <=> st <= L
        BY <3>4, <3>9
      <4>2. CASE end > st
        BY <3>2, <3>3, <3>8, <4>1, <4>2
      <4>3. CASE ~(end > st)
        BY <3>2, <3>3, <3>7, <4>1, <4>3
      <4>4. QED
        BY <4>2, <4>3
    <3>12. end <= L \/ end = L + 1
      <4> HIDE DEF L
      <4>1. L \in Nat
        BY <1>1
      <4>2. end \in (a + 1)..(L + 1) /\ end \in Nat /\ a \in Nat
        BY <3>4, <3>9
      <4>3. QED
        BY ONLY <4>1, <4>2
    <3>13. n + 1 < end \/ end = L + 1
      <4>1. n < a \/ a = L + 1
        BY <2>3 DEF a, x
      <4>2. QED
        BY <1>1, <3>1, <3>4, <3>9, <4>1
    <3>14. end = L + 1 \/ t[end] = "blank"
      BY <3>5, <3>12
    <3>15. Agree(n + 1)
      BY <3>9, <3>10, <3>11, <3>13, <3>14
    <3>16. QED
      BY <2>1, <3>15
  <2>6. QED
    BY <2>4, <2>5
<1> HIDE DEF T
<1>8. \A n \in 0..L : n \in T
  BY <1>1, <1>6, <1>7, UpTo
<1>9. Agree(L) /\ s[L] \in State
  <2>1. L \in 0..L
    BY <1>1
  <2>2. QED
    BY <1>4, <1>8, <2>1 DEF T
<1>10. s[L].at = L + 1
  BY <1>1, <1>9
<1>11. QED
  BY <1>1, <1>2, <1>3, <1>4, <1>9, <1>10

---------------------------------------------------------------------------
(* The "$" of a text                                                       *)

Shells == [value : Texts \cup {NULL}, exit_code : Texts]

\* Place p holds a character of what the "$" at d names.
NamedBy(s, d, p) == IsName(s, d, p) \/ (d = p - 1 /\ s[p] = "?")

\* expand_var stores what the "$" at p stands for and goes past what it names.
LEMMA ExpandVarIs ==
    ASSUME NEW sh \in Shells, NEW s \in Texts, NEW p \in 1..Len(s)
    PROVE  LET v == ExpandVar(sh, s, p)
           IN /\ v.text = Meaning(sh, s, p) /\ v.text \in Texts
              /\ v.next \in (p + 1)..(Len(s) + 1)
              /\ \A b \in (p + 1)..(v.next - 1) :
                     NamedBy(s, p, b) /\ s[b] \in Letters \cup Digits \cup {"?"}
              /\ v.next <= Len(s) => ~NamedBy(s, p, v.next)
<1> DEFINE L == Len(s)
           v == ExpandVar(sh, s, p)
           end == NameEnd(s, p + 1)
           W == Letters \cup Digits
<1>1. L \in Nat /\ p \in Nat /\ p <= L /\ p + 1 \in 1..(L + 1)
  BY TextIs
<1>2. /\ end \in (p + 1)..(L + 1)
      /\ \A b \in (p + 1)..(end - 1) : s[b] \in W
      /\ end <= L => s[end] \notin W
  BY <1>1, NameEndIs
<1>3. /\ p + 1 \in 1..L => At(s, p + 1) = s[p + 1]
      /\ p = L => At(s, p + 1) = "NUL"
  BY TextIs
<1>4. At(s, p + 1) \notin {"NUL"} => p + 1 \in 1..L
  BY <1>1, <1>3
<1>5. Letters \subseteq W /\ "NUL" \notin W /\ "?" \notin W /\ "?" # "NUL"
  BY CharsApart DEF Chars, Letters, Digits
<1>6. CASE At(s, p + 1) = "?"
  <2>1. v = [text |-> sh.exit_code, next |-> p + 2]
    BY <1>6, Zenon DEF ExpandVar
  <2>2. p + 1 \in 1..L /\ s[p + 1] = "?"
    BY <1>3, <1>4, <1>5, <1>6
  <2>3. p < Len(s)
    BY <1>1, <2>2
  <2>4. Meaning(sh, s, p) = sh.exit_code
    BY <2>2, <2>3, Zenon DEF Meaning
  <2>5. sh.exit_code \in Texts
    BY DEF Shells
  <2>6. \A b : ~IsName(s, p, b)
    BY <1>5, <2>2 DEF IsName
  <2> HIDE DEF v, L
  <2>7. p + 2 \in (p + 1)..(L + 1) /\ p # (p + 2) - 1 /\ \A b \in (p + 1)..((p + 2) - 1) : b = p + 1
    BY <1>1, <2>2
  <2>8. v.text = sh.exit_code /\ v.next = p + 2
    BY <2>1
  <2>9. NamedBy(s, p, p + 1) /\ ~NamedBy(s, p, p + 2)
    BY <1>1, <2>2, <2>6, <2>7 DEF NamedBy
  <2>10. /\ v.next \in (p + 1)..(L + 1)
         /\ \A b \in (p + 1)..(v.next - 1) : NamedBy(s, p, b) /\ s[b] \in W \cup {"?"}
         /\ ~NamedBy(s, p, v.next)
    BY <2>2, <2>7, <2>8, <2>9
  <2>11. QED
    BY <2>4, <2>5, <2>8, <2>10 DEF v, L
<1>7. CASE At(s, p + 1) \notin Letters \cup {"?"}
  <2>1. v = [text |-> <<"$">>, next |-> p + 1]
    BY <1>7, Zenon DEF ExpandVar
  <2>2. p + 1 \in 1..L => s[p + 1] # "?" /\ s[p + 1] \notin Letters
    BY <1>3, <1>7
  <2>3. \A b \in Nat : ~IsName(s, p, b)
    <3>1. ASSUME NEW b \in Nat, IsName(s, p, b) PROVE FALSE
      <4>1. p + 1 \in 1..L
        BY <1>1, <3>1 DEF IsName
      <4>2. QED
        BY <2>2, <3>1, <4>1 DEF IsName
    <3>2. QED
      BY <3>1
  <2>4. Meaning(sh, s, p) = <<"$">>
    <3>1. ~(p < Len(s) /\ s[p + 1] = "?")
      BY <1>1, <2>2
    <3>2. ~IsName(s, p, p + 1)
      BY <1>1, <2>3
    <3>3. QED
      BY <3>1, <3>2, Zenon DEF Meaning
  <2>5. <<"$">> \in Texts
    BY DEF Texts, Chars
  <2> HIDE DEF v, L
  <2>6. v.text = <<"$">> /\ v.next = p + 1
    BY <2>1
  <2>7. p + 1 <= L => ~NamedBy(s, p, p + 1)
    BY <1>1, <2>2, <2>3 DEF NamedBy
  <2>8. p + 1 \in (p + 1)..(L + 1) /\ \A b \in (p + 1)..((p + 1) - 1) : FALSE
    BY <1>1
  <2>9. QED
    BY <2>4, <2>5, <2>6, <2>7, <2>8 DEF v, L
<1>8. CASE At(s, p + 1) \in Letters
  <2> DEFINE name == SubSeq(s, p + 1, end - 1)
             text == IF EnvGet(sh, name) = NULL THEN <<>> ELSE EnvGet(sh, name)
  <2>1. "?" \notin Letters
    BY <1>5
  <2>2. v = [text |-> text, next |-> end]
    BY <1>8, <2>1, Zenon DEF ExpandVar
  <2>3. p + 1 \in 1..L /\ s[p + 1] \in Letters /\ s[p + 1] \in W /\ s[p + 1] # "?"
    BY <1>3, <1>4, <1>5, <1>8
  <2> HIDE DEF end, W, L
  <2>4. end # p + 1
    BY <1>1, <1>2, <2>3
  <2>5. end \in (p + 2)..(L + 1) /\ end - 1 \in p..L /\ (end - 1) + 1 = end
    BY <1>1, <1>2, <2>4
  <2>6. \A b \in (p + 1)..L : IsName(s, p, b) <=> b < end
    <3>1. ASSUME NEW b \in (p + 1)..L, b < end PROVE IsName(s, p, b)
      <4>1. p < b /\ b <= L /\ \A q \in (p + 1)..b : q \in (p + 1)..(end - 1)
        BY <1>1, <2>5, <3>1
      <4>2. QED
        BY <1>2, <2>3, <4>1 DEF IsName, L, W
    <3>2. ASSUME NEW b \in (p + 1)..L, ~(b < end), IsName(s, p, b) PROVE FALSE
      <4>1. end \in (p + 1)..b /\ end <= L
        BY <1>1, <2>5, <3>2
      <4>2. QED
        BY <1>2, <3>2, <4>1 DEF IsName, W
    <3>3. QED
      BY <3>1, <3>2
  <2>7. Meaning(sh, s, p) = text
    <3> DEFINE Is(e) == IsName(s, p, e) /\ (e = Len(s) \/ ~IsName(s, p, e + 1))
               last == CHOOSE e \in p..Len(s) : Is(e)
    <3>1. IsName(s, p, end - 1)
      BY <1>1, <2>5, <2>6
    <3>2. end - 1 # L => ~IsName(s, p, end)
      BY <1>1, <2>5, <2>6
    <3>3. end - 1 \in p..Len(s) /\ Is(end - 1)
      BY <2>5, <3>1, <3>2 DEF L
    <3>4. ASSUME NEW e \in p..Len(s), Is(e) PROVE e = end - 1
      <4>1. p < e /\ e \in (p + 1)..L /\ e \in Nat
        BY <1>1, <3>4 DEF IsName, L
      <4>2. e < end
        BY <2>6, <3>4, <4>1
      <4>3. e # L => e + 1 \in (p + 1)..L
        BY <1>1, <4>1
      <4>4. e # L => ~(e + 1 < end)
        BY <2>6, <3>4, <4>3 DEF L
      <4>5. QED
        BY <1>1, <2>5, <4>1, <4>2, <4>4
    <3>5. last = end - 1
      <4> HIDE DEF Is
      <4>1. QED
        BY <3>3, <3>4
    <3>6. IsName(s, p, p + 1)
      BY <1>1, <2>3, <2>5, <2>6
    <3>7. ~(p < Len(s) /\ s[p + 1] = "?")
      BY <2>3
    <3>8. Meaning(sh, s, p) = IF EnvGet(sh, SubSeq(s, p + 1, last)) = NULL THEN <<>>
                              ELSE EnvGet(sh, SubSeq(s, p + 1, last))
      BY <3>6, <3>7, Zenon DEF Meaning
    <3>9. QED
      BY <3>5, <3>8
  <2>8. text \in Texts
    BY DEF EnvGet, Shells, Texts
  <2> HIDE DEF v, text
  <2>9. v.text = text /\ v.next = end
    BY <2>2
  <2>10. end \in (p + 1)..(L + 1)
    BY <1>1, <2>5
  <2>11. ASSUME NEW b \in (p + 1)..(end - 1) PROVE NamedBy(s, p, b) /\ s[b] \in W \cup {"?"}
    <3>1. b \in (p + 1)..L /\ b < end
      BY <1>1, <2>5
    <3>2. QED
      BY <1>2, <2>6, <2>11, <3>1 DEF NamedBy
  <2>12. end <= L => ~NamedBy(s, p, end)
    <3>1. p # end - 1
      BY <1>1, <2>5
    <3>2. end <= L => end \in (p + 1)..L /\ ~(end < end)
      BY <1>1, <2>5
    <3>3. QED
      BY <2>6, <3>1, <3>2 DEF NamedBy
  <2>13. QED
    BY <2>7, <2>8, <2>9, <2>10, <2>11, <2>12 DEF v, L, W
<1>9. QED
  BY <1>6, <1>7, <1>8

---------------------------------------------------------------------------
(* The loops over the places of a text                                     *)

Open == Quotes \cup {"none"}

\* The open quote, from place to place.
LEMMA OpenAre ==
    ASSUME NEW s \in Texts
    PROVE  \E f \in [0..Len(s) -> Open] :
               /\ f[0] = "none"
               /\ \A n \in 1..Len(s) : f[n] = QuoteBehind(f[n - 1], s[n])
               /\ \A p : OpenQuote(s, p) = f[p - 1]
<1> DEFINE L == Len(s)
           X == Open
           z == "none"
           Turn(n, x) == QuoteBehind(x, s[n])
           G == [n \in 1..L |-> [x \in X |-> Turn(n, x)]]
           Is(f) == f = [n \in 0..L |-> IF n = 0 THEN z ELSE Turn(n, f[n - 1])]
           h == CHOOSE f : Is(f)
<1>1. L \in Nat /\ z \in X
  BY TextIs DEF Open
<1>2. \A n \in 1..L : \A x \in X : Turn(n, x) \in X
  BY DEF QuoteBehind, Open
<1>3. \A p : OpenQuote(s, p) = h[p - 1]
  BY Zenon DEF OpenQuote
<1>4. h \in [0..L -> X] /\ h[0] = z /\ \A n \in 1..L : h[n] = Turn(n, h[n - 1])
  <2> HIDE DEF L, X, z, Turn
  <2>1. G \in [1..L -> [X -> X]]
    BY <1>2
  <2>2. PICK f : Recursive(f, L, X, z, G)
    <3> HIDE DEF G
    <3>1. QED
      BY <1>1, <2>1, Recursion
  <2>3. /\ \A n \in 1..L : n \in 0..L /\ n - 1 \in 0..L /\ n # 0
        /\ \A n \in 0..L : n = 0 \/ n \in 1..L
    BY <1>1
  <2>4. \A n \in 0..L : f[n] = IF n = 0 THEN z ELSE Turn(n, f[n - 1])
    BY <2>2, <2>3 DEF Recursive
  <2>5. Is(f)
    BY <2>2, <2>4 DEF Recursive
  <2>6. Is(h)
    <3> HIDE DEF Is
    <3>1. QED
      BY <2>5
  <2>7. h = [n \in 0..L |-> h[n]]
    BY <2>6
  <2>8. \A n \in 0..L : h[n] = IF n = 0 THEN z ELSE Turn(n, h[n - 1])
    BY <2>6, Zenon
  <2> HIDE DEF h, Is
  <2>9. h[0] = z /\ \A n \in 1..L : h[n] = Turn(n, h[n - 1])
    BY <1>1, <2>3, <2>8
  <2>10. \A n \in 0..L : h[n] \in X
    BY <1>1, <1>2, <2>9, StaysIn
  <2>11. QED
    BY <2>7, <2>9, <2>10
<1> HIDE DEF h
<1>5. QED
  BY <1>3, <1>4

\* strip_quotes, from character to character.
LEMMA StripAre ==
    ASSUME NEW s \in Texts
    PROVE  \E f \in [0..Len(s) -> [q : Open, out : Texts]] :
               /\ f[0] = [q |-> "none", out |-> <<>>]
               /\ \A n \in 1..Len(s) : f[n] = StripTurn(s[n], f[n - 1])
               /\ StripQuotes(s) = f[Len(s)].out
<1> DEFINE L == Len(s)
           X == [q : Open, out : Texts]
           z == [q |-> "none", out |-> <<>>]
           Turn(n, x) == StripTurn(s[n], x)
           G == [n \in 1..L |-> [x \in X |-> Turn(n, x)]]
           Is(f) == f = [n \in 0..L |-> IF n = 0 THEN z ELSE Turn(n, f[n - 1])]
           h == CHOOSE f : Is(f)
<1>1. L \in Nat /\ z \in X
  BY TextIs DEF Texts, Open
<1>2. \A n \in 1..L : \A x \in X : Turn(n, x) \in X
  <2>1. ASSUME NEW n \in 1..L, NEW x \in X PROVE Turn(n, x) \in X
    <3>1. s[n] \in Chars
      BY TextIs
    <3>2. Append(x.out, s[n]) \in Texts
      BY <3>1 DEF Texts
    <3>3. QED
      BY <3>1, <3>2 DEF StripTurn, Open
  <2>2. QED
    BY <2>1
<1>3. StripQuotes(s) = h[Len(s)].out
  BY Zenon DEF StripQuotes
<1>4. h \in [0..L -> X] /\ h[0] = z /\ \A n \in 1..L : h[n] = Turn(n, h[n - 1])
  <2> HIDE DEF L, X, z, Turn
  <2>1. G \in [1..L -> [X -> X]]
    BY <1>2
  <2>2. PICK f : Recursive(f, L, X, z, G)
    <3> HIDE DEF G
    <3>1. QED
      BY <1>1, <2>1, Recursion
  <2>3. /\ \A n \in 1..L : n \in 0..L /\ n - 1 \in 0..L /\ n # 0
        /\ \A n \in 0..L : n = 0 \/ n \in 1..L
    BY <1>1
  <2>4. \A n \in 0..L : f[n] = IF n = 0 THEN z ELSE Turn(n, f[n - 1])
    BY <2>2, <2>3 DEF Recursive
  <2>5. Is(f)
    BY <2>2, <2>4 DEF Recursive
  <2>6. Is(h)
    <3> HIDE DEF Is
    <3>1. QED
      BY <2>5
  <2>7. h = [n \in 0..L |-> h[n]]
    BY <2>6
  <2>8. \A n \in 0..L : h[n] = IF n = 0 THEN z ELSE Turn(n, h[n - 1])
    BY <2>6, Zenon
  <2> HIDE DEF h, Is
  <2>9. h[0] = z /\ \A n \in 1..L : h[n] = Turn(n, h[n - 1])
    BY <1>1, <2>3, <2>8
  <2>10. \A n \in 0..L : h[n] \in X
    BY <1>1, <1>2, <2>9, StaysIn
  <2>11. QED
    BY <2>7, <2>9, <2>10
<1> HIDE DEF h
<1>5. QED
  BY <1>3, <1>4

\* What a place becomes is a text.
LEMMA PieceIsText ==
    ASSUME NEW sh \in Shells, NEW s \in Texts, NEW live, NEW gone, NEW p \in 1..Len(s)
    PROVE  Piece(sh, s, live, gone, p) \in Texts
<1>1. Meaning(sh, s, p) \in Texts
  BY ExpandVarIs
<1>2. <<s[p]>> \in Texts /\ <<>> \in Texts
  BY TextIs DEF Texts
<1>3. QED
  BY <1>1, <1>2 DEF Piece

\* j is the text of s up to each place.
JoinUpTo(j, sh, s, live, gone) ==
    /\ j \in [0..Len(s) -> Texts] /\ j[0] = <<>>
    /\ \A p \in 1..Len(s) : j[p] = j[p - 1] \o Piece(sh, s, live, gone, p)

\* The text place by place.
LEMMA JoinAre ==
    ASSUME NEW sh \in Shells, NEW s \in Texts, NEW live, NEW gone
    PROVE  \E j : JoinUpTo(j, sh, s, live, gone) /\ Joined(sh, s, live, gone) = j[Len(s)]
<1> DEFINE L == Len(s)
           X == Texts
           z == <<>>
           Turn(n, x) == x \o Piece(sh, s, live, gone, n)
           G == [n \in 1..L |-> [x \in X |-> Turn(n, x)]]
           Is(f) == f = [n \in 0..L |-> IF n = 0 THEN z ELSE Turn(n, f[n - 1])]
           h == CHOOSE f : Is(f)
<1>1. L \in Nat /\ z \in X
  BY TextIs DEF Texts
<1>2. \A n \in 1..L : \A x \in X : Turn(n, x) \in X
  BY PieceIsText DEF Texts
<1>3. Joined(sh, s, live, gone) = h[Len(s)]
  BY Zenon DEF Joined
<1>4. h \in [0..L -> X] /\ h[0] = z /\ \A n \in 1..L : h[n] = Turn(n, h[n - 1])
  <2> HIDE DEF L, X, z, Turn
  <2>1. G \in [1..L -> [X -> X]]
    BY <1>2
  <2>2. PICK f : Recursive(f, L, X, z, G)
    <3> HIDE DEF G
    <3>1. QED
      BY <1>1, <2>1, Recursion
  <2>3. /\ \A n \in 1..L : n \in 0..L /\ n - 1 \in 0..L /\ n # 0
        /\ \A n \in 0..L : n = 0 \/ n \in 1..L
    BY <1>1
  <2>4. \A n \in 0..L : f[n] = IF n = 0 THEN z ELSE Turn(n, f[n - 1])
    BY <2>2, <2>3 DEF Recursive
  <2>5. Is(f)
    BY <2>2, <2>4 DEF Recursive
  <2>6. Is(h)
    <3> HIDE DEF Is
    <3>1. QED
      BY <2>5
  <2>7. h = [n \in 0..L |-> h[n]]
    BY <2>6
  <2>8. \A n \in 0..L : h[n] = IF n = 0 THEN z ELSE Turn(n, h[n - 1])
    BY <2>6, Zenon
  <2> HIDE DEF h, Is
  <2>9. h[0] = z /\ \A n \in 1..L : h[n] = Turn(n, h[n - 1])
    BY <1>1, <2>3, <2>8
  <2>10. \A n \in 0..L : h[n] \in X
    BY <1>1, <1>2, <2>9, StaysIn
  <2>11. QED
    BY <2>7, <2>9, <2>10
<1> HIDE DEF h
<1>5. JoinUpTo(h, sh, s, live, gone)
  BY <1>4 DEF JoinUpTo
<1>6. QED
  BY <1>3, <1>5

\* expand_word, from turn to turn.
LEMMA ExpansionAre ==
    ASSUME NEW sh \in Shells, NEW s \in Texts, NEW quotes \in SUBSET Quotes, NEW drop \in BOOLEAN
    PROVE  \E f \in [0..Len(s) -> [at : 1..(Len(s) + 1), q : Open, text : Texts, vars : Nat, drop : BOOLEAN]] :
               /\ f[0] = [at |-> 1, q |-> "none", text |-> <<>>, vars |-> 0, drop |-> drop]
               /\ \A n \in 1..Len(s) : f[n] = ExpandTurn(sh, s, quotes, f[n - 1])
               /\ Expansion(sh, s, quotes, drop) = f[Len(s)]
<1> DEFINE L == Len(s)
           X == [at : 1..(Len(s) + 1), q : Open, text : Texts, vars : Nat, drop : BOOLEAN]
           z == [at |-> 1, q |-> "none", text |-> <<>>, vars |-> 0, drop |-> drop]
           Turn(n, x) == ExpandTurn(sh, s, quotes, x)
           G == [n \in 1..L |-> [x \in X |-> Turn(n, x)]]
           Is(f) == f = [n \in 0..L |-> IF n = 0 THEN z ELSE Turn(n, f[n - 1])]
           h == CHOOSE f : Is(f)
<1>1. L \in Nat /\ z \in X
  BY TextIs DEF Texts, Open
<1>2. \A n \in 1..L : \A x \in X : Turn(n, x) \in X
  <2>1. ASSUME NEW x \in X PROVE ExpandTurn(sh, s, quotes, x) \in X
    <3>1. CASE x.at > L
      BY <1>1, <3>1 DEF ExpandTurn
    <3>2. CASE ~(x.at > L)
      <4> DEFINE v == ExpandVar(sh, s, x.at)
      <4>1. x.at \in 1..L /\ s[x.at] \in Chars /\ x.at + 1 \in 1..(L + 1)
        BY <1>1, <3>2, TextIs
      <4>2. v.text \in Texts /\ v.next \in (x.at + 1)..(L + 1)
        BY <4>1, ExpandVarIs
      <4>3. v.next \in 1..(L + 1)
        BY <1>1, <4>1, <4>2
      <4>4. x.text \o v.text \in Texts /\ Append(x.text, s[x.at]) \in Texts
        BY <4>1, <4>2 DEF Texts
      <4> HIDE DEF v
      <4>5. CASE x.q = "none" /\ s[x.at] \in quotes
        BY <3>2, <4>1, <4>5 DEF ExpandTurn, Open
      <4>6. CASE ~(x.q = "none" /\ s[x.at] \in quotes) /\ x.q = s[x.at]
        BY <3>2, <4>1, <4>6 DEF ExpandTurn, Open
      <4>7. CASE /\ ~(x.q = "none" /\ s[x.at] \in quotes) /\ x.q # s[x.at]
                 /\ s[x.at] = "$" /\ x.q # "single"
        <5> DEFINE none == x.drop /\ v.text = <<>>
                   more == x.text \o v.text
                   m == x.vars + 1
        <5>1. ExpandTurn(sh, s, quotes, x) =
                  [x EXCEPT !.at = v.next, !.text = more, !.vars = m, !.drop = none]
          BY <3>2, <4>7, Zenon DEF ExpandTurn, v
        <5>2. none \in BOOLEAN /\ more \in Texts /\ m \in Nat
          BY <4>4
        <5> HIDE DEF none, more, m
        <5>3. QED
          BY <4>3, <5>1, <5>2
      <4>8. CASE /\ ~(x.q = "none" /\ s[x.at] \in quotes) /\ x.q # s[x.at]
                 /\ ~(s[x.at] = "$" /\ x.q # "single")
        <5>1. ExpandTurn(sh, s, quotes, x) =
                  [x EXCEPT !.at = @ + 1, !.text = IF x.drop THEN @ ELSE Append(@, s[x.at]),
                            !.drop = FALSE]
          BY <3>2, <4>8, Zenon DEF ExpandTurn
        <5>2. QED
          BY <4>1, <4>4, <5>1
      <4>9. QED
        BY <4>5, <4>6, <4>7, <4>8
    <3>3. QED
      BY <3>1, <3>2
  <2>2. QED
    BY <2>1
<1>3. Expansion(sh, s, quotes, drop) = h[Len(s)]
  BY Zenon DEF Expansion
<1>4. h \in [0..L -> X] /\ h[0] = z /\ \A n \in 1..L : h[n] = Turn(n, h[n - 1])
  <2> HIDE DEF L, X, z, Turn
  <2>1. G \in [1..L -> [X -> X]]
    BY <1>2
  <2>2. PICK f : Recursive(f, L, X, z, G)
    <3> HIDE DEF G
    <3>1. QED
      BY <1>1, <2>1, Recursion
  <2>3. /\ \A n \in 1..L : n \in 0..L /\ n - 1 \in 0..L /\ n # 0
        /\ \A n \in 0..L : n = 0 \/ n \in 1..L
    BY <1>1
  <2>4. \A n \in 0..L : f[n] = IF n = 0 THEN z ELSE Turn(n, f[n - 1])
    BY <2>2, <2>3 DEF Recursive
  <2>5. Is(f)
    BY <2>2, <2>4 DEF Recursive
  <2>6. Is(h)
    <3> HIDE DEF Is
    <3>1. QED
      BY <2>5
  <2>7. h = [n \in 0..L |-> h[n]]
    BY <2>6
  <2>8. \A n \in 0..L : h[n] = IF n = 0 THEN z ELSE Turn(n, h[n - 1])
    BY <2>6, Zenon
  <2> HIDE DEF h, Is
  <2>9. h[0] = z /\ \A n \in 1..L : h[n] = Turn(n, h[n - 1])
    BY <1>1, <2>3, <2>8
  <2>10. \A n \in 0..L : h[n] \in X
    BY <1>1, <1>2, <2>9, StaysIn
  <2>11. QED
    BY <2>7, <2>9, <2>10
<1> HIDE DEF h
<1>5. QED
  BY <1>3, <1>4

---------------------------------------------------------------------------
(* expand_word builds the text that is stated place by place               *)

\* The quote open behind each place of s when those in quotes open one.
OpenAfter(open, s, quotes) ==
    /\ open \in [0..Len(s) -> quotes \cup {"none"}] /\ open[0] = "none"
    /\ \A p \in 1..Len(s) :
           open[p] = IF s[p] \in quotes /\ open[p - 1] = "none" THEN s[p]
                     ELSE IF s[p] = open[p - 1] THEN "none" ELSE open[p - 1]

Live(s, open) == {p \in DOMAIN s : s[p] = "$" /\ open[p - 1] # "single"}
Gone(s, quotes, open) == {p \in DOMAIN s : s[p] \in quotes /\ open[p - 1] \in {"none", s[p]}}

\* A state of the loop that agrees with the text: no "$" before its cursor names
\* the place there.
Agrees(x, open, j, s) ==
    /\ x.q = open[x.at - 1] /\ ~x.drop /\ x.text = j[x.at - 1]
    /\ x.at <= Len(s) => \A d \in Live(s, open) : d < x.at => ~NamedBy(s, d, x.at)

\* No place behind one that no "$" before it names is named by a "$" before that.
LEMMA NotNamedAcross ==
    ASSUME NEW s \in Texts, NEW live \in SUBSET (1..Len(s)), NEW a \in 1..Len(s), NEW b \in (a + 1)..Len(s),
           \A d \in live : d < a => ~NamedBy(s, d, a)
    PROVE  \A d \in live : d < a => ~NamedBy(s, d, b)
<1>1. SUFFICES ASSUME NEW d \in live, d < a, NamedBy(s, d, b) PROVE FALSE
  OBVIOUS
<1>2. d \in Nat /\ a \in Nat /\ b \in Nat /\ d # b - 1 /\ a < b /\ Len(s) \in Nat
  BY <1>1, TextIs
<1>3. IsName(s, d, b)
  BY <1>1, <1>2 DEF NamedBy
<1>4. \A q \in (d + 1)..a : q \in (d + 1)..b
  BY <1>2
<1>5. IsName(s, d, a)
  BY <1>1, <1>2, <1>3, <1>4 DEF IsName
<1>6. QED
  BY <1>1, <1>5 DEF NamedBy

LEMMA NothingJoined ==
    \A t \in Texts : t \o <<>> = t
BY DEF Texts

\* One turn keeps the agreement and goes on.
LEMMA TurnAgrees ==
    ASSUME NEW sh \in Shells, NEW s \in Texts, NEW quotes \in SUBSET Quotes, NEW open,
           OpenAfter(open, s, quotes), NEW j,
           JoinUpTo(j, sh, s, Live(s, open), Gone(s, quotes, open)),
           NEW x \in [at : 1..(Len(s) + 1), q : Open, text : Texts, vars : Nat, drop : BOOLEAN],
           x.at <= Len(s), Agrees(x, open, j, s)
    PROVE  LET y == ExpandTurn(sh, s, quotes, x)
           IN Agrees(y, open, j, s) /\ y.at > x.at
<1> DEFINE L == Len(s)
           a == x.at
           y == ExpandTurn(sh, s, quotes, x)
           live == Live(s, open)
           gone == Gone(s, quotes, open)
<1>1. L \in Nat /\ a \in Nat /\ a \in 1..L /\ a - 1 \in 0..L /\ a \in 0..L /\ a + 1 \in 1..(L + 1)
  BY TextIs
<1>2. /\ DOMAIN s = 1..L /\ s[a] \in Chars /\ s[a] # "none" /\ "$" \notin Quotes
      /\ live \in SUBSET (1..L) /\ \A p \in 1..L : p \in live => s[p] = "$"
  BY <1>1, TextIs, CharsApart DEF Live
<1>3. /\ x.q = open[a - 1] /\ x.drop = FALSE /\ x.text = j[a - 1]
      /\ \A d \in live : d < a => ~NamedBy(s, d, a)
  BY DEF Agrees
<1>4. /\ open[a - 1] \in quotes \cup {"none"} /\ j[a - 1] \in Texts
      /\ j[a] = j[a - 1] \o Piece(sh, s, live, gone, a)
      /\ open[a] = IF s[a] \in quotes /\ open[a - 1] = "none" THEN s[a]
                   ELSE IF s[a] = open[a - 1] THEN "none" ELSE open[a - 1]
  BY <1>1 DEF OpenAfter, JoinUpTo
<1>5. a + 1 \in 1..L => \A d \in live : d < a => ~NamedBy(s, d, a + 1)
  BY <1>1, <1>2, <1>3, NotNamedAcross
<1>6. (a + 1) - 1 = a /\ a + 1 > a /\ (a + 1 <= L => a + 1 \in 1..L)
  BY <1>1
<1>7. ASSUME a \notin live PROVE a + 1 <= L => \A d \in live : d < a + 1 => ~NamedBy(s, d, a + 1)
  <2>1. \A d \in live : d < a + 1 => d < a
    BY <1>1, <1>2, <1>7
  <2>2. QED
    BY <1>5, <1>6, <2>1
<1>8. a \in live <=> s[a] = "$" /\ open[a - 1] # "single"
  BY <1>1, <1>2 DEF Live
<1>9. a \in gone <=> s[a] \in quotes /\ open[a - 1] \in {"none", s[a]}
  BY <1>1, <1>2 DEF Gone
<1>10. ~(x.at > Len(s))
  BY <1>1
<1> HIDE DEF live, gone, L
<1>11. CASE x.q = "none" /\ s[a] \in quotes
  <2>1. y = [x EXCEPT !.at = @ + 1, !.q = s[a]]
    BY <1>10, <1>11, Zenon DEF ExpandTurn
  <2>2. y.at = a + 1 /\ y.q = s[a] /\ y.drop = FALSE /\ y.text = j[a - 1]
    BY <1>3, <2>1
  <2>3. a \notin live /\ a \in gone
    BY <1>2, <1>3, <1>8, <1>9, <1>11
  <2>4. Piece(sh, s, live, gone, a) = <<>>
    BY <2>3 DEF Piece
  <2>5. j[a] = j[a - 1]
    BY <1>4, <2>4 DEF Texts
  <2>6. open[a] = s[a]
    BY <1>3, <1>4, <1>11
  <2> HIDE DEF y
  <2>7. QED
    BY <1>6, <1>7, <2>2, <2>3, <2>5, <2>6 DEF Agrees, y, live, L
<1>12. CASE ~(x.q = "none" /\ s[a] \in quotes) /\ x.q = s[a]
  <2>1. y = [x EXCEPT !.at = @ + 1, !.q = "none"]
    BY <1>10, <1>12, Zenon DEF ExpandTurn
  <2>2. y.at = a + 1 /\ y.q = "none" /\ y.drop = FALSE /\ y.text = j[a - 1]
    BY <1>3, <2>1
  <2>3. s[a] \in quotes /\ s[a] # "$"
    BY <1>2, <1>3, <1>4, <1>12
  <2>4. a \notin live /\ a \in gone
    BY <1>3, <1>8, <1>9, <1>12, <2>3
  <2>5. Piece(sh, s, live, gone, a) = <<>>
    BY <2>4 DEF Piece
  <2>6. j[a] = j[a - 1]
    BY <1>4, <2>5 DEF Texts
  <2>7. open[a] = "none"
    BY <1>3, <1>4, <1>12
  <2> HIDE DEF y
  <2>8. QED
    BY <1>6, <1>7, <2>2, <2>4, <2>6, <2>7 DEF Agrees, y, live, L
<1>13. CASE /\ ~(x.q = "none" /\ s[a] \in quotes) /\ x.q # s[a]
            /\ s[a] = "$" /\ x.q # "single"
  <2> DEFINE v == ExpandVar(sh, s, a)
             to == v.next
  <2>1. y = [x EXCEPT !.at = to, !.text = @ \o v.text, !.vars = @ + 1,
                      !.drop = @ /\ v.text = <<>>]
    BY <1>10, <1>13, Zenon DEF ExpandTurn
  <2>2. /\ v.text = Meaning(sh, s, a) /\ v.text \in Texts
        /\ to \in (a + 1)..(L + 1)
        /\ \A b \in (a + 1)..(to - 1) : NamedBy(s, a, b) /\ s[b] \in Letters \cup Digits \cup {"?"}
        /\ to <= L => ~NamedBy(s, a, to)
    BY <1>1, ExpandVarIs DEF L
  <2> HIDE DEF v
  <2>3. y.at = to /\ y.q = x.q /\ y.drop = FALSE /\ y.text = j[a - 1] \o v.text
    BY <1>3, <2>1
  <2>4. a \in live
    BY <1>3, <1>8, <1>13
  <2>5. Piece(sh, s, live, gone, a) = v.text
    BY <2>2, <2>4 DEF Piece
  <2>6. j[a] = y.text
    BY <1>4, <2>3, <2>5
  <2>7. open[a] = y.q
    BY <1>3, <1>4, <1>13, <2>3
  <2> HIDE DEF to, y
  <2>8. to \in Nat /\ to - 1 \in a..L /\ to > a
    BY <1>1, <2>2
  <2>9. ASSUME NEW b \in (a + 1)..(to - 1)
        PROVE  b \notin live /\ Piece(sh, s, live, gone, b) = <<>> /\ open[b] = open[b - 1]
    <3>1. b \in 1..L /\ b - 1 \in 0..L /\ b \in Nat
      BY <1>1, <2>8
    <3>2. NamedBy(s, a, b) /\ s[b] # "$" /\ s[b] \notin Quotes /\ s[b] # "none"
      BY <2>2, CharsApart DEF Letters, Digits, Quotes
    <3>3. b \notin live
      BY <1>2, <3>1, <3>2 DEF L
    <3>4. Named(s, b, live)
      <4>1. a \in 1..(b - 1)
        BY <1>1, <3>1
      <4>2. QED
        BY <2>4, <3>2, <4>1 DEF Named, NamedBy
    <3>5. Piece(sh, s, live, gone, b) = <<>>
      BY <3>3, <3>4 DEF Piece
    <3>6. open[b - 1] \in quotes \cup {"none"}
      BY <3>1 DEF OpenAfter, L
    <3>7. open[b] = open[b - 1]
      <4>1. b \in 1..Len(s) /\ s[b] \notin quotes /\ s[b] # open[b - 1]
        BY <3>1, <3>2, <3>6 DEF L
      <4>2. QED
        BY <4>1 DEF OpenAfter
    <3>8. QED
      BY <3>3, <3>5, <3>7
  <2> DEFINE T == {b \in a..(to - 1) : j[b] = j[a] /\ open[b] = open[a]}
  <2>10. a \in T
    BY <1>1, <2>8
  <2>11. ASSUME NEW b \in a..((to - 1) - 1), b \in T PROVE b + 1 \in T
    <3>1. b + 1 \in (a + 1)..(to - 1) /\ (b + 1) - 1 = b /\ b + 1 \in 1..L /\ b \in 0..L /\ b + 1 \in a..(to - 1)
      BY <1>1, <2>8
    <3>2. j[b] \in Texts /\ j[b + 1] = j[b] \o Piece(sh, s, live, gone, b + 1)
      BY <3>1 DEF JoinUpTo, L, live, gone
    <3>3. Piece(sh, s, live, gone, b + 1) = <<>> /\ open[b + 1] = open[b]
      BY <2>9, <3>1
    <3>4. j[b + 1] = j[b]
      BY <3>2, <3>3, NothingJoined
    <3>5. QED
      BY <2>11, <3>1, <3>3, <3>4
  <2> HIDE DEF T
  <2>12. \A b \in a..(to - 1) : b \in T
    <3>1. to - 1 \in Nat
      BY <1>1, <2>8
    <3>2. QED
      BY <1>1, <2>10, <2>11, <3>1, UpTo
  <2>13. j[to - 1] = j[a] /\ open[to - 1] = open[a]
    <3>1. to - 1 \in a..(to - 1)
      BY <1>1, <2>8
    <3>2. QED
      BY <2>12, <3>1 DEF T
  <2>14. ASSUME to <= L, NEW d \in live, d < to PROVE ~NamedBy(s, d, to)
    <3>1. d \in Nat /\ to \in (a + 1)..L
      BY <1>1, <1>2, <2>2, <2>14
    <3>2. CASE d < a
      BY <1>1, <1>2, <1>3, <3>1, <3>2, NotNamedAcross DEF L
    <3>3. CASE d = a
      BY <2>2, <2>14, <3>3
    <3>4. CASE d > a
      <4>1. d \in (a + 1)..(to - 1)
        BY <1>1, <2>8, <2>14, <3>1, <3>4
      <4>2. QED
        BY <2>9, <2>14, <4>1
    <3>5. QED
      BY <1>1, <3>1, <3>2, <3>3, <3>4
  <2>15. QED
    BY <2>3, <2>6, <2>7, <2>8, <2>13, <2>14 DEF Agrees, y, live, L
<1>14. CASE /\ ~(x.q = "none" /\ s[a] \in quotes) /\ x.q # s[a]
            /\ ~(s[a] = "$" /\ x.q # "single")
  <2>1. y = [x EXCEPT !.at = @ + 1, !.text = IF x.drop THEN @ ELSE Append(@, s[a]), !.drop = FALSE]
    BY <1>10, <1>14, Zenon DEF ExpandTurn
  <2>2. y.at = a + 1 /\ y.q = x.q /\ y.drop = FALSE /\ y.text = Append(j[a - 1], s[a])
    BY <1>3, <2>1
  <2>3. a \notin live /\ a \notin gone
    BY <1>3, <1>8, <1>9, <1>14
  <2>4. ~Named(s, a, live)
    <3>1. \A d \in 1..(a - 1) : d < a
      BY <1>1
    <3>2. QED
      BY <1>3, <3>1 DEF Named, NamedBy
  <2>5. Piece(sh, s, live, gone, a) = <<s[a]>>
    BY <2>3, <2>4 DEF Piece
  <2>6. j[a] = Append(j[a - 1], s[a])
    BY <1>2, <1>4, <2>5 DEF Texts
  <2>7. open[a] = x.q
    BY <1>3, <1>4, <1>14
  <2> HIDE DEF y
  <2>8. QED
    BY <1>6, <1>7, <2>2, <2>3, <2>6, <2>7 DEF Agrees, y, live, L
<1>15. QED
  BY <1>11, <1>12, <1>13, <1>14

LEMMA ExpansionIs ==
    ASSUME NEW sh \in Shells, NEW s \in Texts, NEW quotes \in SUBSET Quotes, NEW open,
           OpenAfter(open, s, quotes)
    PROVE  Expansion(sh, s, quotes, FALSE).text
               = Joined(sh, s, Live(s, open), Gone(s, quotes, open))
<1> DEFINE L == Len(s)
           State == [at : 1..(Len(s) + 1), q : Open, text : Texts, vars : Nat, drop : BOOLEAN]
           live == Live(s, open)
           gone == Gone(s, quotes, open)
<1>1. L \in Nat
  BY TextIs
<1>2. PICK j : JoinUpTo(j, sh, s, live, gone) /\ Joined(sh, s, live, gone) = j[L]
  BY JoinAre
<1>3. j[0] = <<>>
  BY <1>2 DEF JoinUpTo
<1>4. PICK x \in [0..L -> State] :
          /\ x[0] = [at |-> 1, q |-> "none", text |-> <<>>, vars |-> 0, drop |-> FALSE]
          /\ \A n \in 1..L : x[n] = ExpandTurn(sh, s, quotes, x[n - 1])
          /\ Expansion(sh, s, quotes, FALSE) = x[L]
  BY ExpansionAre
<1> DEFINE T == {n \in 0..L : /\ Agrees(x[n], open, j, s)
                              /\ n < x[n].at \/ x[n].at = L + 1}
<1>5. 0 \in T
  <2>1. open[0] = "none"
    BY DEF OpenAfter
  <2>2. x[0].at = 1 /\ x[0].q = "none" /\ x[0].text = <<>> /\ x[0].drop = FALSE
    BY <1>4
  <2>3. \A d \in Live(s, open) : ~(d < 1)
    BY TextIs DEF Live
  <2>4. Agrees(x[0], open, j, s)
    BY <1>3, <2>1, <2>2, <2>3 DEF Agrees
  <2>5. QED
    BY <1>1, <2>2, <2>4
<1>6. ASSUME NEW n \in 0..(L - 1), n \in T PROVE n + 1 \in T
  <2>1. n + 1 \in 1..L /\ n + 1 \in 0..L /\ n \in 0..L /\ (n + 1) - 1 = n
    BY <1>1
  <2>2. x[n] \in State /\ x[n + 1] \in State /\ x[n + 1] = ExpandTurn(sh, s, quotes, x[n])
    BY <1>4, <2>1
  <2>3. Agrees(x[n], open, j, s) /\ (n < x[n].at \/ x[n].at = L + 1)
    BY <1>6
  <2>4. CASE x[n].at <= L
    <3>1. Agrees(x[n + 1], open, j, s) /\ x[n + 1].at > x[n].at
      <4> DEFINE b == x[n]
      <4>1. b \in State /\ b.at <= Len(s) /\ Agrees(b, open, j, s)
        BY <2>2, <2>3, <2>4
      <4>2. x[n + 1] = ExpandTurn(sh, s, quotes, b)
        BY <2>2
      <4> HIDE DEF b, T
      <4>3. Agrees(ExpandTurn(sh, s, quotes, b), open, j, s) /\ ExpandTurn(sh, s, quotes, b).at > b.at
        BY <1>2, <4>1, TurnAgrees
      <4>4. QED
        BY <4>2, <4>3 DEF b
    <3>2. x[n + 1].at \in Nat /\ x[n].at \in Nat
      BY <1>1, <2>2
    <3>3. n + 1 < x[n + 1].at
      BY <1>1, <2>3, <2>4, <3>1, <3>2
    <3>4. QED
      BY <2>1, <3>1, <3>3
  <2>5. CASE ~(x[n].at <= L)
    <3>1. x[n].at > Len(s)
      BY <1>1, <2>2, <2>5
    <3>2. x[n + 1] = x[n]
      BY <2>2, <3>1 DEF ExpandTurn
    <3>3. x[n].at = L + 1
      <4>1. x[n].at \in 1..(L + 1)
        BY <2>2
      <4>2. \A m \in 1..(L + 1) : m > L => m = L + 1
        BY <1>1
      <4>3. QED
        BY <3>1, <4>1, <4>2
    <3>4. QED
      BY <2>1, <2>3, <3>2, <3>3
  <2>6. QED
    BY <2>4, <2>5
<1> HIDE DEF T
<1>7. \A n \in 0..L : n \in T
  BY <1>1, <1>5, <1>6, UpTo
<1>8. L \in T /\ x[L] \in State
  <2>1. L \in 0..L
    BY <1>1
  <2>2. QED
    BY <1>4, <1>7, <2>1
<1>9. x[L].at = L + 1
  BY <1>1, <1>8 DEF T
<1>10. x[L].text = j[L]
  <2>1. (L + 1) - 1 = L
    BY <1>1
  <2>2. QED
    BY <1>8, <1>9, <2>1 DEF T, Agrees
<1>11. QED
  BY <1>2, <1>4, <1>10

\* The quotes that are open in a word, and in a line, where none opens.
LEMMA WordOpen ==
    ASSUME NEW s \in Texts
    PROVE  \E open : /\ OpenAfter(open, s, Quotes)
                     /\ Delimiters(s) = Gone(s, Quotes, open)
                     /\ {p \in DOMAIN s : s[p] = "$" /\ OpenQuote(s, p) # "single"} = Live(s, open)
<1>1. PICK open \in [0..Len(s) -> Open] :
          /\ open[0] = "none"
          /\ \A n \in 1..Len(s) : open[n] = QuoteBehind(open[n - 1], s[n])
          /\ \A p : OpenQuote(s, p) = open[p - 1]
  BY OpenAre
<1>2. OpenAfter(open, s, Quotes)
  <2>1. \A n \in 1..Len(s) :
            open[n] = IF s[n] \in Quotes /\ open[n - 1] = "none" THEN s[n]
                      ELSE IF s[n] = open[n - 1] THEN "none" ELSE open[n - 1]
    BY <1>1 DEF QuoteBehind
  <2>2. QED
    BY <1>1, <2>1 DEF OpenAfter, Open
<1>3. Delimiters(s) = Gone(s, Quotes, open)
  BY <1>1 DEF Delimiters, Delimits, Gone
<1>4. {p \in DOMAIN s : s[p] = "$" /\ OpenQuote(s, p) # "single"} = Live(s, open)
  BY <1>1 DEF Live
<1>5. QED
  BY <1>2, <1>3, <1>4

\* expand_word gives what a word means.
LEMMA WordExpansion ==
    ASSUME NEW sh \in Shells, NEW s \in Texts
    PROVE  Expansion(sh, s, Quotes, FALSE).text = WordText(sh, s) /\ WordText(sh, s) \in Texts
<1>1. PICK open : /\ OpenAfter(open, s, Quotes)
                  /\ Delimiters(s) = Gone(s, Quotes, open)
                  /\ {p \in DOMAIN s : s[p] = "$" /\ OpenQuote(s, p) # "single"} = Live(s, open)
  BY WordOpen
<1>2. WordText(sh, s) = Joined(sh, s, Live(s, open), Gone(s, Quotes, open))
  BY <1>1 DEF WordText
<1>3. Quotes \in SUBSET Quotes
  OBVIOUS
<1>4. Expansion(sh, s, Quotes, FALSE).text = WordText(sh, s)
  BY <1>1, <1>2, <1>3, ExpansionIs
<1>5. PICK j : /\ JoinUpTo(j, sh, s, Live(s, open), Gone(s, Quotes, open))
               /\ WordText(sh, s) = j[Len(s)]
  BY <1>2, JoinAre
<1>6. WordText(sh, s) \in Texts
  BY <1>5, TextIs DEF JoinUpTo
<1>7. QED
  BY <1>4, <1>6

\* expand_heredoc_line replaces the variables of a line.
LEMMA LineExpansion ==
    ASSUME NEW sh \in Shells, NEW s \in Texts
    PROVE  Expansion(sh, s, {}, FALSE).text = LineText(sh, s)
<1> DEFINE open == [n \in 0..Len(s) |-> "none"]
<1>1. Len(s) \in Nat /\ DOMAIN s = 1..Len(s) /\ \A p \in 1..Len(s) : p \in 0..Len(s) /\ p - 1 \in 0..Len(s)
  BY TextIs
<1>2. OpenAfter(open, s, {})
  BY <1>1 DEF OpenAfter
<1>3. {p \in DOMAIN s : s[p] = "$"} = Live(s, open)
  BY <1>1 DEF Live
<1>4. {} = Gone(s, {}, open)
  BY DEF Gone
<1>5. {} \in SUBSET Quotes
  OBVIOUS
<1> HIDE DEF open
<1>6. LineText(sh, s) = Joined(sh, s, Live(s, open), Gone(s, {}, open))
  BY <1>3, <1>4 DEF LineText
<1>7. QED
  BY <1>2, <1>5, <1>6, ExpansionIs

\* strip_quotes leaves the delimiter without the quotes around its parts.
LEMMA StripIsDelimiter ==
    ASSUME NEW sh \in Shells, NEW s \in Texts
    PROVE  StripQuotes(s) = Delimiter(sh, s)
<1> DEFINE L == Len(s)
<1>1. L \in Nat
  BY TextIs
<1>2. PICK open : OpenAfter(open, s, Quotes) /\ Delimiters(s) = Gone(s, Quotes, open)
  BY WordOpen
<1> DEFINE gone == Gone(s, Quotes, open)
<1>3. PICK j : JoinUpTo(j, sh, s, {}, gone) /\ Delimiter(sh, s) = j[L]
  <2> HIDE DEF gone
  <2>1. Delimiter(sh, s) = Joined(sh, s, {}, gone)
    BY <1>2 DEF Delimiter, gone
  <2>2. QED
    BY <2>1, JoinAre
<1>4. PICK x \in [0..L -> [q : Open, out : Texts]] :
          /\ x[0] = [q |-> "none", out |-> <<>>]
          /\ \A n \in 1..L : x[n] = StripTurn(s[n], x[n - 1])
          /\ StripQuotes(s) = x[L].out
  BY StripAre
<1> DEFINE T == {n \in 0..L : x[n].q = open[n] /\ x[n].out = j[n]}
<1>5. 0 \in T
  BY <1>1, <1>2, <1>3, <1>4 DEF OpenAfter, JoinUpTo
<1>6. ASSUME NEW n \in 0..(L - 1), n \in T PROVE n + 1 \in T
  <2> DEFINE m == n + 1
             ch == s[m]
             b == x[n]
  <2>1. m \in 1..L /\ m \in 0..L /\ n \in 0..L /\ m - 1 = n
    BY <1>1
  <2>2. b \in [q : Open, out : Texts] /\ x[m] = StripTurn(ch, b) /\ b.q = open[n] /\ b.out = j[n]
    BY <1>4, <1>6, <2>1
  <2>3. /\ open[n] \in Quotes \cup {"none"}
        /\ open[m] = IF ch \in Quotes /\ open[n] = "none" THEN ch
                     ELSE IF ch = open[n] THEN "none" ELSE open[n]
    BY <1>2, <2>1 DEF OpenAfter
  <2>4. j[n] \in Texts /\ j[m] = j[n] \o Piece(sh, s, {}, gone, m)
    BY <1>3, <2>1 DEF JoinUpTo
  <2>5. ch \in Chars /\ ch # "none" /\ DOMAIN s = 1..L
    BY <2>1, TextIs, CharsApart
  <2>6. m \in gone <=> ch \in Quotes /\ open[n] \in {"none", ch}
    BY <2>1, <2>5 DEF Gone
  <2>7. ~Named(s, m, {})
    BY DEF Named
  <2> HIDE DEF gone, ch, b, m, T
  <2>8. Piece(sh, s, {}, gone, m) = IF m \in gone THEN <<>> ELSE <<s[m]>>
    BY <2>7 DEF Piece
  <2>9. s[m] = ch
    BY DEF ch
  <2>10. m \in gone => j[m] = j[n]
    BY <2>4, <2>8, NothingJoined
  <2>11. m \notin gone => j[m] = Append(j[n], ch)
    <3>1. m \notin gone => j[m] = j[n] \o <<ch>>
      BY <2>4, <2>8, <2>9
    <3>2. j[n] \o <<ch>> = Append(j[n], ch)
      BY <2>4, <2>5 DEF Texts
    <3>3. QED
      BY <3>1, <3>2
  <2>12. x[m].q = open[m] /\ x[m].out = j[m]
    <3>1. CASE b.q = "none" /\ ch \in Quotes
      <4>1. x[m] = [b EXCEPT !.q = ch]
        BY <2>2, <3>1 DEF StripTurn
      <4>2. x[m].q = ch /\ x[m].out = b.out
        BY <2>2, <4>1
      <4>3. QED
        BY <2>2, <2>3, <2>6, <2>10, <3>1, <4>2
    <3>2. CASE ~(b.q = "none" /\ ch \in Quotes) /\ b.q = ch
      <4>1. x[m] = [b EXCEPT !.q = "none"]
        BY <2>2, <3>2 DEF StripTurn
      <4>2. x[m].q = "none" /\ x[m].out = b.out
        BY <2>2, <4>1
      <4>3. QED
        BY <2>2, <2>3, <2>5, <2>6, <2>10, <3>2, <4>2
    <3>3. CASE ~(b.q = "none" /\ ch \in Quotes) /\ b.q # ch
      <4>1. x[m] = [b EXCEPT !.out = Append(@, ch)]
        BY <2>2, <3>3 DEF StripTurn
      <4>2. x[m].q = b.q /\ x[m].out = Append(j[n], ch)
        BY <2>2, <4>1
      <4>3. QED
        BY <2>2, <2>3, <2>6, <2>11, <3>3, <4>2
    <3>4. QED
      BY <3>1, <3>2, <3>3
  <2>13. QED
    BY <2>1, <2>12 DEF T, m
<1> HIDE DEF T
<1>7. \A n \in 0..L : n \in T
  BY <1>1, <1>5, <1>6, UpTo
<1>8. L \in T
  BY <1>1, <1>7
<1>9. QED
  BY <1>3, <1>4, <1>8 DEF T

\* What is counted for a word is what is stored, and that is the word's fields.
LEMMA FieldsAre ==
    ASSUME NEW sh \in Shells, NEW w \in Texts
    PROVE  LET text == WordText(sh, w)
           IN /\ FieldsOf(w, text) = WordFields(sh, w) /\ WordFields(sh, w) \in Seq(Texts)
              /\ FieldCount(w, text) = Len(WordFields(sh, w))
<1> DEFINE text == WordText(sh, w)
<1>1. text \in Texts
  BY WordExpansion
<1>2. CASE HasQuote(w)
  BY <1>1, <1>2 DEF FieldsOf, FieldCount, WordFields
<1>3. CASE ~HasQuote(w)
  <2>1. WordFields(sh, w) = Runs(text)
    BY <1>3 DEF WordFields
  <2>2. SplitIfs(text) \in Seq(Texts) /\ IfsWc(text) = Len(SplitIfs(text)) /\ SplitIfs(text) = Runs(text)
    BY <1>1, FieldsAgree
  <2>3. text = <<>> => Runs(text) = <<>>
    BY <1>1, RunsAre
  <2> HIDE DEF text
  <2>4. CASE text = <<>>
    <3>1. WordFields(sh, w) = <<>>
      BY <2>1, <2>3, <2>4
    <3>2. FieldsOf(w, text) = <<>> /\ FieldCount(w, text) = 0
      BY <1>3, <2>4 DEF FieldsOf, FieldCount
    <3>3. <<>> \in Seq(Texts) /\ Len(<<>>) = 0
      OBVIOUS
    <3>4. QED
      BY <3>1, <3>2, <3>3 DEF text
  <2>5. CASE text # <<>>
    BY <1>3, <2>1, <2>2, <2>5 DEF FieldsOf, FieldCount, text
  <2>6. QED
    BY <2>4, <2>5
<1>4. QED
  BY <1>2, <1>3

\* The fields of argv up to each word.
FieldsUpTo(sh, argv) ==
    LET join[k \in 0..Len(argv)] ==
            IF k = 0 THEN <<>> ELSE join[k - 1] \o WordFields(sh, argv[k])
    IN join

\* ArgvFields, from word to word.
LEMMA ArgvAre ==
    ASSUME NEW sh \in Shells, NEW argv \in Seq(Texts)
    PROVE  \E f \in [0..Len(argv) -> Seq(Texts)] :
               /\ f[0] = <<>>
               /\ \A n \in 1..Len(argv) : f[n] = f[n - 1] \o WordFields(sh, argv[n])
               /\ FieldsUpTo(sh, argv) = f /\ ArgvFields(sh, argv) = f[Len(argv)]
<1> DEFINE L == Len(argv)
           X == Seq(Texts)
           z == <<>>
           Turn(n, x) == x \o WordFields(sh, argv[n])
           G == [n \in 1..L |-> [x \in X |-> Turn(n, x)]]
           Is(f) == f = [n \in 0..L |-> IF n = 0 THEN z ELSE Turn(n, f[n - 1])]
           h == CHOOSE f : Is(f)
<1>1. L \in Nat /\ z \in X
  OBVIOUS
<1>2. \A n \in 1..L : \A x \in X : Turn(n, x) \in X
  <2>1. ASSUME NEW n \in 1..L, NEW x \in X PROVE Turn(n, x) \in X
    <3>1. argv[n] \in Texts
      OBVIOUS
    <3>2. WordFields(sh, argv[n]) \in Seq(Texts)
      BY <3>1, FieldsAre
    <3>3. QED
      BY <3>2
  <2>2. QED
    BY <2>1
<1>3. FieldsUpTo(sh, argv) = h /\ ArgvFields(sh, argv) = h[Len(argv)]
  BY Zenon DEF FieldsUpTo, ArgvFields
<1>4. h \in [0..L -> X] /\ h[0] = z /\ \A n \in 1..L : h[n] = Turn(n, h[n - 1])
  <2> HIDE DEF L, X, z, Turn
  <2>1. G \in [1..L -> [X -> X]]
    BY <1>2
  <2>2. PICK f : Recursive(f, L, X, z, G)
    <3> HIDE DEF G
    <3>1. QED
      BY <1>1, <2>1, Recursion
  <2>3. /\ \A n \in 1..L : n \in 0..L /\ n - 1 \in 0..L /\ n # 0
        /\ \A n \in 0..L : n = 0 \/ n \in 1..L
    BY <1>1
  <2>4. \A n \in 0..L : f[n] = IF n = 0 THEN z ELSE Turn(n, f[n - 1])
    BY <2>2, <2>3 DEF Recursive
  <2>5. Is(f)
    BY <2>2, <2>4 DEF Recursive
  <2>6. Is(h)
    <3> HIDE DEF Is
    <3>1. QED
      BY <2>5
  <2>7. h = [n \in 0..L |-> h[n]]
    BY <2>6
  <2>8. \A n \in 0..L : h[n] = IF n = 0 THEN z ELSE Turn(n, h[n - 1])
    BY <2>6, Zenon
  <2> HIDE DEF h, Is
  <2>9. h[0] = z /\ \A n \in 1..L : h[n] = Turn(n, h[n - 1])
    BY <1>1, <2>3, <2>8
  <2>10. \A n \in 0..L : h[n] \in X
    BY <1>1, <1>2, <2>9, StaysIn
  <2>11. QED
    BY <2>7, <2>9, <2>10
<1> HIDE DEF h
<1>5. QED
  BY <1>3, <1>4

\* No word has fewer fields than none.
LEMMA FieldsGrow ==
    ASSUME NEW sh \in Shells, NEW argv \in Seq(Texts), NEW k \in 0..Len(argv)
    PROVE  Len(FieldsUpTo(sh, argv)[k]) <= Len(ArgvFields(sh, argv))
<1> DEFINE N == Len(argv)
<1>1. PICK f \in [0..N -> Seq(Texts)] :
          /\ f[0] = <<>>
          /\ \A n \in 1..N : f[n] = f[n - 1] \o WordFields(sh, argv[n])
          /\ FieldsUpTo(sh, argv) = f /\ ArgvFields(sh, argv) = f[N]
  BY ArgvAre
<1> DEFINE T == {n \in k..N : Len(f[k]) <= Len(f[n])}
<1>2. N \in Nat /\ k \in Nat /\ k \in T
  BY <1>1
<1>3. ASSUME NEW n \in k..(N - 1), n \in T PROVE n + 1 \in T
  <2>1. n + 1 \in 1..N /\ n + 1 \in k..N /\ n \in 0..N /\ k \in 0..N /\ (n + 1) - 1 = n
    BY <1>2
  <2>2. argv[n + 1] \in Texts
    BY <2>1
  <2>3. WordFields(sh, argv[n + 1]) \in Seq(Texts)
    BY <2>2, FieldsAre
  <2>4. f[n + 1] = f[n] \o WordFields(sh, argv[n + 1]) /\ f[n] \in Seq(Texts) /\ f[k] \in Seq(Texts)
    BY <1>1, <2>1
  <2> DEFINE more == WordFields(sh, argv[n + 1])
  <2> HIDE DEF more
  <2>5. Len(f[n + 1]) >= Len(f[n])
    <3>1. more \in Seq(Texts) /\ f[n + 1] = f[n] \o more
      BY <2>3, <2>4 DEF more
    <3>2. QED
      BY <2>4, <3>1
  <2>6. Len(f[n + 1]) \in Nat /\ Len(f[n]) \in Nat /\ Len(f[k]) \in Nat
    <3>1. f[n + 1] \in Seq(Texts)
      BY <1>1, <2>1
    <3>2. \A x \in Seq(Texts) : Len(x) \in Nat
      OBVIOUS
    <3>3. QED
      BY <2>4, <3>1, <3>2
  <2>7. Len(f[k]) <= Len(f[n])
    BY <1>3
  <2>8. Len(f[k]) <= Len(f[n + 1])
    BY <2>5, <2>6, <2>7
  <2>9. QED
    BY <2>1, <2>8
<1> HIDE DEF T
<1>4. \A n \in k..N : n \in T
  BY <1>2, <1>3, UpTo
<1>5. N \in T
  BY <1>2, <1>4
<1>6. QED
  BY <1>1, <1>5 DEF T

---------------------------------------------------------------------------
(* The invariant                                                           *)

Targets == [type : {"file", "heredoc"}, target : Texts, quoted : BOOLEAN]
Done    == [argv : Seq(Texts), redirs : Seq(Targets)]

InRange ==
    /\ pl \in Pipelines /\ shell \in Shells
    /\ pc \in {"begin", "count", "fill", "redir", "ok", "failed"}
    /\ c \in 1..Len(pl) /\ i \in Nat \ {0} /\ fails \in Nat

Upto == FieldsUpTo(shell, pl[c].argv)[i - 1]
All  == ArgvFields(shell, pl[c].argv)

\* The first pass has counted the fields of the words before the i-th, and the
\* second one has stored them.
PassesAgree ==
    /\ pc = "begin" => i = 1 /\ total = 0 /\ c = 1
    /\ pc = "count" => i <= Len(pl[c].argv) + 1 /\ total = Len(Upto)
    /\ pc = "fill"  => i <= Len(pl[c].argv) + 1 /\ total = Len(All) /\ nav = Upto
    /\ pc = "redir" => total = Len(All) /\ nav = All

\* The redirect t is what r means.
Means(t, r) == t.target = TargetText(shell, r) /\ (r.type = "file" => TargetText(shell, r) # <<>>)

\* The redirects before the i-th are expanded.
RedirectsSoFar ==
    pc = "redir" => /\ i <= Len(pl[c].redirs) + 1
                    /\ targets \in Seq(Targets) /\ Len(targets) = i - 1
                    /\ \A r \in 1..(i - 1) : Means(targets[r], pl[c].redirs[r])

\* The commands before the c-th are expanded.
CommandsSoFar ==
    pc # "failed" =>
        /\ done \in Seq(Done) /\ Len(done) = IF pc = "ok" THEN Len(pl) ELSE c - 1
        /\ \A d \in 1..Len(done) :
               /\ done[d].argv = ArgvFields(shell, pl[d].argv)
               /\ Len(done[d].redirs) = Len(pl[d].redirs)
               /\ \A r \in 1..Len(pl[d].redirs) : Means(done[d].redirs[r], pl[d].redirs[r])

Nameless == \E d \in DOMAIN pl : \E r \in DOMAIN pl[d].redirs :
                pl[d].redirs[r].type = "file" /\ TargetText(shell, pl[d].redirs[r]) = <<>>

GaveUpFor == pc = "failed" /\ fails = 0 => Nameless

BodyRight ==
    /\ body.text \in {body.line, LineText(shell, body.line)}
    /\ body.quoted => body.text = body.line
    /\ ~body.quoted /\ fails = 0 => body.text = LineText(shell, body.line)

Right == PassesAgree /\ RedirectsSoFar /\ CommandsSoFar /\ GaveUpFor /\ BodyRight

IInv == InRange /\ (~lost => Right)

LEMMA ArgvInitial == Init => IInv
<1> SUFFICES ASSUME Init PROVE IInv
  OBVIOUS
<1>1. PICK v \in Values : shell = [value |-> v, exit_code |-> <<"1">>]
  BY DEF Init
<1>2. <<"1">> \in Texts /\ <<>> \in Texts
  BY DEF Texts, Chars, Digits
<1>3. shell \in Shells
  BY <1>1, <1>2, ExpandAssumption DEF Shells
<1>4. pl \in Pipelines /\ pl \in Seq(Commands) /\ pl # <<>>
  BY ExpandAssumption DEF Init
<1>5. Len(pl) \in Nat /\ 1 \in 1..Len(pl)
  BY <1>4
<1>6. InRange
  <2>1. pc = "begin" /\ c = 1 /\ i = 1 /\ fails = 0
    BY DEF Init
  <2>2. QED
    BY <1>3, <1>4, <1>5, <2>1 DEF InRange
<1>7. PassesAgree /\ RedirectsSoFar /\ GaveUpFor
  BY DEF Init, PassesAgree, RedirectsSoFar, GaveUpFor
<1>8. CommandsSoFar
  BY <1>5 DEF Init, CommandsSoFar
<1>9. LineText(shell, <<>>) = <<>>
  <2>1. PICK j : /\ JoinUpTo(j, shell, <<>>, {p \in DOMAIN <<>> : <<>>[p] = "$"}, {})
                 /\ LineText(shell, <<>>) = j[Len(<<>>)]
    BY <1>2, <1>3, JoinAre DEF LineText
  <2>2. QED
    BY <2>1 DEF JoinUpTo
<1>10. BodyRight
  BY <1>9 DEF Init, BodyRight
<1>11. QED
  BY <1>6, <1>7, <1>8, <1>10 DEF IInv, Right

LEMMA FailIs ==
    ASSUME InRange, NEW r, Fail(r)
    PROVE  /\ r.fail = "none" => fails' = fails
           /\ r.fail # "none" => fails' # 0
           /\ r.fail = "lost" => lost'
           /\ lost => lost'
           /\ fails' \in Nat /\ (fails' = 0 => fails = 0)
<1>1. fails \in Nat
  BY DEF InRange
<1>2. fails' = IF r.fail = "none" THEN fails ELSE fails + 1
  BY DEF Fail
<1>3. (lost => lost') /\ (r.fail = "lost" => lost')
  BY Zenon DEF Fail
<1>4. QED
  BY <1>1, <1>2, <1>3

\* An expansion that fails nowhere gives the text.
LEMMA ResultsAre ==
    ASSUME InRange, NEW s, NEW quotes, NEW stored, NEW r \in Results(s, quotes, stored)
    PROVE  /\ r.fail \in {"none", "null", "lost"}
           /\ r.fail = "none" => r.text = Expansion(shell, s, quotes, FALSE).text
BY DEF Results

LEMMA PipelineIs ==
    ASSUME InRange
    PROVE  /\ pl \in Seq(Commands) /\ Len(pl) \in Nat /\ DOMAIN pl = 1..Len(pl)
           /\ \A d \in 1..Len(pl) :
                  /\ pl[d] \in Commands
                  /\ pl[d].argv \in Seq(Texts) /\ pl[d].redirs \in Seq(Redirects)
                  /\ Len(pl[d].argv) \in Nat /\ Len(pl[d].redirs) \in Nat
                  /\ DOMAIN pl[d].redirs = 1..Len(pl[d].redirs)
<1>1. pl \in Seq(Commands)
  BY ExpandAssumption DEF InRange
<1>2. \A d \in 1..Len(pl) : pl[d] \in Commands
  BY <1>1
<1>3. \A cmd \in Commands : /\ cmd.argv \in Seq(Texts) /\ cmd.redirs \in Seq(Redirects)
                            /\ Len(cmd.argv) \in Nat /\ Len(cmd.redirs) \in Nat
                            /\ DOMAIN cmd.redirs = 1..Len(cmd.redirs)
  BY DEF Commands
<1>4. QED
  BY <1>1, <1>2, <1>3

LEMMA RangeNext ==
    ASSUME InRange, [Next]_vars PROVE InRange'
<1> USE DEF inputVars, argvVars, failVars
<1>1. CASE Begin
  BY <1>1 DEF Begin, InRange
<1>2. CASE CountWord
  <2>1. PICK r \in Results(pl[c].argv[i], Quotes, FALSE) : Fail(r)
    BY <1>2 DEF CountWord
  <2>2. fails' \in Nat
    BY <2>1, FailIs
  <2>3. pc' \in {pc, "failed"} /\ i' = i + 1 /\ c' = c /\ pl' = pl /\ shell' = shell
    BY <1>2 DEF CountWord
  <2>4. QED
    BY <2>2, <2>3 DEF InRange
<1>3. CASE AllocArgv
  BY <1>3 DEF AllocArgv, InRange
<1>4. CASE FillWord
  <2>1. PICK r \in Results(pl[c].argv[i], Quotes, TRUE) : Fail(r)
    BY <1>4 DEF FillWord
  <2>2. fails' \in Nat
    BY <2>1, FailIs
  <2>3. pc' \in {pc, "failed"} /\ i' = i + 1 /\ c' = c /\ pl' = pl /\ shell' = shell
    BY <1>4 DEF FillWord
  <2>4. QED
    BY <2>2, <2>3 DEF InRange
<1>5. CASE FillDone
  BY <1>5 DEF FillDone, InRange
<1>6. CASE ExpandRedir
  <2>1. PICK t \in TargetResults(pl[c].redirs[i]) : Fail(t)
    BY <1>6 DEF ExpandRedir
  <2>2. fails' \in Nat
    BY <2>1, FailIs
  <2>3. pc' \in {pc, "failed"} /\ i' = i + 1 /\ c' = c /\ pl' = pl /\ shell' = shell
    BY <1>6 DEF ExpandRedir
  <2>4. QED
    BY <2>2, <2>3 DEF InRange
<1>7. CASE NextCommand
  <2>1. c' \in {c, c + 1} /\ (c' # c => c # Len(pl)) /\ pc' \in {"ok", "count"} /\ i' = 1
        /\ UNCHANGED <<pl, shell, fails, lost>>
    BY <1>7 DEF NextCommand
  <2>2. c' \in 1..Len(pl)
    BY <2>1, PipelineIs DEF InRange
  <2>3. QED
    BY <2>1, <2>2 DEF InRange
<1>8. CASE HeredocWrite
  <2>1. fails' \in Nat
    <3>1. UNCHANGED failVars \/ \E t : Fail(t)
      BY <1>8 DEF HeredocWrite
    <3>2. QED
      BY <3>1, FailIs DEF InRange
  <2>2. UNCHANGED <<pl, shell, pc, c, i>>
    BY <1>8 DEF HeredocWrite
  <2>3. QED
    BY <2>1, <2>2 DEF InRange
<1>9. CASE UNCHANGED vars
  BY <1>9 DEF vars, InRange
<1>10. QED
  BY <1>1, <1>2, <1>3, <1>4, <1>5, <1>6, <1>7, <1>8, <1>9 DEF Next, Ended

LEMMA FieldsStart ==
    ASSUME InRange, NEW d \in 1..Len(pl)
    PROVE  /\ FieldsUpTo(shell, pl[d].argv)[0] = <<>>
           /\ FieldsUpTo(shell, pl[d].argv)[Len(pl[d].argv)] = ArgvFields(shell, pl[d].argv)
           /\ ArgvFields(shell, pl[d].argv) \in Seq(Texts)
<1> DEFINE argv == pl[d].argv
<1>1. argv \in Seq(Texts) /\ Len(argv) \in Nat /\ shell \in Shells
  BY PipelineIs DEF InRange
<1> HIDE DEF argv
<1>2. PICK f \in [0..Len(argv) -> Seq(Texts)] :
          f[0] = <<>> /\ FieldsUpTo(shell, argv) = f /\ ArgvFields(shell, argv) = f[Len(argv)]
  BY <1>1, ArgvAre
<1>3. QED
  BY <1>1, <1>2 DEF argv

\* One word more.
LEMMA NextField ==
    ASSUME InRange, i <= Len(pl[c].argv)
    PROVE  LET w    == pl[c].argv[i]
               text == WordText(shell, w)
           IN /\ w \in Texts
              /\ FieldsUpTo(shell, pl[c].argv)[i] = Upto \o FieldsOf(w, text)
              /\ Len(FieldsUpTo(shell, pl[c].argv)[i]) = Len(Upto) + FieldCount(w, text)
<1> DEFINE argv == pl[c].argv
           w == argv[i]
           more == WordFields(shell, w)
<1>1. argv \in Seq(Texts) /\ Len(argv) \in Nat /\ shell \in Shells /\ i \in 1..Len(argv)
      /\ i - 1 \in 0..Len(argv)
  BY PipelineIs DEF InRange
<1>2. w \in Texts
  BY <1>1
<1>3. /\ FieldsOf(w, WordText(shell, w)) = more /\ more \in Seq(Texts)
      /\ FieldCount(w, WordText(shell, w)) = Len(more)
  BY <1>1, <1>2, FieldsAre
<1> HIDE DEF more
<1>4. FieldsUpTo(shell, argv)[i] = FieldsUpTo(shell, argv)[i - 1] \o more
      /\ FieldsUpTo(shell, argv)[i - 1] \in Seq(Texts)
  <2> HIDE DEF argv
  <2>1. PICK f \in [0..Len(argv) -> Seq(Texts)] :
            /\ \A n \in 1..Len(argv) : f[n] = f[n - 1] \o WordFields(shell, argv[n])
            /\ FieldsUpTo(shell, argv) = f
    BY <1>1, ArgvAre
  <2>2. QED
    BY <1>1, <2>1 DEF more
<1>5. Upto = FieldsUpTo(shell, argv)[i - 1]
  BY DEF Upto
<1> HIDE DEF w
<1>6. Len(Upto \o more) = Len(Upto) + Len(more)
  BY <1>3, <1>4, <1>5
<1>7. QED
  BY <1>2, <1>3, <1>4, <1>5, <1>6 DEF w

LEMMA TargetIs ==
    ASSUME InRange, NEW r \in Redirects, NEW t \in TargetResults(r)
    PROVE  /\ t.fail \in {"none", "null", "lost"}
           /\ t.fail = "none" => t.text = TargetText(shell, r) /\ t.text \in Texts
<1>1. shell \in Shells /\ r.target \in Texts
  BY DEF InRange, Redirects
<1>2. CASE r.type = "heredoc"
  <2>1. t.fail \in {"none", "null"} /\ (t.fail = "none" => t.text = StripQuotes(r.target))
    BY <1>2 DEF TargetResults
  <2>2. TargetText(shell, r) = StripQuotes(r.target)
    BY <1>1, <1>2, StripIsDelimiter DEF TargetText
  <2>3. StripQuotes(r.target) \in Texts
    <3> DEFINE s == r.target
    <3>1. s \in Texts
      BY <1>1
    <3> HIDE DEF s
    <3>2. PICK f \in [0..Len(s) -> [q : Open, out : Texts]] : StripQuotes(s) = f[Len(s)].out
      BY <3>1, StripAre
    <3>3. QED
      BY <3>1, <3>2, TextIs DEF s
  <2>4. QED
    BY <2>1, <2>2, <2>3
<1>3. CASE r.type # "heredoc"
  <2>1. t \in Results(r.target, Quotes, TRUE)
    BY <1>3 DEF TargetResults
  <2>2. TargetText(shell, r) = WordText(shell, r.target)
    BY <1>3 DEF TargetText
  <2>3. /\ t.fail \in {"none", "null", "lost"}
        /\ t.fail = "none" => t.text = Expansion(shell, r.target, Quotes, FALSE).text
    BY <2>1, ResultsAre
  <2>4. /\ Expansion(shell, r.target, Quotes, FALSE).text = WordText(shell, r.target)
        /\ WordText(shell, r.target) \in Texts
    BY <1>1, WordExpansion
  <2>5. QED
    BY <2>2, <2>3, <2>4
<1>4. QED
  BY <1>2, <1>3

\* The here-document line stays right while others work.
LEMMA BodyKept ==
    ASSUME BodyRight, UNCHANGED <<body, shell>>, fails' = 0 => fails = 0
    PROVE  BodyRight'
BY DEF BodyRight

LEMMA CommandsKept ==
    ASSUME CommandsSoFar, UNCHANGED <<pl, shell, done, c>>, pc \notin {"ok", "failed"}, pc' # "ok"
    PROVE  CommandsSoFar'
BY DEF CommandsSoFar, Means

LEMMA RightBegin ==
    ASSUME InRange, Right, Begin, ~lost' PROVE Right'
<1> USE DEF inputVars, argvVars, failVars
<1>1. /\ UNCHANGED <<pl, shell, c, i, total, done, body>> /\ pc = "begin"
      /\ pc' \in {"count", "failed"} /\ (pc' = "failed" => fails' = fails + 1)
      /\ fails' \in {fails, fails + 1} /\ fails \in Nat
  BY DEF Begin, InRange
<1>2. PassesAgree'
  <2>1. total = 0 /\ i = 1 /\ Len(pl[c].argv) \in Nat /\ FieldsUpTo(shell, pl[c].argv)[0] = <<>>
    BY <1>1, FieldsStart, PipelineIs DEF Right, PassesAgree, InRange
  <2>2. i - 1 = 0
    BY <2>1
  <2>3. Upto = <<>>
    BY <2>1, <2>2 DEF Upto
  <2>4. Upto' = Upto
    BY <1>1 DEF Upto
  <2>5. QED
    BY <1>1, <2>1, <2>3, <2>4 DEF PassesAgree
<1>3. RedirectsSoFar' /\ GaveUpFor'
  BY <1>1 DEF RedirectsSoFar, GaveUpFor
<1>4. CommandsSoFar'
  BY <1>1, CommandsKept DEF Right
<1>5. BodyRight'
  BY <1>1, BodyKept DEF Right
<1>6. QED
  BY <1>2, <1>3, <1>4, <1>5 DEF Right

LEMMA RightCountWord ==
    ASSUME InRange, Right, CountWord, ~lost' PROVE Right'
<1> USE DEF inputVars, argvVars, failVars
<1> DEFINE w == pl[c].argv[i]
<1>1. PICK r \in Results(w, Quotes, FALSE) :
          /\ Fail(r)
          /\ IF r.fail = "null" THEN pc' = "failed" /\ UNCHANGED total
             ELSE pc' = pc /\ total' = total + FieldCount(w, r.text)
  BY DEF CountWord
<1>2. /\ UNCHANGED <<pl, shell, c, done, body>> /\ pc = "count" /\ i <= Len(pl[c].argv)
      /\ i' = i + 1 /\ i \in Nat /\ pc' \in {"count", "failed"} /\ Len(pl[c].argv) \in Nat
  BY <1>1, PipelineIs DEF CountWord, InRange
<1>3. r.fail \in {"none", "null"}
  BY <1>1, FailIs, ResultsAre
<1>4. pc' = "failed" => fails' # 0
  BY <1>1, <1>2, <1>3, FailIs
<1>5. ASSUME pc' = "count" PROVE total' = Len(Upto')
  <2>1. r.fail = "none"
    BY <1>1, <1>3, <1>5
  <2>2. w \in Texts
    BY <1>2, NextField
  <2>3. r.text = WordText(shell, w)
    BY <1>1, <2>1, <2>2, ResultsAre, WordExpansion DEF InRange
  <2>4. total' = Len(Upto) + FieldCount(w, WordText(shell, w))
    BY <1>1, <1>2, <2>1, <2>3 DEF Right, PassesAgree
  <2>5. Upto' = FieldsUpTo(shell, pl[c].argv)[i]
    <3>1. i' - 1 = i
      BY <1>2
    <3>2. Upto' = FieldsUpTo(shell, pl[c].argv)[i' - 1]
      BY <1>2 DEF Upto
    <3>3. QED
      BY <3>1, <3>2
  <2>6. QED
    BY <1>2, <2>4, <2>5, NextField
<1>6. PassesAgree'
  BY <1>2, <1>5 DEF PassesAgree
<1>7. RedirectsSoFar' /\ GaveUpFor'
  BY <1>2, <1>4 DEF RedirectsSoFar, GaveUpFor
<1>8. CommandsSoFar'
  BY <1>2, CommandsKept DEF Right
<1>9. BodyRight'
  BY <1>1, <1>2, FailIs, BodyKept DEF Right
<1>10. QED
  BY <1>6, <1>7, <1>8, <1>9 DEF Right

LEMMA RightAllocArgv ==
    ASSUME InRange, Right, AllocArgv, ~lost' PROVE Right'
<1> USE DEF inputVars, argvVars, failVars
<1>1. /\ UNCHANGED <<pl, shell, c, total, done, body>> /\ pc = "count" /\ ~(i <= Len(pl[c].argv))
      /\ pc' \in {"fill", "failed"} /\ (pc' = "failed" => fails' = fails + 1)
      /\ fails' \in {fails, fails + 1} /\ fails \in Nat /\ i' = 1 /\ nav' = <<>> /\ i \in Nat
      /\ Len(pl[c].argv) \in Nat
  BY PipelineIs DEF AllocArgv, InRange
<1>2. PassesAgree'
  <2>1. i <= Len(pl[c].argv) + 1 /\ total = Len(Upto)
    BY <1>1 DEF Right, PassesAgree
  <2>2. i - 1 = Len(pl[c].argv) /\ i' - 1 = 0
    BY <1>1, <2>1
  <2>3. Upto = All /\ FieldsUpTo(shell, pl[c].argv)[0] = <<>>
    BY <2>2, FieldsStart DEF Upto, All, InRange
  <2>4. Upto' = FieldsUpTo(shell, pl[c].argv)[i' - 1] /\ All' = All
    BY <1>1 DEF Upto, All
  <2>5. Upto' = <<>>
    BY <2>2, <2>3, <2>4
  <2>6. QED
    BY <1>1, <2>1, <2>3, <2>4, <2>5 DEF PassesAgree
<1>3. RedirectsSoFar' /\ GaveUpFor'
  BY <1>1 DEF RedirectsSoFar, GaveUpFor
<1>4. CommandsSoFar'
  BY <1>1, CommandsKept DEF Right
<1>5. BodyRight'
  BY <1>1, BodyKept DEF Right
<1>6. QED
  BY <1>2, <1>3, <1>4, <1>5 DEF Right

LEMMA RightFillWord ==
    ASSUME InRange, Right, FillWord, ~lost' PROVE Right'
<1> USE DEF inputVars, argvVars, failVars
<1> DEFINE w == pl[c].argv[i]
<1>1. PICK r \in Results(w, Quotes, TRUE) :
          /\ Fail(r)
          /\ IF r.fail = "null" THEN pc' = "failed" /\ UNCHANGED nav
             ELSE pc' = pc /\ nav' = nav \o FieldsOf(w, r.text)
  BY DEF FillWord
<1>2. /\ UNCHANGED <<pl, shell, c, total, done, body>> /\ pc = "fill" /\ i <= Len(pl[c].argv)
      /\ i' = i + 1 /\ i \in Nat /\ pc' \in {"fill", "failed"} /\ Len(pl[c].argv) \in Nat
  BY <1>1, PipelineIs DEF FillWord, InRange
<1>3. r.fail \in {"none", "null"}
  BY <1>1, FailIs, ResultsAre
<1>4. pc' = "failed" => fails' # 0
  BY <1>1, <1>2, <1>3, FailIs
<1>5. ASSUME pc' = "fill" PROVE nav' = Upto'
  <2>1. r.fail = "none"
    BY <1>1, <1>3, <1>5
  <2>2. w \in Texts
    BY <1>2, NextField
  <2>3. r.text = WordText(shell, w)
    BY <1>1, <2>1, <2>2, ResultsAre, WordExpansion DEF InRange
  <2>4. nav' = Upto \o FieldsOf(w, WordText(shell, w))
    BY <1>1, <1>2, <2>1, <2>3 DEF Right, PassesAgree
  <2>5. Upto' = FieldsUpTo(shell, pl[c].argv)[i]
    <3>1. i' - 1 = i
      BY <1>2
    <3>2. Upto' = FieldsUpTo(shell, pl[c].argv)[i' - 1]
      BY <1>2 DEF Upto
    <3>3. QED
      BY <3>1, <3>2
  <2>6. QED
    BY <1>2, <2>4, <2>5, NextField
<1>6. PassesAgree'
  <2>1. total' = Len(All') /\ i' <= Len(pl'[c'].argv) + 1
    BY <1>2 DEF Right, PassesAgree, All
  <2>2. QED
    BY <1>2, <1>5, <2>1 DEF PassesAgree
<1>7. RedirectsSoFar' /\ GaveUpFor'
  BY <1>2, <1>4 DEF RedirectsSoFar, GaveUpFor
<1>8. CommandsSoFar'
  BY <1>2, CommandsKept DEF Right
<1>9. BodyRight'
  BY <1>1, <1>2, FailIs, BodyKept DEF Right
<1>10. QED
  BY <1>6, <1>7, <1>8, <1>9 DEF Right

LEMMA RightFillDone ==
    ASSUME InRange, Right, FillDone, ~lost' PROVE Right'
<1> USE DEF inputVars, argvVars, failVars
<1>1. /\ UNCHANGED <<pl, shell, c, total, nav, done, body, fails>> /\ pc = "fill" /\ ~(i <= Len(pl[c].argv))
      /\ pc' = "redir" /\ i' = 1 /\ targets' = <<>> /\ i \in Nat
      /\ Len(pl[c].argv) \in Nat /\ Len(pl[c].redirs) \in Nat
  BY PipelineIs DEF FillDone, InRange
<1>2. PassesAgree'
  <2>1. i <= Len(pl[c].argv) + 1 /\ total = Len(All) /\ nav = Upto
    BY <1>1 DEF Right, PassesAgree
  <2>2. i - 1 = Len(pl[c].argv)
    BY <1>1, <2>1
  <2>3. Upto = All
    BY <2>2, FieldsStart DEF Upto, All, InRange
  <2>4. All' = All
    BY <1>1 DEF All
  <2>5. QED
    BY <1>1, <2>1, <2>3, <2>4 DEF PassesAgree
<1>3. RedirectsSoFar' /\ GaveUpFor'
  <2>1. i' <= Len(pl'[c'].redirs) + 1 /\ i' - 1 = 0 /\ <<>> \in Seq(Targets) /\ Len(<<>>) = 0
    BY <1>1
  <2>2. QED
    BY <1>1, <2>1 DEF RedirectsSoFar, GaveUpFor
<1>4. CommandsSoFar'
  BY <1>1, CommandsKept DEF Right
<1>5. BodyRight'
  BY <1>1, BodyKept DEF Right
<1>6. QED
  BY <1>2, <1>3, <1>4, <1>5 DEF Right

LEMMA RightExpandRedir ==
    ASSUME InRange, Right, ExpandRedir, ~lost' PROVE Right'
<1> USE DEF inputVars, argvVars, failVars
<1> DEFINE r == pl[c].redirs[i]
<1>1. PICK t \in TargetResults(r) :
          /\ Fail(t)
          /\ IF t.fail = "null" \/ (r.type # "heredoc" /\ t.text = <<>>)
             THEN pc' = "failed" /\ UNCHANGED targets
             ELSE /\ pc' = pc
                  /\ targets' = Append(targets, [type |-> r.type, target |-> t.text,
                                                 quoted |-> HasQuote(r.target)])
  BY DEF ExpandRedir
<1>2. /\ UNCHANGED <<pl, shell, c, total, nav, done, body>> /\ pc = "redir" /\ i <= Len(pl[c].redirs)
      /\ i' = i + 1 /\ i \in Nat \ {0} /\ pc' \in {"redir", "failed"}
      /\ Len(pl[c].redirs) \in Nat /\ pl[c].redirs \in Seq(Redirects)
  BY <1>1, PipelineIs DEF ExpandRedir, InRange
<1>3. i \in 1..Len(pl[c].redirs) /\ r \in Redirects /\ r.type \in {"file", "heredoc"}
  <2>1. i \in 1..Len(pl[c].redirs)
    BY <1>2
  <2>2. r \in Redirects
    BY <1>2, <2>1
  <2>3. QED
    BY <2>1, <2>2 DEF Redirects
<1>4. t.fail \in {"none", "null"}
  BY <1>1, <1>3, FailIs, TargetIs
<1>5. t.fail = "none" => t.text = TargetText(shell, r) /\ t.text \in Texts
  BY <1>1, <1>3, TargetIs
<1>6. PassesAgree'
  BY <1>2 DEF Right, PassesAgree, All
<1>7. GaveUpFor'
  <2>1. SUFFICES ASSUME pc' = "failed", fails' = 0 PROVE Nameless'
    BY DEF GaveUpFor
  <2>2. t.fail = "none"
    BY <1>1, <1>4, <2>1, FailIs
  <2>3. r.type # "heredoc" /\ t.text = <<>>
    BY <1>1, <1>2, <2>1, <2>2
  <2>4. r.type = "file" /\ TargetText(shell, r) = <<>>
    BY <1>3, <1>5, <2>2, <2>3
  <2>5. c \in DOMAIN pl /\ i \in DOMAIN pl[c].redirs
    BY <1>3, PipelineIs DEF InRange
  <2>6. Nameless
    BY <2>4, <2>5 DEF Nameless
  <2>7. QED
    BY <1>2, <2>6 DEF Nameless
<1>8. RedirectsSoFar'
  <2>1. SUFFICES ASSUME pc' = "redir" PROVE RedirectsSoFar'
    BY DEF RedirectsSoFar
  <2> DEFINE new == [type |-> r.type, target |-> t.text, quoted |-> HasQuote(r.target)]
  <2>2. t.fail = "none" /\ ~(r.type # "heredoc" /\ t.text = <<>>) /\ targets' = Append(targets, new)
    BY <1>1, <1>4, <2>1
  <2>3. new \in Targets
    <3>1. HasQuote(r.target) \in BOOLEAN
      BY DEF HasQuote
    <3>2. QED
      BY <1>3, <1>5, <2>2, <3>1 DEF Targets
  <2>4. Means(new, r)
    BY <1>3, <1>5, <2>2 DEF Means
  <2>5. /\ targets \in Seq(Targets) /\ Len(targets) = i - 1
        /\ \A k \in 1..(i - 1) : Means(targets[k], pl[c].redirs[k])
    BY <1>2 DEF Right, RedirectsSoFar
  <2> HIDE DEF new, r
  <2>6. targets' \in Seq(Targets) /\ Len(targets') = i /\ targets'[i] = new
        /\ \A k \in 1..(i - 1) : targets'[k] = targets[k]
    BY <1>2, <2>2, <2>3, <2>5
  <2>7. \A k \in 1..i : Means(targets'[k], pl[c].redirs[k])
    <3>1. ASSUME NEW k \in 1..i PROVE Means(targets'[k], pl[c].redirs[k])
      <4>1. CASE k = i
        BY <2>4, <2>6, <4>1 DEF r
      <4>2. CASE k # i
        <5>1. k \in 1..(i - 1)
          BY <1>2, <4>2
        <5>2. QED
          BY <2>5, <2>6, <5>1
      <4>3. QED
        BY <4>1, <4>2
    <3>2. QED
      BY <3>1
  <2>8. i' - 1 = i /\ i' <= Len(pl[c].redirs) + 1
    BY <1>2
  <2>9. QED
    BY <1>2, <2>6, <2>7, <2>8 DEF RedirectsSoFar, Means
<1>9. CommandsSoFar'
  BY <1>2, CommandsKept DEF Right
<1>10. BodyRight'
  BY <1>1, <1>2, FailIs, BodyKept DEF Right
<1>11. QED
  BY <1>6, <1>7, <1>8, <1>9, <1>10 DEF Right

LEMMA RightNextCommand ==
    ASSUME InRange, Right, NextCommand, ~lost' PROVE Right'
<1> USE DEF inputVars, argvVars, failVars
<1> DEFINE new == [argv |-> nav, redirs |-> targets]
<1>1. /\ UNCHANGED <<pl, shell, body, fails>> /\ pc = "redir" /\ ~(i <= Len(pl[c].redirs))
      /\ done' = Append(done, new)
      /\ \/ c = Len(pl) /\ pc' = "ok" /\ c' = c
         \/ c # Len(pl) /\ pc' = "count" /\ c' = c + 1
      /\ i' = 1 /\ total' = 0
  <2>1. UNCHANGED <<pl, shell, body, fails>> /\ pc = "redir" /\ i' = 1 /\ total' = 0
    BY DEF NextCommand
  <2>2. i > Len(pl[c].redirs) /\ i \in Nat /\ Len(pl[c].redirs) \in Nat
    BY PipelineIs DEF NextCommand, InRange
  <2>3. done' = Append(done, new)
    BY Zenon DEF NextCommand
  <2>4. \/ c = Len(pl) /\ pc' = "ok" /\ c' = c
        \/ c # Len(pl) /\ pc' = "count" /\ c' = c + 1
    BY DEF NextCommand
  <2>5. QED
    BY <2>1, <2>4, <2>3, <2>2
<1>2. /\ i \in Nat \ {0} /\ c \in 1..Len(pl) /\ Len(pl) \in Nat
      /\ \A d \in 1..Len(pl) : Len(pl[d].argv) \in Nat
      /\ Len(pl[c].redirs) \in Nat
  BY PipelineIs DEF InRange
<1>3. /\ nav = ArgvFields(shell, pl[c].argv) /\ nav \in Seq(Texts)
      /\ targets \in Seq(Targets) /\ Len(targets) = Len(pl[c].redirs)
      /\ \A r \in 1..Len(pl[c].redirs) : Means(targets[r], pl[c].redirs[r])
  <2>1. nav = ArgvFields(shell, pl[c].argv) /\ nav \in Seq(Texts)
    BY <1>1, <1>2, FieldsStart DEF Right, PassesAgree, All
  <2>2. /\ i <= Len(pl[c].redirs) + 1 /\ targets \in Seq(Targets) /\ Len(targets) = i - 1
        /\ \A r \in 1..(i - 1) : Means(targets[r], pl[c].redirs[r])
    BY <1>1 DEF Right, RedirectsSoFar
  <2>3. i - 1 = Len(pl[c].redirs)
    BY <1>1, <1>2, <2>2
  <2>4. QED
    BY <2>1, <2>2, <2>3
<1>4. PassesAgree'
  <2>1. SUFFICES ASSUME pc' = "count" PROVE i' <= Len(pl'[c'].argv) + 1 /\ total' = Len(Upto')
    BY <1>1 DEF PassesAgree
  <2>2. c' \in 1..Len(pl)
    BY <1>1, <1>2, <2>1
  <2>3. i' - 1 = 0 /\ i' <= Len(pl[c'].argv) + 1
    BY <1>1, <1>2, <2>2
  <2>4. Upto' = FieldsUpTo(shell, pl[c'].argv)[i' - 1]
    BY <1>1 DEF Upto
  <2>5. Upto' = <<>>
    BY <2>2, <2>3, <2>4, FieldsStart
  <2>6. QED
    BY <1>1, <2>3, <2>5
<1>5. RedirectsSoFar' /\ GaveUpFor'
  BY <1>1 DEF RedirectsSoFar, GaveUpFor
<1>6. CommandsSoFar'
  <2>1. new \in Done
    BY <1>3 DEF Done
  <2>2. new.argv = nav /\ new.redirs = targets
    OBVIOUS
  <2>3. /\ done \in Seq(Done) /\ Len(done) = c - 1
        /\ \A d \in 1..Len(done) :
               /\ done[d].argv = ArgvFields(shell, pl[d].argv)
               /\ Len(done[d].redirs) = Len(pl[d].redirs)
               /\ \A r \in 1..Len(pl[d].redirs) : Means(done[d].redirs[r], pl[d].redirs[r])
    BY <1>1 DEF Right, CommandsSoFar
  <2> HIDE DEF new
  <2>4. /\ done' \in Seq(Done) /\ Len(done') = c /\ done'[c] = new
        /\ \A d \in 1..(c - 1) : done'[d] = done[d]
    BY <1>1, <1>2, <2>1, <2>3
  <2>5. ASSUME NEW d \in 1..Len(done')
        PROVE  /\ done'[d].argv = ArgvFields(shell, pl[d].argv)
               /\ Len(done'[d].redirs) = Len(pl[d].redirs)
               /\ \A r \in 1..Len(pl[d].redirs) : Means(done'[d].redirs[r], pl[d].redirs[r])
    <3>1. CASE d = c
      BY <1>3, <2>2, <2>4, <3>1
    <3>2. CASE d # c
      <4>1. d \in 1..(c - 1)
        BY <1>2, <2>4, <3>2
      <4>2. QED
        BY <2>3, <2>4, <4>1
    <3>3. QED
      BY <3>1, <3>2
  <2>6. pc' # "failed" /\ Len(done') = IF pc' = "ok" THEN Len(pl) ELSE c' - 1
    BY <1>1, <1>2, <2>4
  <2>7. QED
    BY <1>1, <2>4, <2>5, <2>6 DEF CommandsSoFar, Means
<1>7. BodyRight'
  BY <1>1, BodyKept DEF Right
<1>8. QED
  BY <1>4, <1>5, <1>6, <1>7 DEF Right

LEMMA RightHeredocWrite ==
    ASSUME InRange, Right, HeredocWrite, ~lost' PROVE Right'
<1> USE DEF inputVars, argvVars, failVars
<1>1. UNCHANGED <<pl, shell, pc, c, i, total, nav, targets, done>> /\ pc = "ok"
  BY DEF HeredocWrite
<1>2. PassesAgree' /\ RedirectsSoFar' /\ GaveUpFor'
  BY <1>1 DEF PassesAgree, RedirectsSoFar, GaveUpFor
<1>3. CommandsSoFar'
  BY <1>1 DEF Right, CommandsSoFar, Means
<1>4. BodyRight'
  <2>1. PICK line \in BodyLines :
            \/ body' = [line |-> line, quoted |-> TRUE, text |-> line]
            \/ \E t \in HeredocText(line) :
                   /\ Fail(t)
                   /\ body' = [line |-> line, quoted |-> FALSE,
                               text |-> IF t.fail = "null" THEN line ELSE t.text]
    BY DEF HeredocWrite
  <2>2. CASE body' = [line |-> line, quoted |-> TRUE, text |-> line]
    BY <1>1, <2>2 DEF BodyRight
  <2>3. ASSUME NEW t \in HeredocText(line), Fail(t),
               body' = [line |-> line, quoted |-> FALSE,
                        text |-> IF t.fail = "null" THEN line ELSE t.text]
        PROVE  BodyRight'
    <3>1. line \in Texts /\ shell \in Shells
      BY ExpandAssumption DEF InRange
    <3>2. t \in Results(line, {}, FALSE)
      BY <2>3 DEF HeredocText
    <3>3. t.fail \in {"none", "null"} /\ (t.fail = "null" => fails' # 0)
      BY <2>3, <3>2, FailIs, ResultsAre
    <3>4. t.fail = "none" => t.text = LineText(shell, line)
      BY <3>1, <3>2, ResultsAre, LineExpansion
    <3>5. QED
      BY <1>1, <2>3, <3>3, <3>4 DEF BodyRight
  <2>4. QED
    BY <2>1, <2>2, <2>3
<1>5. QED
  BY <1>2, <1>3, <1>4 DEF Right

LEMMA ArgvInductive == IInv /\ [Next]_vars => IInv'
<1> SUFFICES ASSUME IInv, [Next]_vars PROVE IInv'
  OBVIOUS
<1>1. InRange /\ InRange'
  BY RangeNext DEF IInv
<1>2. ASSUME ~lost' PROVE Right'
  <2> USE DEF inputVars, argvVars, failVars
  <2>1. lost => lost'
    <3>1. UNCHANGED lost \/ \E r : Fail(r)
      BY DEF Next, Begin, CountWord, AllocArgv, FillWord, FillDone, ExpandRedir, NextCommand,
             HeredocWrite, Ended, vars
    <3>2. QED
      BY <1>1, <3>1, FailIs
  <2>2. Right
    BY <1>2, <2>1 DEF IInv
  <2>3. CASE UNCHANGED vars
    BY <2>2, <2>3 DEF Right, PassesAgree, RedirectsSoFar, CommandsSoFar, GaveUpFor, BodyRight,
                      Upto, All, Means, Nameless, vars
  <2>4. QED
    BY <1>1, <1>2, <2>2, <2>3, RightBegin, RightCountWord, RightAllocArgv, RightFillWord,
       RightFillDone, RightExpandRedir, RightNextCommand, RightHeredocWrite DEF Next, Ended
<1>3. QED
  BY <1>1, <1>2 DEF IInv

---------------------------------------------------------------------------
(* Theorems                                                                *)

\* Whatever the words, the value of the variable and the allocation that fails:
\* the second pass over the words of a command (fill_one, split_ifs) stores as
\* many as the first one (count_exp_argc, ifs_wc) has counted, and never more,
\* unless a failed sb_append has swallowed a character.
THEOREM ArgvAlwaysFilled == Spec => []ArgvExactlyFilled
<1>1. IInv => ArgvExactlyFilled
  <2> SUFFICES ASSUME IInv, ~lost PROVE /\ pc \in {"fill", "redir"} => Len(nav) <= total
                                        /\ pc = "redir" => Len(nav) = total
    BY DEF ArgvExactlyFilled
  <2>1. InRange /\ PassesAgree
    BY DEF IInv, Right
  <2>2. All \in Seq(Texts)
    BY <2>1, FieldsStart DEF InRange, All
  <2>3. CASE pc = "redir"
    BY <2>1, <2>2, <2>3 DEF PassesAgree
  <2>4. CASE pc = "fill"
    <3>1. i - 1 \in 0..Len(pl[c].argv) /\ pl[c].argv \in Seq(Texts) /\ shell \in Shells
      BY <2>1, <2>4, PipelineIs DEF PassesAgree, InRange
    <3>2. Len(Upto) <= Len(All)
      BY <3>1, FieldsGrow DEF Upto, All
    <3>3. QED
      BY <2>1, <2>4, <3>2 DEF PassesAgree
  <2>5. QED
    BY <2>3, <2>4
<1>2. QED
  BY <1>1, ArgvInitial, ArgvInductive, PTL DEF Spec

\* The loops of expand_word, split_ifs, strip_quotes and expand_heredoc_line give,
\* for every pipeline and line, the fields, targets and lines that their texts
\* mean place by place; expand_pipeline gives up only for an allocation or for a
\* file without a name.
THEOREM FieldsAlwaysRight == Spec => []FieldsRight
<1>1. IInv => FieldsRight
  <2> SUFFICES ASSUME IInv, ~lost PROVE FieldsRight
    BY DEF FieldsRight
  <2>1. InRange /\ CommandsSoFar /\ GaveUpFor /\ BodyRight
    BY DEF IInv, Right
  <2>2. DOMAIN pl = 1..Len(pl) /\ \A d \in 1..Len(pl) : DOMAIN pl[d].redirs = 1..Len(pl[d].redirs)
    BY <2>1, PipelineIs
  <2>3. QED
    BY <2>1, <2>2 DEF FieldsRight, CommandsSoFar, GaveUpFor, BodyRight, Means, Nameless
<1>2. QED
  BY <1>1, ArgvInitial, ArgvInductive, PTL DEF Spec
=============================================================================
