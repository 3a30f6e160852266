---------------------------- MODULE LexerProofs ----------------------------
(* What lex_line makes of a line, for every set of lines: its words are the *)
(* runs between bare separators, its operators the longest ones, and it is  *)
(* refused exactly when a quote is open at its end.                         *)
EXTENDS Lexer, WellFoundedInduction, SequenceTheorems, TLAPS

---------------------------------------------------------------------------
(* Natural numbers                                                         *)

LEMMA LeastNatural ==
    ASSUME NEW T \in SUBSET Nat, T # {}
    PROVE  \E x \in T : \A y \in T : x <= y
<1>1. PICK x \in T : \A y \in T : ~ (<<y, x>> \in OpToRel(<, Nat))
  BY NatLessThanWellFounded, WFMin, Zenon
<1>2. \A y \in T : y \in Nat /\ ~(y < x)
  BY <1>1 DEF OpToRel
<1> QED BY <1>2

\* Induction from a to b, over the set of the numbers that have the property.
LEMMA UpTo ==
    ASSUME NEW a \in Nat, NEW b \in Nat, NEW T, a \in T,
           \A n \in a..(b - 1) : n \in T => n + 1 \in T
    PROVE  \A n \in a..b : n \in T
<1> SUFFICES ASSUME NEW m \in a..b, m \notin T PROVE FALSE
  OBVIOUS
<1> DEFINE S == {n \in a..b : n \notin T}
<1>1. S \in SUBSET Nat /\ S # {}
  OBVIOUS
<1>2. PICK x \in S : \A y \in S : x <= y
  BY <1>1, LeastNatural
<1>3. x # a /\ x - 1 \in a..(b - 1) /\ x - 1 \in T
  BY <1>2
<1> QED BY <1>2, <1>3

---------------------------------------------------------------------------
(* Quotes                                                                  *)

QuoteStates == Quotes \cup {"none"}

\* f is the quote that is open before each place from a to b.
IsScan(f, a, b) ==
    f = [p \in a..b |-> IF p = a THEN "none" ELSE Quoted(f[p - 1], line[p - 1])]

LEMMA ScanStep ==
    ASSUME NEW f, NEW a \in Nat, NEW b \in Nat, a <= b, IsScan(f, a, b)
    PROVE  /\ f[a] = "none"
           /\ \A p \in a..(b - 1) : f[p + 1] = Quoted(f[p], line[p])
<1>1. \A p \in a..b : f[p] = IF p = a THEN "none" ELSE Quoted(f[p - 1], line[p - 1])
  BY Zenon DEF IsScan
<1>2. a \in a..b
  OBVIOUS
<1>3. ASSUME NEW p \in a..(b - 1) PROVE f[p + 1] = Quoted(f[p], line[p])
  <2>1. p + 1 \in a..b /\ p + 1 # a /\ (p + 1) - 1 = p
    OBVIOUS
  <2>2. f[p + 1] = Quoted(f[(p + 1) - 1], line[(p + 1) - 1])
    BY <1>1, <2>1, Zenon
  <2> QED BY <2>1, <2>2
<1> QED BY <1>1, <1>2, <1>3

LEMMA ScanExists ==
    ASSUME NEW a \in Nat, NEW b \in Nat, a <= b
    PROVE  \E f : IsScan(f, a, b)
<1> DEFINE T == {n \in Nat : \E f : IsScan(f, a, n)}
<1>1. a \in T
  <2> DEFINE v == [p \in a..a |-> "none"]
  <2>1. v = [p \in a..a |-> IF p = a THEN "none" ELSE Quoted(v[p - 1], line[p - 1])]
    OBVIOUS
  <2>2. IsScan(v, a, a)
    BY <2>1 DEF IsScan
  <2> HIDE DEF v
  <2> QED BY <2>2
<1>2. ASSUME NEW m \in a..(b - 1), m \in T PROVE m + 1 \in T
  <2>1. PICK f : IsScan(f, a, m)
    BY <1>2
  <2> DEFINE Turn(g, p) == Quoted(g[p - 1], line[p - 1])
  <2>2. \A p \in a..m : f[p] = IF p = a THEN "none" ELSE Turn(f, p)
    BY <2>1, Zenon DEF IsScan
  <2> DEFINE g == [p \in a..(m + 1) |-> IF p = m + 1 THEN Turn(f, m + 1) ELSE f[p]]
             h == [p \in a..(m + 1) |-> IF p = a THEN "none" ELSE Turn(g, p)]
  <2>3. \A p \in a..(m + 1) : h[p] = g[p]
    <3>1. SUFFICES ASSUME NEW p \in a..(m + 1)
                   PROVE  g[p] = IF p = a THEN "none" ELSE Turn(g, p)
      OBVIOUS
    <3>2. CASE p = m + 1
      <4>1. p - 1 \in a..(m + 1) /\ p - 1 # m + 1 /\ p # a /\ (m + 1) - 1 = p - 1
        BY <3>2
      <4>2. g[p - 1] = f[p - 1]
        BY <4>1
      <4>3. g[p] = Turn(f, m + 1)
        BY <3>2
      <4> HIDE DEF g
      <4>4. Turn(f, m + 1) = Turn(g, p)
        BY <4>1, <4>2, Zenon
      <4> QED BY <4>1, <4>3, <4>4, Zenon
    <3>3. CASE p # m + 1
      <4>1. p \in a..m /\ (p # a => p - 1 \in a..(m + 1) /\ p - 1 # m + 1)
        BY <3>3
      <4>2. g[p] = f[p] /\ (p # a => g[p - 1] = f[p - 1])
        BY <3>3, <4>1
      <4> HIDE DEF g
      <4> QED BY <2>2, <4>1, <4>2, Zenon
    <3> QED BY <3>2, <3>3
  <2>4. g = [p \in a..(m + 1) |-> g[p]] /\ h = [p \in a..(m + 1) |-> h[p]]
    OBVIOUS
  <2>5. g = h
    <3> HIDE DEF g, h
    <3> QED BY <2>3, <2>4
  <2>6. IsScan(g, a, m + 1)
    <3>1. g = [p \in a..(m + 1) |-> IF p = a THEN "none" ELSE Turn(g, p)]
      <4> HIDE DEF g
      <4> QED BY <2>5, Zenon DEF h
    <3> HIDE DEF g
    <3> QED BY <3>1, Zenon DEF IsScan
  <2> HIDE DEF g
  <2> QED BY <2>6
<1> HIDE DEF T
<1>3. \A n \in a..b : n \in T
  BY <1>1, <1>2, UpTo
<1>4. b \in T
  BY <1>3
<1> QED BY <1>4 DEF T

LEMMA ScanTyped ==
    ASSUME NEW f, NEW a \in Nat, NEW b \in Nat, a <= b, IsScan(f, a, b)
    PROVE  \A p \in a..b : f[p] \in QuoteStates
<1> DEFINE T == {p \in Nat : f[p] \in QuoteStates}
<1>1. a \in T
  BY ScanStep DEF QuoteStates
<1>2. ASSUME NEW p \in a..(b - 1), p \in T PROVE p + 1 \in T
  <2>1. f[p + 1] = Quoted(f[p], line[p])
    BY ScanStep
  <2> QED BY <1>2, <2>1 DEF Quoted, QuoteStates
<1> HIDE DEF T
<1>3. \A p \in a..b : p \in T
  BY <1>1, <1>2, UpTo
<1> QED BY <1>3 DEF T

\* Followed over the whole line, quotes open and close as lex_word_end says.
LEMMA OpenQuoteStep ==
    ASSUME line \in Seq(Chars)
    PROVE  /\ OpenQuote[1] = "none"
           /\ \A p \in Places : OpenQuote[p] \in QuoteStates
           /\ \A p \in DOMAIN line : OpenQuote[p + 1] = Quoted(OpenQuote[p], line[p])
<1>1. /\ Len(line) \in Nat /\ DOMAIN line = 1..Len(line) /\ Len(line) + 1 \in Nat
      /\ 1 \in Nat /\ 1 <= Len(line) + 1 /\ (Len(line) + 1) - 1 = Len(line)
  OBVIOUS
<1> DEFINE Rule(f) == [p \in Places |->
            IF p = 1 THEN "none"
            ELSE CASE f[p - 1] = "none" /\ line[p - 1] \in Quotes -> line[p - 1]
                   [] f[p - 1] # "none" /\ line[p - 1] = f[p - 1] -> "none"
                   [] OTHER -> f[p - 1]]
           Scan(f) == [p \in 1..(Len(line) + 1) |->
            IF p = 1 THEN "none" ELSE Quoted(f[p - 1], line[p - 1])]
<1>2. ASSUME NEW q \in QuoteStates, NEW c \in Chars
      PROVE  Quoted(q, c) = CASE q = "none" /\ c \in Quotes -> c
                              [] q # "none" /\ c = q -> "none"
                              [] OTHER -> q
  BY <1>2 DEF Quoted, QuoteStates, Quotes, Chars
<1>3. PICK f : IsScan(f, 1, Len(line) + 1)
  BY <1>1, ScanExists
<1>4. \A p \in Places : f[p] \in QuoteStates
  BY <1>1, <1>3, ScanTyped DEF Places
<1>5. \A p \in Places : p # 1 => p - 1 \in Places /\ line[p - 1] \in Chars
  BY <1>1 DEF Places
<1>6. f = Rule(f)
  <2>1. f = Scan(f)
    BY <1>3, Zenon DEF IsScan
  <2>2. \A p \in Places : Scan(f)[p] = Rule(f)[p]
    BY <1>2, <1>4, <1>5, Zenon DEF Places
  <2>3. Scan(f) = [p \in Places |-> Scan(f)[p]] /\ Rule(f) = [p \in Places |-> Rule(f)[p]]
    BY Zenon DEF Places
  <2> HIDE DEF Scan, Rule
  <2> QED BY <2>1, <2>2, <2>3
<1>7. OpenQuote = Rule(OpenQuote)
  <2>1. OpenQuote = CHOOSE g : g = Rule(g)
    BY Zenon DEF OpenQuote
  <2> QED BY <1>6, <2>1, Zenon
<1> HIDE DEF Rule
<1>8. \A p \in 1..(Len(line) + 1) : OpenQuote[p] = f[p]
  <2> DEFINE T == {p \in Nat : OpenQuote[p] = f[p]}
  <2>1. OpenQuote[1] = "none" /\ f[1] = "none"
    <3>1. 1 \in Places
      BY <1>1 DEF Places
    <3>2. Rule(OpenQuote)[1] = "none" /\ Rule(f)[1] = "none"
      BY <3>1, Zenon DEF Rule
    <3> QED BY <1>6, <1>7, <3>2, Zenon
  <2>2. ASSUME NEW p \in 1..((Len(line) + 1) - 1), p \in T PROVE p + 1 \in T
    <3>1. p + 1 \in Places /\ p + 1 # 1 /\ (p + 1) - 1 = p
      BY <1>1 DEF Places
    <3>2. OpenQuote[p] = f[p]
      BY <2>2
    <3>3. \A g : Rule(g)[p + 1] =
                   CASE g[p] = "none" /\ line[p] \in Quotes -> line[p]
                     [] g[p] # "none" /\ line[p] = g[p] -> "none"
                     [] OTHER -> g[p]
      BY <3>1, Zenon DEF Rule
    <3>4. Rule(OpenQuote)[p + 1] = Rule(f)[p + 1]
      BY <3>2, <3>3, Zenon
    <3>5. OpenQuote[p + 1] = f[p + 1]
      BY <1>6, <1>7, <3>4, Zenon
    <3>6. p + 1 \in Nat
      OBVIOUS
    <3> QED BY <3>5, <3>6
  <2>3. 1 \in T
    BY <2>1
  <2> HIDE DEF T
  <2>4. \A p \in 1..(Len(line) + 1) : p \in T
    BY <1>1, <2>2, <2>3, UpTo
  <2> QED BY <2>4 DEF T
<1>9. /\ f[1] = "none"
      /\ \A p \in 1..((Len(line) + 1) - 1) : f[p + 1] = Quoted(f[p], line[p])
  BY <1>1, <1>3, ScanStep
<1>10. \A p \in DOMAIN line : p \in 1..((Len(line) + 1) - 1) /\ p \in 1..(Len(line) + 1)
                              /\ p + 1 \in 1..(Len(line) + 1)
  BY <1>1
<1>11. 1 \in 1..(Len(line) + 1)
  BY <1>1
<1> QED BY <1>4, <1>8, <1>9, <1>10, <1>11, Zenon DEF Places

---------------------------------------------------------------------------
(* Separators                                                              *)

Operator   == {"|", "<", ">"}
Separator  == {"blank", "white", "|", "<", ">"}
InWord     == DOMAIN line \ Bare(Separator)

LEMMA LineFacts ==
    ASSUME line \in Seq(Chars)
    PROVE  /\ Len(line) \in Nat /\ DOMAIN line = 1..Len(line)
           /\ \A p \in DOMAIN line : line[p] \in Chars
OBVIOUS

\* The places outside quotes with one of the characters.
LEMMA BareIs ==
    ASSUME NEW chars, NEW p
    PROVE  p \in Bare(chars) <=> p \in DOMAIN line /\ OpenQuote[p] = "none" /\ line[p] \in chars
BY Zenon DEF Bare

LEMMA InWordIs ==
    ASSUME NEW p
    PROVE  p \in InWord <=> p \in DOMAIN line /\ ~(OpenQuote[p] = "none" /\ line[p] \in Separator)
BY BareIs, Zenon DEF InWord

\* A separator outside quotes opens none.
LEMMA StaysOpen ==
    ASSUME line \in Seq(Chars), NEW p \in DOMAIN line, OpenQuote[p] = "none",
           line[p] \in Separator
    PROVE  OpenQuote[p + 1] = "none" /\ p \notin InWord
<1>1. OpenQuote[p + 1] = Quoted(OpenQuote[p], line[p])
  BY OpenQuoteStep
<1> QED BY <1>1, InWordIs DEF Quoted, Quotes, Separator

\* SkipBlanks passes over all the blanks and nothing else.
LEMMA BlanksSkipped ==
    ASSUME line \in Seq(Chars), NEW a \in Places
    PROVE  LET e == SkipBlanks(a)
           IN /\ e \in a..(Len(line) + 1) /\ e \in Places
              /\ \A b \in a..(e - 1) : line[b] = "blank"
              /\ e <= Len(line) => line[e] # "blank"
<1> DEFINE Ends(e) == /\ \A b \in a..(e - 1) : line[b] = "blank"
                      /\ e <= Len(line) => line[e] # "blank"
           S == {e \in a..(Len(line) + 1) : e <= Len(line) => line[e] # "blank"}
<1>1. Len(line) \in Nat /\ a \in Nat
  BY DEF Places
<1>2. Len(line) + 1 \in S /\ S \in SUBSET Nat
  BY <1>1 DEF Places
<1>3. PICK x \in S : \A y \in S : x <= y
  BY <1>2, LeastNatural
<1>4. \A b \in a..(x - 1) : line[b] = "blank"
  <2> SUFFICES ASSUME NEW b \in a..(x - 1), line[b] # "blank" PROVE FALSE
    OBVIOUS
  <2>1. b \in S /\ b < x
    BY <1>1, <1>3
  <2> QED BY <1>1, <1>3, <2>1
<1>5. x \in a..(Len(line) + 1) /\ Ends(x)
  BY <1>3, <1>4
<1>6. SkipBlanks(a) \in a..(Len(line) + 1) /\ Ends(SkipBlanks(a))
  <2>1. SkipBlanks(a) = CHOOSE e \in a..(Len(line) + 1) : Ends(e)
    BY Zenon DEF SkipBlanks
  <2> HIDE DEF Ends
  <2> QED BY <1>5, <2>1, Zenon
<1> QED BY <1>1, <1>6 DEF Places

\* Blanks passed over outside quotes: still outside quotes, and not in a word.
LEMMA BlanksBare ==
    ASSUME line \in Seq(Chars), NEW a \in Places, OpenQuote[a] = "none",
           NEW e \in a..(Len(line) + 1), \A b \in a..(e - 1) : line[b] = "blank"
    PROVE  OpenQuote[e] = "none" /\ \A b \in a..(e - 1) : OpenQuote[b] = "none" /\ b \notin InWord
<1> DEFINE T == {p \in Nat : OpenQuote[p] = "none"}
<1>1. a \in Nat /\ e \in Nat /\ a \in T /\ Len(line) \in Nat /\ DOMAIN line = 1..Len(line)
      /\ a >= 1
  BY DEF Places
<1>2. \A b \in a..(e - 1) : b \in DOMAIN line /\ line[b] \in Separator
  BY <1>1 DEF Separator
<1>3. ASSUME NEW p \in a..(e - 1), p \in T PROVE p + 1 \in T
  BY <1>2, <1>3, StaysOpen
<1> HIDE DEF T
<1>4. \A p \in a..e : p \in T
  BY <1>1, <1>3, UpTo
<1>5. \A p \in a..e : OpenQuote[p] = "none"
  BY <1>4 DEF T
<1> QED BY <1>1, <1>2, <1>5, StaysOpen

\* lex_word_end, from outside quotes: it stops at the first separator outside
\* quotes and knows the quote that is open there, as over the whole line.
LEMMA WordEnds ==
    ASSUME line \in Seq(Chars), NEW a \in Places, OpenQuote[a] = "none"
    PROVE  LET e == WordEnd(a).at
           IN /\ e \in a..(Len(line) + 1) /\ e \in Places
              /\ WordEnd(a).quote = OpenQuote[e]
              /\ \A p \in a..(e - 1) : p \in InWord
              /\ e <= Len(line) => OpenQuote[e] = "none" /\ line[e] \in Separator
              /\ e \notin InWord
<1> DEFINE L == Len(line) + 1
           Rule(g) == [p \in a..(Len(line) + 1) |->
                          IF p = a THEN "none" ELSE Quoted(g[p - 1], line[p - 1])]
           quote == CHOOSE g : g = Rule(g)
           stops(p) == quote[p] = "none" /\ line[p] \in EndsWord
           Ends(e) == /\ \A p \in a..(e - 1) : ~stops(p)
                      /\ e <= Len(line) => stops(e)
           end == CHOOSE e \in a..(Len(line) + 1) : Ends(e)
<1>1. Len(line) \in Nat /\ L \in Nat /\ a \in Nat /\ a <= L /\ DOMAIN line = 1..Len(line)
      /\ a >= 1 /\ Len(line) = L - 1
  BY DEF Places
<1>2. WordEnd(a) = [at |-> end, quote |-> quote[end]]
  BY Zenon DEF WordEnd
<1>3. IsScan(quote, a, L)
  <2>1. PICK f : IsScan(f, a, L)
    BY <1>1, ScanExists
  <2>2. f = Rule(f)
    BY <2>1, Zenon DEF IsScan
  <2>3. quote = Rule(quote)
    <3> HIDE DEF Rule
    <3> QED BY <2>2, Zenon
  <2> HIDE DEF quote
  <2> QED BY <2>3, Zenon DEF IsScan
<1> HIDE DEF quote, Rule
<1>4. \A p \in a..L : quote[p] = OpenQuote[p]
  <2> DEFINE T == {p \in Nat : quote[p] = OpenQuote[p]}
  <2>1. quote[a] = "none" /\ \A p \in a..(L - 1) : quote[p + 1] = Quoted(quote[p], line[p])
    <3> HIDE DEF L
    <3> QED BY <1>1, <1>3, ScanStep
  <2>2. a \in T
    BY <1>1, <2>1
  <2>3. ASSUME NEW p \in a..(L - 1), p \in T PROVE p + 1 \in T
    <3>1. p \in DOMAIN line /\ p + 1 \in Nat
      BY <1>1
    <3>2. OpenQuote[p + 1] = Quoted(OpenQuote[p], line[p])
      BY <3>1, OpenQuoteStep
    <3>3. quote[p + 1] = OpenQuote[p + 1]
      BY <2>1, <2>3, <3>2
    <3> QED BY <3>1, <3>3
  <2> HIDE DEF T, L
  <2>4. \A p \in a..L : p \in T
    BY <1>1, <2>2, <2>3, UpTo
  <2> QED BY <2>4 DEF T
<1>5. \E e \in a..(Len(line) + 1) : Ends(e)
  <2> DEFINE S == {e \in a..(Len(line) + 1) : e <= Len(line) => stops(e)}
  <2> HIDE DEF stops
  <2>1. L \in S /\ S \in SUBSET Nat
    BY <1>1
  <2>2. PICK x \in S : \A y \in S : x <= y
    BY <2>1, LeastNatural
  <2>3. \A p \in a..(x - 1) : ~stops(p)
    <3> SUFFICES ASSUME NEW p \in a..(x - 1), stops(p) PROVE FALSE
      OBVIOUS
    <3>1. p \in S /\ p < x
      BY <1>1, <2>2
    <3> QED BY <1>1, <2>2, <3>1
  <2> QED BY <2>2, <2>3
<1>6. end \in a..(Len(line) + 1) /\ Ends(end)
  <2> HIDE DEF Ends
  <2> QED BY <1>5, Zenon
<1> HIDE DEF end
<1>7. EndsWord = Separator
  BY DEF EndsWord, Separator
<1>8. \A p \in a..(end - 1) : p \in InWord
  <2> SUFFICES ASSUME NEW p \in a..(end - 1) PROVE p \in InWord
    OBVIOUS
  <2>1. p \in DOMAIN line /\ p \in a..L /\ ~stops(p)
    BY <1>1, <1>6
  <2> QED BY <1>4, <1>7, <2>1, InWordIs
<1>9. end <= Len(line) => OpenQuote[end] = "none" /\ line[end] \in Separator
  <2>1. end \in a..L
    BY <1>6
  <2> QED BY <1>4, <1>6, <1>7, <2>1
<1>10. end \notin InWord
  <2>1. end \in DOMAIN line => end <= Len(line)
    BY <1>1, <1>6
  <2> QED BY <1>9, <2>1, InWordIs
<1>11. WordEnd(a).at = end /\ WordEnd(a).quote = quote[end] /\ quote[end] = OpenQuote[end]
  BY <1>2, <1>4, <1>6
<1>12. end \in Places
  BY <1>1, <1>6 DEF Places
<1> QED BY <1>6, <1>8, <1>9, <1>10, <1>11, <1>12

---------------------------------------------------------------------------
(* Operators                                                               *)

TokenTypes == {"word", "pipe", "in", "out", "append", "heredoc", "rw"}

\* The text of the token is what its type says, and as long as it can be.
SaysItsType(t) ==
    LET text == SubSeq(line, t.from, t.to - 1)
        next == IF t.to <= Len(line) THEN line[t.to] ELSE "end"
    IN CASE t.type = "pipe"    -> text = <<"|">>
         [] t.type = "in"      -> text = <<"<">> /\ next \notin {"<", ">"}
         [] t.type = "out"     -> text = <<">">> /\ next # ">"
         [] t.type = "append"  -> text = <<">", ">">>
         [] t.type = "heredoc" -> text = <<"<", "<">>
         [] t.type = "rw"      -> text = <<"<", ">">>
         [] OTHER -> TRUE

\* lex_op moves over one or two operator characters outside quotes.
LEMMA OperatorEnds ==
    ASSUME line \in Seq(Chars), NEW a \in DOMAIN line, OpenQuote[a] = "none",
           line[a] \in Operator
    PROVE  /\ OpEnd(a) \in a + 1..Len(line) + 1 /\ OpEnd(a) \in Places
           /\ OpenQuote[OpEnd(a)] = "none" /\ OpEnd(a) - 1 \notin InWord
           /\ \A p \in a..(OpEnd(a) - 1) : p \notin InWord
<1>1. /\ Len(line) \in Nat /\ a \in 1..Len(line) /\ DOMAIN line = 1..Len(line)
      /\ Operator \subseteq Separator
  BY DEF Operator, Separator
<1>2. OpenQuote[a + 1] = "none" /\ a \notin InWord
  BY <1>1, StaysOpen
<1>3. CASE OpEnd(a) = a + 1
  BY <1>1, <1>2, <1>3 DEF Places
<1>4. CASE OpEnd(a) # a + 1
  <2>1. a < Len(line) /\ <<line[a], line[a + 1]>> \in Operators /\ OpEnd(a) = a + 2
    BY <1>4, Zenon DEF OpEnd
  <2>2. a + 1 \in DOMAIN line /\ (a + 1) + 1 = a + 2 /\ (a + 2) - 1 = a + 1
    BY <1>1, <2>1
  <2>3. line[a + 1] \in Separator
    BY <2>1 DEF Operators, Separator
  <2>4. OpenQuote[(a + 1) + 1] = "none" /\ a + 1 \notin InWord
    BY <1>2, <2>2, <2>3, StaysOpen
  <2>5. \A p \in a..(a + 1) : p = a \/ p = a + 1
    BY <1>1
  <2> QED BY <1>1, <1>2, <2>1, <2>2, <2>4, <2>5 DEF Places
<1> QED BY <1>3, <1>4

LEMMA OneCharacter ==
    ASSUME line \in Seq(Chars), NEW a \in DOMAIN line
    PROVE  SubSeq(line, a, a) = <<line[a]>>
<1>1. Len(line) \in Nat /\ a \in 1..Len(line)
  OBVIOUS
<1> DEFINE s == SubSeq(line, a, a)
           t == <<line[a]>>
<1>2. s \in Seq(Chars) /\ Len(s) = 1 /\ \A k \in 1..1 : s[k] = line[a + k - 1]
  BY <1>1, SubSeqProperties
<1>3. t \in Seq(Chars) /\ Len(t) = 1 /\ t[1] = line[a]
  BY <1>1
<1>4. s[1] = line[a]
  <2>1. a + 1 - 1 = a /\ 1 \in 1..1
    BY <1>1
  <2> QED BY <1>2, <2>1
<1> HIDE DEF s, t
<1>5. \A k \in 1..1 : s[k] = t[k]
  BY <1>3, <1>4
<1> QED BY <1>2, <1>3, <1>5, SeqEqual DEF s, t

LEMMA TwoCharacters ==
    ASSUME line \in Seq(Chars), NEW a \in DOMAIN line, a < Len(line)
    PROVE  SubSeq(line, a, a + 1) = <<line[a], line[a + 1]>>
<1>1. Len(line) \in Nat /\ a \in 1..Len(line) /\ a + 1 \in 1..Len(line)
  OBVIOUS
<1> DEFINE s == SubSeq(line, a, a + 1)
           t == <<line[a], line[a + 1]>>
<1>2. s \in Seq(Chars) /\ Len(s) = 2 /\ \A k \in 1..2 : s[k] = line[a + k - 1]
  <2> DEFINE b == a + 1
  <2>1. b - a + 1 = 2 /\ b \in 1..Len(line) /\ a <= b
    BY <1>1
  <2> HIDE DEF b
  <2>2. /\ SubSeq(line, a, b) \in Seq(Chars) /\ Len(SubSeq(line, a, b)) = 2
        /\ \A k \in 1..2 : SubSeq(line, a, b)[k] = line[a + k - 1]
    <3>1. a \in Int /\ b \in Int /\ \A k \in a..b : line[k] \in Chars
      BY <1>1, <2>1
    <3>2. /\ SubSeq(line, a, b) \in Seq(Chars)
          /\ Len(SubSeq(line, a, b)) = IF a <= b THEN b - a + 1 ELSE 0
          /\ \A k \in 1..b - a + 1 : SubSeq(line, a, b)[k] = line[a + k - 1]
      BY ONLY <3>1, SubSeqProperties
    <3> QED BY <2>1, <3>2
  <2> QED BY <2>2 DEF b
<1>3. t \in Seq(Chars) /\ Len(t) = 2 /\ t[1] = line[a] /\ t[2] = line[a + 1]
  BY <1>1
<1>4. s[1] = line[a] /\ s[2] = line[a + 1]
  <2>1. a + 1 - 1 = a /\ a + 2 - 1 = a + 1 /\ 1 \in 1..2 /\ 2 \in 1..2
    BY <1>1
  <2> QED BY <1>2, <2>1
<1> HIDE DEF s, t
<1>5. \A k \in 1..2 : s[k] = t[k]
  BY <1>3, <1>4
<1> QED BY <1>2, <1>3, <1>5, SeqEqual DEF s, t

\* lex_op takes the longest operator there is, and its type says which.
LEMMA OperatorType ==
    ASSUME line \in Seq(Chars), NEW a \in DOMAIN line, line[a] \in Operator
    PROVE  /\ OpType(a) \in TokenTypes \ {"word"}
           /\ SaysItsType([type |-> OpType(a), from |-> a, to |-> OpEnd(a)])
<1>1. Len(line) \in Nat /\ a \in 1..Len(line) /\ DOMAIN line = 1..Len(line)
  OBVIOUS
<1> DEFINE t == [type |-> OpType(a), from |-> a, to |-> OpEnd(a)]
<1>2. t.type = OpType(a) /\ t.from = a /\ t.to = OpEnd(a)
  OBVIOUS
<1> HIDE DEF t
<1>3. CASE line[a] = "|"
  <2>1. OpEnd(a) = a + 1 /\ (a + 1) - 1 = a
    BY <1>1, <1>3 DEF OpEnd, Operators
  <2>2. OpType(a) = "pipe"
    BY <1>3 DEF OpType
  <2>3. SubSeq(line, t.from, t.to - 1) = <<"|">>
    BY <1>2, <1>3, <2>1, OneCharacter
  <2>4. SaysItsType(t)
    BY <1>2, <2>2, <2>3 DEF SaysItsType
  <2> QED BY <2>2, <2>4 DEF TokenTypes, t
<1>4. CASE line[a] # "|" /\ OpEnd(a) = a + 1
  <2>1. ~(a < Len(line) /\ <<line[a], line[a + 1]>> \in Operators)
    <3>1. a + 2 # a + 1
      BY <1>1
    <3> QED BY <1>4, <3>1 DEF OpEnd
  <2>2. OpType(a) = IF line[a] = "<" THEN "in" ELSE "out"
    <3>1. OpEnd(a) # a + 2 /\ line[a] \in {"<", ">"}
      BY <1>1, <1>4 DEF Operator
    <3> QED BY <3>1 DEF OpType
  <2>3. SubSeq(line, t.from, t.to - 1) = <<line[a]>>
    <3>1. (a + 1) - 1 = a
      BY <1>1
    <3> QED BY <1>2, <1>4, <3>1, OneCharacter
  <2>4. a + 1 <= Len(line) => <<line[a], line[a + 1]>> \notin Operators
    BY <1>1, <2>1
  <2>5. line[a] = "<" \/ line[a] = ">"
    BY <1>4 DEF Operator
  <2>6. CASE line[a] = "<"
    <3>1. t.type = "in" /\ t.to = a + 1
      BY <1>2, <1>4, <2>2, <2>6
    <3>2. (IF t.to <= Len(line) THEN line[t.to] ELSE "end") \notin {"<", ">"}
      BY <2>4, <2>6, <3>1 DEF Operators
    <3>3. SaysItsType(t)
      BY <2>3, <2>6, <3>1, <3>2 DEF SaysItsType
    <3> QED BY <1>2, <3>1, <3>3 DEF TokenTypes, t
  <2>7. CASE line[a] = ">"
    <3>1. t.type = "out" /\ t.to = a + 1
      BY <1>2, <1>4, <2>2, <2>7
    <3>2. (IF t.to <= Len(line) THEN line[t.to] ELSE "end") # ">"
      BY <2>4, <2>7, <3>1 DEF Operators
    <3>3. SaysItsType(t)
      BY <2>3, <2>7, <3>1, <3>2 DEF SaysItsType
    <3> QED BY <1>2, <3>1, <3>3 DEF TokenTypes, t
  <2> QED BY <2>5, <2>6, <2>7
<1>5. CASE line[a] # "|" /\ OpEnd(a) # a + 1
  <2>1. a < Len(line) /\ <<line[a], line[a + 1]>> \in Operators /\ OpEnd(a) = a + 2
    BY <1>5, Zenon DEF OpEnd
  <2>2. OpType(a) = IF line[a] = ">" THEN "append"
                    ELSE IF line[a + 1] = "<" THEN "heredoc" ELSE "rw"
    <3>1. line[a] \in {"<", ">"}
      BY <1>5 DEF Operator
    <3> QED BY <2>1, <3>1 DEF OpType
  <2>3. SubSeq(line, t.from, t.to - 1) = <<line[a], line[a + 1]>>
    <3>1. (a + 2) - 1 = a + 1
      BY <1>1
    <3> QED BY <1>2, <2>1, <3>1, TwoCharacters
  <2>4. \/ line[a] = "<" /\ line[a + 1] = "<"
        \/ line[a] = "<" /\ line[a + 1] = ">"
        \/ line[a] = ">" /\ line[a + 1] = ">"
    BY <2>1 DEF Operators
  <2>5. SaysItsType(t)
    BY <1>2, <2>2, <2>3, <2>4 DEF SaysItsType
  <2> QED BY <2>2, <2>5 DEF TokenTypes, t
<1> QED BY <1>3, <1>4, <1>5

---------------------------------------------------------------------------
(* The invariant                                                           *)

\* The longest runs of characters in words.
Runs ==
    {w \in Places \X Places :
        /\ w[1] < w[2] /\ w[1]..(w[2] - 1) \subseteq InWord
        /\ w[1] - 1 \notin InWord /\ w[2] \notin InWord}

\* Between tokens the lexer is outside quotes, and not within a word; where it
\* ends only blanks are left, or a quote that nothing closes.
QuoteInv ==
    /\ status = "lexing" => OpenQuote[i] = "none" /\ (i - 1 \notin InWord \/ i \notin InWord)
    /\ status = "ok" => /\ OpenQuote[Len(line) + 1] = "none"
                        /\ \A p \in i..Len(line) : p \notin InWord /\ line[p] = "blank"
    /\ status = "quote" => OpenQuote[Len(line) + 1] # "none"

\* The words so far are the runs that begin before the cursor.
WordsInv ==
    /\ \A k \in DOMAIN toks : toks[k].type = "word" => <<toks[k].from, toks[k].to>> \in Runs
    /\ \A w \in Runs : w[1] < i =>
           \E k \in DOMAIN toks : toks[k].type = "word" /\ w = <<toks[k].from, toks[k].to>>

\* Tokens follow each other without overlap, before the cursor.
OrderInv ==
    /\ \A k \in DOMAIN toks : toks[k].from < toks[k].to /\ toks[k].to <= i
    /\ \A k, n \in DOMAIN toks : k < n => toks[k].to <= toks[n].from

\* No operator before the cursor is left out, and each is what its type says.
OperatorsInv ==
    /\ \A p \in Bare(Operator) : p < i =>
           \E k \in DOMAIN toks : toks[k].from <= p /\ p < toks[k].to
    /\ \A k \in DOMAIN toks : SaysItsType(toks[k])

LexerInv == TypeOK /\ QuoteInv /\ WordsInv /\ OrderInv /\ OperatorsInv

LEMMA SameLine ==
    ASSUME line' = line
    PROVE  /\ OpenQuote' = OpenQuote /\ Places' = Places /\ InWord' = InWord
           /\ Runs' = Runs /\ Bare(Operator)' = Bare(Operator)
<1>1. Places' = Places
  BY DEF Places
<1>2. OpenQuote' = OpenQuote
  BY <1>1, Zenon DEF OpenQuote
<1>3. Bare(Operator)' = Bare(Operator) /\ Bare(Separator)' = Bare(Separator)
  BY <1>2, Zenon DEF Bare, Operator, Separator
<1>4. InWord' = InWord
  BY <1>3, Zenon DEF InWord
<1>5. Runs' = Runs
  BY <1>1, <1>4, Zenon DEF Runs
<1> QED BY <1>1, <1>2, <1>3, <1>4, <1>5

LEMMA InvFacts ==
    ASSUME LexerInv
    PROVE  /\ line \in Seq(Chars) /\ Len(line) \in Nat /\ DOMAIN line = 1..Len(line)
           /\ i \in 1..(Len(line) + 1) /\ i \in Places /\ DOMAIN toks = 1..Len(toks)
           /\ toks \in Seq([type : TokenTypes, from : Places, to : Places])
           /\ Len(toks) \in Nat
           /\ \A k \in DOMAIN toks : /\ toks[k].type \in TokenTypes
                                     /\ toks[k].from \in Places /\ toks[k].to \in Places
<1>1. line \in Seq(Chars)
  BY LexerAssumption DEF LexerInv, TypeOK
<1>2. toks \in Seq([type : TokenTypes, from : Places, to : Places])
  BY DEF LexerInv, TypeOK, TokenTypes
<1>3. i \in Places
  BY DEF LexerInv, TypeOK
<1>4. \A k \in DOMAIN toks : toks[k] \in [type : TokenTypes, from : Places, to : Places]
  <2> DEFINE Token == [type : TokenTypes, from : Places, to : Places]
  <2>1. toks \in Seq(Token)
    BY <1>2
  <2> HIDE DEF Token
  <2>2. \A k \in DOMAIN toks : toks[k] \in Token
    BY <2>1
  <2> QED BY <2>2 DEF Token
<1> QED BY <1>1, <1>2, <1>3, <1>4 DEF Places

\* Where the next token begins: outside quotes, with only blanks before it.
LEMMA NextToken ==
    ASSUME LexerInv, status = "lexing", NEW p, p = SkipBlanks(i)
    PROVE  /\ p \in i..(Len(line) + 1) /\ p \in Places /\ OpenQuote[p] = "none"
           /\ \A b \in i..(p - 1) : b \notin InWord /\ line[b] = "blank"
           /\ p - 1 \notin InWord \/ p \notin InWord
<1>1. line \in Seq(Chars) /\ i \in Places /\ i \in Nat /\ Len(line) \in Nat
  BY InvFacts
<1>2. OpenQuote[i] = "none" /\ (i - 1 \notin InWord \/ i \notin InWord)
  BY DEF LexerInv, QuoteInv
<1>3. /\ p \in i..(Len(line) + 1) /\ p \in Places
      /\ \A b \in i..(p - 1) : line[b] = "blank"
  BY <1>1, BlanksSkipped
<1>4. OpenQuote[p] = "none" /\ \A b \in i..(p - 1) : b \notin InWord
  BY <1>1, <1>2, <1>3, BlanksBare
<1>5. p = i \/ p - 1 \in i..(p - 1)
  BY <1>1, <1>3
<1> QED BY <1>2, <1>3, <1>4, <1>5

\* A token is added behind the others.
LEMMA Pushed ==
    ASSUME LexerInv, NEW type \in TokenTypes, NEW from \in Places, NEW to \in Places,
           Push(type, from, to)
    PROVE  /\ i' = to /\ line' = line /\ empties' = empties /\ status' = status
           /\ toks' \in Seq([type : TokenTypes, from : Places, to : Places])
           /\ DOMAIN toks' = 1..(Len(toks) + 1)
           /\ toks'[Len(toks) + 1] = [type |-> type, from |-> from, to |-> to]
           /\ toks'[Len(toks) + 1].type = type
           /\ toks'[Len(toks) + 1].from = from /\ toks'[Len(toks) + 1].to = to
           /\ \A k \in DOMAIN toks : toks'[k] = toks[k]
<1> DEFINE Token == [type : TokenTypes, from : Places, to : Places]
           t == [type |-> type, from |-> from, to |-> to]
<1>1. t \in Token /\ t.type = type /\ t.from = from /\ t.to = to
  OBVIOUS
<1>2. toks \in Seq(Token) /\ DOMAIN toks = 1..Len(toks)
  BY InvFacts
<1>3. toks' = Append(toks, t) /\ i' = to /\ line' = line /\ empties' = empties /\ status' = status
  BY DEF Push
<1> HIDE DEF t, Token
<1>4. /\ toks' \in Seq(Token) /\ DOMAIN toks' = 1..(Len(toks) + 1)
      /\ toks'[Len(toks) + 1] = t /\ \A k \in DOMAIN toks : toks'[k] = toks[k]
  BY <1>1, <1>2, <1>3
<1> QED BY <1>1, <1>3, <1>4 DEF t, Token

\* What the rounds of the loop do.  The operator at p:
LEMMA OperatorRound ==
    ASSUME LexerInv, LexOp
    PROVE  LET p == SkipBlanks(i)
           IN /\ status = "lexing" /\ p \in DOMAIN line
              /\ line[p] \in Operator /\ OpenQuote[p] = "none"
              /\ Push(OpType(p), p, OpEnd(p))
              /\ OpType(p) \in TokenTypes \ {"word"} /\ p \in Places
              /\ OpEnd(p) \in p + 1..Len(line) + 1 /\ OpEnd(p) \in Places
              /\ OpenQuote[OpEnd(p)] = "none" /\ OpEnd(p) - 1 \notin InWord
              /\ \A b \in i..(OpEnd(p) - 1) : b \notin InWord
<1> DEFINE p == SkipBlanks(i)
<1>1. /\ status = "lexing" /\ p <= Len(line) /\ line[p] \in Operator
      /\ Push(OpType(p), p, OpEnd(p))
  BY DEF LexOp, AtOperator, Operator
<1> HIDE DEF p
<1>2. /\ p \in i..(Len(line) + 1) /\ p \in Places /\ OpenQuote[p] = "none"
      /\ \A b \in i..(p - 1) : b \notin InWord /\ line[b] = "blank"
  BY <1>1, NextToken DEF p
<1>3. /\ line \in Seq(Chars) /\ Len(line) \in Nat /\ DOMAIN line = 1..Len(line)
      /\ i \in 1..(Len(line) + 1)
  BY InvFacts
<1>4. p \in DOMAIN line
  BY <1>1, <1>2, <1>3
<1>5. /\ OpEnd(p) \in p + 1..Len(line) + 1 /\ OpEnd(p) \in Places
      /\ OpenQuote[OpEnd(p)] = "none" /\ OpEnd(p) - 1 \notin InWord
      /\ \A b \in p..(OpEnd(p) - 1) : b \notin InWord
      /\ OpType(p) \in TokenTypes \ {"word"}
  BY <1>1, <1>2, <1>3, <1>4, OperatorEnds, OperatorType
<1>6. \A b \in i..(OpEnd(p) - 1) : b \notin InWord
  <2>1. \A b \in i..(OpEnd(p) - 1) : b \in i..(p - 1) \/ b \in p..(OpEnd(p) - 1)
    BY <1>2, <1>3, <1>5
  <2> QED BY <1>2, <1>5, <2>1
<1> QED BY <1>1, <1>2, <1>4, <1>5, <1>6 DEF p

\* The word at p:
LEMMA WordRound ==
    ASSUME LexerInv, LexWord
    PROVE  LET p == SkipBlanks(i)
               e == WordEnd(p).at
           IN /\ status = "lexing" /\ Push("word", p, e)
              /\ p \in i..Len(line) /\ p \in Places /\ e \in p + 1..Len(line) + 1
              /\ e \in Places /\ OpenQuote[e] = "none" /\ e \notin InWord
              /\ p - 1 \notin InWord
              /\ \A b \in i..(p - 1) : b \notin InWord
              /\ \A b \in p..(e - 1) : b \in InWord
<1> DEFINE p == SkipBlanks(i)
           e == WordEnd(p).at
<1>1. /\ status = "lexing" /\ p <= Len(line) /\ WordEnd(p).quote = "none" /\ e > p
      /\ Push("word", p, e)
  BY DEF LexWord, AtWord
<1> HIDE DEF p
<1>2. /\ p \in i..(Len(line) + 1) /\ p \in Places /\ OpenQuote[p] = "none"
      /\ \A b \in i..(p - 1) : b \notin InWord /\ line[b] = "blank"
      /\ p - 1 \notin InWord \/ p \notin InWord
  BY <1>1, NextToken DEF p
<1>3. /\ line \in Seq(Chars) /\ Len(line) \in Nat /\ DOMAIN line = 1..Len(line)
      /\ i \in 1..(Len(line) + 1)
  BY InvFacts
<1>4. /\ e \in p..(Len(line) + 1) /\ e \in Places
      /\ WordEnd(p).quote = OpenQuote[e]
      /\ \A b \in p..(e - 1) : b \in InWord
      /\ e \notin InWord
  BY <1>2, <1>3, WordEnds
<1> HIDE DEF e
<1>5. e \in p + 1..Len(line) + 1 /\ p \in p..(e - 1) /\ p \in i..Len(line)
  BY <1>1, <1>2, <1>3, <1>4
<1> QED BY <1>1, <1>2, <1>4, <1>5 DEF p, e

\* White space that is no blank:
LEMMA EmptyRound ==
    ASSUME LexerInv, LexNothing
    PROVE  /\ status = "lexing" /\ i' \in i..(Len(line) + 1) /\ i' \in Places
           /\ line' = line /\ toks' = toks /\ status' = status /\ empties' \in 0..1
           /\ OpenQuote[i'] = "none" /\ i' \notin InWord
           /\ \A b \in i..(i' - 1) : b \notin InWord /\ line[b] = "blank"
<1>1. /\ status = "lexing" /\ i' = SkipBlanks(i) /\ WordEnd(i').at = i'
      /\ line' = line /\ toks' = toks /\ status' = status /\ empties' = (empties + 1) % 2
  BY DEF LexNothing
<1>2. /\ i' \in i..(Len(line) + 1) /\ i' \in Places /\ OpenQuote[i'] = "none"
      /\ \A b \in i..(i' - 1) : b \notin InWord /\ line[b] = "blank"
  BY <1>1, NextToken
<1>3. i' \notin InWord
  <2>1. line \in Seq(Chars)
    BY InvFacts
  <2> QED BY <1>1, <1>2, <2>1, WordEnds
<1>4. empties' \in 0..1
  BY <1>1 DEF LexerInv, TypeOK
<1> QED BY <1>1, <1>2, <1>3, <1>4

---------------------------------------------------------------------------
(* The invariant is kept                                                   *)

LEMMA TypesKept ==
    ASSUME LexerInv, [Next]_vars
    PROVE  TypeOK'
<1>1. TypeOK /\ status \in {"lexing", "ok", "quote"} /\ empties \in 0..1 /\ line \in InputLines
  BY DEF LexerInv, TypeOK
<1>2. /\ toks \in Seq([type : TokenTypes, from : Places, to : Places]) /\ i \in Places
  BY InvFacts
<1>3. ASSUME line' = line, i' \in Places, empties' \in 0..1,
             toks' \in Seq([type : TokenTypes, from : Places, to : Places]),
             status' \in {"lexing", "ok", "quote"}
      PROVE  TypeOK'
  <2>1. Places' = Places
    BY <1>3, SameLine
  <2> QED BY <1>1, <1>3, <2>1 DEF TypeOK, TokenTypes
<1>a. CASE LexEnd
  BY <1>1, <1>2, <1>3, <1>a DEF LexEnd
<1>b. CASE LexOp
  <2> DEFINE p == SkipBlanks(i)
             e == OpEnd(p)
             t == OpType(p)
  <2>1. p \in Places /\ e \in Places /\ t \in TokenTypes /\ Push(t, p, e)
    BY <1>b, OperatorRound
  <2> HIDE DEF p, e, t
  <2>2. /\ i' = e /\ line' = line /\ empties' = empties /\ status' = status
        /\ toks' \in Seq([type : TokenTypes, from : Places, to : Places])
    BY <2>1, Pushed
  <2> QED BY <1>1, <1>3, <2>1, <2>2
<1>c. CASE LexWord
  <2> DEFINE p == SkipBlanks(i)
             e == WordEnd(p).at
  <2>1. p \in Places /\ e \in Places /\ "word" \in TokenTypes /\ Push("word", p, e)
    BY <1>c, WordRound DEF TokenTypes
  <2> HIDE DEF p, e
  <2>2. /\ i' = e /\ line' = line /\ empties' = empties /\ status' = status
        /\ toks' \in Seq([type : TokenTypes, from : Places, to : Places])
    BY <2>1, Pushed
  <2> QED BY <1>1, <1>3, <2>1, <2>2
<1>d. CASE LexNothing
  BY <1>1, <1>2, <1>3, <1>d, EmptyRound
<1>e. CASE LexUnclosed
  BY <1>1, <1>2, <1>3, <1>e DEF LexUnclosed
<1>f. CASE UNCHANGED vars
  BY <1>1, <1>2, <1>3, <1>f DEF vars
<1> QED BY <1>a, <1>b, <1>c, <1>d, <1>e, <1>f DEF Next, Lex

LEMMA QuotesKept ==
    ASSUME LexerInv, [Next]_vars
    PROVE  QuoteInv'
<1>1. QuoteInv /\ status \in {"lexing", "ok", "quote"}
  BY DEF LexerInv, TypeOK
<1>2. /\ line \in Seq(Chars) /\ Len(line) \in Nat /\ DOMAIN line = 1..Len(line)
      /\ i \in 1..(Len(line) + 1)
  BY InvFacts
<1>3. ASSUME line' = line, status = "lexing", status' = "lexing",
             OpenQuote[i'] = "none", i' - 1 \notin InWord \/ i' \notin InWord
      PROVE  QuoteInv'
  <2>1. OpenQuote' = OpenQuote /\ InWord' = InWord
    BY <1>3, SameLine
  <2> QED BY <1>3, <2>1 DEF QuoteInv
<1>a. CASE LexEnd
  <2> DEFINE p == SkipBlanks(i)
  <2>1. /\ status = "lexing" /\ p > Len(line) /\ status' = "ok" /\ line' = line /\ i' = i
    BY <1>a DEF LexEnd
  <2> HIDE DEF p
  <2>2. /\ p \in i..(Len(line) + 1) /\ OpenQuote[p] = "none"
        /\ \A b \in i..(p - 1) : b \notin InWord /\ line[b] = "blank"
    BY <2>1, NextToken DEF p
  <2>3. p = Len(line) + 1 /\ p - 1 = Len(line)
    BY <1>2, <2>1, <2>2
  <2>4. OpenQuote' = OpenQuote /\ InWord' = InWord
    BY <2>1, SameLine
  <2> QED BY <2>1, <2>2, <2>3, <2>4 DEF QuoteInv
<1>b. CASE LexOp
  <2> DEFINE p == SkipBlanks(i)
             e == OpEnd(p)
             t == OpType(p)
  <2>1. /\ status = "lexing" /\ Push(t, p, e) /\ p \in Places /\ e \in Places
        /\ t \in TokenTypes /\ OpenQuote[e] = "none" /\ e - 1 \notin InWord
    BY <1>b, OperatorRound
  <2> HIDE DEF p, e, t
  <2>2. i' = e /\ line' = line /\ status' = status
    BY <2>1, Pushed
  <2> QED BY <1>3, <2>1, <2>2
<1>c. CASE LexWord
  <2> DEFINE p == SkipBlanks(i)
             e == WordEnd(p).at
  <2>1. /\ status = "lexing" /\ Push("word", p, e) /\ p \in Places /\ e \in Places
        /\ "word" \in TokenTypes /\ OpenQuote[e] = "none" /\ e \notin InWord
    BY <1>c, WordRound DEF TokenTypes
  <2> HIDE DEF p, e
  <2>2. i' = e /\ line' = line /\ status' = status
    BY <2>1, Pushed
  <2> QED BY <1>3, <2>1, <2>2
<1>d. CASE LexNothing
  BY <1>3, <1>d, EmptyRound
<1>e. CASE LexUnclosed
  <2> DEFINE p == SkipBlanks(i)
             e == WordEnd(p).at
  <2>1. /\ status = "lexing" /\ WordEnd(p).quote # "none" /\ status' = "quote"
        /\ line' = line
    BY <1>e DEF LexUnclosed
  <2>2. p \in Places /\ OpenQuote[p] = "none"
    BY <2>1, NextToken
  <2> HIDE DEF p
  <2>3. /\ e \in p..(Len(line) + 1) /\ WordEnd(p).quote = OpenQuote[e]
        /\ e <= Len(line) => OpenQuote[e] = "none"
    BY <1>2, <2>2, WordEnds
  <2> HIDE DEF e
  <2>4. e = Len(line) + 1 /\ OpenQuote[e] # "none"
    BY <1>2, <2>1, <2>2, <2>3 DEF Places
  <2>5. OpenQuote' = OpenQuote
    BY <2>1, SameLine
  <2> QED BY <2>1, <2>4, <2>5 DEF QuoteInv
<1>f. CASE UNCHANGED vars
  <2>1. line' = line /\ i' = i /\ status' = status
    BY <1>f DEF vars
  <2>2. OpenQuote' = OpenQuote /\ InWord' = InWord
    BY <2>1, SameLine
  <2> QED BY <1>1, <2>1, <2>2 DEF QuoteInv
<1> QED BY <1>a, <1>b, <1>c, <1>d, <1>e, <1>f DEF Next, Lex

\* A run begins in a word, so none begins where the cursor passed over no word.
LEMMA RunFacts ==
    ASSUME NEW w \in Runs, Len(line) \in Nat
    PROVE  /\ w[1] \in Nat /\ w[2] \in Nat /\ w[1] >= 1 /\ w = <<w[1], w[2]>>
           /\ w[1] < w[2] /\ w[1]..(w[2] - 1) \subseteq InWord
           /\ w[1] - 1 \notin InWord /\ w[2] \notin InWord /\ w[1] \in InWord
<1>1. /\ w \in Places \X Places
      /\ w[1] < w[2] /\ w[1]..(w[2] - 1) \subseteq InWord
      /\ w[1] - 1 \notin InWord /\ w[2] \notin InWord
  BY Zenon DEF Runs
<1>2. w[1] \in Nat /\ w[2] \in Nat /\ w[1] >= 1 /\ w = <<w[1], w[2]>>
  BY <1>1 DEF Places
<1>3. w[1] \in w[1]..(w[2] - 1)
  BY <1>1, <1>2
<1> QED BY <1>1, <1>2, <1>3

LEMMA WordsKept ==
    ASSUME LexerInv, [Next]_vars
    PROVE  WordsInv'
<1>1. /\ WordsInv
      /\ \A k \in DOMAIN toks : toks[k].type = "word" => <<toks[k].from, toks[k].to>> \in Runs
      /\ \A w \in Runs : w[1] < i =>
             \E k \in DOMAIN toks : toks[k].type = "word" /\ w = <<toks[k].from, toks[k].to>>
  BY DEF LexerInv, WordsInv
<1>2. /\ line \in Seq(Chars) /\ Len(line) \in Nat /\ DOMAIN line = 1..Len(line)
      /\ i \in 1..(Len(line) + 1) /\ DOMAIN toks = 1..Len(toks) /\ Len(toks) \in Nat
  BY InvFacts
<1>3. ASSUME line' = line, i' = i, toks' = toks PROVE WordsInv'
  <2>1. Runs' = Runs
    BY <1>3, SameLine
  <2> QED BY <1>1, <1>3, <2>1 DEF WordsInv
<1>a. CASE LexEnd
  BY <1>3, <1>a DEF LexEnd
<1>b. CASE LexOp
  <2> DEFINE p == SkipBlanks(i)
             e == OpEnd(p)
             t == OpType(p)
             n == Len(toks) + 1
  <2>1. /\ Push(t, p, e) /\ p \in Places /\ e \in Places /\ t \in TokenTypes /\ t # "word"
        /\ \A b \in i..(e - 1) : b \notin InWord
    BY <1>b, OperatorRound
  <2> HIDE DEF p, e, t
  <2>2. /\ i' = e /\ line' = line /\ DOMAIN toks' = 1..n /\ toks'[n].type = t
        /\ \A k \in DOMAIN toks : toks'[k] = toks[k]
    BY <2>1, Pushed
  <2>3. Runs' = Runs
    BY <2>2, SameLine
  <2>4. \A k \in DOMAIN toks' : k = n \/ k \in DOMAIN toks
    BY <1>2, <2>2
  <2>5. DOMAIN toks \subseteq DOMAIN toks'
    BY <1>2, <2>2
  <2>6. \A w \in Runs : w[1] < e => w[1] < i
    <3> SUFFICES ASSUME NEW w \in Runs, w[1] < e, ~(w[1] < i) PROVE FALSE
      OBVIOUS
    <3>1. w[1] \in Nat /\ w[1] \in InWord
      BY <1>2, RunFacts
    <3>2. w[1] \in i..(e - 1)
      BY <1>2, <2>1, <3>1 DEF Places
    <3> QED BY <2>1, <3>1, <3>2
  <2>7. \A k \in DOMAIN toks' : toks'[k].type = "word" => <<toks'[k].from, toks'[k].to>> \in Runs
    BY <1>1, <2>1, <2>2, <2>4
  <2>8. \A w \in Runs : w[1] < e =>
            \E k \in DOMAIN toks' : toks'[k].type = "word" /\ w = <<toks'[k].from, toks'[k].to>>
    BY <1>1, <2>2, <2>5, <2>6
  <2> QED BY <2>2, <2>3, <2>7, <2>8 DEF WordsInv
<1>c. CASE LexWord
  <2> DEFINE p == SkipBlanks(i)
             e == WordEnd(p).at
             n == Len(toks) + 1
  <2>1. /\ Push("word", p, e) /\ p \in Places /\ e \in Places /\ "word" \in TokenTypes
        /\ p \in i..Len(line) /\ e \in p + 1..Len(line) + 1 /\ e \notin InWord
        /\ p - 1 \notin InWord
        /\ \A b \in i..(p - 1) : b \notin InWord
        /\ \A b \in p..(e - 1) : b \in InWord
    BY <1>c, WordRound DEF TokenTypes
  <2> HIDE DEF p, e
  <2>2. /\ i' = e /\ line' = line /\ DOMAIN toks' = 1..n /\ toks'[n].type = "word"
        /\ toks'[n].from = p /\ toks'[n].to = e
        /\ \A k \in DOMAIN toks : toks'[k] = toks[k]
    <3>1. Push("word", p, e) /\ p \in Places /\ e \in Places /\ "word" \in TokenTypes
      BY <2>1
    <3> QED BY ONLY LexerInv, <3>1, Pushed
  <2>3. Runs' = Runs
    BY <2>2, SameLine
  <2>4. (\A k \in DOMAIN toks' : k = n \/ k \in DOMAIN toks) /\ n \in DOMAIN toks'
    BY <1>2, <2>2
  <2>5. DOMAIN toks \subseteq DOMAIN toks'
    BY <1>2, <2>2
  <2>6. p \in Nat /\ e \in Nat /\ p < e
    BY <1>2, <2>1
  <2>7. <<p, e>> \in Runs
    <3> DEFINE w == <<p, e>>
    <3>1. w \in Places \X Places /\ w[1] = p /\ w[2] = e
      BY <2>1
    <3> HIDE DEF w
    <3>2. w[1]..(w[2] - 1) \subseteq InWord
      BY <2>1, <3>1
    <3>3. w \in Runs
      BY <2>1, <2>6, <3>1, <3>2 DEF Runs
    <3> QED BY <3>3 DEF w
  <2>8. \A w \in Runs : w[1] < e => w[1] < i \/ w = <<p, e>>
    <3> SUFFICES ASSUME NEW w \in Runs, w[1] < e, ~(w[1] < i) PROVE w = <<p, e>>
      OBVIOUS
    <3> DEFINE a == w[1]
               b == w[2]
    <3>1. /\ a \in Nat /\ b \in Nat /\ a \in InWord /\ w = <<a, b>> /\ a < b
          /\ a..(b - 1) \subseteq InWord /\ a - 1 \notin InWord /\ b \notin InWord
      BY <1>2, RunFacts
    <3>2. a < e /\ ~(a < i)
      OBVIOUS
    <3> HIDE DEF a, b
    <3>3. a = p
      <4>1. a \notin i..(p - 1)
        BY <2>1, <3>1
      <4>2. a - 1 \notin p..(e - 1)
        BY <2>1, <3>1
      <4> QED BY <1>2, <2>1, <2>6, <3>1, <3>2, <4>1, <4>2
    <3>4. b = e
      <4>1. b \notin p..(e - 1)
        BY <2>1, <3>1
      <4>2. e \notin a..(b - 1)
        BY <2>1, <3>1
      <4> QED BY <2>6, <3>1, <3>3, <4>1, <4>2
    <3> QED BY <3>1, <3>3, <3>4
  <2>9. \A k \in DOMAIN toks' : toks'[k].type = "word" => <<toks'[k].from, toks'[k].to>> \in Runs
    BY <1>1, <2>2, <2>4, <2>7
  <2>10. \A w \in Runs : w[1] < e =>
            \E k \in DOMAIN toks' : toks'[k].type = "word" /\ w = <<toks'[k].from, toks'[k].to>>
    BY <1>1, <2>2, <2>4, <2>5, <2>8
  <2> QED BY <2>2, <2>3, <2>9, <2>10 DEF WordsInv
<1>d. CASE LexNothing
  <2>1. /\ line' = line /\ toks' = toks /\ i' \in i..(Len(line) + 1)
        /\ \A b \in i..(i' - 1) : b \notin InWord
    BY <1>d, EmptyRound
  <2>2. Runs' = Runs
    BY <2>1, SameLine
  <2>3. \A w \in Runs : w[1] < i' => w[1] < i
    <3> SUFFICES ASSUME NEW w \in Runs, w[1] < i', ~(w[1] < i) PROVE FALSE
      OBVIOUS
    <3>1. w[1] \in Nat /\ w[1] \in InWord
      BY <1>2, RunFacts
    <3>2. w[1] \in i..(i' - 1)
      BY <1>2, <2>1, <3>1
    <3> QED BY <2>1, <3>1, <3>2
  <2> QED BY <1>1, <2>1, <2>2, <2>3 DEF WordsInv
<1>e. CASE LexUnclosed
  BY <1>3, <1>e DEF LexUnclosed
<1>f. CASE UNCHANGED vars
  BY <1>3, <1>f DEF vars
<1> QED BY <1>a, <1>b, <1>c, <1>d, <1>e, <1>f DEF Next, Lex

LEMMA OrderKept ==
    ASSUME LexerInv, [Next]_vars
    PROVE  OrderInv'
<1>1. /\ \A k \in DOMAIN toks : toks[k].from < toks[k].to /\ toks[k].to <= i
      /\ \A k, n \in DOMAIN toks : k < n => toks[k].to <= toks[n].from
  BY DEF LexerInv, OrderInv
<1>2. /\ Len(line) \in Nat /\ i \in 1..(Len(line) + 1)
      /\ DOMAIN toks = 1..Len(toks) /\ Len(toks) \in Nat
      /\ \A k \in DOMAIN toks : toks[k].from \in Nat /\ toks[k].to \in Nat
  BY InvFacts DEF Places
<1>3. ASSUME NEW e \in Nat, i <= e, i' = e, toks' = toks PROVE OrderInv'
  <2>1. \A k \in DOMAIN toks : toks[k].to <= e
    BY <1>1, <1>2, <1>3
  <2> QED BY <1>1, <1>3, <2>1 DEF OrderInv
<1>4. ASSUME NEW type \in TokenTypes, NEW p \in Places, NEW e \in Places,
             Push(type, p, e), i <= p, p < e
      PROVE  OrderInv'
  <2> DEFINE n == Len(toks) + 1
  <2>1. /\ i' = e /\ DOMAIN toks' = 1..n
        /\ toks'[n].from = p /\ toks'[n].to = e
        /\ \A k \in DOMAIN toks : toks'[k] = toks[k]
    BY <1>4, Pushed
  <2>2. p \in Nat /\ e \in Nat
    BY <1>2 DEF Places
  <2>3. \A k \in DOMAIN toks' : k = n \/ k \in DOMAIN toks
    BY <1>2, <2>1
  <2>4. ASSUME NEW k \in DOMAIN toks'
        PROVE  toks'[k].from < toks'[k].to /\ toks'[k].to <= e
    <3>1. CASE k = n
      BY <1>4, <2>1, <2>2, <3>1
    <3>2. CASE k \in DOMAIN toks
      BY <1>1, <1>2, <1>4, <2>1, <2>2, <3>2
    <3> QED BY <2>3, <3>1, <3>2
  <2>5. ASSUME NEW k \in DOMAIN toks', NEW m \in DOMAIN toks', k < m
        PROVE  toks'[k].to <= toks'[m].from
    <3>1. k \in DOMAIN toks
      BY <1>2, <2>1, <2>5
    <3>2. CASE m = n
      BY <1>1, <1>2, <1>4, <2>1, <2>2, <3>1, <3>2
    <3>3. CASE m \in DOMAIN toks
      BY <1>1, <2>1, <2>5, <3>1, <3>3
    <3> QED BY <2>3, <3>2, <3>3
  <2> QED BY <2>1, <2>4, <2>5 DEF OrderInv
<1>5. ASSUME i' = i, toks' = toks PROVE OrderInv'
  BY <1>1, <1>5 DEF OrderInv
<1>a. CASE LexEnd
  BY <1>5, <1>a DEF LexEnd
<1>b. CASE LexOp
  <2> DEFINE p == SkipBlanks(i)
             e == OpEnd(p)
             t == OpType(p)
  <2>1. /\ status = "lexing" /\ Push(t, p, e) /\ p \in Places /\ e \in Places
        /\ t \in TokenTypes /\ e \in p + 1..Len(line) + 1
    BY <1>b, OperatorRound
  <2>2. p \in i..(Len(line) + 1)
    BY <2>1, NextToken
  <2> HIDE DEF p, e, t
  <2>3. i <= p /\ p < e
    BY <1>2, <2>1, <2>2
  <2> QED BY <1>4, <2>1, <2>3
<1>c. CASE LexWord
  <2> DEFINE p == SkipBlanks(i)
             e == WordEnd(p).at
  <2>1. /\ Push("word", p, e) /\ p \in Places /\ e \in Places /\ "word" \in TokenTypes
        /\ p \in i..Len(line) /\ e \in p + 1..Len(line) + 1
    BY <1>c, WordRound DEF TokenTypes
  <2> HIDE DEF p, e
  <2>2. i <= p /\ p < e
    BY <1>2, <2>1
  <2> QED BY <1>4, <2>1, <2>2
<1>d. CASE LexNothing
  <2>1. i' \in i..(Len(line) + 1) /\ toks' = toks
    BY <1>d, EmptyRound
  <2> QED BY <1>2, <1>3, <2>1
<1>e. CASE LexUnclosed
  BY <1>5, <1>e DEF LexUnclosed
<1>f. CASE UNCHANGED vars
  BY <1>5, <1>f DEF vars
<1> QED BY <1>a, <1>b, <1>c, <1>d, <1>e, <1>f DEF Next, Lex

LEMMA OperatorsKept ==
    ASSUME LexerInv, [Next]_vars
    PROVE  OperatorsInv'
<1>1. /\ \A p \in Bare(Operator) : p < i =>
             \E k \in DOMAIN toks : toks[k].from <= p /\ p < toks[k].to
      /\ \A k \in DOMAIN toks : SaysItsType(toks[k])
  BY DEF LexerInv, OperatorsInv
<1>2. /\ line \in Seq(Chars) /\ Len(line) \in Nat /\ DOMAIN line = 1..Len(line)
      /\ i \in 1..(Len(line) + 1) /\ DOMAIN toks = 1..Len(toks) /\ Len(toks) \in Nat
  BY InvFacts
<1>3. \A b \in Bare(Operator) : b \in 1..Len(line) /\ b \notin InWord /\ line[b] # "blank"
  <2> SUFFICES ASSUME NEW b \in Bare(Operator)
               PROVE  b \in 1..Len(line) /\ b \notin InWord /\ line[b] # "blank"
    OBVIOUS
  <2>1. b \in DOMAIN line /\ OpenQuote[b] = "none" /\ line[b] \in Operator
    BY BareIs
  <2>2. line[b] \in Separator /\ line[b] # "blank"
    BY <2>1 DEF Operator, Separator
  <2> QED BY <1>2, <2>1, <2>2, InWordIs
<1>4. ASSUME line' = line, toks' = toks, NEW e \in 1..(Len(line) + 1), i' = e,
             \A b \in i..(e - 1) : line[b] = "blank"
      PROVE  OperatorsInv'
  <2>1. Bare(Operator)' = Bare(Operator)
    BY <1>4, SameLine
  <2>2. \A b \in Bare(Operator) : b < e => b < i
    BY <1>2, <1>3, <1>4
  <2>3. (\A k \in DOMAIN toks : SaysItsType(toks[k]))'
    BY <1>1, <1>4 DEF SaysItsType
  <2> QED BY <1>1, <1>4, <2>1, <2>2, <2>3 DEF OperatorsInv
<1>5. ASSUME NEW type \in TokenTypes, NEW p \in Places, NEW e \in Places,
             Push(type, p, e), p \in i..Len(line), e \in p + 1..Len(line) + 1,
             \A b \in i..(p - 1) : line[b] = "blank",
             SaysItsType([type |-> type, from |-> p, to |-> e])
      PROVE  OperatorsInv'
  <2> DEFINE n == Len(toks) + 1
             t == [type |-> type, from |-> p, to |-> e]
  <2>1. /\ i' = e /\ line' = line /\ DOMAIN toks' = 1..n
        /\ toks'[n] = t /\ toks'[n].from = p /\ toks'[n].to = e
        /\ \A k \in DOMAIN toks : toks'[k] = toks[k]
    BY <1>5, Pushed
  <2>2. Bare(Operator)' = Bare(Operator)
    BY <2>1, SameLine
  <2> HIDE DEF t
  <2>3. /\ \A k \in DOMAIN toks' : k = n \/ k \in DOMAIN toks
        /\ n \in DOMAIN toks' /\ DOMAIN toks \subseteq DOMAIN toks'
    BY <1>2, <2>1
  <2>4. ASSUME NEW b \in Bare(Operator), b < e
        PROVE  \E k \in DOMAIN toks' : toks'[k].from <= b /\ b < toks'[k].to
    <3>1. b < i \/ (p <= b /\ b < e)
      BY <1>2, <1>3, <1>5, <2>4
    <3>2. CASE b < i
      BY <1>1, <2>1, <2>3, <3>2
    <3>3. CASE p <= b /\ b < e
      BY <2>1, <2>3, <3>3
    <3> QED BY <3>1, <3>2, <3>3
  <2>5. \A k \in DOMAIN toks' : SaysItsType(toks'[k])
    <3>1. SaysItsType(t)
      BY <1>5 DEF t
    <3> QED BY <1>1, <2>1, <2>3, <3>1
  <2>6. (\A k \in DOMAIN toks : SaysItsType(toks[k]))'
    <3>1. Len(line') = Len(line) /\ line' = line
      BY <2>1
    <3> QED BY <2>5, <3>1 DEF SaysItsType
  <2> QED BY <2>1, <2>2, <2>4, <2>6 DEF OperatorsInv
<1>6. ASSUME line' = line, i' = i, toks' = toks PROVE OperatorsInv'
  <2>1. \A b \in i..(i - 1) : line[b] = "blank"
    BY <1>2
  <2> QED BY <1>2, <1>4, <1>6, <2>1
<1>a. CASE LexEnd
  BY <1>6, <1>a DEF LexEnd
<1>b. CASE LexOp
  <2> DEFINE p == SkipBlanks(i)
             e == OpEnd(p)
             t == OpType(p)
  <2>1. /\ status = "lexing" /\ Push(t, p, e) /\ p \in Places /\ e \in Places
        /\ t \in TokenTypes /\ e \in p + 1..Len(line) + 1 /\ p \in DOMAIN line
        /\ line[p] \in Operator
    BY <1>b, OperatorRound
  <2>2. p \in i..(Len(line) + 1) /\ \A b \in i..(p - 1) : line[b] = "blank"
    BY <2>1, NextToken
  <2>3. SaysItsType([type |-> t, from |-> p, to |-> e])
    BY <1>2, <2>1, OperatorType
  <2> HIDE DEF p, e, t
  <2>4. p \in i..Len(line)
    BY <1>2, <2>1, <2>2
  <2> QED BY <1>5, <2>1, <2>2, <2>3, <2>4
<1>c. CASE LexWord
  <2> DEFINE p == SkipBlanks(i)
             e == WordEnd(p).at
  <2>1. /\ status = "lexing" /\ Push("word", p, e) /\ p \in Places /\ e \in Places
        /\ "word" \in TokenTypes /\ p \in i..Len(line) /\ e \in p + 1..Len(line) + 1
    BY <1>c, WordRound DEF TokenTypes
  <2>2. \A b \in i..(p - 1) : line[b] = "blank"
    BY <2>1, NextToken
  <2> HIDE DEF p, e
  <2>3. SaysItsType([type |-> "word", from |-> p, to |-> e])
    BY DEF SaysItsType
  <2> QED BY <1>5, <2>1, <2>2, <2>3
<1>d. CASE LexNothing
  <2>1. /\ line' = line /\ toks' = toks /\ i' \in i..(Len(line) + 1)
        /\ \A b \in i..(i' - 1) : line[b] = "blank"
    BY <1>d, EmptyRound
  <2>2. i' \in 1..(Len(line) + 1)
    BY <1>2, <2>1
  <2> QED BY <1>4, <2>1, <2>2
<1>e. CASE LexUnclosed
  BY <1>6, <1>e DEF LexUnclosed
<1>f. CASE UNCHANGED vars
  BY <1>6, <1>f DEF vars
<1> QED BY <1>a, <1>b, <1>c, <1>d, <1>e, <1>f DEF Next, Lex

---------------------------------------------------------------------------
(* At the end of the line                                                  *)

LEMMA WordsAtEnd ==
    ASSUME LexerInv
    PROVE  WordsAgree
<1> SUFFICES ASSUME status = "ok" PROVE WordsAgree
  BY DEF WordsAgree
<1> DEFINE words == {k \in DOMAIN toks : toks[k].type = "word"}
           spans == {<<toks[k].from, toks[k].to>> : k \in words}
<1>1. Len(line) \in Nat /\ i \in 1..(Len(line) + 1) /\ DOMAIN line = 1..Len(line)
  BY InvFacts
<1>2. \A p \in i..Len(line) : p \notin InWord
  BY DEF LexerInv, QuoteInv
<1>3. \A w \in Runs : w[1] < i
  <2> SUFFICES ASSUME NEW w \in Runs, ~(w[1] < i) PROVE FALSE
    OBVIOUS
  <2>1. w[1] \in Nat /\ w[1] \in InWord
    BY <1>1, RunFacts
  <2>2. w[1] \in DOMAIN line
    BY <2>1 DEF InWord
  <2> QED BY <1>1, <1>2, <2>1, <2>2
<1>4. spans = Runs
  BY <1>3 DEF LexerInv, WordsInv
<1>5. InWord = DOMAIN line \ Bare({"blank", "white", "|", "<", ">"})
  BY DEF InWord, Separator
<1> QED BY <1>4, <1>5 DEF WordsAgree, Runs

LEMMA OperatorsAtEnd ==
    ASSUME LexerInv
    PROVE  OperatorsAgree
<1> SUFFICES ASSUME status = "ok" PROVE OperatorsAgree
  BY DEF OperatorsAgree
<1>1. /\ Len(line) \in Nat /\ i \in 1..(Len(line) + 1) /\ DOMAIN line = 1..Len(line)
      /\ DOMAIN toks = 1..Len(toks) /\ Len(toks) \in Nat
      /\ \A k \in DOMAIN toks : toks[k].from \in Nat /\ toks[k].to \in Nat
  BY InvFacts DEF Places
<1>2. \A p \in i..Len(line) : line[p] = "blank"
  BY DEF LexerInv, QuoteInv
<1>3. ASSUME NEW p \in Bare({"|", "<", ">"})
      PROVE  \E k \in DOMAIN toks : /\ toks[k].from <= p /\ p < toks[k].to
                                    /\ \A n \in DOMAIN toks \ {k} :
                                          ~(toks[n].from <= p /\ p < toks[n].to)
  <2>1. p \in Bare(Operator) /\ p \in 1..Len(line) /\ line[p] # "blank"
    BY <1>1, <1>3, BareIs DEF Operator
  <2>2. p < i
    BY <1>1, <1>2, <2>1
  <2>3. PICK k \in DOMAIN toks : toks[k].from <= p /\ p < toks[k].to
    BY <2>1, <2>2 DEF LexerInv, OperatorsInv
  <2>4. ASSUME NEW n \in DOMAIN toks \ {k}
        PROVE  ~(toks[n].from <= p /\ p < toks[n].to)
    <3>1. k < n \/ n < k
      BY <1>1
    <3>2. toks[k].to <= toks[n].from \/ toks[n].to <= toks[k].from
      BY <3>1 DEF LexerInv, OrderInv
    <3> QED BY <1>1, <2>1, <2>3, <3>2
  <2> QED BY <2>3, <2>4
<1>4. \A k \in DOMAIN toks : SaysItsType(toks[k])
  BY DEF LexerInv, OperatorsInv
<1> QED BY <1>3, <1>4, Zenon DEF OperatorsAgree, SaysItsType

---------------------------------------------------------------------------
(* Theorems                                                                *)

LEMMA LexerInvariant == Spec => []LexerInv
<1>1. Init => LexerInv
  <2> SUFFICES ASSUME Init PROVE LexerInv
    OBVIOUS
  <2>1. /\ line \in InputLines /\ i = 1 /\ toks = <<>> /\ empties = 0 /\ status = "lexing"
        /\ DOMAIN toks = {} /\ line \in Seq(Chars)
    BY LexerAssumption DEF Init
  <2>2. Len(line) \in Nat /\ DOMAIN line = 1..Len(line) /\ 1 \in Places
    BY <2>1 DEF Places
  <2>3. TypeOK
    <3>1. toks \in Seq([type : {"word", "pipe", "in", "out", "append", "heredoc", "rw"},
                        from : Places, to : Places])
      BY <2>1
    <3> QED BY <2>1, <2>2, <3>1 DEF TypeOK
  <2>4. QuoteInv
    <3>1. OpenQuote[1] = "none"
      BY <2>1, OpenQuoteStep
    <3>2. 1 - 1 \notin InWord
      BY <2>2 DEF InWord
    <3> QED BY <2>1, <3>1, <3>2 DEF QuoteInv
  <2>5. WordsInv
    <3>1. \A w \in Runs : ~(w[1] < 1)
      BY <2>2, RunFacts
    <3> QED BY <2>1, <3>1 DEF WordsInv
  <2>6. OperatorsInv
    <3>1. \A p \in Bare(Operator) : ~(p < 1)
      BY <2>2, BareIs
    <3> QED BY <2>1, <3>1 DEF OperatorsInv
  <2>7. OrderInv
    BY <2>1 DEF OrderInv
  <2> QED BY <2>3, <2>4, <2>5, <2>6, <2>7 DEF LexerInv
<1>2. LexerInv /\ [Next]_vars => LexerInv'
  BY TypesKept, QuotesKept, WordsKept, OrderKept, OperatorsKept DEF LexerInv
<1> QED BY <1>1, <1>2, PTL DEF Spec

\* Every variable of lex_line has its type, for every set of lines: the cursor
\* never passes the end of the line, also after an operator of two characters.
THEOREM LexerTyped == Spec => []TypeOK
<1>1. LexerInv => TypeOK
  BY DEF LexerInv
<1> QED BY <1>1, LexerInvariant, PTL

\* The words of any line are its longest runs of quoted or ordinary characters,
\* though lex_word_end follows the quotes of one word at a time.
THEOREM WordsAlwaysAgree == Spec => []WordsAgree
<1>1. LexerInv => WordsAgree
  BY WordsAtEnd
<1> QED BY <1>1, LexerInvariant, PTL

\* Every operator character outside quotes, of any line, is in just one operator
\* of lex_op, the longest one, of the type its characters say.
THEOREM OperatorsAlwaysAgree == Spec => []OperatorsAgree
<1>1. LexerInv => OperatorsAgree
  BY OperatorsAtEnd
<1> QED BY <1>1, LexerInvariant, PTL

\* Any line is refused exactly when a quote is open at its end.
THEOREM RefusedWhenUnclosed == Spec => []RefusedIffUnclosed
<1>1. LexerInv => RefusedIffUnclosed
  BY DEF LexerInv, TypeOK, QuoteInv, RefusedIffUnclosed
<1> QED BY <1>1, LexerInvariant, PTL
=============================================================================
