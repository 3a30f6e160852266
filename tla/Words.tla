------------------------------- MODULE Words -------------------------------
(***************************************************************************)
(* What the builtins make of a word: valid_ident (builtin/builtin.c), the  *)
(* split of export_one (builtin/export.c) and ft_atol (utils/ft_atol.c),   *)
(* with longs of LongBits bits and characters of CharBits bits.            *)
(***************************************************************************)
EXTENDS Integers, Sequences

CONSTANTS LongBits, CharBits    \* 64 and 8 in the build

\* One digit never overflows: LONG_MAX >= 9.  A character holds the status 2.
ASSUME WordsAssumption ==
    /\ LongBits \in Nat /\ LongBits >= 5
    /\ CharBits \in 2..LongBits

\* A letter may stand for a whole name: "PWD" is the word of one letter PWD.
Letters == {"A", "B", "HOME", "OLDPWD", "PWD", "d", "e", "x", "y"}
Digits  == {"0", "1", "2", "3", "4", "5", "6", "7", "8", "9"}
Chars   == Letters \cup Digits \cup {"=", "+", "-", " ", "/", "."}

Texts == Seq(Chars)

Digit(c) == CHOOSE d \in 0..9 : c = <<"0", "1", "2", "3", "4", "5", "6",
                                      "7", "8", "9">>[d + 1]

\* The first place from p on with this property, or the one after the end.
FirstFrom(p, s, P(_)) ==
    CHOOSE e \in p..(Len(s) + 1) : /\ \A b \in p..(e - 1) : ~P(b)
                                   /\ e <= Len(s) => P(e)

AppendsAt(s, p) == s[p] = "+" /\ p < Len(s) /\ s[p + 1] = "="

\* Mutant: only "=" ends the name.
ValidIdent_NoAppend(s) ==
    /\ s # <<>> /\ s[1] \in Letters
    /\ LET end == FirstFrom(2, s, LAMBDA p : s[p] = "=")
       IN \A p \in 2..(end - 1) : s[p] \in Letters \cup Digits

\* valid_ident looks at a word up to its "=" or "+=".
ValidIdent(s) ==
    /\ s # <<>> /\ s[1] \in Letters
    /\ LET end == FirstFrom(2, s, LAMBDA p : s[p] = "=" \/ AppendsAt(s, p))
       IN \A p \in 2..(end - 1) : s[p] \in Letters \cup Digits

\* export_one splits it at its first "=", and looks back for the "+".
Equals(s)   == FirstFrom(1, s, LAMBDA p : s[p] = "=")
HasValue(s) == Equals(s) <= Len(s)
Appends(s)  == HasValue(s) /\ Equals(s) > 1 /\ s[Equals(s) - 1] = "+"
ValueOf(s)  == SubSeq(s, Equals(s) + 1, Len(s))

KeyOf(s) == SubSeq(s, 1, Equals(s) - (IF Appends(s) THEN 2 ELSE 1))

---------------------------------------------------------------------------
(* ft_atol                                                                 *)

LongMax == 2^(LongBits - 1) - 1

\* An unsigned long read as a long.
Signed(n) == IF n > LongMax THEN n - 2^LongBits ELSE n

\* Mutant: the sign is cut off with the higher bits.
UnsignedChar_Remainder(n) == IF n < 0 THEN n ELSE n % 2^CharBits

UnsignedChar(n) == n % 2^CharBits

\* Mutant: the digit to come is not counted in.
TooLarge_NoDigit(n, d, limit) == n > limit \div 10

TooLarge(n, d, limit) == n > (limit - d) \div 10

\* One turn of the loop of parse_digits, with the number read so far.
ReadDigit(s, x, limit) ==
    IF ~x.ok \/ x.at > Len(s) \/ s[x.at] \notin Digits THEN x
    ELSE IF TooLarge(x.n, Digit(s[x.at]), limit) THEN [n |-> x.n, at |-> x.at, ok |-> FALSE]
    ELSE [n |-> (x.n * 10 + Digit(s[x.at])) % 2^LongBits, at |-> x.at + 1, ok |-> TRUE]

\* parse_digits from place p: the long, where it stops, and *ok.
ParseDigits(s, p, sign) ==
    LET limit == IF sign = 1 THEN LongMax ELSE LongMax + 1
        read[q \in p..(Len(s) + 1)] ==
            IF q = p THEN [n |-> 0, at |-> p, ok |-> TRUE]
            ELSE ReadDigit(s, read[q - 1], limit)
        end  == read[Len(s) + 1]
        long == IF end.ok
                THEN Signed(IF sign = -1 THEN (2^LongBits - end.n) % 2^LongBits ELSE end.n)
                ELSE IF sign = 1 THEN LongMax ELSE -LongMax - 1
    IN [n |-> long, at |-> end.at, ok |-> end.ok]

PastSpaces(s, p) == FirstFrom(p, s, LAMBDA q : s[q] # " ")

\* ft_atol: [n, ok]
Atol(s) ==
    LET first  == PastSpaces(s, 1)
        signed == first <= Len(s) /\ s[first] \in {"-", "+"}
        sign   == IF signed /\ s[first] = "-" THEN -1 ELSE 1
        start  == IF signed THEN first + 1 ELSE first
        number == ParseDigits(s, start, sign)
    IN IF start > Len(s) \/ s[start] \notin Digits
       THEN [n |-> 0, ok |-> FALSE]
       ELSE [n |-> number.n,
             ok |-> number.ok /\ PastSpaces(s, number.at) > Len(s)]

---------------------------------------------------------------------------
(* What the words mean, stated independently                               *)

Identifier(s) == /\ s # <<>> /\ s[1] \in Letters
                 /\ \A p \in DOMAIN s : s[p] \in Letters \cup Digits

\* What stands between the name and the value.
Separator == [none |-> <<>>, set |-> <<"=">>, append |-> <<"+", "=">>]

Prefixes(s) == {SubSeq(s, 1, p) : p \in 0..Len(s)}
Suffixes(s) == {SubSeq(s, q, Len(s)) : q \in 1..(Len(s) + 1)}

\* The assignments word s can be read as: at most one.  A value of <<>> after
\* "none" means nothing.
Readings(s) ==
    {r \in [name : Prefixes(s), op : DOMAIN Separator, val : Suffixes(s)] :
        /\ Identifier(r.name)
        /\ s = r.name \o Separator[r.op] \o r.val
        /\ r.op = "none" => r.val = <<>>}

\* The integers word s can be read as: spaces, a sign, digits, spaces.
IntegerReadings(s) ==
    LET value(a, b) == LET v[q \in (a - 1)..b] ==
                               IF q < a THEN 0 ELSE v[q - 1] * 10 + Digit(s[q])
                       IN v[b]
        sign(a)     == a > 1 /\ s[a - 1] \in {"+", "-"}
        blank(a, b) == \A q \in a..b : s[q] = " "
    IN {IF sign(x[1]) /\ s[x[1] - 1] = "-" THEN -value(x[1], x[2]) ELSE value(x[1], x[2]) :
           x \in {y \in (DOMAIN s) \X (DOMAIN s) :
                     /\ y[1] <= y[2] /\ \A q \in y[1]..y[2] : s[q] \in Digits
                     /\ blank(1, IF sign(y[1]) THEN y[1] - 2 ELSE y[1] - 1)
                     /\ blank(y[2] + 1, Len(s))}}
=============================================================================
