--------------------------- MODULE EnvTableProofs ---------------------------
(* What the builtins make of a word, for every word and any width of a long: *)
(* ft_atol reads the number the word spells.  Then what the operations of    *)
(* EnvTable keep, for any words and any size of a new table.                 *)
EXTENDS EnvTable, WellFoundedInduction, FiniteSetTheorems, FunctionTheorems, TLAPS

---------------------------------------------------------------------------
(* Natural numbers                                                         *)

LEMMA LeastNatural ==
    ASSUME NEW T \in SUBSET Nat, T # {}
    PROVE  \E x \in T : \A y \in T : x <= y
<1>1. PICK x \in T : \A y \in T : ~ (<<y, x>> \in OpToRel(<, Nat))
  BY NatLessThanWellFounded, WFMin, Zenon
<1>2. \A y \in T : y \in Nat /\ ~(y < x)
  BY <1>1 DEF OpToRel
<1>3. QED
  BY <1>2

\* Induction, over the set of the numbers that have the property.
LEMMA AllNaturals ==
    ASSUME NEW T, 0 \in T, \A n \in Nat : n \in T => n + 1 \in T
    PROVE  Nat \subseteq T
<1>1. SUFFICES ASSUME Nat \ T # {} PROVE FALSE
  BY Zenon
<1>2. PICK x \in Nat \ T : \A y \in Nat \ T : x <= y
  BY <1>1, LeastNatural
<1>3. x # 0 /\ x - 1 \in Nat /\ x - 1 \in T
  BY <1>2
<1>4. QED
  BY <1>2, <1>3

\* The same from a number up to another.
LEMMA UpTo ==
    ASSUME NEW N \in Nat, NEW a \in 0..N, NEW T, a \in T,
           \A n \in a..(N - 1) : n \in T => n + 1 \in T
    PROVE  \A n \in a..N : n \in T
<1> DEFINE S == {n \in Nat : n \in a..N => n \in T}
<1>1. 0 \in S
  OBVIOUS
<1>2. ASSUME NEW n \in Nat, n \in S PROVE n + 1 \in S
  <2>1. CASE n + 1 \in a..N /\ n + 1 # a
    <3>1. n \in a..(N - 1) /\ n \in a..N
      BY <2>1
    <3>2. QED
      BY <1>2, <3>1
  <2>2. CASE n + 1 = a \/ n + 1 \notin a..N
    BY <2>2
  <2>3. QED
    BY <2>1, <2>2
<1> HIDE DEF S
<1>3. Nat \subseteq S
  BY <1>1, <1>2, AllNaturals
<1>4. QED
  BY <1>3 DEF S

---------------------------------------------------------------------------
(* Powers of two                                                           *)

\* A power of two is the number of sets of so many bits.
LEMMA PowerNat ==
    ASSUME NEW n \in Nat
    PROVE  2^n \in Nat /\ 2^n >= 1 /\ IsFiniteSet(SUBSET (1..n))
           /\ Cardinality(SUBSET (1..n)) = 2^n
<1>1. IsFiniteSet(1..n) /\ Cardinality(1..n) = n
  <2>1. 1 \in Int /\ n \in Int /\ (1 > n => n = 0) /\ (n - 1) + 1 = n
    OBVIOUS
  <2>2. IsFiniteSet(1..n) /\ Cardinality(1..n) = IF 1 > n THEN 0 ELSE (n - 1) + 1
    BY <2>1, FS_Interval, SMT
  <2>3. QED
    BY <2>1, <2>2
<1>2. IsFiniteSet(SUBSET (1..n)) /\ Cardinality(SUBSET (1..n)) = 2^n
  BY <1>1, FS_SUBSET, Zenon
<1>3. Cardinality(SUBSET (1..n)) \in Nat
  BY <1>2, FS_CardinalityType, Zenon
<1>4. SUBSET (1..n) # {}
  OBVIOUS
<1>5. Cardinality(SUBSET (1..n)) # 0
  BY <1>2, <1>4, FS_EmptySet, Zenon
<1>6. QED
  BY <1>2, <1>3, <1>5

\* Sets of one more bit: those without it, and those with it.
LEMMA PowerNext ==
    ASSUME NEW n \in Nat
    PROVE  2^(n + 1) = 2 * 2^n
<1> DEFINE A == SUBSET (1..n)
           U == SUBSET (1..(n + 1))
           B == U \ A
           f == [s \in A |-> s \cup {n + 1}]
<1>1. /\ IsFiniteSet(A) /\ Cardinality(A) = 2^n /\ 2^n \in Nat
      /\ IsFiniteSet(U) /\ Cardinality(U) = 2^(n + 1) /\ 2^(n + 1) \in Nat
  <2>1. n + 1 \in Nat
    OBVIOUS
  <2>2. QED
    BY <2>1, PowerNat, Zenon
<1>2. A \subseteq U
  OBVIOUS
<1>3. f \in Bijection(A, B)
  <2>1. \A s \in A : s \cup {n + 1} \in B
    OBVIOUS
  <2>2. \A s, t \in A : s \cup {n + 1} = t \cup {n + 1} => s = t
    <3>1. \A s \in A : n + 1 \notin s
      OBVIOUS
    <3>2. QED
      BY <3>1
  <2>3. \A t \in B : \E s \in A : t = s \cup {n + 1}
    <3>1. ASSUME NEW t \in B PROVE t \ {n + 1} \in A /\ t = (t \ {n + 1}) \cup {n + 1}
      <4>1. \A x \in 1..(n + 1) : x \in 1..n \/ x = n + 1
        OBVIOUS
      <4>2. QED
        BY <4>1
    <3>2. QED
      BY <3>1
  <2>4. f \in [A -> B]
    BY <2>1
  <2> HIDE DEF A, B
  <2>5. f \in Surjection(A, B)
    BY <2>3, <2>4, Fun_IsSurj
  <2>6. f \in Injection(A, B)
    BY <2>2, <2>4, Fun_IsInj
  <2>7. QED
    BY <2>5, <2>6 DEF Bijection
<1>4. IsFiniteSet(B) /\ Cardinality(B) = Cardinality(A)
  BY <1>1, <1>3, FS_Bijection, Zenon DEF ExistsBijection
<1>5. Cardinality(B) = Cardinality(U) - Cardinality(U \cap A)
  BY <1>1, FS_Difference, Zenon
<1>6. U \cap A = A
  BY <1>2
<1>7. Cardinality(B) = 2^n /\ Cardinality(B) = 2^(n + 1) - 2^n
  BY <1>1, <1>4, <1>5, <1>6, Zenon
<1> DEFINE p == 2^n
           q == 2^(n + 1)
<1>8. p \in Nat /\ q \in Nat /\ p = q - p
  BY <1>1, <1>7, Zenon
<1> HIDE DEF p, q
<1>9. q = 2 * p
  BY <1>8
<1>10. QED
  BY <1>9, Zenon DEF p, q

---------------------------------------------------------------------------
(* Places in a word                                                        *)

\* The first place from p on that is in T, or the one after the end.
LEMMA FirstPlace ==
    ASSUME NEW L \in Nat, NEW p \in 1..(L + 1), NEW T
    PROVE  \E e \in p..(L + 1) : /\ \A b \in p..(e - 1) : b \notin T
                                 /\ e <= L => e \in T
<1> DEFINE C == {q \in p..L : q \in T} \cup {L + 1}
<1>1. C \in SUBSET Nat /\ C # {}
  OBVIOUS
<1>2. PICK e \in C : \A q \in C : e <= q
  BY <1>1, LeastNatural
<1>3. e \in p..(L + 1) /\ (e <= L => e \in T)
  OBVIOUS
<1>4. \A b \in p..(e - 1) : b \notin T
  <2>1. SUFFICES ASSUME NEW b \in p..(e - 1), b \in T PROVE FALSE
    OBVIOUS
  <2>2. b \in p..L
    BY <1>3
  <2>3. QED
    BY <1>2, <2>1, <2>2
<1>5. QED
  BY <1>3, <1>4

LEMMA PastSpacesIs ==
    ASSUME NEW S, NEW s \in Seq(S), NEW p \in 1..(Len(s) + 1)
    PROVE  /\ PastSpaces(s, p) \in p..(Len(s) + 1)
           /\ \A b \in p..(PastSpaces(s, p) - 1) : s[b] = " "
           /\ PastSpaces(s, p) <= Len(s) => s[PastSpaces(s, p)] # " "
<1>1. \E e \in p..(Len(s) + 1) : /\ \A b \in p..(e - 1) : ~(s[b] # " ")
                                 /\ e <= Len(s) => s[e] # " "
  <2>1. Len(s) \in Nat
    OBVIOUS
  <2> DEFINE T == {q \in 1..Len(s) : s[q] # " "}
  <2>2. \E e \in p..(Len(s) + 1) : /\ \A b \in p..(e - 1) : b \notin T
                                   /\ e <= Len(s) => e \in T
    <3> HIDE DEF T
    <3>1. QED
      BY <2>1, FirstPlace
  <2>3. PICK e \in p..(Len(s) + 1) : /\ \A b \in p..(e - 1) : b \notin T
                                     /\ e <= Len(s) => e \in T
    BY <2>2
  <2>4. \A b \in p..(e - 1) : b \in 1..Len(s)
    BY <2>1
  <2>5. QED
    BY <2>3, <2>4
<1>2. QED
  BY <1>1 DEF PastSpaces, FirstFrom

LEMMA DigitType == \A c \in Digits : Digit(c) \in 0..9
<1>1. ASSUME NEW c \in Digits
      PROVE  \E d \in 0..9 : c = <<"0", "1", "2", "3", "4", "5", "6", "7", "8", "9">>[d + 1]
  <2> DEFINE ds == <<"0", "1", "2", "3", "4", "5", "6", "7", "8", "9">>
  <2>1. /\ ds[0 + 1] = "0" /\ ds[1 + 1] = "1" /\ ds[2 + 1] = "2" /\ ds[3 + 1] = "3"
        /\ ds[4 + 1] = "4" /\ ds[5 + 1] = "5" /\ ds[6 + 1] = "6" /\ ds[7 + 1] = "7"
        /\ ds[8 + 1] = "8" /\ ds[9 + 1] = "9"
    OBVIOUS
  <2> HIDE DEF ds
  <2>2. \E d \in 0..9 : c = ds[d + 1]
    BY <2>1 DEF Digits
  <2>3. QED
    BY <2>2 DEF ds
<1>2. QED
  BY <1>1 DEF Digit

\* The widths of the build's types, without powers.
LEMMA Widths ==
    /\ LongMax \in Nat /\ LongMax >= 15
    /\ 2^LongBits = 2 * (LongMax + 1)
<1>1. LongBits \in Nat /\ LongBits - 1 \in Nat /\ (LongBits - 1) + 1 = LongBits
  BY WordsAssumption
<1> DEFINE h == 2^(LongBits - 1)
<1>2. h \in Nat /\ 2^LongBits = 2 * h
  BY <1>1, PowerNat, PowerNext, Zenon
<1>3. \A n \in Nat : n >= 4 => 2^n >= 16
  <2> DEFINE T == {n \in Nat : 2^(n + 4) >= 16}
  <2>1. 0 \in T
    <3>1. 2^0 = 1
      OBVIOUS
    <3>2. 2^1 = 2 * 2^0 /\ 2^2 = 2 * 2^1 /\ 2^3 = 2 * 2^2 /\ 2^4 = 2 * 2^3
      <4>1. 0 \in Nat /\ 1 \in Nat /\ 2 \in Nat /\ 3 \in Nat
            /\ 0 + 1 = 1 /\ 1 + 1 = 2 /\ 2 + 1 = 3 /\ 3 + 1 = 4
        OBVIOUS
      <4>2. QED
        BY <4>1, PowerNext, Zenon
    <3>3. 2^4 = 16
      BY <3>1, <3>2
    <3>4. QED
      BY <3>3
  <2>2. ASSUME NEW n \in Nat, n \in T PROVE n + 1 \in T
    <3> DEFINE a == n + 4
    <3>1. a \in Nat /\ a + 1 = (n + 1) + 4
      OBVIOUS
    <3> DEFINE x == 2^a
               y == 2^(a + 1)
    <3>2. x \in Nat /\ y = 2 * x
      BY <3>1, PowerNat, PowerNext, Zenon
    <3>3. x >= 16
      BY <2>2
    <3>4. y = 2^((n + 1) + 4)
      BY <3>1, Zenon
    <3> HIDE DEF x, y, a
    <3>5. y >= 16
      BY <3>2, <3>3
    <3>6. QED
      BY <3>4, <3>5
  <2> HIDE DEF T
  <2>3. Nat \subseteq T
    BY <2>1, <2>2, AllNaturals
  <2>4. ASSUME NEW n \in Nat, n >= 4 PROVE 2^n >= 16
    <3>1. n - 4 \in T /\ (n - 4) + 4 = n
      BY <2>3, <2>4
    <3>2. QED
      BY <3>1 DEF T
  <2>5. QED
    BY <2>4
<1>4. h >= 16
  BY <1>1, <1>3, WordsAssumption
<1>5. LongMax = h - 1
  BY Zenon DEF LongMax
<1> HIDE DEF h
<1>6. LongMax \in Nat /\ LongMax >= 15 /\ h = LongMax + 1
  BY <1>2, <1>4, <1>5
<1>7. QED
  BY <1>2, <1>6

---------------------------------------------------------------------------
(* What the digits a..b of s spell                                         *)

IsValue(v, s, a, b) ==
    v = [q \in (a - 1)..b |-> IF q < a THEN 0 ELSE v[q - 1] * 10 + Digit(s[q])]

DigitsAt(s, a, b) == \A q \in a..b : s[q] \in Digits

LEMMA ValueStep ==
    ASSUME NEW v, NEW s, NEW a \in Nat \ {0}, NEW b \in Nat, a <= b, IsValue(v, s, a, b)
    PROVE  /\ v[a - 1] = 0
           /\ \A q \in a..b : v[q] = v[q - 1] * 10 + Digit(s[q])
<1>1. \A q \in (a - 1)..b : v[q] = IF q < a THEN 0 ELSE v[q - 1] * 10 + Digit(s[q])
  BY Zenon DEF IsValue
<1>2. QED
  BY <1>1

LEMMA ValueExists ==
    ASSUME NEW s, NEW a \in Nat \ {0}, NEW b \in Nat, a <= b
    PROVE  \E v : IsValue(v, s, a, b)
<1> DEFINE T == {n \in Nat : \E v : IsValue(v, s, a, (a - 1) + n)}
<1>1. 0 \in T
  <2>1. (a - 1) + 0 = a - 1
    OBVIOUS
  <2> DEFINE v == [q \in (a - 1)..(a - 1) |-> 0]
  <2>2. v = [q \in (a - 1)..(a - 1) |-> IF q < a THEN 0 ELSE v[q - 1] * 10 + Digit(s[q])]
    OBVIOUS
  <2>3. IsValue(v, s, a, (a - 1) + 0)
    BY <2>1, <2>2 DEF IsValue
  <2> HIDE DEF v
  <2>4. QED
    BY <2>3
<1>2. ASSUME NEW n \in Nat, n \in T PROVE n + 1 \in T
  <2> DEFINE e == (a - 1) + n
  <2>1. PICK f : IsValue(f, s, a, e)
    BY <1>2
  <2>2. e \in Nat /\ e >= a - 1 /\ (a - 1) + (n + 1) = e + 1
    OBVIOUS
  <2>3. \A q \in (a - 1)..e : f[q] = IF q < a THEN 0 ELSE f[q - 1] * 10 + Digit(s[q])
    BY <2>1, Zenon DEF IsValue
  <2> HIDE DEF e
  <2> DEFINE g == [q \in (a - 1)..(e + 1) |->
                     IF q = e + 1 THEN f[e] * 10 + Digit(s[e + 1]) ELSE f[q]]
             h == [q \in (a - 1)..(e + 1) |->
                     IF q < a THEN 0 ELSE g[q - 1] * 10 + Digit(s[q])]
  <2>4. \A q \in (a - 1)..(e + 1) : h[q] = g[q]
    <3>1. SUFFICES ASSUME NEW q \in (a - 1)..(e + 1)
                   PROVE  g[q] = IF q < a THEN 0 ELSE g[q - 1] * 10 + Digit(s[q])
      OBVIOUS
    <3>2. CASE q = e + 1
      <4>1. e \in (a - 1)..(e + 1) /\ e # e + 1 /\ q - 1 = e /\ ~(q < a)
        BY <2>2, <3>2
      <4>2. g[e] = f[e]
        BY <4>1
      <4>3. g[q] = f[e] * 10 + Digit(s[q])
        BY <3>2
      <4>4. QED
        BY <4>1, <4>2, <4>3
    <3>3. CASE q # e + 1
      <4>1. q \in (a - 1)..e /\ (~(q < a) => q - 1 \in (a - 1)..(e + 1) /\ q - 1 # e + 1)
        BY <2>2, <3>3
      <4>2. g[q] = f[q] /\ (~(q < a) => g[q - 1] = f[q - 1])
        BY <3>3, <4>1
      <4>3. QED
        BY <2>3, <4>1, <4>2
    <3>4. QED
      BY <3>2, <3>3
  <2>5. g = [q \in (a - 1)..(e + 1) |-> g[q]] /\ h = [q \in (a - 1)..(e + 1) |-> h[q]]
    OBVIOUS
  <2>6. g = h
    <3> HIDE DEF g, h
    <3>1. QED
      BY <2>4, <2>5
  <2>7. IsValue(g, s, a, e + 1)
    <3>1. g = [q \in (a - 1)..(e + 1) |-> IF q < a THEN 0 ELSE g[q - 1] * 10 + Digit(s[q])]
      <4> HIDE DEF g
      <4>1. QED
        BY <2>6, Zenon DEF h
    <3>2. QED
      BY <3>1, Zenon DEF IsValue
  <2> HIDE DEF g
  <2>8. \E v : IsValue(v, s, a, (a - 1) + (n + 1))
    BY <2>2, <2>7
  <2>9. QED
    BY <2>8
<1> HIDE DEF T
<1>3. Nat \subseteq T
  BY <1>1, <1>2, AllNaturals
<1>4. b - (a - 1) \in T /\ (a - 1) + (b - (a - 1)) = b
  BY <1>3
<1>5. QED
  BY <1>4 DEF T

\* The value grows from digit to digit.
LEMMA ValueGrows ==
    ASSUME NEW v, NEW s, NEW a \in Nat \ {0}, NEW b \in Nat, a <= b, IsValue(v, s, a, b),
           DigitsAt(s, a, b)
    PROVE  /\ \A q \in (a - 1)..b : v[q] \in Nat
           /\ \A q \in (a - 1)..b : v[q] <= v[b]
<1>0. v[a - 1] = 0 /\ \A q \in a..b : v[q] = v[q - 1] * 10 + Digit(s[q])
  BY ValueStep
<1>d. \A q \in a..b : Digit(s[q]) \in 0..9
  BY DigitType DEF DigitsAt
<1>1. \A q \in (a - 1)..b : v[q] \in Nat
  <2> DEFINE T == {n \in Nat : n \in (a - 1)..b => v[n] \in Nat}
  <2>1. 0 \in T
    BY <1>0
  <2>2. ASSUME NEW n \in Nat, n \in T PROVE n + 1 \in T
    <3>1. CASE n + 1 \in a..b
      <4>1. n \in (a - 1)..b /\ (n + 1) - 1 = n
        BY <3>1
      <4>2. v[n + 1] = v[n] * 10 + Digit(s[n + 1]) /\ v[n] \in Nat
        BY <1>0, <2>2, <3>1, <4>1
      <4>3. QED
        BY <1>d, <3>1, <4>2
    <3>2. CASE n + 1 = a - 1
      BY <1>0, <3>2
    <3>3. QED
      BY <3>1, <3>2
  <2> HIDE DEF T
  <2>3. Nat \subseteq T
    BY <2>1, <2>2, AllNaturals
  <2>4. QED
    BY <2>3 DEF T
<1>2. \A q \in a..b : v[q - 1] <= v[q]
  <2>1. ASSUME NEW q \in a..b PROVE v[q - 1] <= v[q]
    <3>1. v[q] = v[q - 1] * 10 + Digit(s[q]) /\ Digit(s[q]) \in 0..9
      BY <1>0, <1>d
    <3>2. v[q - 1] \in Nat
      BY <1>1
    <3>3. QED
      BY <3>1, <3>2
  <2>2. QED
    BY <2>1
<1>3. \A q \in (a - 1)..b : v[q] <= v[b]
  <2> DEFINE T == {n \in Nat : b - n \in (a - 1)..b => v[b - n] <= v[b]}
  <2>1. 0 \in T
    BY <1>1
  <2>2. ASSUME NEW n \in Nat, n \in T PROVE n + 1 \in T
    <3>1. CASE b - (n + 1) \in (a - 1)..b
      <4> DEFINE q == b - n
      <4>1. q \in a..b /\ q \in (a - 1)..b /\ b - (n + 1) = q - 1 /\ q - 1 \in (a - 1)..b
        BY <3>1
      <4>2. v[q - 1] <= v[q] /\ v[q] <= v[b]
        BY <1>2, <2>2, <4>1
      <4>3. v[q - 1] \in Nat /\ v[q] \in Nat /\ v[b] \in Nat
        BY <1>1, <4>1
      <4> HIDE DEF q
      <4>4. QED
        BY <4>1, <4>2, <4>3
    <3>2. QED
      BY <3>1
  <2> HIDE DEF T
  <2>3. Nat \subseteq T
    BY <2>1, <2>2, AllNaturals
  <2>4. ASSUME NEW q \in (a - 1)..b PROVE v[q] <= v[b]
    <3>1. b - q \in T /\ b - (b - q) = q
      BY <2>3
    <3>2. QED
      BY <3>1 DEF T
  <2>5. QED
    BY <2>4
<1>4. QED
  BY <1>1, <1>3

---------------------------------------------------------------------------
(* parse_digits                                                            *)

IsRead(f, s, p, limit) ==
    f = [q \in p..(Len(s) + 1) |-> IF q = p THEN [n |-> 0, at |-> p, ok |-> TRUE]
                                   ELSE ReadDigit(s, f[q - 1], limit)]

LEMMA ReadStep ==
    ASSUME NEW f, NEW s, NEW p \in Nat, NEW limit, IsRead(f, s, p, limit),
           Len(s) \in Nat, p <= Len(s) + 1
    PROVE  /\ f[p] = [n |-> 0, at |-> p, ok |-> TRUE]
           /\ \A q \in (p + 1)..(Len(s) + 1) : f[q] = ReadDigit(s, f[q - 1], limit)
<1>1. \A q \in p..(Len(s) + 1) : f[q] = IF q = p THEN [n |-> 0, at |-> p, ok |-> TRUE]
                                        ELSE ReadDigit(s, f[q - 1], limit)
  BY Zenon DEF IsRead
<1>2. p \in p..(Len(s) + 1) /\ \A q \in (p + 1)..(Len(s) + 1) : q \in p..(Len(s) + 1) /\ q # p
  OBVIOUS
<1>3. f[p] = [n |-> 0, at |-> p, ok |-> TRUE]
  BY <1>1, <1>2, Zenon
<1>4. \A q \in (p + 1)..(Len(s) + 1) : f[q] = ReadDigit(s, f[q - 1], limit)
  BY <1>1, <1>2, Zenon
<1>5. QED
  BY <1>3, <1>4

LEMMA ReadExists ==
    ASSUME NEW s, NEW p \in Nat, NEW limit, Len(s) \in Nat, p <= Len(s) + 1
    PROVE  \E f : IsRead(f, s, p, limit)
<1> DEFINE x0 == [n |-> 0, at |-> p, ok |-> TRUE]
           Upto(f, e) == f = [q \in p..e |-> IF q = p THEN x0 ELSE ReadDigit(s, f[q - 1], limit)]
           T == {n \in Nat : \E f : Upto(f, p + n)}
<1> HIDE DEF x0
<1>1. 0 \in T
  <2> DEFINE v == [q \in p..(p + 0) |-> x0]
  <2>1. v = [q \in p..(p + 0) |-> IF q = p THEN x0 ELSE ReadDigit(s, v[q - 1], limit)]
    OBVIOUS
  <2>2. Upto(v, p + 0)
    BY <2>1
  <2> HIDE DEF v
  <2>3. QED
    BY <2>2
<1>2. ASSUME NEW n \in Nat, n \in T PROVE n + 1 \in T
  <2> DEFINE e == p + n
  <2>1. PICK f : Upto(f, e)
    BY <1>2
  <2>2. e \in Nat /\ e >= p /\ p + (n + 1) = e + 1
    OBVIOUS
  <2>3. \A q \in p..e : f[q] = IF q = p THEN x0 ELSE ReadDigit(s, f[q - 1], limit)
    BY <2>1, Zenon
  <2> HIDE DEF e
  <2> DEFINE g == [q \in p..(e + 1) |-> IF q = e + 1 THEN ReadDigit(s, f[e], limit) ELSE f[q]]
             h == [q \in p..(e + 1) |-> IF q = p THEN x0 ELSE ReadDigit(s, g[q - 1], limit)]
  <2>4. \A q \in p..(e + 1) : h[q] = g[q]
    <3>1. SUFFICES ASSUME NEW q \in p..(e + 1)
                   PROVE  g[q] = IF q = p THEN x0 ELSE ReadDigit(s, g[q - 1], limit)
      OBVIOUS
    <3>2. CASE q = e + 1
      <4>1. e \in p..(e + 1) /\ e # e + 1 /\ q - 1 = e /\ q # p
        BY <2>2, <3>2
      <4>2. g[e] = f[e]
        BY <4>1
      <4>3. g[q] = ReadDigit(s, f[e], limit)
        BY <3>2
      <4>4. QED
        BY <4>1, <4>2, <4>3
    <3>3. CASE q # e + 1
      <4>1. q \in p..e /\ (q # p => q - 1 \in p..(e + 1) /\ q - 1 # e + 1)
        BY <2>2, <3>3
      <4>2. g[q] = f[q] /\ (q # p => g[q - 1] = f[q - 1])
        BY <3>3, <4>1
      <4>3. QED
        BY <2>3, <4>1, <4>2
    <3>4. QED
      BY <3>2, <3>3
  <2>5. g = [q \in p..(e + 1) |-> g[q]] /\ h = [q \in p..(e + 1) |-> h[q]]
    OBVIOUS
  <2>6. g = h
    <3> HIDE DEF g, h
    <3>1. QED
      BY <2>4, <2>5
  <2>7. Upto(g, e + 1)
    <3>1. g = [q \in p..(e + 1) |-> IF q = p THEN x0 ELSE ReadDigit(s, g[q - 1], limit)]
      <4> HIDE DEF g
      <4>1. QED
        BY <2>6, Zenon DEF h
    <3> HIDE DEF g
    <3>2. QED
      BY <3>1, Zenon
  <2> HIDE DEF g
  <2>8. \E v : Upto(v, p + (n + 1))
    BY <2>2, <2>7
  <2>9. QED
    BY <2>8
<1> HIDE DEF T
<1>3. Nat \subseteq T
  BY <1>1, <1>2, AllNaturals
<1> DEFINE d == (Len(s) + 1) - p
<1>4. d \in T /\ p + d = Len(s) + 1
  BY <1>3
<1>5. \E f : Upto(f, p + d)
  BY <1>4 DEF T
<1>6. \E f : Upto(f, Len(s) + 1)
  BY <1>4, <1>5
<1>7. QED
  BY <1>6, Zenon DEF IsRead, x0

\* The long parse_digits returns.
Long(end, sign) ==
    IF end.ok
    THEN Signed(IF sign = -1 THEN (2^LongBits - end.n) % 2^LongBits ELSE end.n)
    ELSE IF sign = 1 THEN LongMax ELSE -LongMax - 1

Limit(sign) == IF sign = 1 THEN LongMax ELSE LongMax + 1

LEMMA ParseIsRead ==
    ASSUME NEW s, NEW p \in Nat, NEW sign, Len(s) \in Nat, p <= Len(s) + 1
    PROVE  \E f : /\ IsRead(f, s, p, Limit(sign))
                  /\ ParseDigits(s, p, sign) =
                        [n |-> Long(f[Len(s) + 1], sign), at |-> f[Len(s) + 1].at,
                         ok |-> f[Len(s) + 1].ok]
<1> DEFINE F == CHOOSE f : IsRead(f, s, p, Limit(sign))
<1>1. IsRead(F, s, p, Limit(sign))
  BY ReadExists
<1>2. ParseDigits(s, p, sign) = [n |-> Long(F[Len(s) + 1], sign), at |-> F[Len(s) + 1].at,
                                ok |-> F[Len(s) + 1].ok]
  BY Zenon DEF ParseDigits, IsRead, Long, Limit
<1>3. QED
  BY <1>1, <1>2

---------------------------------------------------------------------------
(* What parse_digits reads is what the digits spell                        *)

LEMMA DigitTurn ==
    ASSUME NEW s, NEW limit \in Nat, limit <= LongMax + 1, limit >= 9,
           NEW q \in Nat, q <= Len(s), Len(s) \in Nat, s[q] \in Digits, NEW n \in Nat, n <= limit
    PROVE  ReadDigit(s, [n |-> n, at |-> q, ok |-> TRUE], limit) =
              IF n * 10 + Digit(s[q]) <= limit
              THEN [n |-> n * 10 + Digit(s[q]), at |-> q + 1, ok |-> TRUE]
              ELSE [n |-> n, at |-> q, ok |-> FALSE]
<1> DEFINE d == Digit(s[q])
           m == n * 10 + d
           x0 == [n |-> n, at |-> q, ok |-> TRUE]
<1>1. d \in 0..9
  BY DigitType
<1> HIDE DEF d
<1>2. TooLarge(n, d, limit) <=> m > limit
  BY <1>1 DEF TooLarge
<1> DEFINE M == 2^LongBits
<1>3. M = 2 * (LongMax + 1) /\ LongMax \in Nat
  BY Widths
<1> HIDE DEF M
<1>4. m \in Nat /\ (m <= limit => m % M = m)
  BY <1>1, <1>3
<1>5. x0.ok = TRUE /\ x0.at = q /\ x0.n = n /\ ~(q > Len(s))
  OBVIOUS
<1>6. ReadDigit(s, x0, limit) = IF TooLarge(n, d, limit) THEN [n |-> n, at |-> q, ok |-> FALSE]
                                ELSE [n |-> m % M, at |-> q + 1, ok |-> TRUE]
  <2> HIDE DEF x0
  <2>1. QED
    BY <1>5 DEF ReadDigit, d, M
<1> HIDE DEF x0
<1>8. ReadDigit(s, x0, limit) = IF m <= limit THEN [n |-> m, at |-> q + 1, ok |-> TRUE]
                                ELSE [n |-> n, at |-> q, ok |-> FALSE]
  <2>1. CASE m <= limit
    <3>1. ~TooLarge(n, d, limit) /\ m % M = m
      BY <1>2, <1>4, <2>1
    <3> HIDE DEF m
    <3>2. QED
      BY <1>6, <2>1, <3>1
  <2>2. CASE ~(m <= limit)
    <3>1. TooLarge(n, d, limit)
      BY <1>2, <1>4, <2>2
    <3> HIDE DEF m
    <3>2. QED
      BY <1>6, <2>2, <3>1
  <2>3. QED
    BY <2>1, <2>2
<1>9. QED
  BY <1>8 DEF d, x0

LEMMA EndOfDigits ==
    ASSUME NEW s, NEW limit, NEW x, ~x.ok \/ x.at > Len(s) \/ s[x.at] \notin Digits
    PROVE  ReadDigit(s, x, limit) = x
  BY DEF ReadDigit

LEMMA SignedIs ==
    ASSUME NEW n \in Nat, NEW sign \in {-1, 1}, n <= Limit(sign)
    PROVE  Signed(IF sign = -1 THEN (2^LongBits - n) % 2^LongBits ELSE n)
              = IF sign = -1 THEN -n ELSE n
<1> DEFINE M == 2^LongBits
<1>1. M = 2 * (LongMax + 1) /\ LongMax \in Nat
  BY Widths
<1>2. \A x : Signed(x) = IF x > LongMax THEN x - M ELSE x
  BY DEF Signed
<1> HIDE DEF M
<1>3. CASE sign = 1
  BY <1>1, <1>2, <1>3 DEF Limit
<1>4. CASE sign = -1
  <2>1. n <= LongMax + 1
    BY <1>4, <1>1 DEF Limit
  <2>2. CASE n = 0
    <3>1. (M - n) % M = 0
      BY <1>1, <2>2
    <3> DEFINE z == (M - n) % M
    <3>a. Signed(z) = z /\ -n = z
      <4>1. z = 0
        BY <3>1
      <4> HIDE DEF z
      <4>2. ~(z > LongMax)
        BY <1>1, <4>1
      <4>3. Signed(z) = IF z > LongMax THEN z - 2^LongBits ELSE z
        BY Zenon DEF Signed
      <4>b. Signed(z) = z
        BY <4>2, <4>3, Zenon
      <4>4. -n = 0
        <5>1. -n = 0 - n
          OBVIOUS
        <5>2. 0 - n = 0
          BY <2>2
        <5>3. QED
          BY <5>1, <5>2, Zenon
      <4>5. QED
        BY <4>1, <4>b, <4>4
    <3>2. Signed((M - n) % M) = -n
      BY <3>a
    <3>3. QED
      BY <1>4, <3>2 DEF M
  <2>3. CASE n # 0
    <3>1. (M - n) % M = M - n /\ M - n > LongMax
      BY <1>1, <2>1, <2>3
    <3>2. Signed((M - n) % M) = (M - n) - M
      BY <1>2, <3>1
    <3>3. (M - n) - M = -n
      BY <1>1
    <3>4. QED
      BY <1>4, <3>2, <3>3 DEF M
  <2>4. QED
    BY <2>2, <2>3
<1>5. QED
  BY <1>3, <1>4

LEMMA ParseResult ==
    ASSUME NEW s, Len(s) \in Nat, NEW a \in 1..Len(s), NEW b \in a..Len(s),
           DigitsAt(s, a, b), b < Len(s) => s[b + 1] \notin Digits,
           NEW v, IsValue(v, s, a, b), NEW sign \in {-1, 1}
    PROVE  LET r == ParseDigits(s, a, sign)
           IN /\ r.ok \in BOOLEAN /\ (r.ok <=> v[b] <= Limit(sign))
              /\ r.at \in a..(Len(s) + 1)
              /\ r.n \in (-LongMax - 1)..LongMax
              /\ r.ok => r.at = b + 1 /\ r.n = IF sign = -1 THEN -v[b] ELSE v[b]
<1> DEFINE L == Len(s)
           lim == Limit(sign)
           Fine(q) == [n |-> v[q - 1], at |-> q, ok |-> TRUE]
<1>a. a \in Nat \ {0} /\ b \in Nat /\ a <= b /\ b <= L /\ L \in Nat /\ a <= L + 1
  OBVIOUS
<1>b. /\ v[a - 1] = 0
      /\ \A q \in a..b : v[q] = v[q - 1] * 10 + Digit(s[q])
      /\ \A q \in (a - 1)..b : v[q] \in Nat /\ v[q] <= v[b]
  BY <1>a, ValueStep, ValueGrows
<1>c. LongMax \in Nat /\ LongMax >= 15 /\ lim \in Nat /\ lim >= 9 /\ lim <= LongMax + 1
  BY Widths DEF Limit
<1> HIDE DEF lim
<1>d. PICK f : /\ IsRead(f, s, a, lim)
               /\ ParseDigits(s, a, sign) = [n |-> Long(f[L + 1], sign), at |-> f[L + 1].at,
                                            ok |-> f[L + 1].ok]
  <2>1. a \in Nat /\ Len(s) \in Nat /\ a <= Len(s) + 1
    BY <1>a
  <2>2. QED
    BY <2>1, ParseIsRead DEF lim
<1>e. /\ f[a] = [n |-> 0, at |-> a, ok |-> TRUE]
      /\ \A q \in (a + 1)..(L + 1) : f[q] = ReadDigit(s, f[q - 1], lim)
  <2>1. a \in Nat /\ Len(s) \in Nat /\ a <= Len(s) + 1
    BY <1>a
  <2>2. IsRead(f, s, a, lim)
    BY <1>d
  <2>3. /\ f[a] = [n |-> 0, at |-> a, ok |-> TRUE]
        /\ \A q \in (a + 1)..(Len(s) + 1) : f[q] = ReadDigit(s, f[q - 1], lim)
    <3> HIDE DEF L
    <3>1. \A q \in a..(Len(s) + 1) : f[q] = IF q = a THEN [n |-> 0, at |-> a, ok |-> TRUE]
                                             ELSE ReadDigit(s, f[q - 1], lim)
      BY <2>2, Zenon DEF IsRead
    <3>2. a \in a..(Len(s) + 1) /\ \A q \in (a + 1)..(Len(s) + 1) : q \in a..(Len(s) + 1) /\ q # a
      BY <2>1
    <3>3. QED
      BY <3>1, <3>2, Zenon
  <2>4. QED
    BY <2>3
<1> HIDE DEF L
\* As long as the number fits, it is the value.
<1>1. \A q \in a..(b + 1) : v[q - 1] <= lim => f[q] = Fine(q)
  <2> DEFINE T == {n \in Nat : n \in a..(b + 1) /\ v[n - 1] <= lim => f[n] = Fine(n)}
  <2>1. 0 \in T
    BY <1>a
  <2>2. ASSUME NEW n \in Nat, n \in T PROVE n + 1 \in T
    <3>1. CASE n + 1 = a
      BY <1>a, <1>b, <1>e, <3>1
    <3>2. CASE n + 1 \in (a + 1)..(b + 1) /\ v[n] <= lim
      <4>1. /\ n \in a..b /\ n + 1 \in (a + 1)..(L + 1) /\ (n + 1) - 1 = n /\ n <= L
            /\ n \in (a - 1)..b /\ n - 1 \in (a - 1)..b /\ n \in a..(b + 1)
        BY <1>a, <3>2
      <4>2. /\ v[n] = v[n - 1] * 10 + Digit(s[n]) /\ v[n - 1] \in Nat /\ Digit(s[n]) \in 0..9
            /\ s[n] \in Digits
        BY <1>b, <4>1, DigitType DEF DigitsAt
      <4>3. v[n - 1] <= lim
        BY <1>c, <3>2, <4>2
      <4>4. f[n] = Fine(n)
        BY <2>2, <4>1, <4>3
      <4>5. f[n + 1] = ReadDigit(s, Fine(n), lim)
        BY <1>e, <4>1, <4>4
      <4>6. ReadDigit(s, Fine(n), lim) = [n |-> v[n], at |-> n + 1, ok |-> TRUE]
        <5>1. Len(s) \in Nat /\ n <= Len(s) /\ n \in Nat /\ v[n] <= lim
          BY <1>a, <3>2, <4>1 DEF L
        <5> DEFINE w == v[n - 1]
        <5>2. w \in Nat /\ w <= lim /\ v[n] = w * 10 + Digit(s[n])
          BY <4>2, <4>3
        <5> HIDE DEF w
        <5>3. ReadDigit(s, [n |-> w, at |-> n, ok |-> TRUE], lim) =
                 IF w * 10 + Digit(s[n]) <= lim
                 THEN [n |-> w * 10 + Digit(s[n]), at |-> n + 1, ok |-> TRUE]
                 ELSE [n |-> w, at |-> n, ok |-> FALSE]
          BY <1>c, <4>2, <5>1, <5>2, DigitTurn
        <5>4. QED
          BY <5>1, <5>2, <5>3, Zenon DEF w
      <4>7. QED
        BY <4>1, <4>5, <4>6
    <3>3. CASE ~(n + 1 \in a..(b + 1) /\ v[(n + 1) - 1] <= lim)
      BY <3>3
    <3>4. QED
      BY <3>1, <3>2, <3>3, <1>a
  <2> HIDE DEF T
  <2>3. Nat \subseteq T
    BY <2>1, <2>2, AllNaturals
  <2>4. QED
    BY <1>a, <2>3 DEF T
\* Where the loop has ended, it stays.
<1>2. ASSUME NEW e \in a..(L + 1), ReadDigit(s, f[e], lim) = f[e]
      PROVE  f[L + 1] = f[e]
  <2> DEFINE T == {n \in Nat : e + n <= L + 1 => f[e + n] = f[e]}
  <2>1. 0 \in T
    BY <1>a
  <2>2. ASSUME NEW n \in Nat, n \in T PROVE n + 1 \in T
    <3>1. CASE e + (n + 1) <= L + 1
      <4>1. e + (n + 1) \in (a + 1)..(L + 1) /\ (e + (n + 1)) - 1 = e + n /\ e + n <= L + 1
        BY <1>a, <3>1
      <4>2. f[e + n] = f[e]
        BY <2>2, <4>1
      <4>3. f[e + (n + 1)] = ReadDigit(s, f[e + n], lim)
        BY <1>e, <4>1
      <4>4. QED
        BY <1>2, <4>2, <4>3
    <3>2. QED
      BY <3>1
  <2> HIDE DEF T
  <2>3. Nat \subseteq T
    BY <2>1, <2>2, AllNaturals
  <2>4. (L + 1) - e \in T /\ e + ((L + 1) - e) = L + 1
    BY <1>a, <2>3
  <2>5. QED
    BY <1>a, <2>4 DEF T
<1>3. CASE v[b] <= lim
  <2>1. b + 1 \in a..(L + 1) /\ b + 1 \in a..(b + 1) /\ (b + 1) - 1 = b /\ b \in (a - 1)..b
    BY <1>a
  <2>2. f[b + 1] = [n |-> v[b], at |-> b + 1, ok |-> TRUE]
    BY <1>1, <1>3, <2>1
  <2>3. ReadDigit(s, f[b + 1], lim) = f[b + 1]
    <3>1. f[b + 1].at > Len(s) \/ s[f[b + 1].at] \notin Digits
      BY <1>a, <2>2 DEF L
    <3>2. QED
      BY <3>1, EndOfDigits
  <2>4. f[L + 1] = [n |-> v[b], at |-> b + 1, ok |-> TRUE]
    BY <1>2, <2>1, <2>2, <2>3
  <2>5. v[b] \in Nat
    BY <1>b, <2>1
  <2>6. Long(f[L + 1], sign) = IF sign = -1 THEN -v[b] ELSE v[b]
    BY <1>3, <2>4, <2>5, SignedIs DEF Long, lim
  <2>7. (IF sign = -1 THEN -v[b] ELSE v[b]) \in (-LongMax - 1)..LongMax
    BY <1>3, <1>c, <2>5 DEF lim, Limit
  <2>8. ParseDigits(s, a, sign) = [n |-> IF sign = -1 THEN -v[b] ELSE v[b], at |-> b + 1, ok |-> TRUE]
    <3>1. f[L + 1].at = b + 1 /\ f[L + 1].ok = TRUE
      BY <2>4
    <3>2. QED
      BY <1>d, <2>6, <3>1
  <2> DEFINE y == IF sign = -1 THEN -v[b] ELSE v[b]
  <2> HIDE DEF y
  <2>9. ParseDigits(s, a, sign) = [n |-> y, at |-> b + 1, ok |-> TRUE]
    BY <2>8 DEF y
  <2> DEFINE r == ParseDigits(s, a, sign)
  <2>10. r.ok = TRUE /\ r.at = b + 1 /\ r.n = y
    BY <2>9
  <2> HIDE DEF r
  <2>11. r.ok \in BOOLEAN /\ (r.ok <=> v[b] <= Limit(sign))
    BY <1>3, <2>10 DEF lim
  <2>12. r.at \in a..(Len(s) + 1) /\ y \in (-LongMax - 1)..LongMax
    BY <2>1, <2>7, <2>10 DEF L, y
  <2>13. QED
    BY <2>10, <2>11, <2>12 DEF r, y
<1>4. CASE ~(v[b] <= lim)
  <2> DEFINE O == {q \in a..b : ~(v[q] <= lim)}
  <2>1. O \in SUBSET Nat /\ O # {}
    BY <1>4, <1>a
  <2>2. PICK e \in O : \A q \in O : e <= q
    BY <2>1, LeastNatural
  <2>3. /\ e \in a..b /\ e \in (a - 1)..b /\ e - 1 \in (a - 1)..b /\ e \in a..(b + 1) /\ e <= L
        /\ e \in a..(L + 1) /\ e + 1 \in a..(L + 1) /\ e + 1 \in (a + 1)..(L + 1)
        /\ (e + 1) - 1 = e
    BY <1>a
  <2>4. v[e - 1] <= lim
    <3>1. CASE e = a
      BY <1>b, <1>c, <3>1
    <3>2. CASE e # a
      <4>1. e - 1 \in a..b /\ e - 1 \notin O
        BY <2>2, <2>3, <3>2
      <4>2. QED
        BY <4>1
    <3>3. QED
      BY <3>1, <3>2
  <2>5. f[e] = Fine(e)
    BY <1>1, <2>3, <2>4
  <2>6. f[e + 1] = [n |-> v[e - 1], at |-> e, ok |-> FALSE]
    <3>1. f[e + 1] = ReadDigit(s, Fine(e), lim)
      BY <1>e, <2>3, <2>5
    <3>2. /\ v[e] = v[e - 1] * 10 + Digit(s[e]) /\ v[e - 1] \in Nat /\ s[e] \in Digits
          /\ ~(v[e] <= lim)
      BY <1>b, <2>2, <2>3 DEF DigitsAt
    <3>3. QED
      <4>1. Len(s) \in Nat /\ e <= Len(s) /\ e \in Nat
        BY <1>a, <2>3 DEF L
      <4> DEFINE w == v[e - 1]
      <4>a. w \in Nat /\ w <= lim /\ v[e] = w * 10 + Digit(s[e])
        BY <2>4, <3>2
      <4> HIDE DEF w
      <4>b. ReadDigit(s, [n |-> w, at |-> e, ok |-> TRUE], lim) =
               IF w * 10 + Digit(s[e]) <= lim
               THEN [n |-> w * 10 + Digit(s[e]), at |-> e + 1, ok |-> TRUE]
               ELSE [n |-> w, at |-> e, ok |-> FALSE]
        BY <1>c, <3>2, <4>1, <4>a, DigitTurn
      <4>2. ReadDigit(s, Fine(e), lim) = [n |-> v[e - 1], at |-> e, ok |-> FALSE]
        BY <3>2, <4>a, <4>b, Zenon DEF w
      <4>3. QED
        BY <3>1, <4>2
  <2>7. ReadDigit(s, f[e + 1], lim) = f[e + 1]
    BY <2>6, EndOfDigits
  <2>8. f[L + 1] = [n |-> v[e - 1], at |-> e, ok |-> FALSE]
    BY <1>2, <2>3, <2>6, <2>7
  <2>9. Long(f[L + 1], sign) = IF sign = 1 THEN LongMax ELSE -LongMax - 1
    BY <2>8 DEF Long
  <2>10. ParseDigits(s, a, sign) = [n |-> IF sign = 1 THEN LongMax ELSE -LongMax - 1,
                                    at |-> e, ok |-> FALSE]
    <3>1. f[L + 1].at = e /\ f[L + 1].ok = FALSE
      BY <2>8
    <3>2. QED
      BY <1>d, <2>9, <3>1
  <2>11. (IF sign = 1 THEN LongMax ELSE -LongMax - 1) \in (-LongMax - 1)..LongMax
    BY <1>c
  <2> DEFINE r == ParseDigits(s, a, sign)
             y == IF sign = 1 THEN LongMax ELSE -LongMax - 1
  <2> HIDE DEF y
  <2>12. r = [n |-> y, at |-> e, ok |-> FALSE]
    BY <2>10 DEF y
  <2> HIDE DEF r
  <2>13. r.ok = FALSE /\ r.at = e /\ r.n = y
    BY <2>12
  <2>14. r.ok \in BOOLEAN /\ (r.ok <=> v[b] <= Limit(sign))
    <3>1. v[b] <= lim <=> FALSE
      BY <1>4
    <3>2. QED
      BY <2>13, <3>1, Zenon DEF lim
  <2>15. r.at \in a..(Len(s) + 1) /\ y \in (-LongMax - 1)..LongMax
    BY <2>3, <2>11, <2>13 DEF L, y
  <2>16. QED
    BY <2>13, <2>14, <2>15 DEF r
<1>5. QED
  BY <1>3, <1>4

---------------------------------------------------------------------------
(* ft_atol                                                                 *)

Blank == " "    \* a space

IsSign(s, a) == a > 1 /\ s[a - 1] \in {"+", "-"}
BlankAt(s, a, b) == \A q \in a..b : s[q] = Blank

\* Word s spells a number with the digits from a to b.
Spelt(s, a, b) ==
    /\ a \in DOMAIN s /\ b \in DOMAIN s
    /\ a <= b /\ DigitsAt(s, a, b)
    /\ BlankAt(s, 1, IF IsSign(s, a) THEN a - 2 ELSE a - 1)
    /\ BlankAt(s, b + 1, Len(s))

\* ft_atol after its first two loops: where the digits start, and the sign.
First(s)   == PastSpaces(s, 1)
IsSigned(s) == First(s) <= Len(s) /\ s[First(s)] \in {"-", "+"}
Start(s)   == IF IsSigned(s) THEN First(s) + 1 ELSE First(s)
SignOf(s)  == IF IsSigned(s) /\ s[First(s)] = "-" THEN -1 ELSE 1

LEMMA AtolIs ==
    ASSUME NEW s
    PROVE  Atol(s) = IF Start(s) > Len(s) \/ s[Start(s)] \notin Digits
                     THEN [n |-> 0, ok |-> FALSE]
                     ELSE [n |-> ParseDigits(s, Start(s), SignOf(s)).n,
                           ok |-> /\ ParseDigits(s, Start(s), SignOf(s)).ok
                                  /\ PastSpaces(s, ParseDigits(s, Start(s), SignOf(s)).at) > Len(s)]
  BY Zenon DEF Atol, Start, SignOf, IsSigned, First

LEMMA CharFacts == /\ Blank \notin Digits /\ "+" \notin Digits /\ "-" \notin Digits
                   /\ Blank # "+" /\ Blank # "-" /\ "+" # "-"
  BY Zenon DEF Digits, Blank

LEMMA StartType ==
    ASSUME NEW s \in Texts
    PROVE  /\ Len(s) \in Nat /\ First(s) \in 1..(Len(s) + 1) /\ Start(s) \in Nat \ {0}
           /\ \A b \in 1..(First(s) - 1) : s[b] = Blank
           /\ First(s) <= Len(s) => s[First(s)] # Blank
<1>1. s \in Seq(Chars) /\ Len(s) \in Nat /\ 1 \in 1..(Len(s) + 1)
  BY DEF Texts
<1> HIDE DEF First
<1>2. /\ First(s) \in 1..(Len(s) + 1)
      /\ \A b \in 1..(First(s) - 1) : s[b] = Blank
      /\ First(s) <= Len(s) => s[First(s)] # Blank
  BY <1>1, PastSpacesIs, Zenon DEF First, Blank
<1>3. Start(s) = First(s) + 1 \/ Start(s) = First(s)
  BY Zenon DEF Start
<1>4. Start(s) \in Nat \ {0}
  BY <1>1, <1>2, <1>3
<1>5. QED
  BY <1>1, <1>2, <1>4, Zenon

\* The digits of a number start where ft_atol begins to read them.
LEMMA SpeltStart ==
    ASSUME NEW s \in Texts, NEW a, NEW b, Spelt(s, a, b)
    PROVE  /\ a = Start(s) /\ Start(s) <= Len(s) /\ s[Start(s)] \in Digits
           /\ SignOf(s) = IF IsSign(s, a) /\ s[a - 1] = "-" THEN -1 ELSE 1
<1> DEFINE f == First(s)
<1>1. /\ Len(s) \in Nat /\ f \in 1..(Len(s) + 1)
      /\ \A c \in 1..(f - 1) : s[c] = Blank
      /\ f <= Len(s) => s[f] # Blank
  BY StartType
<1>2. a \in 1..Len(s) /\ s[a] \in Digits /\ s[a] # Blank
  <2>1. a \in DOMAIN s /\ b \in DOMAIN s /\ a <= b /\ \A q \in a..b : s[q] \in Digits
    BY Zenon DEF Spelt, DigitsAt
  <2>2. a \in 1..Len(s) /\ b \in 1..Len(s)
    BY <2>1 DEF Texts
  <2>3. a \in a..b
    BY <2>1, <2>2, <1>1
  <2>4. s[a] \in Digits
    BY <2>1, <2>3
  <2>5. QED
    BY <2>2, <2>4, CharFacts, Zenon
<1> HIDE DEF f
<1>3. CASE IsSign(s, a)
  <2>1. a > 1 /\ s[a - 1] \in {"+", "-"} /\ \A q \in 1..(a - 2) : s[q] = Blank
    BY <1>3, Zenon DEF IsSign, Spelt, BlankAt
  <2>2. s[a - 1] # Blank /\ a - 1 \in 1..Len(s)
    BY <1>2, <2>1, CharFacts
  <2>3. f <= a - 1
    BY <1>1, <1>2, <2>1, <2>2
  <2>4. f >= a - 1
    BY <1>1, <1>2, <2>1, <2>2, <2>3
  <2>5. f = a - 1
    BY <1>1, <1>2, <2>3, <2>4
  <2>6. IsSigned(s) /\ Start(s) = a
    BY <1>2, <2>1, <2>2, <2>5 DEF IsSigned, Start, f
  <2>7. SignOf(s) = IF s[a - 1] = "-" THEN -1 ELSE 1
    BY <2>5, <2>6 DEF SignOf, f
  <2>8. QED
    BY <1>2, <1>3, <2>6, <2>7
<1>4. CASE ~IsSign(s, a)
  <2>1. \A q \in 1..(a - 1) : s[q] = Blank
    BY <1>4, Zenon DEF Spelt, BlankAt
  <2>2. f = a
    BY <1>1, <1>2, <2>1
  <2>3. ~IsSigned(s)
    BY <1>2, <2>2, CharFacts DEF IsSigned, f
  <2>4. Start(s) = a /\ SignOf(s) = 1
    BY <2>2, <2>3 DEF Start, SignOf, f
  <2>5. QED
    BY <1>2, <1>4, <2>4
<1>5. QED
  BY <1>3, <1>4

\* What ft_atol passes over before the digits may stand there.
LEMMA StartSpelt ==
    ASSUME NEW s \in Texts, Start(s) <= Len(s), s[Start(s)] \in Digits
    PROVE  BlankAt(s, 1, IF IsSign(s, Start(s)) THEN Start(s) - 2 ELSE Start(s) - 1)
<1> DEFINE f == First(s)
           a == Start(s)
<1>1. /\ Len(s) \in Nat /\ f \in 1..(Len(s) + 1) /\ a \in Nat \ {0}
      /\ \A c \in 1..(f - 1) : s[c] = Blank
      /\ f <= Len(s) => s[f] # Blank
  BY StartType
<1>2. a = IF IsSigned(s) THEN f + 1 ELSE f
  BY DEF Start
<1>3. CASE IsSigned(s)
  <2>1. a = f + 1 /\ s[f] \in {"+", "-"}
    BY <1>2, <1>3 DEF IsSigned
  <2> HIDE DEF f, a
  <2>2. IsSign(s, a) /\ a - 2 = f - 1
    BY <1>1, <2>1 DEF IsSign
  <2>3. BlankAt(s, 1, a - 2)
    BY <1>1, <2>2 DEF BlankAt
  <2>4. QED
    BY <2>2, <2>3 DEF a
<1>4. CASE ~IsSigned(s)
  <2>1. a = f
    BY <1>2, <1>4
  <2> HIDE DEF f, a
  <2>2. ~IsSign(s, a)
    <3>1. SUFFICES ASSUME a > 1, s[a - 1] \in {"+", "-"} PROVE FALSE
      BY DEF IsSign
    <3>2. a - 1 \in 1..(f - 1)
      BY <1>1, <2>1, <3>1
    <3>3. s[a - 1] = Blank
      BY <1>1, <3>2
    <3>4. QED
      BY <3>1, <3>3, CharFacts
  <2>3. BlankAt(s, 1, a - 1)
    BY <1>1, <2>1 DEF BlankAt
  <2>4. QED
    BY <2>2, <2>3 DEF a
<1>5. QED
  BY <1>3, <1>4

\* The numbers a word can be read as.
SpeltValue(s, a, b) ==
    LET v[q \in (a - 1)..b] == IF q < a THEN 0 ELSE v[q - 1] * 10 + Digit(s[q])
    IN IF IsSign(s, a) /\ s[a - 1] = "-" THEN -v[b] ELSE v[b]

LEMMA ReadingsAre ==
    ASSUME NEW s
    PROVE  IntegerReadings(s) = {SpeltValue(s, x[1], x[2]) :
                                    x \in {y \in (DOMAIN s) \X (DOMAIN s) : Spelt(s, y[1], y[2])}}
<1>1. ASSUME NEW y \in (DOMAIN s) \X (DOMAIN s)
      PROVE  y[1] \in DOMAIN s /\ y[2] \in DOMAIN s
  OBVIOUS
<1>2. QED
  BY <1>1, Zenon DEF IntegerReadings, SpeltValue, Spelt, IsSign, BlankAt, DigitsAt, Blank

LEMMA SpeltValueIs ==
    ASSUME NEW s, NEW a \in Nat \ {0}, NEW b \in Nat, a <= b
    PROVE  \E v : /\ IsValue(v, s, a, b)
                  /\ SpeltValue(s, a, b) = IF IsSign(s, a) /\ s[a - 1] = "-" THEN -v[b] ELSE v[b]
<1> DEFINE F == CHOOSE v : IsValue(v, s, a, b)
<1>1. IsValue(F, s, a, b)
  BY ValueExists
<1>2. SpeltValue(s, a, b) = IF IsSign(s, a) /\ s[a - 1] = "-" THEN -F[b] ELSE F[b]
  BY Zenon DEF SpeltValue, IsValue
<1>3. QED
  BY <1>1, <1>2

LongRange == (-LongMax - 1)..LongMax

Longs(s) == {n \in IntegerReadings(s) : n \in LongRange}

\* The digits ft_atol reads, when there is one.
LEMMA DigitsOf ==
    ASSUME NEW s, Len(s) \in Nat, NEW a \in 1..Len(s), s[a] \in Digits
    PROVE  \E b \in a..Len(s) : /\ DigitsAt(s, a, b)
                                /\ b < Len(s) => s[b + 1] \notin Digits
<1> DEFINE T == {q \in 1..Len(s) : s[q] \notin Digits}
<1>1. \E e \in a..(Len(s) + 1) : /\ \A q \in a..(e - 1) : q \notin T
                                 /\ e <= Len(s) => e \in T
  <2> HIDE DEF T
  <2>1. a \in 1..(Len(s) + 1)
    OBVIOUS
  <2>2. QED
    BY <2>1, FirstPlace
<1>2. PICK e \in a..(Len(s) + 1) : /\ \A q \in a..(e - 1) : q \notin T
                                   /\ e <= Len(s) => e \in T
  BY <1>1
<1>3. e # a
  BY <1>2 DEF T
<1>4. e - 1 \in a..Len(s) /\ (e - 1 < Len(s) => e <= Len(s)) /\ (e - 1) + 1 = e
  BY <1>2, <1>3
<1>5. ASSUME NEW q \in a..(e - 1) PROVE s[q] \in Digits
  <2>1. q \notin T
    BY <1>2
  <2>2. q \in 1..Len(s)
    BY <1>4
  <2>3. QED
    BY <2>1, <2>2, Zenon DEF T
<1>6. e - 1 < Len(s) => s[(e - 1) + 1] \notin Digits
  <2>1. e - 1 < Len(s) => e \in T
    BY <1>2, <1>4
  <2>2. e - 1 < Len(s) => s[e] \notin Digits
    BY <2>1, Zenon DEF T
  <2>3. QED
    BY <1>4, <2>2, Zenon
<1>7. QED
  BY <1>4, <1>5, <1>6 DEF DigitsAt

\* A number's digits end where ft_atol stops reading them.
LEMMA SpeltEnd ==
    ASSUME NEW s \in Texts, NEW a, NEW c, Spelt(s, a, c),
           NEW b \in a..Len(s), DigitsAt(s, a, b), b < Len(s) => s[b + 1] \notin Digits
    PROVE  c = b
<1>1. a \in DOMAIN s /\ c \in DOMAIN s /\ a <= c /\ \A q \in a..c : s[q] \in Digits
  BY Zenon DEF Spelt, DigitsAt
<1>2. \A q \in (c + 1)..Len(s) : s[q] = Blank
  BY Zenon DEF Spelt, BlankAt
<1>3. a \in 1..Len(s) /\ c \in 1..Len(s) /\ Len(s) \in Nat
  BY <1>1 DEF Texts
<1>4. ~(b < c)
  <2>1. b < c => b + 1 \in a..c /\ b < Len(s)
    BY <1>3
  <2>2. QED
    BY <1>1, <2>1
<1>5. ~(c < b)
  <2>1. c < b => c + 1 \in (c + 1)..Len(s) /\ c + 1 \in a..b
    BY <1>1, <1>3
  <2>2. c < b => s[c + 1] = Blank /\ s[c + 1] \in Digits
    BY <1>2, <2>1 DEF DigitsAt
  <2>3. QED
    BY <2>2, CharFacts
<1>6. QED
  BY <1>3, <1>4, <1>5

LEMMA BlankEnd ==
    ASSUME NEW s \in Texts, NEW p \in 1..(Len(s) + 1)
    PROVE  PastSpaces(s, p) > Len(s) <=> BlankAt(s, p, Len(s))
<1>1. s \in Seq(Chars) /\ Len(s) \in Nat
  BY DEF Texts
<1> DEFINE e == PastSpaces(s, p)
<1>2. /\ e \in p..(Len(s) + 1)
      /\ \A b \in p..(e - 1) : s[b] = Blank
      /\ e <= Len(s) => s[e] # Blank
  BY <1>1, PastSpacesIs, Zenon DEF Blank
<1> HIDE DEF e
<1>3. e > Len(s) <=> BlankAt(s, p, Len(s))
  BY <1>1, <1>2 DEF BlankAt
<1>4. QED
  BY <1>3 DEF e

\* ft_atol reads the one number of its word that a long holds, if there is one.
LEMMA AtolRight ==
    ASSUME NEW s \in Texts
    PROVE  /\ Atol(s).n \in LongRange /\ Atol(s).ok \in BOOLEAN
           /\ Longs(s) = IF Atol(s).ok THEN {Atol(s).n} ELSE {}
<1> DEFINE a == Start(s)
<1>0. /\ LongMax \in Nat /\ LongMax >= 15 /\ 0 \in LongRange /\ Len(s) \in Nat
      /\ a \in Nat \ {0}
  BY Widths, StartType DEF LongRange
<1>1. \A n \in IntegerReadings(s) : \E x \in (DOMAIN s) \X (DOMAIN s) :
          Spelt(s, x[1], x[2]) /\ n = SpeltValue(s, x[1], x[2])
  BY ReadingsAre
<1>2. CASE a > Len(s) \/ s[a] \notin Digits
  <2>1. Atol(s) = [n |-> 0, ok |-> FALSE]
    BY <1>2, AtolIs
  <2>2. IntegerReadings(s) = {}
    <3>1. \A x, y : ~Spelt(s, x, y)
      BY <1>0, <1>2, SpeltStart
    <3>2. QED
      BY <1>1, <3>1, Zenon
  <2>3. Longs(s) = {}
    BY <2>2 DEF Longs
  <2>4. QED
    BY <1>0, <2>1, <2>3
<1>3. CASE a <= Len(s) /\ s[a] \in Digits
  <2>1. PICK b \in a..Len(s) : /\ DigitsAt(s, a, b)
                               /\ b < Len(s) => s[b + 1] \notin Digits
    <3>1. a \in 1..Len(s)
      BY <1>0, <1>3
    <3> HIDE DEF a
    <3>2. QED
      BY <1>0, <1>3, <3>1, DigitsOf
  <2> DEFINE sign == SignOf(s)
             r == ParseDigits(s, a, sign)
  <2>2. sign \in {-1, 1}
    BY DEF SignOf
  <2>3. a \in Nat \ {0} /\ b \in Nat /\ a <= b /\ a \in 1..Len(s)
    BY <1>0, <1>3
  <2>4. PICK v : /\ IsValue(v, s, a, b)
                 /\ SpeltValue(s, a, b) = IF IsSign(s, a) /\ s[a - 1] = "-" THEN -v[b] ELSE v[b]
    BY <2>3, SpeltValueIs
  <2>5. v[b] \in Nat
    BY <2>1, <2>3, <2>4, ValueGrows
  <2>6. /\ r.ok \in BOOLEAN /\ (r.ok <=> v[b] <= Limit(sign))
        /\ r.at \in a..(Len(s) + 1)
        /\ r.n \in LongRange
        /\ r.ok => r.at = b + 1 /\ r.n = IF sign = -1 THEN -v[b] ELSE v[b]
    <3> HIDE DEF sign, a
    <3>1. QED
      BY <1>0, <2>1, <2>2, <2>3, <2>4, ParseResult DEF LongRange
  <2> DEFINE ok == r.ok /\ PastSpaces(s, r.at) > Len(s)
  <2>7. Atol(s) = [n |-> r.n, ok |-> ok]
    <3>1. ~(a > Len(s)) /\ ~(s[a] \notin Digits)
      BY <1>0, <1>3
    <3>2. QED
      BY <3>1, AtolIs, Zenon
  <2>8. Atol(s).n = r.n /\ Atol(s).ok = ok
    <3> HIDE DEF ok
    <3>1. QED
      BY <2>7
  <2> HIDE DEF r
  <2> DEFINE blank == BlankAt(s, b + 1, Len(s))
             x == IF sign = -1 THEN -v[b] ELSE v[b]
  <2>9. r.ok => (PastSpaces(s, r.at) > Len(s) <=> blank)
    BY <2>3, <2>6, BlankEnd
  <2>10. Spelt(s, a, b) <=> blank
    <3>1. BlankAt(s, 1, IF IsSign(s, a) THEN a - 2 ELSE a - 1)
      BY <1>3, StartSpelt
    <3>2. a \in DOMAIN s /\ b \in DOMAIN s
      BY <2>3 DEF Texts
    <3> HIDE DEF a
    <3>3. QED
      BY <2>1, <2>3, <3>1, <3>2, Zenon DEF Spelt
  <2>11. ASSUME NEW p, NEW q, Spelt(s, p, q)
         PROVE  p = a /\ q = b /\ (sign = IF IsSign(s, a) /\ s[a - 1] = "-" THEN -1 ELSE 1)
    <3>1. p = a /\ (sign = IF IsSign(s, p) /\ s[p - 1] = "-" THEN -1 ELSE 1)
      BY <2>11, SpeltStart
    <3> HIDE DEF a, sign
    <3>2. q = b
      BY <2>1, <2>11, <3>1, SpeltEnd
    <3>3. QED
      BY <3>1, <3>2
  <2>12. Spelt(s, a, b) => SpeltValue(s, a, b) = x
    <3>1. Spelt(s, a, b) => sign = IF IsSign(s, a) /\ s[a - 1] = "-" THEN -1 ELSE 1
      BY <2>11, Zenon
    <3> HIDE DEF sign, a
    <3>2. QED
      BY <2>4, <3>1
  <2>13. x \in LongRange <=> v[b] <= Limit(sign)
    <3> HIDE DEF sign
    <3>1. QED
      BY <1>0, <2>2, <2>5 DEF Limit, LongRange
  <2> HIDE DEF x, sign
  <2>14. IntegerReadings(s) = IF blank THEN {x} ELSE {}
    <3> HIDE DEF a, blank
    <3>1. ASSUME NEW n \in IntegerReadings(s) PROVE blank /\ n = x
      <4>1. PICK y \in (DOMAIN s) \X (DOMAIN s) :
                    Spelt(s, y[1], y[2]) /\ n = SpeltValue(s, y[1], y[2])
        BY <1>1
      <4>2. y[1] = a /\ y[2] = b
        BY <2>11, <4>1, Zenon
      <4>3. QED
        BY <2>10, <2>12, <4>1, <4>2
    <3>2. ASSUME blank PROVE x \in IntegerReadings(s)
      <4>1. Spelt(s, a, b) /\ a \in DOMAIN s /\ b \in DOMAIN s
        BY <2>10, <3>2, Zenon DEF Spelt
      <4> DEFINE y == <<a, b>>
      <4>2. y \in (DOMAIN s) \X (DOMAIN s) /\ y[1] = a /\ y[2] = b
        BY <4>1
      <4> HIDE DEF y
      <4>3. SpeltValue(s, y[1], y[2]) \in IntegerReadings(s)
        BY <4>1, <4>2, ReadingsAre
      <4>4. QED
        BY <2>12, <4>1, <4>2, <4>3
    <3>3. QED
      BY <3>1, <3>2
  <2>15. Longs(s) = IF blank /\ x \in LongRange THEN {x} ELSE {}
    <3> HIDE DEF blank
    <3>1. QED
      BY <2>14 DEF Longs
  <2>16. r.ok => r.n = x
    BY <2>6 DEF x
  <2>17. Longs(s) = IF Atol(s).ok THEN {Atol(s).n} ELSE {}
    <3> HIDE DEF blank
    <3>1. Atol(s).ok <=> (x \in LongRange /\ blank)
      BY <2>6, <2>8, <2>9, <2>13
    <3>2. Atol(s).ok => Atol(s).n = x
      BY <2>6, <2>8, <2>16
    <3>3. QED
      BY <2>15, <3>1, <3>2
  <2>18. Atol(s).ok \in BOOLEAN /\ Atol(s).n \in LongRange
    BY <2>6, <2>8
  <2>19. QED
    BY <2>17, <2>18
<1>4. QED
  BY <1>0, <1>2, <1>3
---------------------------------------------------------------------------
(* The name and the value of a word                                        *)

LEMMA EqualsIs ==
    ASSUME NEW s \in Texts
    PROVE  /\ Len(s) \in Nat /\ Equals(s) \in 1..(Len(s) + 1)
           /\ \A b \in 1..(Equals(s) - 1) : s[b] # "="
           /\ Equals(s) <= Len(s) => s[Equals(s)] = "="
<1>1. Len(s) \in Nat
  BY DEF Texts
<1>2. \E e \in 1..(Len(s) + 1) : /\ \A b \in 1..(e - 1) : ~(s[b] = "=")
                                 /\ e <= Len(s) => s[e] = "="
  <2> DEFINE T == {q \in 1..Len(s) : s[q] = "="}
  <2>1. \E e \in 1..(Len(s) + 1) : /\ \A b \in 1..(e - 1) : b \notin T
                                   /\ e <= Len(s) => e \in T
    <3> HIDE DEF T
    <3>1. 1 \in 1..(Len(s) + 1)
      BY <1>1
    <3>2. QED
      BY <1>1, <3>1, FirstPlace
  <2>2. PICK e \in 1..(Len(s) + 1) : /\ \A b \in 1..(e - 1) : b \notin T
                                     /\ e <= Len(s) => e \in T
    BY <2>1
  <2>3. \A b \in 1..(e - 1) : b \in 1..Len(s)
    BY <1>1
  <2>4. QED
    BY <2>2, <2>3
<1>3. /\ Equals(s) \in 1..(Len(s) + 1)
      /\ \A b \in 1..(Equals(s) - 1) : s[b] # "="
      /\ Equals(s) <= Len(s) => s[Equals(s)] = "="
  BY <1>2, Zenon DEF Equals, FirstFrom
<1>4. QED
  BY <1>1, <1>3

LEMMA SubText ==
    ASSUME NEW s \in Texts, NEW a \in 1..(Len(s) + 1), NEW b \in 0..Len(s)
    PROVE  /\ SubSeq(s, a, b) \in Texts
           /\ a = 1 => /\ Len(SubSeq(s, a, b)) = b
                       /\ \A n \in 1..b : SubSeq(s, a, b)[n] = s[n]
BY DEF Texts

\* Where the name of an assignment ends.
KeyEnd(s) == Equals(s) - (IF Appends(s) THEN 2 ELSE 1)

LEMMA KeyIs ==
    ASSUME NEW s \in Texts
    PROVE  /\ KeyEnd(s) \in 0..Len(s)
           /\ KeyOf(s) \in Texts /\ Len(KeyOf(s)) = KeyEnd(s)
           /\ \A n \in 1..KeyEnd(s) : KeyOf(s)[n] = s[n]
           /\ HasValue(s) => ValueOf(s) \in Texts
<1>1. Len(s) \in Nat /\ Equals(s) \in 1..(Len(s) + 1)
  BY EqualsIs
<1>2. Appends(s) => Equals(s) > 1
  BY DEF Appends
<1>3. KeyEnd(s) \in 0..Len(s)
  BY <1>1, <1>2 DEF KeyEnd
<1>4. KeyOf(s) = SubSeq(s, 1, KeyEnd(s)) /\ 1 \in 1..(Len(s) + 1)
  BY <1>1 DEF KeyOf, KeyEnd
<1>5. HasValue(s) => Equals(s) + 1 \in 1..(Len(s) + 1) /\ Len(s) \in 0..Len(s)
  BY <1>1 DEF HasValue
<1>6. HasValue(s) => ValueOf(s) \in Texts
  BY <1>5, SubText DEF ValueOf
<1>7. /\ KeyOf(s) \in Texts /\ Len(KeyOf(s)) = KeyEnd(s)
      /\ \A n \in 1..KeyEnd(s) : KeyOf(s)[n] = s[n]
  BY <1>3, <1>4, SubText
<1>8. QED
  BY <1>3, <1>6, <1>7

\* valid_ident and export_one agree on the name, although they look for its end
\* by different rules.
LEMMA ValidKey ==
    ASSUME NEW s \in Texts, ValidIdent(s)
    PROVE  /\ HasValue(s) => Identifier(KeyOf(s))
           /\ ~HasValue(s) => Identifier(s)
<1> DEFINE L == Len(s)
           q == Equals(s)
           Stop(p) == s[p] = "=" \/ AppendsAt(s, p)
<1>1. /\ L \in Nat /\ q \in 1..(L + 1)
      /\ \A b \in 1..(q - 1) : s[b] # "="
      /\ q <= L => s[q] = "="
  BY EqualsIs
<1>2. s # <<>> /\ s[1] \in Letters /\ DOMAIN s = 1..L
  <2>1. DOMAIN s = 1..L
    BY DEF Texts
  <2>2. s # <<>> /\ s[1] \in Letters
    BY Zenon DEF ValidIdent
  <2>3. QED
    BY <2>1, <2>2
<1>3. L >= 1
  BY <1>1, <1>2 DEF Texts
<1>4. \E e \in 2..(L + 1) : /\ \A b \in 2..(e - 1) : ~Stop(b)
                            /\ e <= L => Stop(e)
  <2> DEFINE T == {p \in 1..L : Stop(p)}
  <2>1. 2 \in 1..(L + 1)
    BY <1>1, <1>3
  <2>2. \E e \in 2..(L + 1) : /\ \A b \in 2..(e - 1) : b \notin T
                              /\ e <= L => e \in T
    <3> HIDE DEF T
    <3>1. QED
      BY <1>1, <2>1, FirstPlace
  <2>3. PICK e \in 2..(L + 1) : /\ \A b \in 2..(e - 1) : b \notin T
                                /\ e <= L => e \in T
    BY <2>2
  <2>4. \A b \in 2..(e - 1) : b \in 1..L
    BY <1>1
  <2> HIDE DEF Stop
  <2>5. QED
    BY <2>3, <2>4
<1>5. PICK e \in 2..(L + 1) : /\ \A b \in 2..(e - 1) : ~Stop(b)
                              /\ e <= L => Stop(e)
                              /\ \A p \in 2..(e - 1) : s[p] \in Letters \cup Digits
  <2> DEFINE e == FirstFrom(2, s, LAMBDA p : s[p] = "=" \/ AppendsAt(s, p))
  <2>1. /\ e \in 2..(L + 1)
        /\ \A b \in 2..(e - 1) : ~Stop(b)
        /\ e <= L => Stop(e)
    BY <1>4, Zenon DEF FirstFrom
  <2>2. \A p \in 2..(e - 1) : s[p] \in Letters \cup Digits
    BY Zenon DEF ValidIdent
  <2> HIDE DEF e
  <2>3. QED
    BY <2>1, <2>2
<1>h. (HasValue(s) <=> q <= L) /\ (Appends(s) <=> HasValue(s) /\ q > 1 /\ s[q - 1] = "+")
  BY Zenon DEF HasValue, Appends
<1> HIDE DEF L, q
<1>6. s[1] # "=" /\ s[1] # "+"
  BY <1>2 DEF Letters
<1>7. CASE HasValue(s)
  <2>1. q <= L /\ s[q] = "=" /\ q # 1 /\ q >= 2
    BY <1>1, <1>6, <1>7, <1>h
  <2>2. Appends(s) <=> s[q - 1] = "+"
    BY <1>1, <1>7, <1>h, <2>1
  <2>3. e <= q
    <3>1. CASE q < e
      <4>1. q \in 2..(e - 1)
        BY <1>1, <2>1, <3>1
      <4>2. QED
        BY <1>5, <2>1, <4>1
    <3>2. QED
      BY <1>1, <3>1
  <2>4. e = q \/ (e = q - 1 /\ s[q - 1] = "+")
    <3>1. CASE e < q
      <4>1. e \in 1..(q - 1) /\ e <= L /\ e \in Nat
        BY <1>1, <2>1, <3>1
      <4>2. AppendsAt(s, e)
        BY <1>1, <1>5, <4>1
      <4>3. s[e] = "+" /\ e + 1 \in 1..L /\ s[e + 1] = "="
        BY <1>1, <4>1, <4>2 DEF AppendsAt, L
      <4>4. ~(e + 1 \in 1..(q - 1))
        BY <1>1, <4>3
      <4>5. e + 1 = q /\ q - 1 = e
        BY <1>1, <3>1, <4>1, <4>3, <4>4
      <4>6. QED
        BY <4>3, <4>5
    <3>2. QED
      BY <1>1, <2>3, <3>1
  <2>5. s[q - 1] = "+" => e = q - 1
    <3>1. SUFFICES ASSUME s[q - 1] = "+", e = q PROVE FALSE
      BY <2>4
    <3>2. q - 1 # 1
      BY <1>6, <3>1
    <3>3. q - 1 \in 2..(e - 1) /\ q - 1 < L /\ (q - 1) + 1 = q
      BY <1>1, <2>1, <3>1, <3>2
    <3>4. AppendsAt(s, q - 1)
      BY <2>1, <3>1, <3>3 DEF AppendsAt, L
    <3>5. QED
      BY <1>5, <3>3, <3>4
  <2>6. KeyEnd(s) = e - 1
    <3>1. CASE s[q - 1] = "+"
      <4>1. KeyEnd(s) = q - 2
        BY <2>2, <3>1 DEF KeyEnd, q
      <4>2. QED
        BY <1>1, <2>5, <3>1, <4>1
    <3>2. CASE s[q - 1] # "+"
      <4>1. KeyEnd(s) = q - 1
        BY <2>2, <3>2 DEF KeyEnd, q
      <4>2. QED
        BY <2>4, <3>2, <4>1
    <3>3. QED
      BY <3>1, <3>2
  <2> DEFINE k == KeyOf(s)
  <2>7. k \in Texts /\ Len(k) = e - 1 /\ \A n \in 1..(e - 1) : k[n] = s[n]
    BY <2>6, KeyIs
  <2> HIDE DEF k
  <2>8. DOMAIN k = 1..(e - 1) /\ k # <<>> /\ k[1] = s[1]
    <3>1. 1 \in 1..(e - 1) /\ e - 1 >= 1
      BY <1>1
    <3>2. DOMAIN k = 1..Len(k) /\ (k = <<>> => Len(k) = 0)
      BY <2>7 DEF Texts
    <3>3. QED
      BY <2>7, <3>1, <3>2
  <2>9. \A p \in DOMAIN k : k[p] \in Letters \cup Digits
    <3>1. SUFFICES ASSUME NEW p \in 1..(e - 1) PROVE s[p] \in Letters \cup Digits
      BY <2>7, <2>8
    <3>2. p = 1 \/ p \in 2..(e - 1)
      BY <1>1
    <3>3. QED
      BY <1>2, <1>5, <3>2
  <2>10. Identifier(k)
    BY <1>2, <2>8, <2>9 DEF Identifier
  <2>11. QED
    BY <1>7, <2>10 DEF k
<1>8. CASE ~HasValue(s)
  <2>1. q = L + 1
    BY <1>1, <1>8, <1>h
  <2>2. \A p \in 1..L : s[p] # "="
    BY <1>1, <2>1
  <2>3. e = L + 1
    <3>1. SUFFICES ASSUME e <= L PROVE FALSE
      BY <1>1
    <3>2. e \in 1..L /\ AppendsAt(s, e)
      BY <1>1, <1>5, <2>2, <3>1
    <3>3. e + 1 \in 1..L /\ s[e + 1] = "="
      BY <1>1, <3>2 DEF AppendsAt, L
    <3>4. QED
      BY <2>2, <3>3
  <2>4. \A p \in 1..L : s[p] \in Letters \cup Digits
    <3>1. \A p \in 1..L : p = 1 \/ p \in 2..(e - 1)
      BY <1>1, <2>3
    <3>2. QED
      BY <1>2, <1>5, <3>1
  <2>5. Identifier(s)
    BY <1>2, <2>4 DEF Identifier
  <2>6. QED
    BY <1>8, <2>5
<1>9. QED
  BY <1>7, <1>8
---------------------------------------------------------------------------
(* The readings of a word                                                  *)

\* The reading that valid_ident and export_one make of a word.
TheReading(s) ==
    [name |-> IF HasValue(s) THEN KeyOf(s) ELSE s,
     op   |-> IF ~HasValue(s) THEN "none" ELSE IF Appends(s) THEN "append" ELSE "set",
     val  |-> IF HasValue(s) THEN ValueOf(s) ELSE <<>>]

LEMMA SeparatorIs ==
    /\ DOMAIN Separator = {"none", "set", "append"}
    /\ Separator["none"] = <<>> /\ Separator["set"] = <<"=">> /\ Separator["append"] = <<"+", "=">>
BY DEF Separator

LEMMA SeparatorText == \A op \in DOMAIN Separator : Separator[op] \in Texts
<1>1. "=" \in Chars /\ "+" \in Chars
  BY Zenon DEF Chars
<1>2. <<>> \in Texts /\ <<"=">> \in Texts /\ <<"+", "=">> \in Texts
  <2> HIDE DEF Chars
  <2>1. QED
    BY <1>1 DEF Texts
<1>3. QED
  BY <1>2, SeparatorIs

LEMMA ReadingsWhen ==
    ASSUME NEW s \in Texts, NEW r
    PROVE  r \in Readings(s) <=>
              /\ r = [name |-> r.name, op |-> r.op, val |-> r.val]
              /\ r.name \in Prefixes(s) /\ r.op \in DOMAIN Separator /\ r.val \in Suffixes(s)
              /\ Identifier(r.name)
              /\ s = r.name \o Separator[r.op] \o r.val
              /\ r.op = "none" => r.val = <<>>
<1> DEFINE P == Prefixes(s)
           O == DOMAIN Separator
           V == Suffixes(s)
           Good(x) == /\ Identifier(x.name)
                      /\ s = x.name \o Separator[x.op] \o x.val
                      /\ x.op = "none" => x.val = <<>>
<1>1. Readings(s) = {x \in [name : P, op : O, val : V] : Good(x)}
  BY DEF Readings
<1> HIDE DEF P, O, V, Good
<1>2. r \in Readings(s) <=> /\ r = [name |-> r.name, op |-> r.op, val |-> r.val]
                            /\ r.name \in P /\ r.op \in O /\ r.val \in V
                            /\ Good(r)
  BY <1>1
<1>3. QED
  BY <1>2 DEF P, O, V, Good

LEMMA PrefixIs ==
    ASSUME NEW s \in Texts, NEW x \in Prefixes(s)
    PROVE  x \in Texts
<1>1. PICK p \in 0..Len(s) : x = SubSeq(s, 1, p)
  BY DEF Prefixes
<1>2. Len(s) \in Nat /\ 1 \in 1..(Len(s) + 1)
  BY DEF Texts
<1>3. QED
  BY <1>1, <1>2, SubText

LEMMA SuffixIs ==
    ASSUME NEW s \in Texts, NEW x \in Suffixes(s)
    PROVE  x \in Texts
<1>1. PICK q \in 1..(Len(s) + 1) : x = SubSeq(s, q, Len(s))
  BY DEF Suffixes
<1>2. Len(s) \in 0..Len(s)
  BY DEF Texts
<1>3. QED
  BY <1>1, <1>2, SubText

LEMMA PairIs ==
    ASSUME NEW S, NEW a \in Seq(S), NEW b \in Seq(S)
    PROVE  /\ a \o b \in Seq(S) /\ Len(a \o b) = Len(a) + Len(b)
           /\ \A n \in 1..Len(a) : (a \o b)[n] = a[n]
           /\ \A n \in 1..Len(b) : (a \o b)[Len(a) + n] = b[n]
OBVIOUS

LEMMA JoinIs ==
    ASSUME NEW S, NEW a \in Seq(S), NEW b \in Seq(S), NEW c \in Seq(S)
    PROVE  LET s == a \o b \o c
           IN /\ s \in Seq(S) /\ Len(s) = (Len(a) + Len(b)) + Len(c)
              /\ \A n \in 1..Len(a) : s[n] = a[n]
              /\ \A n \in 1..Len(b) : s[Len(a) + n] = b[n]
              /\ \A n \in 1..Len(c) : s[(Len(a) + Len(b)) + n] = c[n]
<1>t. PICK t : t = a \o b
  OBVIOUS
<1>1. /\ t \in Seq(S) /\ Len(t) = Len(a) + Len(b)
      /\ \A n \in 1..Len(a) : t[n] = a[n]
      /\ \A n \in 1..Len(b) : t[Len(a) + n] = b[n]
  BY <1>t, PairIs
<1>s. PICK s : s = t \o c
  OBVIOUS
<1>2. /\ s \in Seq(S) /\ Len(s) = Len(t) + Len(c)
      /\ \A n \in 1..Len(t) : s[n] = t[n]
      /\ \A n \in 1..Len(c) : s[Len(t) + n] = c[n]
  <2>1. t \in Seq(S) /\ c \in Seq(S)
    BY <1>1
  <2>2. QED
    BY ONLY <1>s, <2>1
<1>3. Len(a) \in Nat /\ Len(b) \in Nat /\ Len(c) \in Nat
  OBVIOUS
<1>4. \A n \in 1..Len(a) : s[n] = a[n]
  BY <1>1, <1>2, <1>3
<1>5. \A n \in 1..Len(b) : s[Len(a) + n] = b[n]
  BY <1>1, <1>2, <1>3
<1>6. s = a \o b \o c
  BY <1>s, <1>t
<1>7. QED
  BY <1>1, <1>2, <1>3, <1>4, <1>5, <1>6

\* A word is made of its letters.
LEMMA SameText ==
    ASSUME NEW s \in Texts, NEW t \in Texts, Len(s) = Len(t), \A n \in 1..Len(s) : s[n] = t[n]
    PROVE  s = t
BY DEF Texts

LEMMA EqualsAt ==
    ASSUME NEW s \in Texts, NEW e \in 1..(Len(s) + 1), \A b \in 1..(e - 1) : s[b] # "=",
           e <= Len(s) => s[e] = "="
    PROVE  Equals(s) = e
<1>1. /\ Len(s) \in Nat /\ Equals(s) \in 1..(Len(s) + 1)
      /\ \A b \in 1..(Equals(s) - 1) : s[b] # "="
      /\ Equals(s) <= Len(s) => s[Equals(s)] = "="
  BY EqualsIs
<1> DEFINE q == Equals(s)
<1>2. q \in Nat /\ e \in Nat /\ Len(s) \in Nat
  BY <1>1
<1>3. ~(q < e)
  <2>1. SUFFICES ASSUME q < e PROVE FALSE
    OBVIOUS
  <2>2. q \in 1..(e - 1) /\ q <= Len(s)
    BY <1>1, <1>2, <2>1
  <2>3. QED
    BY <1>1, <2>2
<1>4. ~(e < q)
  <2>1. SUFFICES ASSUME e < q PROVE FALSE
    OBVIOUS
  <2>2. e \in 1..(q - 1) /\ e <= Len(s)
    BY <1>1, <1>2, <2>1
  <2>3. QED
    BY <1>1, <2>2
<1>5. QED
  BY <1>2, <1>3, <1>4

\* The words of which valid_ident says no more than that their name ends at e.
LEMMA ValidWhen ==
    ASSUME NEW s \in Texts, s # <<>>, s[1] \in Letters, NEW e \in 2..(Len(s) + 1),
           \A p \in 2..(e - 1) : s[p] \in Letters \cup Digits,
           e <= Len(s) => s[e] = "=" \/ AppendsAt(s, e)
    PROVE  ValidIdent(s)
<1> DEFINE L == Len(s)
           Stop(p) == s[p] = "=" \/ AppendsAt(s, p)
           end == FirstFrom(2, s, LAMBDA p : s[p] = "=" \/ AppendsAt(s, p))
<1>1. L \in Nat /\ L >= 1
  BY DEF Texts
<1>2. \E x \in 2..(L + 1) : /\ \A b \in 2..(x - 1) : ~Stop(b)
                            /\ x <= L => Stop(x)
  <2> DEFINE T == {p \in 1..L : Stop(p)}
  <2>1. 2 \in 1..(L + 1)
    BY <1>1
  <2>2. \E x \in 2..(L + 1) : /\ \A b \in 2..(x - 1) : b \notin T
                              /\ x <= L => x \in T
    <3> HIDE DEF T, L
    <3>1. QED
      BY <1>1, <2>1, FirstPlace
  <2>3. PICK x \in 2..(L + 1) : /\ \A b \in 2..(x - 1) : b \notin T
                                /\ x <= L => x \in T
    BY <2>2
  <2>4. \A b \in 2..(x - 1) : b \in 1..L
    BY <1>1
  <2> HIDE DEF Stop
  <2>5. QED
    BY <2>3, <2>4
<1>3. /\ end \in 2..(L + 1)
      /\ \A b \in 2..(end - 1) : ~Stop(b)
      /\ end <= L => Stop(end)
  BY <1>2, Zenon DEF FirstFrom
<1>4. ~(e < end)
  <2>1. SUFFICES ASSUME e < end PROVE FALSE
    OBVIOUS
  <2> HIDE DEF end, Stop
  <2>2. e \in 2..(end - 1) /\ e <= L
    BY <1>1, <1>3, <2>1
  <2>3. QED
    BY <1>3, <2>2 DEF Stop
<1>5. \A p \in 2..(end - 1) : s[p] \in Letters \cup Digits
  <2> HIDE DEF end
  <2>1. \A p \in 2..(end - 1) : p \in 2..(e - 1)
    BY <1>1, <1>3, <1>4
  <2>2. QED
    BY <2>1
<1>6. QED
  BY <1>5, Zenon DEF ValidIdent

\* The value is what follows the "=".
LEMMA ValueAt ==
    ASSUME NEW s \in Texts, HasValue(s), NEW c \in Texts, Len(s) = Equals(s) + Len(c),
           \A n \in 1..Len(c) : s[Equals(s) + n] = c[n]
    PROVE  ValueOf(s) = c
<1>1. PICK e : e = Equals(s)
  OBVIOUS
<1>2. e \in 1..Len(s) /\ Len(s) \in Nat /\ Len(c) \in Nat
  <2>1. Len(c) \in Nat
    BY DEF Texts
  <2>2. QED
    BY <1>1, <2>1, EqualsIs DEF HasValue
<1>3. s \in Seq(Chars) /\ c \in Seq(Chars)
  BY DEF Texts
<1>4. /\ SubSeq(s, e + 1, Len(s)) \in Seq(Chars)
      /\ Len(SubSeq(s, e + 1, Len(s))) = Len(s) - e
      /\ \A n \in 1..(Len(s) - e) : SubSeq(s, e + 1, Len(s))[n] = s[e + n]
  <2>1. e + 1 \in Nat /\ Len(s) <= Len(s)
    BY <1>2
  <2>2. QED
    BY ONLY <1>2, <1>3, <2>1
<1>5. Len(s) - e = Len(c)
  BY <1>1, <1>2
<1>6. QED
  BY <1>1, <1>3, <1>4, <1>5, SameText DEF ValueOf, Texts

LEMMA NameLetters == \A c \in Letters \cup Digits : c # "=" /\ c # "+"
BY DEF Letters, Digits

\* However a word is read: valid_ident accepts it and export_one reads it so.
LEMMA ReadingIs ==
    ASSUME NEW s \in Texts, NEW r \in Readings(s)
    PROVE  ValidIdent(s) /\ r = TheReading(s)
<1>1. /\ r = [name |-> r.name, op |-> r.op, val |-> r.val]
      /\ r.name \in Prefixes(s) /\ r.op \in DOMAIN Separator /\ r.val \in Suffixes(s)
      /\ Identifier(r.name)
      /\ s = r.name \o Separator[r.op] \o r.val
      /\ r.op = "none" => r.val = <<>>
  BY ReadingsWhen
<1>2. r.name \in Texts /\ r.val \in Texts
  BY <1>1, PrefixIs, SuffixIs
<1>3. PICK a \in Texts, c \in Texts : a = r.name /\ c = r.val
  BY <1>2
<1>4. PICK b : b = Separator[r.op]
  OBVIOUS
<1>5. b \in Texts
  BY <1>1, <1>4, SeparatorText
<1>6. /\ Len(a) \in Nat /\ Len(b) \in Nat /\ Len(c) \in Nat /\ Len(s) \in Nat
      /\ Len(s) = (Len(a) + Len(b)) + Len(c)
      /\ \A n \in 1..Len(a) : s[n] = a[n]
      /\ \A n \in 1..Len(b) : s[Len(a) + n] = b[n]
      /\ \A n \in 1..Len(c) : s[(Len(a) + Len(b)) + n] = c[n]
  <2>1. s = a \o b \o c
    BY <1>1, <1>3, <1>4
  <2>2. a \in Seq(Chars) /\ b \in Seq(Chars) /\ c \in Seq(Chars)
    BY <1>5 DEF Texts
  <2>3. Len(a) \in Nat /\ Len(b) \in Nat /\ Len(c) \in Nat /\ Len(s) \in Nat
    BY <1>5 DEF Texts
  <2>4. QED
    BY <2>1, <2>2, <2>3, JoinIs
<1>7. /\ Len(a) >= 1 /\ s[1] \in Letters /\ s # <<>>
      /\ \A p \in 1..Len(a) : s[p] \in Letters \cup Digits
  <2>1. a # <<>> /\ a[1] \in Letters /\ \A p \in 1..Len(a) : a[p] \in Letters \cup Digits
    <3>1. DOMAIN a = 1..Len(a)
      BY DEF Texts
    <3>2. QED
      BY <1>1, <1>3, <3>1 DEF Identifier
  <2>2. Len(a) >= 1
    BY <1>6, <2>1 DEF Texts
  <2>3. s # <<>>
    <3>1. Len(<<>>) = 0
      OBVIOUS
    <3>2. Len(s) >= 1
      BY <1>6, <2>2
    <3>3. QED
      BY <3>1, <3>2
  <2>4. QED
    BY <1>6, <2>1, <2>2, <2>3
<1> DEFINE p == Len(a)
<1> HIDE DEF p
<1>8. p \in Nat /\ p >= 1 /\ \A n \in 1..p : s[n] # "=" /\ s[n] # "+"
  BY <1>6, <1>7, NameLetters DEF p
<1>9. CASE r.op = "none"
  <2>1. b = <<>> /\ c = <<>> /\ Len(s) = p
    <3>1. b = <<>> /\ c = <<>>
      BY <1>1, <1>3, <1>4, <1>9, SeparatorIs
    <3>2. Len(b) = 0 /\ Len(c) = 0
      BY <3>1
    <3>3. QED
      BY <1>6, <3>1, <3>2 DEF p
  <2>2. a = s
    BY <1>6, <2>1, SameText DEF p
  <2>3. ValidIdent(s)
    <3>1. p + 1 \in 2..(Len(s) + 1) /\ ~(p + 1 <= Len(s))
          /\ \A n \in 2..((p + 1) - 1) : n \in 1..p
      BY <1>8, <2>1
    <3>2. \A n \in 2..((p + 1) - 1) : s[n] \in Letters \cup Digits
      BY <1>7, <3>1 DEF p
    <3>3. QED
      BY <1>7, <3>1, <3>2, ValidWhen
  <2>4. ~HasValue(s)
    <3>1. Equals(s) = p + 1
      BY <1>8, <2>1, EqualsAt
    <3>2. QED
      BY <1>8, <2>1, <3>1 DEF HasValue
  <2>5. TheReading(s) = [name |-> s, op |-> "none", val |-> <<>>]
    BY <2>4 DEF TheReading
  <2>6. QED
    BY <1>1, <1>3, <1>9, <2>1, <2>2, <2>3, <2>5
<1>10. CASE r.op = "set"
  <2>1. Len(b) = 1 /\ b[1] = "="
    BY <1>4, <1>10, SeparatorIs
  <2>2. p + 1 \in 1..Len(s) /\ s[p + 1] = "=" /\ p + 1 \in 2..(Len(s) + 1)
    <3>1. 1 \in 1..Len(b)
      BY <2>1
    <3>2. QED
      BY <1>6, <1>8, <2>1, <3>1 DEF p
  <2>3. ValidIdent(s)
    <3>1. \A n \in 2..((p + 1) - 1) : n \in 1..p
      BY <1>8
    <3>2. \A n \in 2..((p + 1) - 1) : s[n] \in Letters \cup Digits
      BY <1>7, <3>1 DEF p
    <3>3. QED
      BY <1>7, <2>2, <3>2, ValidWhen
  <2>4. Equals(s) = p + 1 /\ HasValue(s) /\ ~Appends(s)
    <3>1. Equals(s) = p + 1
      <4>1. \A n \in 1..((p + 1) - 1) : n \in 1..p
        BY <1>8
      <4>2. p + 1 \in 1..(Len(s) + 1)
        BY <1>6, <2>2
      <4>3. QED
        BY <1>8, <2>2, <4>1, <4>2, EqualsAt
    <3>2. HasValue(s)
      BY <2>2, <3>1 DEF HasValue
    <3>3. s[Equals(s) - 1] # "+"
      <4>1. Equals(s) - 1 \in 1..p
        BY <1>8, <3>1
      <4>2. QED
        BY <1>8, <4>1
    <3>4. QED
      BY <3>1, <3>2, <3>3 DEF Appends
  <2>5. KeyOf(s) = a
    <3>1. KeyEnd(s) = p
      BY <1>8, <2>4 DEF KeyEnd
    <3>2. /\ KeyOf(s) \in Texts /\ Len(KeyOf(s)) = p
          /\ \A n \in 1..p : KeyOf(s)[n] = s[n]
      BY <3>1, KeyIs
    <3>3. QED
      BY <1>6, <3>2, SameText DEF p
  <2>6. ValueOf(s) = c
    <3>1. Len(s) = Equals(s) + Len(c) /\ \A n \in 1..Len(c) : s[Equals(s) + n] = c[n]
      BY <1>6, <2>1, <2>4 DEF p
    <3>2. QED
      BY <2>4, <3>1, ValueAt
  <2>7. QED
    BY <1>1, <1>3, <1>10, <2>3, <2>4, <2>5, <2>6 DEF TheReading
<1>11. CASE r.op = "append"
  <2>1. Len(b) = 2 /\ b[1] = "+" /\ b[2] = "="
    BY <1>4, <1>11, SeparatorIs
  <2>2. /\ p + 1 \in 1..Len(s) /\ s[p + 1] = "+" /\ p + 1 \in 2..(Len(s) + 1)
        /\ p + 2 \in 1..Len(s) /\ s[p + 2] = "="
    <3>1. 1 \in 1..Len(b) /\ 2 \in 1..Len(b)
      BY <2>1
    <3>2. QED
      BY <1>6, <1>8, <2>1, <3>1 DEF p
  <2>3. ValidIdent(s)
    <3>1. \A n \in 2..((p + 1) - 1) : n \in 1..p
      BY <1>8
    <3>2. \A n \in 2..((p + 1) - 1) : s[n] \in Letters \cup Digits
      BY <1>7, <3>1 DEF p
    <3>3. AppendsAt(s, p + 1)
      BY <1>6, <1>8, <2>2 DEF AppendsAt
    <3>4. QED
      BY <1>7, <2>2, <3>2, <3>3, ValidWhen
  <2>4. Equals(s) = p + 2 /\ HasValue(s) /\ Appends(s)
    <3>1. Equals(s) = p + 2
      <4>1. \A n \in 1..((p + 2) - 1) : n \in 1..p \/ n = p + 1
        BY <1>8
      <4>2. p + 2 \in 1..(Len(s) + 1)
        BY <1>6, <2>2
      <4>3. QED
        BY <1>8, <2>2, <4>1, <4>2, EqualsAt
    <3>2. HasValue(s)
      BY <2>2, <3>1 DEF HasValue
    <3>3. Equals(s) > 1 /\ Equals(s) - 1 = p + 1
      BY <1>8, <3>1
    <3>4. QED
      BY <2>2, <3>1, <3>2, <3>3 DEF Appends
  <2>5. KeyOf(s) = a
    <3>1. KeyEnd(s) = p
      BY <1>8, <2>4 DEF KeyEnd
    <3>2. /\ KeyOf(s) \in Texts /\ Len(KeyOf(s)) = p
          /\ \A n \in 1..p : KeyOf(s)[n] = s[n]
      BY <3>1, KeyIs
    <3>3. QED
      BY <1>6, <3>2, SameText DEF p
  <2>6. ValueOf(s) = c
    <3>1. Len(s) = Equals(s) + Len(c) /\ \A n \in 1..Len(c) : s[Equals(s) + n] = c[n]
      BY <1>6, <2>1, <2>4 DEF p
    <3>2. QED
      BY <2>4, <3>1, ValueAt
  <2>7. QED
    BY <1>1, <1>3, <1>11, <2>3, <2>4, <2>5, <2>6 DEF TheReading
<1>12. QED
  BY <1>1, <1>9, <1>10, <1>11, SeparatorIs

\* A word that valid_ident accepts can be read as export_one reads it.
LEMMA ValidReading ==
    ASSUME NEW s \in Texts, ValidIdent(s)
    PROVE  TheReading(s) \in Readings(s)
<1> DEFINE L == Len(s)
           q == Equals(s)
<1>1. /\ L \in Nat /\ q \in 1..(L + 1)
      /\ \A n \in 1..(q - 1) : s[n] # "="
      /\ q <= L => s[q] = "="
  BY EqualsIs
<1>h. (HasValue(s) <=> q <= L) /\ (Appends(s) <=> HasValue(s) /\ q > 1 /\ s[q - 1] = "+")
  BY Zenon DEF HasValue, Appends
<1>p. PICK r : r = TheReading(s)
  OBVIOUS
<1>c. <<>> \in Texts /\ s \in Seq(Chars)
  BY DEF Texts
<1>2. CASE ~HasValue(s)
  <2>1. r = [name |-> s, op |-> "none", val |-> <<>>]
    BY <1>p, <1>2 DEF TheReading
  <2>2. Identifier(s)
    BY <1>2, ValidKey
  <2>3. s \in Prefixes(s) /\ <<>> \in Suffixes(s)
    <3>1. SubSeq(s, 1, L) = s /\ SubSeq(s, L + 1, L) = <<>>
      BY <1>c
    <3>2. L \in 0..L /\ L + 1 \in 1..(L + 1)
      BY <1>1
    <3>3. QED
      BY <3>1, <3>2 DEF Prefixes, Suffixes
  <2>4. s = s \o Separator["none"] \o <<>>
    <3>1. s = s \o <<>> \o <<>>
      BY <1>c
    <3>2. QED
      BY <3>1, SeparatorIs
  <2>5. r.name = s /\ r.op = "none" /\ r.val = <<>> /\ "none" \in DOMAIN Separator
    BY <2>1, SeparatorIs
  <2>6. r \in Readings(s)
    BY <2>1, <2>2, <2>3, <2>4, <2>5, ReadingsWhen
  <2>7. QED
    BY <1>p, <2>6
<1>3. CASE HasValue(s)
  <2>1. PICK op : op = IF Appends(s) THEN "append" ELSE "set"
    OBVIOUS
  <2>2. PICK a, b, c : a = KeyOf(s) /\ b = Separator[op] /\ c = ValueOf(s)
    OBVIOUS
  <2>3. r = [name |-> a, op |-> op, val |-> c]
    BY <1>p, <1>3, <2>1, <2>2 DEF TheReading
  <2>4. /\ a \in Texts /\ b \in Texts /\ c \in Texts
        /\ op \in DOMAIN Separator /\ op # "none" /\ Identifier(a)
    BY <1>3, <2>1, <2>2, KeyIs, ValidKey, SeparatorText, SeparatorIs
  <2>5. PICK k : k = KeyEnd(s)
    OBVIOUS
  <2>6. k \in 0..L /\ Len(a) = k /\ \A n \in 1..k : a[n] = s[n]
    BY <2>2, <2>5, KeyIs
  <2>7. a = SubSeq(s, 1, k) /\ c = SubSeq(s, q + 1, L)
    BY <2>2, <2>5 DEF KeyEnd, KeyOf, ValueOf
  <2>8. q \in 1..L /\ q + 1 \in 1..(L + 1) /\ s[q] = "="
    BY <1>1, <1>3, <1>h
  <2>9. a \in Prefixes(s) /\ c \in Suffixes(s)
    BY <2>6, <2>7, <2>8 DEF Prefixes, Suffixes
  <2>10. Len(c) = L - q /\ \A n \in 1..(L - q) : c[n] = s[q + n]
    <3> HIDE DEF L, q
    <3>1. q + 1 \in Nat /\ L = Len(s) /\ L \in Nat
      BY <1>1, <2>8 DEF L
    <3>2. QED
      BY ONLY <1>c, <2>7, <2>8, <3>1
  <2>11. /\ Len(b) \in Nat /\ k + Len(b) = q
         /\ \A n \in 1..Len(b) : b[n] = s[k + n]
    <3>1. CASE Appends(s)
      <4>1. b = <<"+", "=">> /\ k = q - 2
        BY <2>1, <2>2, <2>5, <3>1, SeparatorIs DEF KeyEnd
      <4>2. Len(b) = 2 /\ b[1] = "+" /\ b[2] = "="
        BY <4>1
      <4>3. s[q - 1] = "+" /\ q > 1
        BY <1>h, <3>1
      <4>4. k + 1 = q - 1 /\ k + 2 = q
        BY <2>8, <4>1
      <4>5. \A n \in 1..2 : n = 1 \/ n = 2
        OBVIOUS
      <4> HIDE DEF q, L
      <4>6. QED
        BY <2>8, <4>2, <4>3, <4>4, <4>5
    <3>2. CASE ~Appends(s)
      <4>1. b = <<"=">> /\ k = q - 1
        BY <2>1, <2>2, <2>5, <3>2, SeparatorIs DEF KeyEnd
      <4>2. Len(b) = 1 /\ b[1] = "="
        BY <4>1
      <4>3. k + 1 = q
        BY <2>8, <4>1
      <4>4. \A n \in 1..1 : n = 1
        OBVIOUS
      <4> HIDE DEF q, L
      <4>5. QED
        BY <2>8, <4>2, <4>3, <4>4
    <3>3. QED
      BY <3>1, <3>2
  <2>12. s = a \o b \o c
    <3>1. PICK t : t = a \o b \o c
      OBVIOUS
    <3>2. /\ t \in Texts /\ Len(t) = (Len(a) + Len(b)) + Len(c)
          /\ \A n \in 1..Len(a) : t[n] = a[n]
          /\ \A n \in 1..Len(b) : t[Len(a) + n] = b[n]
          /\ \A n \in 1..Len(c) : t[(Len(a) + Len(b)) + n] = c[n]
      <4>1. a \in Seq(Chars) /\ b \in Seq(Chars) /\ c \in Seq(Chars)
        BY <2>4 DEF Texts
      <4>2. QED
        BY <3>1, <4>1, JoinIs DEF Texts
    <3> HIDE DEF L, q
    <3>3. Len(t) = L
      BY <1>1, <2>6, <2>8, <2>10, <2>11, <3>2
    <3>4. \A n \in 1..L : t[n] = s[n]
      <4>1. SUFFICES ASSUME NEW n \in 1..L PROVE t[n] = s[n]
        OBVIOUS
      <4>2. CASE n \in 1..k
        BY <2>6, <3>2, <4>2
      <4>3. CASE n > k /\ n <= q
        <5>1. n - k \in 1..Len(b) /\ k + (n - k) = n
          BY <2>6, <2>8, <2>11, <4>3
        <5>2. t[k + (n - k)] = b[n - k] /\ b[n - k] = s[k + (n - k)]
          BY <2>6, <2>11, <3>2, <5>1
        <5>3. QED
          BY <5>1, <5>2
      <4>4. CASE n > q
        <5>1. n - q \in 1..(L - q) /\ q + (n - q) = n
          BY <1>1, <2>8, <4>4
        <5>2. t[q + (n - q)] = c[n - q] /\ c[n - q] = s[q + (n - q)]
          BY <2>6, <2>10, <2>11, <3>2, <5>1
        <5>3. QED
          BY <5>1, <5>2
      <4>5. QED
        BY <2>6, <2>8, <4>2, <4>3, <4>4
    <3>5. t = s
      BY <3>2, <3>3, <3>4, SameText DEF L
    <3>6. QED
      BY <3>1, <3>5
  <2>13. r.name = a /\ r.op = op /\ r.val = c
    BY <2>3
  <2>14. r \in Readings(s)
    <3>1. s = r.name \o Separator[r.op] \o r.val
      BY <2>2, <2>12, <2>13
    <3>2. QED
      BY <2>3, <2>4, <2>9, <2>13, <3>1, ReadingsWhen
  <2>15. QED
    BY <1>p, <2>14
<1>4. QED
  BY <1>2, <1>3

\* valid_ident and export_one against the meaning of a word.
LEMMA ReadingsAreOne ==
    ASSUME NEW s \in Texts
    PROVE  Readings(s) = IF ValidIdent(s) THEN {TheReading(s)} ELSE {}
BY ReadingIs, ValidReading

---------------------------------------------------------------------------
(* The number of strings of the first variables                            *)

LEMMA StringsNat == \A val : Strings(val) \in Nat
BY DEF Strings

\* f[n] is the number of strings of the first n variables of vs.
IsSum(f, vs, N) ==
    f = [n \in 0..N |-> IF n = 0 THEN 0 ELSE f[n - 1] + Strings(vs[n].val)]

LEMMA SumStep ==
    ASSUME NEW f, NEW vs, NEW N \in Nat, IsSum(f, vs, N)
    PROVE  /\ f[0] = 0
           /\ \A n \in 1..N : f[n] = f[n - 1] + Strings(vs[n].val)
<1>1. \A n \in 0..N : f[n] = IF n = 0 THEN 0 ELSE f[n - 1] + Strings(vs[n].val)
  BY Zenon DEF IsSum
<1>2. QED
  BY <1>1

LEMMA SumExists ==
    ASSUME NEW vs, NEW N \in Nat
    PROVE  \E f : IsSum(f, vs, N)
<1> DEFINE T == {n \in Nat : \E f : IsSum(f, vs, n)}
<1>1. 0 \in T
  <2>1. IsSum([n \in 0..0 |-> 0], vs, 0)
    BY DEF IsSum
  <2>2. QED
    BY <2>1
<1>2. ASSUME NEW n \in Nat, n \in T PROVE n + 1 \in T
  <2>1. PICK f : IsSum(f, vs, n)
    BY <1>2
  <2>2. /\ \A k \in 0..n : f[k] = IF k = 0 THEN 0 ELSE f[k - 1] + Strings(vs[k].val)
    BY <2>1, Zenon DEF IsSum
  <2> DEFINE g == [k \in 0..(n + 1) |-> IF k = n + 1 THEN f[n] + Strings(vs[n + 1].val) ELSE f[k]]
  <2>3. \A k \in 0..(n + 1) : g[k] = IF k = 0 THEN 0 ELSE g[k - 1] + Strings(vs[k].val)
    <3>1. SUFFICES ASSUME NEW k \in 0..(n + 1)
                   PROVE  g[k] = IF k = 0 THEN 0 ELSE g[k - 1] + Strings(vs[k].val)
      OBVIOUS
    <3>2. CASE k = n + 1
      <4>1. k - 1 = n /\ k # 0 /\ n \in 0..(n + 1) /\ n # n + 1
        BY <3>2
      <4>2. g[n] = f[n] /\ g[k] = f[n] + Strings(vs[k].val)
        BY <3>2, <4>1
      <4>3. QED
        BY <4>1, <4>2
    <3>3. CASE k # n + 1
      <4>1. k \in 0..n /\ (k # 0 => k - 1 \in 0..(n + 1) /\ k - 1 # n + 1)
        BY <3>3
      <4>2. g[k] = f[k] /\ (k # 0 => g[k - 1] = f[k - 1])
        BY <3>3, <4>1
      <4>3. QED
        BY <2>2, <4>1, <4>2
    <3>4. QED
      BY <3>2, <3>3
  <2>4. g = [k \in 0..(n + 1) |-> IF k = 0 THEN 0 ELSE g[k - 1] + Strings(vs[k].val)]
    <3> DEFINE h == [k \in 0..(n + 1) |-> IF k = 0 THEN 0 ELSE g[k - 1] + Strings(vs[k].val)]
    <3>1. g = [k \in 0..(n + 1) |-> g[k]]
      OBVIOUS
    <3> HIDE DEF g
    <3>2. \A k \in 0..(n + 1) : h[k] = g[k]
      BY <2>3
    <3>3. h = [k \in 0..(n + 1) |-> h[k]]
      OBVIOUS
    <3> HIDE DEF h
    <3>4. g = h
      BY <3>1, <3>2, <3>3
    <3>5. QED
      BY <3>4, Zenon DEF h
  <2>5. IsSum(g, vs, n + 1)
    BY <2>4, Zenon DEF IsSum
  <2> HIDE DEF g
  <2>6. QED
    BY <2>5
<1> HIDE DEF T
<1>3. Nat \subseteq T
  BY <1>1, <1>2, AllNaturals
<1>4. QED
  BY <1>3 DEF T

LEMMA SumNat ==
    ASSUME NEW f, NEW vs, NEW N \in Nat, IsSum(f, vs, N)
    PROVE  \A n \in 0..N : f[n] \in Nat
<1> DEFINE T == {n \in Nat : n \in 0..N => f[n] \in Nat}
<1>1. 0 \in T
  BY SumStep
<1>2. ASSUME NEW n \in Nat, n \in T PROVE n + 1 \in T
  <2>1. CASE n + 1 \in 0..N
    <3>1. n \in 0..N /\ n + 1 \in 1..N /\ (n + 1) - 1 = n
      BY <2>1
    <3>2. f[n + 1] = f[n] + Strings(vs[n + 1].val) /\ f[n] \in Nat
      BY <1>2, <3>1, SumStep
    <3>3. QED
      BY <3>2, StringsNat
  <2>2. QED
    BY <2>1
<1> HIDE DEF T
<1>3. Nat \subseteq T
  BY <1>1, <1>2, AllNaturals
<1>4. QED
  BY <1>3 DEF T
\* Two sequences whose first variables have as many strings.
LEMMA SumSame ==
    ASSUME NEW f, NEW g, NEW vs, NEW ws, NEW A \in Nat, NEW B \in Nat, NEW N \in Nat,
           N <= A, N <= B, IsSum(f, vs, A), IsSum(g, ws, B),
           \A n \in 1..N : Strings(vs[n].val) = Strings(ws[n].val)
    PROVE  \A n \in 0..N : f[n] = g[n]
<1> DEFINE T == {n \in Nat : n \in 0..N => f[n] = g[n]}
<1>0. /\ f[0] = 0 /\ g[0] = 0
      /\ \A n \in 1..A : f[n] = f[n - 1] + Strings(vs[n].val)
      /\ \A n \in 1..B : g[n] = g[n - 1] + Strings(ws[n].val)
  BY SumStep
<1>1. 0 \in T
  BY <1>0
<1>2. ASSUME NEW n \in Nat, n \in T PROVE n + 1 \in T
  <2>1. CASE n + 1 \in 0..N
    <3>1. n \in 0..N /\ n + 1 \in 1..N /\ n + 1 \in 1..A /\ n + 1 \in 1..B /\ (n + 1) - 1 = n
      BY <2>1
    <3>2. f[n] = g[n] /\ Strings(vs[n + 1].val) = Strings(ws[n + 1].val)
      BY <1>2, <3>1
    <3>3. f[n + 1] = f[n] + Strings(vs[n + 1].val) /\ g[n + 1] = g[n] + Strings(ws[n + 1].val)
      BY <1>0, <3>1
    <3>4. QED
      BY <3>2, <3>3
  <2>2. QED
    BY <2>1
<1> HIDE DEF T
<1>3. Nat \subseteq T
  BY <1>1, <1>2, AllNaturals
<1>4. QED
  BY <1>3 DEF T

\* One variable has another value.
LEMMA SumUpdate ==
    ASSUME NEW f, NEW g, NEW vs, NEW ws, NEW N \in Nat, NEW i \in 1..N,
           IsSum(f, vs, N), IsSum(g, ws, N),
           \A n \in 1..N : n # i => Strings(vs[n].val) = Strings(ws[n].val)
    PROVE  g[N] = (f[N] - Strings(vs[i].val)) + Strings(ws[i].val)
<1> DEFINE old == Strings(vs[i].val)
           new == Strings(ws[i].val)
           T == {n \in Nat : n \in 0..N =>
                     g[n] = IF n < i THEN f[n] ELSE (f[n] - old) + new}
<1>0. /\ f[0] = 0 /\ g[0] = 0
      /\ \A n \in 1..N : f[n] = f[n - 1] + Strings(vs[n].val)
      /\ \A n \in 1..N : g[n] = g[n - 1] + Strings(ws[n].val)
      /\ \A n \in 0..N : f[n] \in Nat
  BY SumStep, SumNat
<1>a. old \in Nat /\ new \in Nat
  BY StringsNat
<1>1. 0 \in T
  BY <1>0
<1>2. ASSUME NEW n \in Nat, n \in T PROVE n + 1 \in T
  <2>1. CASE n + 1 \in 0..N
    <3>1. n \in 0..N /\ n + 1 \in 1..N /\ (n + 1) - 1 = n /\ i \in Nat
      BY <2>1
    <3> DEFINE a == Strings(vs[n + 1].val)
               b == Strings(ws[n + 1].val)
    <3>2. /\ f[n + 1] = f[n] + a /\ g[n + 1] = g[n] + b
          /\ f[n] \in Nat
      BY <1>0, <3>1
    <3>3. g[n] = IF n < i THEN f[n] ELSE (f[n] - old) + new
      BY <1>2, <3>1
    <3>4. a \in Nat /\ b \in Nat
      BY StringsNat
    <3>5. n + 1 # i => a = b
      BY <3>1
    <3>6. n + 1 = i => a = old /\ b = new
      OBVIOUS
    <3> HIDE DEF a, b, old, new
    <3>7. g[n + 1] = IF n + 1 < i THEN f[n + 1] ELSE (f[n + 1] - old) + new
      BY <3>1, <3>2, <3>3, <3>4, <3>5, <3>6, <1>a
    <3>8. QED
      BY <3>7
  <2>2. QED
    BY <2>1
<1> HIDE DEF T
<1>3. Nat \subseteq T
  BY <1>1, <1>2, AllNaturals
<1>4. N \in T /\ N \in 0..N /\ ~(N < i)
  BY <1>3
<1>5. QED
  BY <1>4 DEF T

\* One variable is taken out.
LEMMA SumShift ==
    ASSUME NEW f, NEW g, NEW vs, NEW ws, NEW N \in Nat, NEW i \in 1..N,
           IsSum(f, vs, N), IsSum(g, ws, N - 1),
           \A n \in 1..(N - 1) : ws[n] = IF n < i THEN vs[n] ELSE vs[n + 1]
    PROVE  g[N - 1] = f[N] - Strings(vs[i].val)
<1> DEFINE old == Strings(vs[i].val)
           T == {n \in Nat : n \in 0..(N - 1) =>
                     g[n] = IF n < i THEN f[n] ELSE f[n + 1] - old}
<1>. N - 1 \in Nat
  OBVIOUS
<1>0. /\ f[0] = 0 /\ g[0] = 0
      /\ \A n \in 1..N : f[n] = f[n - 1] + Strings(vs[n].val)
      /\ \A n \in 1..(N - 1) : g[n] = g[n - 1] + Strings(ws[n].val)
      /\ \A n \in 0..N : f[n] \in Nat
  BY SumStep, SumNat
<1>a. old \in Nat /\ i \in Nat /\ i > 0
  BY StringsNat
<1>1. 0 \in T
  BY <1>0, <1>a
<1>2. ASSUME NEW n \in Nat, n \in T PROVE n + 1 \in T
  <2>1. CASE n + 1 \in 0..(N - 1)
    <3>1. /\ n \in 0..(N - 1) /\ n + 1 \in 1..(N - 1) /\ (n + 1) - 1 = n
          /\ n + 1 \in 1..N /\ (n + 1) + 1 \in 1..N /\ ((n + 1) + 1) - 1 = n + 1
          /\ n \in 0..N /\ n + 1 \in 0..N
      BY <2>1
    <3> DEFINE a == Strings(vs[n + 1].val)
               b == Strings(vs[(n + 1) + 1].val)
               c == Strings(ws[n + 1].val)
    <3>2. /\ f[n + 1] = f[n] + a /\ f[(n + 1) + 1] = f[n + 1] + b
          /\ g[n + 1] = g[n] + c
          /\ f[n] \in Nat /\ f[n + 1] \in Nat
      BY <1>0, <3>1
    <3>3. g[n] = IF n < i THEN f[n] ELSE f[n + 1] - old
      BY <1>2, <3>1
    <3>4. a \in Nat /\ b \in Nat /\ c \in Nat
      BY StringsNat
    <3>5. c = IF n + 1 < i THEN a ELSE b
      BY <3>1
    <3>6. n + 1 = i => a = old
      OBVIOUS
    <3> HIDE DEF a, b, c, old
    <3>7. g[n + 1] = IF n + 1 < i THEN f[n + 1] ELSE f[(n + 1) + 1] - old
      BY <3>1, <3>2, <3>3, <3>4, <3>5, <3>6, <1>a
    <3>8. QED
      BY <3>7
  <2>2. QED
    BY <2>1
<1> HIDE DEF T
<1>3. Nat \subseteq T
  BY <1>1, <1>2, AllNaturals
<1>4. N - 1 \in T /\ N - 1 \in 0..(N - 1) /\ (N - 1) + 1 = N
  BY <1>3
<1> HIDE DEF old
<1>5. g[N - 1] = IF N - 1 < i THEN f[N - 1] ELSE f[N] - old
  BY <1>4 DEF T
<1>6. CASE N - 1 < i
  <2>1. N = i /\ N \in 1..N
    BY <1>6, <1>a
  <2>2. f[N] = f[N - 1] + old /\ f[N - 1] \in Nat
    BY <1>0, <2>1, <1>4 DEF old
  <2>3. QED
    BY <1>5, <1>6, <2>2, <1>a DEF old
<1>7. QED
  BY <1>5, <1>6 DEF old

\* env_free counts the strings of all variables.
LEMMA FreedIsSum ==
    ASSUME NEW t, Len(t.vars) \in Nat
    PROVE  \E f : IsSum(f, t.vars, Len(t.vars)) /\ FreedByEnvFree(t) = f[Len(t.vars)]
<1> DEFINE F == CHOOSE f : IsSum(f, t.vars, Len(t.vars))
<1>1. IsSum(F, t.vars, Len(t.vars))
  BY SumExists
<1>2. FreedByEnvFree(t) = F[Len(t.vars)]
  BY Zenon DEF FreedByEnvFree, IsSum
<1>3. QED
  BY <1>1, <1>2
---------------------------------------------------------------------------
(* What the operations keep                                                *)

\* A table with variables of any sort.
VarOf(K, V)   == [key : K, val : V]
TableOf(K, V) == [vars : Seq(VarOf(K, V)), cap : Nat, strs : Int]
IsTable(t)    == \E K, V : t \in TableOf(K, V)

\* The strings counted are those env_free frees.
Counted(t) == t.strs = FreedByEnvFree(t)

LEMMA TableShape ==
    ASSUME NEW t, IsTable(t)
    PROVE  /\ Len(t.vars) \in Nat /\ t.cap \in Nat /\ t.strs \in Int
           /\ DOMAIN t.vars = 1..Len(t.vars)
           /\ t = [vars |-> t.vars, cap |-> t.cap, strs |-> t.strs]
<1>1. PICK K, V : t \in TableOf(K, V)
  BY DEF IsTable
<1>2. QED
  BY <1>1 DEF TableOf

\* The number of variables is below the number of slots, and no string is lost.
SoundTable(t) == IsTable(t) /\ Len(t.vars) < t.cap /\ Counted(t)

LEMMA EmptyTableSound == SoundTable(EmptyTable)
<1>1. IsTable(EmptyTable)
  <2>1. EmptyTable \in TableOf({}, {})
    BY EnvTableAssumption DEF EmptyTable, TableOf
  <2>2. QED
    BY <2>1 DEF IsTable
<1>2. Len(EmptyTable.vars) = 0 /\ EmptyTable.strs = 0 /\ EmptyTable.cap > 0
  BY EnvTableAssumption DEF EmptyTable
<1>3. FreedByEnvFree(EmptyTable) = 0
  <2>1. PICK f : /\ IsSum(f, EmptyTable.vars, Len(EmptyTable.vars))
                 /\ FreedByEnvFree(EmptyTable) = f[Len(EmptyTable.vars)]
    BY <1>2, FreedIsSum
  <2>2. f[0] = 0
    BY <1>2, <2>1, SumStep
  <2>3. QED
    BY <1>2, <2>1, <2>2
<1>4. QED
  BY <1>1, <1>2, <1>3, EnvTableAssumption DEF SoundTable, Counted

\* The count is one of the variables alone.
LEMMA FreedOfVars ==
    ASSUME NEW t, NEW u, t.vars = u.vars
    PROVE  FreedByEnvFree(t) = FreedByEnvFree(u)
BY DEF FreedByEnvFree

LEMMA GrownSound ==
    ASSUME NEW t, SoundTable(t)
    PROVE  /\ SoundTable(Grown(t))
           /\ Grown(t).vars = t.vars /\ Grown(t).strs = t.strs
           /\ Len(t.vars) + 1 < Grown(t).cap
<1>1. PICK K, V : t \in TableOf(K, V)
  BY DEF SoundTable, IsTable
<1>2. Len(t.vars) \in Nat /\ Len(t.vars) < t.cap
  BY TableShape DEF SoundTable
<1>3. /\ Grown(t) \in TableOf(K, V)
      /\ Grown(t).vars = t.vars /\ Grown(t).strs = t.strs
      /\ Len(t.vars) + 1 < Grown(t).cap
  BY <1>1, <1>2 DEF Grown, Full, TableOf
<1>4. Counted(Grown(t))
  BY <1>3, FreedOfVars DEF SoundTable, Counted
<1>5. IsTable(Grown(t)) /\ Len(Grown(t).vars) < Grown(t).cap
  <2>1. Grown(t).cap \in Nat
    BY <1>3 DEF TableOf
  <2>2. QED
    BY <1>2, <1>3, <2>1 DEF IsTable
<1>6. QED
  BY <1>3, <1>4, <1>5 DEF SoundTable

LEMMA TableUpdate ==
    ASSUME NEW S, NEW t \in [vars : S, cap : Nat, strs : Int], NEW vs \in S, NEW n \in Int
    PROVE  /\ [t EXCEPT !.vars = vs, !.strs = n] \in [vars : S, cap : Nat, strs : Int]
           /\ [t EXCEPT !.vars = vs, !.strs = n].vars = vs
           /\ [t EXCEPT !.vars = vs, !.strs = n].cap = t.cap
           /\ [t EXCEPT !.vars = vs, !.strs = n].strs = n
OBVIOUS

LEMMA MoreVars ==
    ASSUME NEW K, NEW V, NEW vs \in Seq(VarOf(K, V)), NEW key, NEW val
    PROVE  /\ vs \in Seq(VarOf(K \cup {key}, V \cup {val}))
           /\ [key |-> key, val |-> val] \in VarOf(K \cup {key}, V \cup {val})
<1> DEFINE R == VarOf(K \cup {key}, V \cup {val})
<1>1. VarOf(K, V) \subseteq R
  BY DEF VarOf
<1>2. Len(vs) \in Nat /\ DOMAIN vs = 1..Len(vs) /\ \A n \in 1..Len(vs) : vs[n] \in VarOf(K, V)
  OBVIOUS
<1>3. vs = [n \in 1..Len(vs) |-> vs[n]]
  BY <1>2
<1>4. [key |-> key, val |-> val] \in R
  BY DEF VarOf
<1> HIDE DEF R
<1>5. [n \in 1..Len(vs) |-> vs[n]] \in Seq(R)
  BY <1>1, <1>2
<1>6. QED
  BY <1>3, <1>4, <1>5 DEF R

LEMMA PushedSound ==
    ASSUME NEW t, SoundTable(t), Len(t.vars) + 1 < t.cap, NEW key, NEW val
    PROVE  /\ SoundTable(Pushed(t, key, val))
           /\ Len(Pushed(t, key, val).vars) = Len(t.vars) + 1
           /\ Pushed(t, key, val).vars[Len(t.vars) + 1] = [key |-> key, val |-> val]
           /\ \A n \in 1..Len(t.vars) : Pushed(t, key, val).vars[n] = t.vars[n]
<1> DEFINE u == Pushed(t, key, val)
           N == Len(t.vars)
           new == [key |-> key, val |-> val]
<1>1. PICK K, V : t \in TableOf(K, V)
  BY DEF SoundTable, IsTable
<1>2. N \in Nat
  BY TableShape DEF SoundTable
<1> DEFINE R == VarOf(K \cup {key}, V \cup {val})
<1>3. t.vars \in Seq(R) /\ new \in R
  <2>1. t.vars \in Seq(VarOf(K, V))
    BY <1>1 DEF TableOf
  <2>2. QED
    BY <2>1, MoreVars
<1>4. /\ u \in TableOf(K \cup {key}, V \cup {val})
      /\ u.vars = Append(t.vars, new) /\ u.cap = t.cap /\ u.strs = t.strs + Strings(val)
  <2> HIDE DEF R, new
  <2>1. t \in [vars : Seq(R), cap : Nat, strs : Int]
    BY <1>1, <1>3 DEF TableOf
  <2>2. Append(t.vars, new) \in Seq(R)
    BY <1>3
  <2>3. t.strs + Strings(val) \in Int
    BY <2>1, StringsNat
  <2> DEFINE vs == Append(t.vars, new)
             n == t.strs + Strings(val)
  <2>4. u = [t EXCEPT !.vars = vs, !.strs = n]
    BY DEF Pushed, new
  <2> DEFINE S == Seq(R)
  <2>5. t \in [vars : S, cap : Nat, strs : Int] /\ vs \in S /\ n \in Int
    BY <2>1, <2>2, <2>3
  <2> HIDE DEF vs, n, S, u
  <2>6. /\ u \in [vars : S, cap : Nat, strs : Int]
        /\ u.vars = vs /\ u.cap = t.cap /\ u.strs = n
    BY ONLY <2>4, <2>5, TableUpdate
  <2>7. QED
    BY <2>6 DEF TableOf, R, S, vs, n
<1> HIDE DEF u, R, new
<1>6. u \in TableOf(K \cup {key}, V \cup {val})
  BY <1>4
<1>7. Len(u.vars) = N + 1 /\ u.vars[N + 1] = new /\ \A n \in 1..N : u.vars[n] = t.vars[n]
  <2>1. N \in Nat /\ N = Len(t.vars)
    BY <1>2
  <2> DEFINE vs == t.vars
             ws == u.vars
  <2>2. vs \in Seq(R) /\ new \in R /\ ws = Append(vs, new) /\ N = Len(vs) /\ N \in Nat
    BY <1>3, <1>4, <2>1
  <2> HIDE DEF vs, ws, N
  <2>3. Len(ws) = N + 1 /\ ws[N + 1] = new /\ \A n \in 1..N : ws[n] = vs[n]
    BY <2>2
  <2>4. QED
    BY <2>3 DEF vs, ws
<1>8. FreedByEnvFree(u) = FreedByEnvFree(t) + Strings(val)
  <2>1. PICK f : IsSum(f, t.vars, N) /\ FreedByEnvFree(t) = f[N]
    BY <1>2, FreedIsSum
  <2>2. PICK g : IsSum(g, u.vars, N + 1) /\ FreedByEnvFree(u) = g[N + 1]
    <3>1. Len(u.vars) \in Nat
      BY <1>2, <1>7
    <3>2. QED
      BY <1>7, <3>1, FreedIsSum
  <2> HIDE DEF N
  <2>3. f[N] = g[N]
    <3>1. N + 1 \in Nat /\ N <= N + 1 /\ N <= N /\ N \in 0..N
      BY <1>2
    <3>2. \A n \in 1..N : Strings(t.vars[n].val) = Strings(u.vars[n].val)
      BY <1>7
    <3> HIDE DEF IsSum
    <3>3. IsSum(f, t.vars, N) /\ IsSum(g, u.vars, N + 1)
      BY <2>1, <2>2
    <3> DEFINE vs == t.vars
               ws == u.vars
               M == N + 1
    <3> HIDE DEF vs, ws, M
    <3>4. /\ IsSum(f, vs, N) /\ IsSum(g, ws, M) /\ M \in Nat /\ N <= M /\ N <= N
          /\ \A n \in 1..N : Strings(vs[n].val) = Strings(ws[n].val)
      BY <3>1, <3>2, <3>3 DEF vs, ws, M
    <3>5. \A n \in 0..N : f[n] = g[n]
      BY ONLY <1>2, <3>4, SumSame
    <3>6. QED
      BY <3>1, <3>5
  <2>4. g[N + 1] = g[N] + Strings(u.vars[N + 1].val)
    <3>1. N + 1 \in Nat /\ N + 1 \in 1..(N + 1) /\ (N + 1) - 1 = N
      BY <1>2
    <3>2. QED
      BY <2>2, <3>1, SumStep
  <2>5. u.vars[N + 1].val = val
    BY <1>7 DEF new
  <2>6. QED
    BY <2>1, <2>2, <2>3, <2>4, <2>5
<1>9. Len(u.vars) < u.cap
  BY <1>4, <1>7 DEF N
<1>10. Counted(u)
  BY <1>4, <1>8 DEF SoundTable, Counted
<1>11. SoundTable(u)
  BY <1>6, <1>9, <1>10 DEF SoundTable, IsTable
<1>12. QED
  BY <1>7, <1>11 DEF u, N, new

\* env_init copies an entry; it gives up when a string cannot be copied.
LEMMA InitOneSound ==
    ASSUME NEW t, SoundTable(t), NEW entry, NEW fail
    PROVE  /\ Len(InitOne(t, entry, fail).vars) < InitOne(t, entry, fail).cap
           /\ IsTable(InitOne(t, entry, fail))
           /\ \/ fail = "table" /\ Full(t)
              \/ fail \in {"key", "val"} /\ entry.val # NULL
              \/ Counted(InitOne(t, entry, fail))
<1> DEFINE g == Grown(t)
<1>1. SoundTable(g) /\ Len(g.vars) + 1 < g.cap /\ Len(g.vars) < g.cap
  BY GrownSound DEF SoundTable
<1>2. SoundTable(Pushed(g, entry.key, entry.val))
  BY <1>1, PushedSound
<1>3. CASE Full(t) /\ fail = "table"
  BY <1>3 DEF InitOne, SoundTable
<1>4. CASE ~(Full(t) /\ fail = "table") /\ entry.val = NULL
  BY <1>1, <1>4 DEF InitOne, SoundTable
<1>5. CASE ~(Full(t) /\ fail = "table") /\ entry.val # NULL /\ fail \in {"key", "val"}
  <2>1. PICK K, V : g \in TableOf(K, V)
    BY <1>1 DEF SoundTable, IsTable
  <2> HIDE DEF g
  <2>2. /\ [g EXCEPT !.strs = @ + 1] \in TableOf(K, V)
        /\ [g EXCEPT !.strs = @ + 1].vars = g.vars /\ [g EXCEPT !.strs = @ + 1].cap = g.cap
    BY <2>1 DEF TableOf
  <2>3. InitOne(t, entry, fail) = [g EXCEPT !.strs = @ + 1]
    BY <1>5 DEF InitOne, g
  <2>4. QED
    BY <1>1, <1>5, <2>2, <2>3 DEF IsTable
<1>6. CASE ~(Full(t) /\ fail = "table") /\ entry.val # NULL /\ fail \notin {"key", "val"}
  BY <1>2, <1>6 DEF InitOne, SoundTable
<1>7. QED
  BY <1>3, <1>4, <1>5, <1>6

LEMMA SetNewSound ==
    ASSUME NEW t, SoundTable(t), NEW key, NEW val, NEW fail
    PROVE  SoundTable(SetNew(t, key, val, fail))
<1>1. SoundTable(Grown(t)) /\ SoundTable(Pushed(Grown(t), key, val))
  BY GrownSound, PushedSound
<1>2. QED
  BY <1>1 DEF SetNew

\* The search finds the first variable of a name if there is one.
LEMMA FindKeyFirst ==
    ASSUME NEW t, IsTable(t), NEW key
    PROVE  /\ FindKey(t, key) = 0 => \A i \in DOMAIN t.vars : t.vars[i].key # key
           /\ FindKey(t, key) # 0 =>
                  /\ FindKey(t, key) \in 1..Len(t.vars)
                  /\ t.vars[FindKey(t, key)].key = key
                  /\ \A i \in DOMAIN t.vars :
                         t.vars[i].key = key => FindKey(t, key) <= i
<1> DEFINE at == {i \in DOMAIN t.vars : t.vars[i].key = key}
           first == CHOOSE i \in at : \A j \in at : i <= j
<1>1. at \subseteq 1..Len(t.vars) /\ at \in SUBSET Nat
  BY TableShape
<1>2. FindKey(t, key) = IF at = {} THEN 0 ELSE first
  BY DEF FindKey
<1>3. at # {} => first \in at /\ \A j \in at : first <= j
  <2>1. at # {} => \E i \in at : \A j \in at : i <= j
    BY <1>1, LeastNatural
  <2> HIDE DEF at
  <2>2. QED
    BY <2>1
<1> HIDE DEF first
<1>4. at # {} => first # 0
  BY <1>1, <1>3
<1>5. CASE at = {}
  BY <1>2, <1>5
<1>6. CASE at # {}
  <2>1. FindKey(t, key) = first /\ first \in at /\ first # 0 /\ \A j \in at : first <= j
    BY <1>2, <1>3, <1>4, <1>6
  <2>2. QED
    BY <1>1, <2>1
<1>7. QED
  BY <1>5, <1>6
LEMMA SeqUpdate ==
    ASSUME NEW R, NEW vs \in Seq(R), NEW i \in 1..Len(vs), NEW r \in R
    PROVE  /\ [vs EXCEPT ![i] = r] \in Seq(R)
           /\ Len([vs EXCEPT ![i] = r]) = Len(vs)
           /\ [vs EXCEPT ![i] = r][i] = r
           /\ \A n \in 1..Len(vs) : n # i => [vs EXCEPT ![i] = r][n] = vs[n]
OBVIOUS

\* The value of one variable is replaced, or lost.
LEMMA OverwrittenSound ==
    ASSUME NEW t, SoundTable(t), NEW i \in 1..Len(t.vars), NEW val, NEW fail
    PROVE  LET u == Overwritten(t, i, val, fail)
           IN /\ SoundTable(u)
              /\ Len(u.vars) = Len(t.vars)
              /\ u.vars[i].val = IF fail = "val" THEN NULL ELSE val
              /\ \A n \in 1..Len(t.vars) : /\ u.vars[n].key = t.vars[n].key
                                           /\ n # i => u.vars[n] = t.vars[n]
<1> DEFINE new == IF fail = "val" THEN NULL ELSE val
           rec == [t.vars[i] EXCEPT !.val = new]
           ws  == [t.vars EXCEPT ![i] = rec]
           strs == (t.strs - Strings(t.vars[i].val)) + Strings(new)
           u == Overwritten(t, i, val, fail)
           N == Len(t.vars)
<1>1. PICK K, V : t \in TableOf(K, V)
  BY DEF SoundTable, IsTable
<1> DEFINE R == VarOf(K, V \cup {new})
<1>2. t.vars \in Seq(R)
  <2>1. t.vars \in Seq(VarOf(K, V)) /\ t.vars[i] \in VarOf(K, V)
    BY <1>1 DEF TableOf
  <2>2. t.vars[i].key \in K
    BY <2>1 DEF VarOf
  <2>3. K \cup {t.vars[i].key} = K
    BY <2>2
  <2> HIDE DEF new
  <2>4. QED
    BY <2>1, <2>3, MoreVars
<1>3. t.vars[i] \in R
  <2> HIDE DEF R
  <2>1. QED
    BY <1>2
<1>4. rec \in R /\ rec.val = new /\ rec.key = t.vars[i].key
  <2> HIDE DEF new
  <2>1. QED
    BY <1>3 DEF VarOf
<1> HIDE DEF new
<1>5. /\ u \in TableOf(K, V \cup {new})
      /\ u.vars = ws /\ u.cap = t.cap /\ u.strs = strs
  <2>1. u = [t EXCEPT !.vars = ws, !.strs = strs]
    BY DEF Overwritten, new
  <2> DEFINE S == Seq(R)
  <2>2. ws \in S
    <3> HIDE DEF R, rec
    <3>1. QED
      BY <1>2, <1>4, SeqUpdate
  <2>3. strs \in Int /\ t \in [vars : S, cap : Nat, strs : Int]
    <3> HIDE DEF R
    <3>1. t.strs \in Int /\ t \in [vars : S, cap : Nat, strs : Int]
      BY <1>1, <1>2 DEF TableOf
    <3>2. QED
      BY <3>1, StringsNat
  <2> HIDE DEF ws, strs, S, u
  <2>4. /\ u \in [vars : S, cap : Nat, strs : Int]
        /\ u.vars = ws /\ u.cap = t.cap /\ u.strs = strs
    BY ONLY <2>1, <2>2, <2>3, TableUpdate
  <2>5. QED
    BY <2>4 DEF TableOf, S
<1>6. Len(ws) = N /\ ws[i] = rec /\ \A n \in 1..N : n # i => ws[n] = t.vars[n]
  <2> HIDE DEF R, rec
  <2>1. QED
    BY <1>2, <1>4, SeqUpdate
<1> HIDE DEF u, R, rec, ws
<1>7. N \in Nat /\ t.strs \in Int /\ N < t.cap /\ t.strs = FreedByEnvFree(t)
  BY TableShape DEF SoundTable, Counted
<1>8. FreedByEnvFree(u) = strs
  <2>1. PICK f : IsSum(f, t.vars, N) /\ FreedByEnvFree(t) = f[N]
    BY <1>7, FreedIsSum
  <2>2. PICK g : IsSum(g, ws, N) /\ FreedByEnvFree(u) = g[N]
    BY <1>5, <1>6, <1>7, FreedIsSum
  <2> DEFINE vs == t.vars
  <2>3. /\ IsSum(f, vs, N) /\ IsSum(g, ws, N) /\ N \in Nat /\ i \in 1..N
        /\ \A n \in 1..N : n # i => Strings(vs[n].val) = Strings(ws[n].val)
    BY <1>6, <1>7, <2>1, <2>2
  <2> HIDE DEF vs, N
  <2>4. g[N] = (f[N] - Strings(vs[i].val)) + Strings(ws[i].val)
    BY ONLY <2>3, SumUpdate
  <2>5. QED
    BY <1>4, <1>6, <1>7, <2>1, <2>2, <2>4 DEF vs
<1>9. Len(u.vars) < u.cap /\ Counted(u)
  BY <1>5, <1>6, <1>7, <1>8 DEF Counted
<1>10. SoundTable(u)
  BY <1>5, <1>9 DEF SoundTable, IsTable
<1>11. QED
  BY <1>4, <1>5, <1>6, <1>10 DEF u, new

LEMMA EnvSetSound ==
    ASSUME NEW t, SoundTable(t), NEW key, NEW val, NEW fail
    PROVE  SoundTable(EnvSet(t, key, val, fail))
<1>1. CASE FindKey(t, key) = 0
  BY <1>1, SetNewSound DEF EnvSet
<1>2. CASE FindKey(t, key) # 0 /\ val # NULL
  <2>1. FindKey(t, key) \in 1..Len(t.vars)
    BY <1>2, FindKeyFirst DEF SoundTable
  <2>2. QED
    BY <1>2, <2>1, OverwrittenSound DEF EnvSet
<1>3. CASE FindKey(t, key) # 0 /\ val = NULL
  BY <1>3 DEF EnvSet
<1>4. QED
  BY <1>1, <1>2, <1>3

\* One variable fewer, and the others in their order.
LEMMA EnvUnsetSound ==
    ASSUME NEW t, SoundTable(t), NEW key
    PROVE  LET i == FindKey(t, key)
               u == EnvUnset(t, key)
           IN /\ SoundTable(u)
              /\ i # 0 =>
                     /\ Len(u.vars) = Len(t.vars) - 1
                     /\ \A n \in 1..(Len(t.vars) - 1) :
                            u.vars[n] = IF n < i THEN t.vars[n] ELSE t.vars[n + 1]
<1> DEFINE i == FindKey(t, key)
           N == Len(t.vars)
           ws == Without(t.vars, i)
           strs == t.strs - Strings(t.vars[i].val)
           u == EnvUnset(t, key)
<1>1. PICK K, V : t \in TableOf(K, V)
  BY DEF SoundTable, IsTable
<1>2. N \in Nat /\ t.strs \in Int /\ t.cap \in Nat /\ N < t.cap /\ t.strs = FreedByEnvFree(t)
  BY TableShape DEF SoundTable, Counted
<1>3. CASE i = 0
  BY <1>3 DEF EnvUnset
<1>4. CASE i # 0
  <2>1. i \in 1..N
    BY <1>4, FindKeyFirst DEF SoundTable
  <2> DEFINE R == VarOf(K, V)
             S == Seq(R)
  <2>2. t.vars \in S
    BY <1>1 DEF TableOf
  <2> HIDE DEF R, i
  <2>3. /\ ws \in S /\ Len(ws) = N - 1
        /\ \A n \in 1..(N - 1) : ws[n] = IF n < i THEN t.vars[n] ELSE t.vars[n + 1]
    <3>1. \A n \in 1..N : t.vars[n] \in R
      BY <2>2
    <3>2. N - 1 \in Nat /\ N = Len(t.vars)
      BY <1>2, <2>1
    <3> HIDE DEF N
    <3>3. ws = [n \in 1..(N - 1) |-> IF n < i THEN t.vars[n] ELSE t.vars[n + 1]]
      BY <3>2 DEF Without
    <3>4. \A n \in 1..(N - 1) : (IF n < i THEN t.vars[n] ELSE t.vars[n + 1]) \in R
      BY <1>2, <3>1, <3>2
    <3>5. QED
      BY <3>2, <3>3, <3>4
  <2>4. strs \in Int /\ t \in [vars : S, cap : Nat, strs : Int]
    BY <1>1, <1>2, StringsNat DEF TableOf, R
  <2>5. u = [t EXCEPT !.vars = ws, !.strs = strs]
    BY <1>4 DEF EnvUnset, i
  <2> HIDE DEF ws, strs, S, u, N
  <2>6. /\ u \in [vars : S, cap : Nat, strs : Int]
        /\ u.vars = ws /\ u.cap = t.cap /\ u.strs = strs
    BY ONLY <2>3, <2>4, <2>5, TableUpdate
  <2>7. FreedByEnvFree(u) = strs
    <3>1. PICK f : IsSum(f, t.vars, N) /\ FreedByEnvFree(t) = f[N]
      BY <1>2, FreedIsSum DEF N
    <3>2. N - 1 \in Nat /\ Len(u.vars) = N - 1
      BY <1>2, <2>1, <2>3, <2>6
    <3>3. PICK g : IsSum(g, ws, N - 1) /\ FreedByEnvFree(u) = g[N - 1]
      BY <2>6, <3>2, FreedIsSum
    <3> DEFINE vs == t.vars
    <3>4. /\ IsSum(f, vs, N) /\ IsSum(g, ws, N - 1) /\ N \in Nat /\ i \in 1..N
          /\ \A n \in 1..(N - 1) : ws[n] = IF n < i THEN vs[n] ELSE vs[n + 1]
      BY <1>2, <2>1, <2>3, <3>1, <3>3
    <3> HIDE DEF vs
    <3>5. g[N - 1] = f[N] - Strings(vs[i].val)
      BY ONLY <3>4, SumShift
    <3>6. QED
      BY <1>2, <3>1, <3>3, <3>5 DEF vs, strs
  <2>8. Len(u.vars) < u.cap /\ Counted(u)
    BY <1>2, <2>3, <2>6, <2>7 DEF Counted
  <2>9. u \in TableOf(K, V)
    BY <2>6 DEF TableOf, S, R
  <2>10. SoundTable(u)
    BY <2>8, <2>9 DEF SoundTable, IsTable
  <2>11. QED
    BY <2>3, <2>6, <2>10 DEF u, i, N
<1>5. QED
  BY <1>3, <1>4
---------------------------------------------------------------------------
(* What is found after an operation                                        *)

LEMMA FindOfVars ==
    ASSUME NEW t, NEW u, t.vars = u.vars, NEW key
    PROVE  FindKey(t, key) = FindKey(u, key) /\ EnvGet(t, key) = EnvGet(u, key)
<1>1. FindKey(t, key) = FindKey(u, key)
  BY DEF FindKey
<1>2. QED
  BY <1>1 DEF EnvGet

LEMMA GetAt ==
    ASSUME NEW t, IsTable(t), NEW key, NEW p \in 1..Len(t.vars), t.vars[p].key = key,
           \A q \in 1..Len(t.vars) : q < p => t.vars[q].key # key
    PROVE  FindKey(t, key) = p /\ EnvGet(t, key) = t.vars[p].val
<1>1. DOMAIN t.vars = 1..Len(t.vars) /\ Len(t.vars) \in Nat
  BY TableShape
<1>2. FindKey(t, key) # 0
  BY <1>1, FindKeyFirst
<1>3. /\ FindKey(t, key) \in 1..Len(t.vars) /\ t.vars[FindKey(t, key)].key = key
      /\ FindKey(t, key) <= p
  BY <1>1, <1>2, FindKeyFirst
<1>4. FindKey(t, key) = p
  BY <1>1, <1>3
<1>5. QED
  BY <1>3, <1>4 DEF EnvGet

LEMMA GetAbsent ==
    ASSUME NEW t, IsTable(t), NEW key, \A q \in 1..Len(t.vars) : t.vars[q].key # key
    PROVE  FindKey(t, key) = 0 /\ EnvGet(t, key) = NULL
<1>1. FindKey(t, key) = 0
  BY FindKeyFirst
<1>2. QED
  BY <1>1 DEF EnvGet

\* A name is found in a table as in another one whose variables have its names
\* and, where the name is this one, its values.
LEMMA GetSame ==
    ASSUME NEW t, NEW u, IsTable(t), IsTable(u), NEW key,
           Len(t.vars) <= Len(u.vars),
           \A n \in 1..Len(t.vars) :
               /\ u.vars[n].key = t.vars[n].key
               /\ t.vars[n].key = key => u.vars[n] = t.vars[n],
           \A n \in 1..Len(u.vars) : n > Len(t.vars) => u.vars[n].key # key
    PROVE  EnvGet(u, key) = EnvGet(t, key)
<1>1. Len(t.vars) \in Nat /\ Len(u.vars) \in Nat /\ DOMAIN t.vars = 1..Len(t.vars)
  BY TableShape
<1>2. CASE FindKey(t, key) = 0
  <2>1. \A n \in 1..Len(t.vars) : t.vars[n].key # key
    BY <1>1, <1>2, FindKeyFirst
  <2>2. \A n \in 1..Len(u.vars) : u.vars[n].key # key
    BY <1>1, <2>1
  <2>3. QED
    BY <2>1, <2>2, GetAbsent
<1>3. CASE FindKey(t, key) # 0
  <2> DEFINE p == FindKey(t, key)
  <2>1. /\ p \in 1..Len(t.vars) /\ t.vars[p].key = key
        /\ \A n \in 1..Len(t.vars) : t.vars[n].key = key => p <= n
    BY <1>1, <1>3, FindKeyFirst
  <2> HIDE DEF p
  <2>2. p \in 1..Len(u.vars) /\ u.vars[p] = t.vars[p]
    BY <1>1, <2>1
  <2>3. \A n \in 1..Len(u.vars) : n < p => u.vars[n].key # key
    BY <1>1, <2>1
  <2>4. \A n \in 1..Len(t.vars) : n < p => t.vars[n].key # key
    BY <1>1, <2>1
  <2>5. EnvGet(u, key) = u.vars[p].val
    BY <2>1, <2>2, <2>3, GetAt
  <2>6. EnvGet(t, key) = t.vars[p].val
    BY <2>1, <2>4, GetAt
  <2>7. QED
    BY <2>2, <2>5, <2>6
<1>4. QED
  BY <1>2, <1>3

\* A value that is set is found, and the other names are as they were.
LEMMA GetAfterSet ==
    ASSUME NEW t, SoundTable(t), NEW key, NEW val, val # NULL
    PROVE  LET u == EnvSet(t, key, val, "none")
           IN /\ EnvGet(u, key) = val
              /\ \A k : k # key => EnvGet(u, k) = EnvGet(t, k)
<1> DEFINE u == EnvSet(t, key, val, "none")
           N == Len(t.vars)
<1>1. SoundTable(u) /\ IsTable(u) /\ IsTable(t) /\ N \in Nat /\ DOMAIN t.vars = 1..N
  BY EnvSetSound, TableShape DEF SoundTable
<1>2. CASE FindKey(t, key) = 0
  <2> DEFINE g == Grown(t)
  <2>1. SoundTable(g) /\ g.vars = t.vars /\ Len(g.vars) + 1 < g.cap
    BY GrownSound
  <2>2. u = Pushed(g, key, val)
    BY <1>2 DEF EnvSet, SetNew
  <2> HIDE DEF g, u
  <2>3. /\ Len(u.vars) = N + 1 /\ u.vars[N + 1] = [key |-> key, val |-> val]
        /\ \A n \in 1..N : u.vars[n] = t.vars[n]
    BY <2>1, <2>2, PushedSound
  <2>4. \A n \in 1..N : t.vars[n].key # key
    BY <1>1, <1>2, FindKeyFirst
  <2> HIDE DEF N
  <2>5. EnvGet(u, key) = val
    <3>1. N + 1 \in 1..Len(u.vars) /\ u.vars[N + 1].key = key /\ u.vars[N + 1].val = val
      BY <1>1, <2>3
    <3>2. \A q \in 1..Len(u.vars) : q < N + 1 => u.vars[q].key # key
      BY <1>1, <2>3, <2>4
    <3>3. EnvGet(u, key) = u.vars[N + 1].val
      BY <1>1, <3>1, <3>2, GetAt
    <3>4. QED
      BY <3>1, <3>3
  <2>6. ASSUME NEW k, k # key PROVE EnvGet(u, k) = EnvGet(t, k)
    <3>1. /\ Len(t.vars) <= Len(u.vars)
          /\ \A n \in 1..Len(t.vars) : u.vars[n] = t.vars[n]
      BY <1>1, <2>3 DEF N
    <3>2. \A n \in 1..Len(u.vars) : n > Len(t.vars) => n = N + 1
      BY <1>1, <2>3 DEF N
    <3>3. \A n \in 1..Len(u.vars) : n > Len(t.vars) => u.vars[n].key # k
      BY <2>3, <2>6, <3>2
    <3>4. QED
      BY <1>1, <3>1, <3>3, GetSame
  <2>7. QED
    BY <2>5, <2>6 DEF u
<1>3. CASE FindKey(t, key) # 0
  <2> DEFINE p == FindKey(t, key)
  <2>1. /\ p \in 1..N /\ t.vars[p].key = key
        /\ \A n \in 1..N : t.vars[n].key = key => p <= n
    BY <1>1, <1>3, FindKeyFirst
  <2>2. u = Overwritten(t, p, val, "none")
    BY <1>3 DEF EnvSet
  <2> HIDE DEF p, u, N
  <2>3. /\ Len(u.vars) = N /\ u.vars[p].val = val
        /\ \A n \in 1..N : u.vars[n].key = t.vars[n].key /\ (n # p => u.vars[n] = t.vars[n])
    BY <2>1, <2>2, OverwrittenSound DEF N
  <2>4. EnvGet(u, key) = val
    <3>1. \A q \in 1..N : q < p => u.vars[q].key # key
      BY <1>1, <2>1, <2>3
    <3>2. p \in 1..Len(u.vars) /\ u.vars[p].key = key
      BY <2>1, <2>3
    <3>3. EnvGet(u, key) = u.vars[p].val
      BY <1>1, <2>3, <3>1, <3>2, GetAt
    <3>4. QED
      BY <2>3, <3>3
  <2>5. ASSUME NEW k, k # key PROVE EnvGet(u, k) = EnvGet(t, k)
    <3>1. Len(t.vars) = N /\ Len(u.vars) = N /\ Len(t.vars) <= Len(u.vars)
      BY <1>1, <2>3 DEF N
    <3>2. \A n \in 1..Len(t.vars) : /\ u.vars[n].key = t.vars[n].key
                                    /\ t.vars[n].key = k => u.vars[n] = t.vars[n]
      BY <2>1, <2>3, <2>5, <3>1
    <3>3. \A n \in 1..Len(u.vars) : n > Len(t.vars) => u.vars[n].key # k
      BY <1>1, <3>1
    <3>4. QED
      BY <1>1, <3>1, <3>2, <3>3, GetSame
  <2>6. QED
    BY <2>4, <2>5 DEF u
<1>4. QED
  BY <1>2, <1>3

---------------------------------------------------------------------------
(* No name twice                                                           *)

Distinct(t) ==
    \A p, q \in DOMAIN t.vars : t.vars[p].key = t.vars[q].key => p = q

LEMMA PushedDistinct ==
    ASSUME NEW t, SoundTable(t), Distinct(t), NEW key, NEW val,
           \A n \in 1..Len(t.vars) : t.vars[n].key # key
    PROVE  Distinct(Pushed(Grown(t), key, val))
<1> DEFINE g == Grown(t)
           u == Pushed(g, key, val)
           N == Len(t.vars)
<1>1. SoundTable(g) /\ g.vars = t.vars /\ Len(g.vars) + 1 < g.cap
  BY GrownSound
<1>2. /\ SoundTable(u) /\ Len(u.vars) = N + 1 /\ u.vars[N + 1] = [key |-> key, val |-> val]
      /\ \A n \in 1..N : u.vars[n] = t.vars[n]
  BY <1>1, PushedSound
<1> HIDE DEF u
<1>3. DOMAIN u.vars = 1..(N + 1) /\ N \in Nat /\ DOMAIN t.vars = 1..N
  BY <1>2, TableShape DEF SoundTable
<1> HIDE DEF N
<1>4. u.vars[N + 1].key = key /\ \A n \in 1..N : u.vars[n].key # key
  BY <1>2 DEF N
<1>5. \A p, q \in 1..N : u.vars[p].key = u.vars[q].key => p = q
  BY <1>2, <1>3 DEF Distinct
<1>6. \A p \in 1..(N + 1) : p \in 1..N \/ p = N + 1
  BY <1>3
<1>7. Distinct(u)
  BY <1>3, <1>4, <1>5, <1>6 DEF Distinct
<1>8. QED
  BY <1>7 DEF u

LEMMA EnvSetDistinct ==
    ASSUME NEW t, SoundTable(t), Distinct(t), NEW key, NEW val, NEW fail
    PROVE  Distinct(EnvSet(t, key, val, fail))
<1>1. IsTable(t) /\ DOMAIN t.vars = 1..Len(t.vars)
  BY TableShape DEF SoundTable
<1>2. CASE FindKey(t, key) = 0
  <2>1. \A n \in 1..Len(t.vars) : t.vars[n].key # key
    BY <1>1, <1>2, FindKeyFirst
  <2>2. Distinct(Pushed(Grown(t), key, val))
    BY <2>1, PushedDistinct
  <2>3. Distinct(Grown(t))
    BY GrownSound DEF Distinct
  <2>4. QED
    BY <1>2, <2>2, <2>3 DEF EnvSet, SetNew
<1>3. CASE FindKey(t, key) # 0 /\ val # NULL
  <2> DEFINE u == Overwritten(t, FindKey(t, key), val, fail)
  <2>1. FindKey(t, key) \in 1..Len(t.vars)
    BY <1>1, <1>3, FindKeyFirst
  <2>2. /\ SoundTable(u) /\ Len(u.vars) = Len(t.vars)
        /\ \A n \in 1..Len(t.vars) : u.vars[n].key = t.vars[n].key
    BY <2>1, OverwrittenSound
  <2>3. EnvSet(t, key, val, fail) = u
    BY <1>3 DEF EnvSet
  <2> HIDE DEF u
  <2>4. DOMAIN u.vars = 1..Len(t.vars)
    BY <2>2, TableShape DEF SoundTable
  <2>5. QED
    BY <1>1, <2>2, <2>3, <2>4 DEF Distinct
<1>4. CASE FindKey(t, key) # 0 /\ val = NULL
  BY <1>4 DEF EnvSet
<1>5. QED
  BY <1>2, <1>3, <1>4

LEMMA EnvUnsetDistinct ==
    ASSUME NEW t, SoundTable(t), Distinct(t), NEW key
    PROVE  Distinct(EnvUnset(t, key))
<1> DEFINE i == FindKey(t, key)
           u == EnvUnset(t, key)
           N == Len(t.vars)
<1>1. IsTable(t) /\ DOMAIN t.vars = 1..N /\ N \in Nat
  BY TableShape DEF SoundTable
<1>2. CASE i = 0
  BY <1>2 DEF EnvUnset
<1>3. CASE i # 0
  <2>1. /\ SoundTable(u) /\ Len(u.vars) = N - 1
        /\ \A n \in 1..(N - 1) : u.vars[n] = IF n < i THEN t.vars[n] ELSE t.vars[n + 1]
    BY <1>3, EnvUnsetSound
  <2>2. i \in 1..N
    BY <1>1, <1>3, FindKeyFirst
  <2> HIDE DEF u, i, N
  <2>3. DOMAIN u.vars = 1..(N - 1)
    BY <2>1, TableShape DEF SoundTable
  <2>4. SUFFICES ASSUME NEW p \in 1..(N - 1), NEW q \in 1..(N - 1),
                        u.vars[p].key = u.vars[q].key
                 PROVE  p = q
    BY <2>3 DEF Distinct, u
  <2> DEFINE a == IF p < i THEN p ELSE p + 1
             b == IF q < i THEN q ELSE q + 1
  <2>5. u.vars[p] = t.vars[a] /\ u.vars[q] = t.vars[b]
    BY <2>1
  <2>6. a \in 1..N /\ b \in 1..N /\ (a = b => p = q)
    BY <1>1, <2>2
  <2> HIDE DEF a, b
  <2>7. a = b
    BY <1>1, <2>4, <2>5, <2>6 DEF Distinct
  <2>8. QED
    BY <2>6, <2>7
<1>4. QED
  BY <1>2, <1>3
---------------------------------------------------------------------------
(* The sorts of names and values a table holds                             *)

Holds(t, K, V) ==
    /\ IsTable(t)
    /\ \A n \in 1..Len(t.vars) : t.vars[n].key \in K /\ t.vars[n].val \in V

LEMMA TableHolds ==
    ASSUME NEW t, Holds(t, Texts, Texts \cup {NULL})
    PROVE  t \in Table
<1>1. PICK K, V : t \in TableOf(K, V)
  BY DEF Holds, IsTable
<1> DEFINE vs == t.vars
<1>2. vs \in Seq(VarOf(K, V)) /\ t.cap \in Nat /\ t.strs \in Int
      /\ t = [vars |-> vs, cap |-> t.cap, strs |-> t.strs]
  BY <1>1 DEF TableOf
<1>3. \A n \in 1..Len(vs) : vs[n].key \in Texts /\ vs[n].val \in Texts \cup {NULL}
  BY DEF Holds
<1> HIDE DEF vs
<1>4. \A n \in 1..Len(vs) : vs[n] \in Var
  <2>1. SUFFICES ASSUME NEW n \in 1..Len(vs) PROVE vs[n] \in Var
    OBVIOUS
  <2>2. vs[n] \in VarOf(K, V)
    BY <1>2
  <2> DEFINE v == vs[n]
  <2>3. v \in [key : K, val : V] /\ v.key \in Texts /\ v.val \in Texts \cup {NULL}
    BY <1>3, <2>2 DEF VarOf
  <2> HIDE DEF v
  <2>4. v \in Var
    BY <2>3 DEF Var
  <2>5. QED
    BY <2>4 DEF v
<1>5. vs \in Seq(Var)
  <2>1. Len(vs) \in Nat /\ vs = [n \in 1..Len(vs) |-> vs[n]]
    BY <1>2
  <2> HIDE DEF Var
  <2>2. [n \in 1..Len(vs) |-> vs[n]] \in Seq(Var)
    BY <1>4, <2>1
  <2>3. QED
    BY <2>1, <2>2
<1>6. QED
  BY <1>2, <1>5 DEF Table

LEMMA EmptyHolds == \A K, V : Holds(EmptyTable, K, V)
<1>1. IsTable(EmptyTable) /\ EmptyTable.vars = <<>>
  BY EmptyTableSound DEF SoundTable, EmptyTable
<1>2. QED
  BY <1>1 DEF Holds

LEMMA SameHolds ==
    ASSUME NEW K, NEW V, NEW t, Holds(t, K, V), NEW u, IsTable(u), u.vars = t.vars
    PROVE  Holds(u, K, V)
BY DEF Holds

LEMMA PushedHolds ==
    ASSUME NEW K, NEW V, NEW t, SoundTable(t), Holds(t, K, V), NEW key \in K, NEW val \in V
    PROVE  Holds(Pushed(Grown(t), key, val), K, V)
<1> DEFINE g == Grown(t)
           u == Pushed(g, key, val)
           N == Len(t.vars)
<1>1. SoundTable(g) /\ g.vars = t.vars /\ Len(g.vars) + 1 < g.cap
  BY GrownSound
<1>2. /\ SoundTable(u) /\ Len(u.vars) = N + 1 /\ u.vars[N + 1] = [key |-> key, val |-> val]
      /\ \A n \in 1..N : u.vars[n] = t.vars[n]
  BY <1>1, PushedSound
<1>3. N \in Nat /\ IsTable(u)
  BY <1>2, TableShape DEF SoundTable
<1> HIDE DEF u, N
<1>4. \A n \in 1..(N + 1) : n \in 1..N \/ n = N + 1
  BY <1>3
<1>5. \A n \in 1..N : t.vars[n].key \in K /\ t.vars[n].val \in V
  BY DEF Holds, N
<1>6. u.vars[N + 1].key = key /\ u.vars[N + 1].val = val
  BY <1>2
<1>7. QED
  BY <1>2, <1>3, <1>4, <1>5, <1>6 DEF Holds, u

LEMMA EnvSetHolds ==
    ASSUME NEW K, NEW V, NEW t, SoundTable(t), Holds(t, K, V), NEW key \in K, NEW val \in V,
           NULL \in V, NEW fail
    PROVE  Holds(EnvSet(t, key, val, fail), K, V)
<1>1. IsTable(t) /\ Len(t.vars) \in Nat
  BY TableShape DEF SoundTable
<1>2. CASE FindKey(t, key) = 0
  <2>1. Holds(Pushed(Grown(t), key, val), K, V)
    BY PushedHolds
  <2>2. Holds(Grown(t), K, V)
    BY GrownSound, SameHolds DEF SoundTable
  <2>3. QED
    BY <1>2, <2>1, <2>2 DEF EnvSet, SetNew
<1>3. CASE FindKey(t, key) # 0 /\ val # NULL
  <2> DEFINE p == FindKey(t, key)
             u == Overwritten(t, p, val, fail)
  <2>1. p \in 1..Len(t.vars)
    BY <1>1, <1>3, FindKeyFirst
  <2>2. /\ SoundTable(u) /\ Len(u.vars) = Len(t.vars)
        /\ u.vars[p].val = IF fail = "val" THEN NULL ELSE val
        /\ \A n \in 1..Len(t.vars) : /\ u.vars[n].key = t.vars[n].key
                                     /\ n # p => u.vars[n] = t.vars[n]
    BY <2>1, OverwrittenSound
  <2>3. EnvSet(t, key, val, fail) = u
    BY <1>3 DEF EnvSet
  <2> HIDE DEF u, p
  <2>4. \A n \in 1..Len(t.vars) : u.vars[n].key \in K /\ u.vars[n].val \in V
    <3>1. \A n \in 1..Len(t.vars) : t.vars[n].key \in K /\ t.vars[n].val \in V
      BY DEF Holds
    <3>2. u.vars[p].val \in V
      BY <2>2
    <3>3. QED
      BY <2>2, <3>1, <3>2
  <2>5. QED
    BY <2>2, <2>3, <2>4 DEF Holds, SoundTable
<1>4. CASE FindKey(t, key) # 0 /\ val = NULL
  BY <1>4 DEF EnvSet
<1>5. QED
  BY <1>2, <1>3, <1>4

LEMMA EnvUnsetHolds ==
    ASSUME NEW K, NEW V, NEW t, SoundTable(t), Holds(t, K, V), NEW key
    PROVE  Holds(EnvUnset(t, key), K, V)
<1> DEFINE i == FindKey(t, key)
           u == EnvUnset(t, key)
           N == Len(t.vars)
<1>1. IsTable(t) /\ N \in Nat
  BY TableShape DEF SoundTable
<1>2. CASE i = 0
  BY <1>2 DEF EnvUnset
<1>3. CASE i # 0
  <2>1. /\ SoundTable(u) /\ Len(u.vars) = N - 1
        /\ \A n \in 1..(N - 1) : u.vars[n] = IF n < i THEN t.vars[n] ELSE t.vars[n + 1]
    BY <1>3, EnvUnsetSound
  <2>2. i \in 1..N
    BY <1>1, <1>3, FindKeyFirst
  <2>3. \A n \in 1..N : t.vars[n].key \in K /\ t.vars[n].val \in V
    BY DEF Holds
  <2> HIDE DEF u, i, N
  <2>4. \A n \in 1..(N - 1) : n \in 1..N /\ n + 1 \in 1..N
    BY <1>1, <2>2
  <2>5. QED
    BY <2>1, <2>3, <2>4 DEF Holds, SoundTable, u
<1>4. QED
  BY <1>2, <1>3

\* The entry of env_init: what the table's variables are then.
LEMMA InitOneIs ==
    ASSUME NEW t, SoundTable(t), NEW entry, NEW fail
    PROVE  LET u == InitOne(t, entry, fail)
           IN \/ IsTable(u) /\ u.vars = t.vars
              \/ u = Pushed(Grown(t), entry.key, entry.val) /\ entry.val # NULL
<1> DEFINE g == Grown(t)
           u == InitOne(t, entry, fail)
<1>1. g.vars = t.vars /\ SoundTable(g)
  BY GrownSound
<1>2. [g EXCEPT !.strs = @ + 1].vars = g.vars
  <2>1. PICK K, V : g \in TableOf(K, V)
    BY <1>1 DEF SoundTable, IsTable
  <2>2. QED
    BY <2>1 DEF TableOf
<1>3. \/ u = t
      \/ u = g
      \/ u = [g EXCEPT !.strs = @ + 1]
      \/ u = Pushed(g, entry.key, entry.val) /\ entry.val # NULL
  BY Zenon DEF InitOne
<1>4. IsTable(u)
  BY InitOneSound
<1>5. QED
  BY <1>1, <1>2, <1>3, <1>4

LEMMA InitOneHolds ==
    ASSUME NEW K, NEW V, NEW t, SoundTable(t), Holds(t, K, V), NEW entry, NEW fail,
           entry.val # NULL => entry.key \in K /\ entry.val \in V
    PROVE  Holds(InitOne(t, entry, fail), K, V)
BY InitOneIs, SameHolds, PushedHolds

LEMMA EnvGetHolds ==
    ASSUME NEW K, NEW V, NEW t, Holds(t, K, V), NEW key
    PROVE  EnvGet(t, key) \in V \cup {NULL}
<1>1. IsTable(t)
  BY DEF Holds
<1>2. FindKey(t, key) # 0 => FindKey(t, key) \in 1..Len(t.vars)
  BY <1>1, FindKeyFirst
<1>3. QED
  BY <1>2 DEF EnvGet, Holds
---------------------------------------------------------------------------
(* The elements kept of a sequence                                         *)

IsKept(f, s, places, N) ==
    f = [n \in 0..N |-> IF n = 0 THEN <<>>
                        ELSE IF n \in places THEN Append(f[n - 1], s[n]) ELSE f[n - 1]]

LEMMA KeptStep ==
    ASSUME NEW f, NEW s, NEW places, NEW N \in Nat, IsKept(f, s, places, N)
    PROVE  /\ f[0] = <<>>
           /\ \A n \in 1..N : n \in places => f[n] = Append(f[n - 1], s[n])
           /\ \A n \in 1..N : n \notin places => f[n] = f[n - 1]
<1>1. \A n \in 0..N : f[n] = IF n = 0 THEN <<>>
                             ELSE IF n \in places THEN Append(f[n - 1], s[n]) ELSE f[n - 1]
  BY Zenon DEF IsKept
<1>2. 0 \in 0..N /\ \A n \in 1..N : n \in 0..N /\ n # 0
  OBVIOUS
<1>3. QED
  BY <1>1, <1>2, Zenon

LEMMA KeptExists ==
    ASSUME NEW s, NEW places, NEW N \in Nat
    PROVE  \E f : IsKept(f, s, places, N)
<1> DEFINE T == {n \in Nat : \E f : IsKept(f, s, places, n)}
<1>1. 0 \in T
  <2> DEFINE v == [n \in 0..0 |-> <<>>]
  <2>1. v = [n \in 0..0 |-> IF n = 0 THEN <<>>
                            ELSE IF n \in places THEN Append(v[n - 1], s[n]) ELSE v[n - 1]]
    OBVIOUS
  <2>2. IsKept(v, s, places, 0)
    BY <2>1 DEF IsKept
  <2> HIDE DEF v
  <2>3. QED
    BY <2>2
<1>2. ASSUME NEW m \in Nat, m \in T PROVE m + 1 \in T
  <2>1. PICK f : IsKept(f, s, places, m)
    BY <1>2
  <2> DEFINE Next1(g, n) == IF n \in places THEN Append(g[n - 1], s[n]) ELSE g[n - 1]
  <2>2. \A n \in 0..m : f[n] = IF n = 0 THEN <<>> ELSE Next1(f, n)
    BY <2>1, Zenon DEF IsKept
  <2> DEFINE g == [n \in 0..(m + 1) |-> IF n = m + 1 THEN Next1(f, m + 1) ELSE f[n]]
             h == [n \in 0..(m + 1) |-> IF n = 0 THEN <<>> ELSE Next1(g, n)]
  <2>3. \A n \in 0..(m + 1) : h[n] = g[n]
    <3>1. SUFFICES ASSUME NEW n \in 0..(m + 1)
                   PROVE  g[n] = IF n = 0 THEN <<>> ELSE Next1(g, n)
      OBVIOUS
    <3>2. CASE n = m + 1
      <4>1. n - 1 \in 0..(m + 1) /\ n - 1 # m + 1 /\ n # 0 /\ (m + 1) - 1 = n - 1
        BY <3>2
      <4>2. g[n - 1] = f[n - 1]
        BY <4>1
      <4>3. g[n] = Next1(f, n)
        BY <3>2
      <4> HIDE DEF g
      <4>4. Next1(f, n) = Next1(g, n)
        BY <4>2
      <4>5. QED
        BY <4>1, <4>3, <4>4
    <3>3. CASE n # m + 1
      <4>1. n \in 0..m /\ (n # 0 => n - 1 \in 0..(m + 1) /\ n - 1 # m + 1)
        BY <3>3
      <4>2. g[n] = f[n] /\ (n # 0 => g[n - 1] = f[n - 1])
        BY <3>3, <4>1
      <4> HIDE DEF g
      <4>3. QED
        BY <2>2, <4>1, <4>2
    <3>4. QED
      BY <3>2, <3>3
  <2>4. g = [n \in 0..(m + 1) |-> g[n]] /\ h = [n \in 0..(m + 1) |-> h[n]]
    OBVIOUS
  <2>5. g = h
    <3> HIDE DEF g, h
    <3>1. QED
      BY <2>3, <2>4
  <2>6. IsKept(g, s, places, m + 1)
    <3>1. g = [n \in 0..(m + 1) |-> IF n = 0 THEN <<>> ELSE Next1(g, n)]
      <4> HIDE DEF g
      <4>1. QED
        BY <2>5, Zenon DEF h
    <3> HIDE DEF g
    <3>2. QED
      BY <3>1, Zenon DEF IsKept
  <2> HIDE DEF g
  <2>7. QED
    BY <2>6
<1> HIDE DEF T
<1>3. Nat \subseteq T
  BY <1>1, <1>2, AllNaturals
<1>4. QED
  BY <1>3 DEF T

LEMMA KeptIs ==
    ASSUME NEW s, NEW places, Len(s) \in Nat
    PROVE  \E f : IsKept(f, s, places, Len(s)) /\ Kept(s, places) = f[Len(s)]
<1> DEFINE F == CHOOSE f : IsKept(f, s, places, Len(s))
<1>1. IsKept(F, s, places, Len(s))
  BY KeptExists
<1>2. Kept(s, places) = F[Len(s)]
  BY Zenon DEF Kept, IsKept
<1>3. QED
  BY <1>1, <1>2

LEMMA KeptType ==
    ASSUME NEW f, NEW s, NEW places, NEW N \in Nat, IsKept(f, s, places, N),
           NEW R, \A n \in 1..N : s[n] \in R
    PROVE  \A n \in 0..N : f[n] \in Seq(R)
<1> DEFINE T == {n \in Nat : n \in 0..N => f[n] \in Seq(R)}
<1>1. 0 \in T
  <2>1. f[0] = <<>>
    BY KeptStep
  <2>2. <<>> \in Seq(R)
    OBVIOUS
  <2>3. f[0] \in Seq(R)
    BY <2>1, <2>2
  <2>4. QED
    BY <2>3
<1>2. ASSUME NEW n \in Nat, n \in T PROVE n + 1 \in T
  <2>1. CASE n + 1 \in 0..N
    <3>1. n \in 0..N /\ n + 1 \in 1..N /\ (n + 1) - 1 = n
      BY <2>1
    <3>2. f[n] \in Seq(R) /\ s[n + 1] \in R
      BY <1>2, <3>1
    <3>3. f[n + 1] = Append(f[n], s[n + 1]) \/ f[n + 1] = f[n]
      BY <3>1, KeptStep
    <3> DEFINE x == s[n + 1]
               y == f[n]
    <3>4. y \in Seq(R) /\ x \in R /\ (f[n + 1] = Append(y, x) \/ f[n + 1] = y)
      BY <3>2, <3>3
    <3> HIDE DEF x, y
    <3>5. f[n + 1] \in Seq(R)
      BY <3>4
    <3>6. QED
      BY <3>5
  <2>2. QED
    BY <2>1
<1> HIDE DEF T
<1>3. Nat \subseteq T
  BY <1>1, <1>2, AllNaturals
<1>4. QED
  BY <1>3 DEF T

\* The elements of a are those of s at these places, each after those of the
\* places before its own.
InOrder(a, s, places, N) ==
    /\ \A j \in 1..Len(a) : \E q \in 1..N : q \in places /\ a[j] = s[q]
    /\ \A p \in 1..N : p \in places =>
           \E j \in 1..Len(a) :
               /\ a[j] = s[p]
               /\ \A k \in 1..(j - 1) : \E q \in 1..(p - 1) : q \in places /\ a[k] = s[q]

LEMMA KeptOrder ==
    ASSUME NEW f, NEW s, NEW places, NEW N \in Nat, IsKept(f, s, places, N),
           NEW R, \A n \in 1..N : s[n] \in R
    PROVE  InOrder(f[N], s, places, N)
<1> DEFINE From(n)  == \A j \in 1..Len(f[n]) : \E q \in 1..n : q \in places /\ f[n][j] = s[q]
           At(n, p) == \E j \in 1..Len(f[n]) :
                          /\ f[n][j] = s[p]
                          /\ \A k \in 1..(j - 1) : \E q \in 1..(p - 1) :
                                 q \in places /\ f[n][k] = s[q]
           Good(n)  == From(n) /\ \A p \in 1..n : p \in places => At(n, p)
           T == {n \in Nat : n \in 0..N => Good(n)}
<1>1. 0 \in T
  <2>1. f[0] = <<>> /\ Len(<<>>) = 0
    BY KeptStep
  <2>2. Len(f[0]) = 0
    BY <2>1
  <2>3. QED
    BY <2>2
<1>2. ASSUME NEW n \in Nat, n \in T PROVE n + 1 \in T
  <2> HIDE DEF Good
  <2>1. SUFFICES ASSUME n + 1 \in 0..N PROVE Good(n + 1)
    OBVIOUS
  <2>2. n \in 0..N /\ n + 1 \in 1..N /\ (n + 1) - 1 = n
    BY <2>1
  <2>3. Good(n)
    BY <1>2, <2>2
  <2> USE DEF Good
  <2>4. f[n] \in Seq(R) /\ s[n + 1] \in R
    BY <2>2, KeptType
  <2>5. CASE n + 1 \notin places
    <3>1. f[n + 1] = f[n]
      BY <2>2, <2>5, KeptStep
    <3>2. From(n + 1)
      BY <2>3, <3>1
    <3>3. \A p \in 1..(n + 1) : p \in places => p \in 1..n
      BY <2>5
    <3>4. \A p \in 1..(n + 1) : p \in places => At(n + 1, p)
      <4>1. SUFFICES ASSUME NEW p \in 1..(n + 1), p \in places PROVE At(n + 1, p)
        OBVIOUS
      <4>2. At(n, p)
        BY <2>3, <3>3, <4>1
      <4>3. QED
        BY <3>1, <4>2
    <3>5. QED
      BY <3>2, <3>4
  <2>6. CASE n + 1 \in places
    <3> DEFINE a == f[n]
               b == f[n + 1]
               L == Len(a)
               x == s[n + 1]
    <3>1. b = Append(a, x)
      BY <2>2, <2>6, KeptStep
    <3>2. a \in Seq(R) /\ x \in R
      BY <2>4
    <3>3. L \in Nat /\ Len(b) = L + 1 /\ b[L + 1] = x /\ \A j \in 1..L : b[j] = a[j]
      <4> HIDE DEF a, b, x
      <4>1. QED
        BY <3>1, <3>2
    <3>4. \A j \in 1..L : \E q \in 1..n : q \in places /\ a[j] = s[q]
      BY <2>3
    <3>5. \A p \in 1..n : p \in places =>
              \E j \in 1..L : /\ a[j] = s[p]
                              /\ \A k \in 1..(j - 1) : \E q \in 1..(p - 1) :
                                     q \in places /\ a[k] = s[q]
      BY <2>3
    <3> HIDE DEF a, b, L
    <3>6. ASSUME NEW j \in 1..Len(b) PROVE \E q \in 1..(n + 1) : q \in places /\ b[j] = s[q]
      <4>1. CASE j = L + 1
        <5>1. n + 1 \in 1..(n + 1)
          OBVIOUS
        <5>2. QED
          BY <2>6, <3>3, <4>1, <5>1
      <4>2. CASE j # L + 1
        <5>1. j \in 1..L
          BY <3>3, <4>2
        <5>2. PICK q \in 1..n : q \in places /\ a[j] = s[q]
          BY <3>4, <5>1
        <5>3. q \in 1..(n + 1) /\ b[j] = s[q]
          BY <3>3, <5>1, <5>2
        <5>4. QED
          BY <5>2, <5>3
      <4>3. QED
        BY <4>1, <4>2
    <3>7. ASSUME NEW p \in 1..(n + 1), p \in places
          PROVE  \E j \in 1..Len(b) : /\ b[j] = s[p]
                                      /\ \A k \in 1..(j - 1) : \E q \in 1..(p - 1) :
                                             q \in places /\ b[k] = s[q]
      <4>1. CASE p = n + 1
        <5>1. L + 1 \in 1..Len(b) /\ (L + 1) - 1 = L /\ p - 1 = n
          BY <3>3, <4>1
        <5>2. \A k \in 1..L : \E q \in 1..n : q \in places /\ b[k] = s[q]
          BY <3>3, <3>4
        <5>3. b[L + 1] = s[p]
          BY <3>3, <4>1
        <5>4. QED
          BY <5>1, <5>2, <5>3
      <4>2. CASE p # n + 1
        <5>1. p \in 1..n
          BY <4>2
        <5>2. PICK j \in 1..L : /\ a[j] = s[p]
                                /\ \A k \in 1..(j - 1) : \E q \in 1..(p - 1) :
                                       q \in places /\ a[k] = s[q]
          BY <3>5, <3>7, <5>1
        <5>3. j \in 1..Len(b) /\ b[j] = s[p] /\ \A k \in 1..(j - 1) : k \in 1..L
          BY <3>3, <5>2
        <5>4. \A k \in 1..(j - 1) : \E q \in 1..(p - 1) : q \in places /\ b[k] = s[q]
          BY <3>3, <5>2, <5>3
        <5>5. QED
          BY <5>3, <5>4
      <4>3. QED
        BY <4>1, <4>2
    <3>8. QED
      BY <3>6, <3>7 DEF b
  <2>7. QED
    BY <2>5, <2>6
<1> HIDE DEF T, Good
<1>3. Nat \subseteq T
  BY <1>1, <1>2, AllNaturals
<1>4. Good(N)
  <2>1. N \in T /\ N \in 0..N
    BY <1>3
  <2>2. QED
    BY <2>1 DEF T
<1>5. QED
  BY <1>4, Zenon DEF Good, InOrder

\* Where two sequences have the same elements at the same places.
LEMMA KeptSame ==
    ASSUME NEW f, NEW s, NEW P, NEW A \in Nat, IsKept(f, s, P, A),
           NEW g, NEW r, NEW Q, NEW B \in Nat, IsKept(g, r, Q, B),
           NEW N \in Nat, N <= A, N <= B,
           \A n \in 1..N : (n \in P <=> n \in Q) /\ (n \in P => s[n] = r[n])
    PROVE  \A n \in 0..N : f[n] = g[n]
<1> DEFINE T == {n \in 0..N : f[n] = g[n]}
<1>1. 0 \in T
  BY KeptStep
<1>2. ASSUME NEW n \in 0..(N - 1), n \in T PROVE n + 1 \in T
  <2>1. n + 1 \in 1..N /\ n + 1 \in 1..A /\ n + 1 \in 1..B /\ (n + 1) - 1 = n /\ n + 1 \in 0..N
    OBVIOUS
  <2>2. /\ n + 1 \in P => f[n + 1] = Append(f[n], s[n + 1])
        /\ n + 1 \notin P => f[n + 1] = f[n]
    BY <2>1, KeptStep
  <2>3. /\ n + 1 \in Q => g[n + 1] = Append(g[n], r[n + 1])
        /\ n + 1 \notin Q => g[n + 1] = g[n]
    BY <2>1, KeptStep
  <2>4. f[n + 1] = g[n + 1]
    BY <1>2, <2>1, <2>2, <2>3
  <2>5. QED
    BY <2>1, <2>4
<1> HIDE DEF T
<1>3. 0 \in 0..N
  OBVIOUS
<1>4. \A n \in 0..N : n \in T
  BY <1>1, <1>2, <1>3, UpTo
<1>5. QED
  BY <1>4 DEF T

LEMMA KeptNone ==
    ASSUME NEW f, NEW s, NEW P, NEW N \in Nat, IsKept(f, s, P, N), \A n \in 1..N : n \notin P
    PROVE  f[N] = <<>>
<1> DEFINE T == {n \in 0..N : f[n] = <<>>}
<1>1. 0 \in T
  BY KeptStep
<1>2. ASSUME NEW n \in 0..(N - 1), n \in T PROVE n + 1 \in T
  <2>1. n + 1 \in 1..N /\ (n + 1) - 1 = n /\ n + 1 \in 0..N
    OBVIOUS
  <2>2. f[n + 1] = f[n]
    BY <2>1, KeptStep
  <2>3. QED
    BY <1>2, <2>1, <2>2
<1> HIDE DEF T
<1>3. 0 \in 0..N /\ N \in 0..N
  OBVIOUS
<1>4. \A n \in 0..N : n \in T
  BY <1>1, <1>2, <1>3, UpTo
<1>5. QED
  BY <1>3, <1>4 DEF T

\* Nothing is kept before the first place, and one element at it.
LEMMA KeptFirst ==
    ASSUME NEW f, NEW s, NEW P, NEW N \in Nat, IsKept(f, s, P, N),
           NEW i \in 1..N, i \in P, \A n \in 1..(i - 1) : n \notin P
    PROVE  f[i - 1] = <<>> /\ f[i] = <<s[i]>>
<1> DEFINE T == {n \in 0..(i - 1) : f[n] = <<>>}
<1>1. 0 \in T
  BY KeptStep
<1>2. ASSUME NEW n \in 0..((i - 1) - 1), n \in T PROVE n + 1 \in T
  <2>1. n + 1 \in 1..N /\ (n + 1) - 1 = n /\ n + 1 \in 0..(i - 1) /\ n + 1 \in 1..(i - 1)
    OBVIOUS
  <2>2. f[n + 1] = f[n]
    BY <2>1, KeptStep
  <2>3. QED
    BY <1>2, <2>1, <2>2
<1> HIDE DEF T
<1>3. i - 1 \in Nat /\ 0 \in 0..(i - 1) /\ i - 1 \in 0..(i - 1)
  OBVIOUS
<1>4. \A n \in 0..(i - 1) : n \in T
  BY <1>1, <1>2, <1>3, UpTo
<1>5. f[i - 1] = <<>>
  BY <1>3, <1>4 DEF T
<1>6. f[i] = Append(f[i - 1], s[i])
  BY KeptStep
<1>7. QED
  BY <1>5, <1>6

\* Another first element.
LEMMA KeptOtherFirst ==
    ASSUME NEW f, NEW s, NEW g, NEW r, NEW P, NEW N \in Nat, NEW R,
           IsKept(f, s, P, N), IsKept(g, r, P, N),
           NEW i \in 1..N, i \in P, \A n \in 1..(i - 1) : n \notin P,
           \A n \in 1..N : s[n] \in R /\ r[n] \in R,
           \A n \in 1..N : n # i => s[n] = r[n]
    PROVE  f[N] # <<>> /\ g[N] # <<>> /\ Tail(f[N]) = Tail(g[N])
<1> DEFINE T == {n \in i..N : f[n] # <<>> /\ g[n] # <<>> /\ Tail(f[n]) = Tail(g[n])}
<1>1. i \in T
  <2>1. f[i] = <<s[i]>> /\ g[i] = <<r[i]>>
    BY KeptFirst
  <2> DEFINE x == s[i]
             y == r[i]
  <2>2. <<x>> # <<>> /\ <<y>> # <<>> /\ Tail(<<x>>) = <<>> /\ Tail(<<y>>) = <<>>
    OBVIOUS
  <2>3. i \in i..N
    OBVIOUS
  <2>4. QED
    BY <2>1, <2>2, <2>3
<1>2. ASSUME NEW n \in i..(N - 1), n \in T PROVE n + 1 \in T
  <2>1. n + 1 \in 1..N /\ (n + 1) - 1 = n /\ n + 1 \in i..N /\ n + 1 # i /\ n \in 0..N
    OBVIOUS
  <2> DEFINE a == f[n]
             b == g[n]
             x == s[n + 1]
  <2>2. a \in Seq(R) /\ b \in Seq(R) /\ x \in R /\ r[n + 1] = x
    BY <2>1, KeptType
  <2>3. a # <<>> /\ b # <<>> /\ Tail(a) = Tail(b)
    BY <1>2
  <2>4. \/ f[n + 1] = Append(a, x) /\ g[n + 1] = Append(b, x)
        \/ f[n + 1] = a /\ g[n + 1] = b
    BY <2>1, <2>2, KeptStep
  <2> HIDE DEF a, b, x
  <2>5. /\ Append(a, x) # <<>> /\ Append(b, x) # <<>>
        /\ Tail(Append(a, x)) = Append(Tail(a), x)
        /\ Tail(Append(b, x)) = Append(Tail(b), x)
    BY <2>2, <2>3
  <2>6. f[n + 1] # <<>> /\ g[n + 1] # <<>> /\ Tail(f[n + 1]) = Tail(g[n + 1])
    BY <2>3, <2>4, <2>5
  <2>7. QED
    BY <2>1, <2>6
<1> HIDE DEF T
<1>3. i \in 0..N /\ N \in i..N
  OBVIOUS
<1>4. \A n \in i..N : n \in T
  BY <1>1, <1>2, <1>3, UpTo
<1>5. QED
  BY <1>3, <1>4 DEF T

\* r is s without its element i, and Q the places P after that.
Shifted(r, Q, s, P, N, i) ==
    \A n \in 1..(N - 1) : IF n < i THEN (n \in Q <=> n \in P) /\ r[n] = s[n]
                                   ELSE (n \in Q <=> n + 1 \in P) /\ r[n] = s[n + 1]

\* The first N elements of s are in R.
Within(s, N, R) == \A n \in 1..N : s[n] \in R

\* i is the first of the places P.
FirstOf(i, P) == i \in P /\ \A n \in 1..(i - 1) : n \notin P

\* One place fewer: those after it move down.
LEMMA KeptShift ==
    ASSUME NEW f, NEW s, NEW P, NEW N \in Nat, NEW R, IsKept(f, s, P, N),
           Within(s, N, R),
           NEW i \in 1..N, NEW g, NEW r, NEW Q, IsKept(g, r, Q, N - 1),
           Shifted(r, Q, s, P, N, i)
    PROVE  /\ i \notin P => g[N - 1] = f[N]
           /\ FirstOf(i, P) => f[N] # <<>> /\ g[N - 1] = Tail(f[N])
<1>0. N - 1 \in Nat /\ i - 1 \in Nat /\ i - 1 <= N /\ i - 1 <= N - 1
  OBVIOUS
<1>1. g[i - 1] = f[i - 1]
  <2>1. \A n \in 1..(i - 1) : n \in 1..(N - 1) /\ n < i
    OBVIOUS
  <2>2. \A n \in 1..(i - 1) : (n \in P <=> n \in Q) /\ (n \in P => s[n] = r[n])
    BY <2>1 DEF Shifted
  <2>3. \A n \in 0..(i - 1) : f[n] = g[n]
    BY <1>0, <2>2, KeptSame
  <2>4. QED
    BY <1>0, <2>3
<1>2. ASSUME NEW n \in (i - 1)..((N - 1) - 1)
      PROVE  LET a == f[n + 1]
                 x == s[(n + 1) + 1]
             IN /\ a \in Seq(R) /\ x \in R
                /\ \/ g[n + 1] = Append(g[n], x) /\ f[(n + 1) + 1] = Append(a, x)
                   \/ g[n + 1] = g[n] /\ f[(n + 1) + 1] = a
  <2>1. /\ n + 1 \in 1..(N - 1) /\ (n + 1) - 1 = n /\ ~(n + 1 < i)
        /\ (n + 1) + 1 \in 1..N /\ ((n + 1) + 1) - 1 = n + 1 /\ n + 1 \in 0..N
    OBVIOUS
  <2>2. (n + 1 \in Q <=> (n + 1) + 1 \in P) /\ r[n + 1] = s[(n + 1) + 1]
    BY <2>1 DEF Shifted
  <2>3. /\ n + 1 \in Q => g[n + 1] = Append(g[n], r[n + 1])
        /\ n + 1 \notin Q => g[n + 1] = g[n]
    BY <1>0, <2>1, KeptStep
  <2>4. /\ (n + 1) + 1 \in P => f[(n + 1) + 1] = Append(f[n + 1], s[(n + 1) + 1])
        /\ (n + 1) + 1 \notin P => f[(n + 1) + 1] = f[n + 1]
    BY <2>1, KeptStep
  <2>5. f[n + 1] \in Seq(R) /\ s[(n + 1) + 1] \in R
    BY <2>1, KeptType DEF Within
  <2>6. QED
    BY <2>2, <2>3, <2>4, <2>5
<1>3. i - 1 \in 0..(N - 1) /\ N - 1 \in (i - 1)..(N - 1) /\ (N - 1) + 1 = N /\ (i - 1) + 1 = i
  OBVIOUS
<1>4. ASSUME i \notin P PROVE g[N - 1] = f[N]
  <2> DEFINE T == {n \in (i - 1)..(N - 1) : g[n] = f[n + 1]}
  <2>1. i - 1 \in T
    <3>1. f[i] = f[i - 1]
      BY <1>4, KeptStep
    <3>2. QED
      BY <1>1, <1>3, <3>1
  <2>2. ASSUME NEW n \in (i - 1)..((N - 1) - 1), n \in T PROVE n + 1 \in T
    <3>1. n + 1 \in (i - 1)..(N - 1)
      OBVIOUS
    <3> DEFINE a == f[n + 1]
               x == s[(n + 1) + 1]
    <3>2. /\ a \in Seq(R) /\ x \in R
          /\ \/ g[n + 1] = Append(g[n], x) /\ f[(n + 1) + 1] = Append(a, x)
             \/ g[n + 1] = g[n] /\ f[(n + 1) + 1] = a
      BY <1>2
    <3> DEFINE b == g[n]
               c == g[n + 1]
               d == f[(n + 1) + 1]
    <3>3. b = a
      BY <2>2
    <3>4. (c = Append(b, x) /\ d = Append(a, x)) \/ (c = b /\ d = a)
      BY <3>2
    <3> HIDE DEF a, b, c, d, x
    <3>5. c = d
      BY <3>3, <3>4
    <3>6. QED
      BY <3>1, <3>5 DEF c, d
  <2> HIDE DEF T
  <2>3. \A n \in (i - 1)..(N - 1) : n \in T
    BY <1>0, <1>3, <2>1, <2>2, UpTo
  <2>4. QED
    BY <1>3, <2>3 DEF T
<1>5. ASSUME FirstOf(i, P)
      PROVE  f[N] # <<>> /\ g[N - 1] = Tail(f[N])
  <2> DEFINE T == {n \in (i - 1)..(N - 1) : f[n + 1] # <<>> /\ g[n] = Tail(f[n + 1])}
  <2>1. i - 1 \in T
    <3>1. f[i - 1] = <<>> /\ f[i] = <<s[i]>>
      BY <1>5, KeptFirst DEF FirstOf
    <3> DEFINE x == s[i]
    <3>2. <<x>> # <<>> /\ Tail(<<x>>) = <<>>
      OBVIOUS
    <3>3. i - 1 \in (i - 1)..(N - 1)
      OBVIOUS
    <3>4. QED
      BY <1>1, <1>3, <3>1, <3>2, <3>3
  <2>2. ASSUME NEW n \in (i - 1)..((N - 1) - 1), n \in T PROVE n + 1 \in T
    <3>1. n + 1 \in (i - 1)..(N - 1)
      OBVIOUS
    <3> DEFINE a == f[n + 1]
               x == s[(n + 1) + 1]
    <3>2. /\ a \in Seq(R) /\ x \in R
          /\ \/ g[n + 1] = Append(g[n], x) /\ f[(n + 1) + 1] = Append(a, x)
             \/ g[n + 1] = g[n] /\ f[(n + 1) + 1] = a
      BY <1>2
    <3>3. a # <<>> /\ g[n] = Tail(a)
      BY <2>2
    <3> HIDE DEF a, x
    <3>4. Append(a, x) # <<>> /\ Tail(Append(a, x)) = Append(Tail(a), x)
      BY <3>2, <3>3
    <3>5. f[(n + 1) + 1] # <<>> /\ g[n + 1] = Tail(f[(n + 1) + 1])
      BY <3>2, <3>3, <3>4
    <3>6. QED
      BY <3>1, <3>5
  <2> HIDE DEF T
  <2>3. \A n \in (i - 1)..(N - 1) : n \in T
    BY <1>0, <1>3, <2>1, <2>2, UpTo
  <2>4. QED
    BY <1>3, <2>3 DEF T
<1>6. QED
  BY <1>4, <1>5
---------------------------------------------------------------------------
(* The values of one name                                                  *)

Vals(t)  == [p \in DOMAIN t.vars |-> t.vars[p].val]
Of(t, n) == {p \in DOMAIN t.vars : t.vars[p].key = n}

Values(t, n) == Kept(Vals(t), Of(t, n))

LEMMA ValsIs ==
    ASSUME NEW t, IsTable(t)
    PROVE  /\ Len(t.vars) \in Nat /\ DOMAIN t.vars = 1..Len(t.vars)
           /\ Len(Vals(t)) = Len(t.vars)
           /\ \A p \in 1..Len(t.vars) : Vals(t)[p] = t.vars[p].val
           /\ \A n : \A p \in 1..Len(t.vars) : p \in Of(t, n) <=> t.vars[p].key = n
<1> DEFINE N == Len(t.vars)
<1>1. N \in Nat /\ DOMAIN t.vars = 1..N
  BY TableShape
<1> HIDE DEF N
<1>2. Vals(t) = [p \in 1..N |-> t.vars[p].val]
  BY <1>1 DEF Vals
<1>3. Len(Vals(t)) = N
  BY <1>1, <1>2
<1>4. \A p \in 1..N : Vals(t)[p] = t.vars[p].val
  BY <1>2
<1>5. \A n : \A p \in 1..N : p \in Of(t, n) <=> t.vars[p].key = n
  BY <1>1 DEF Of
<1>6. QED
  BY <1>1, <1>3, <1>4, <1>5 DEF N

LEMMA ValuesAre ==
    ASSUME NEW t, IsTable(t), NEW n
    PROVE  \E f : IsKept(f, Vals(t), Of(t, n), Len(t.vars)) /\ Values(t, n) = f[Len(t.vars)]
<1>1. Len(Vals(t)) = Len(t.vars) /\ Len(t.vars) \in Nat
  BY ValsIs
<1>2. QED
  BY <1>1, KeptIs DEF Values

LEMMA ValuesOfVars ==
    ASSUME NEW t, NEW u, t.vars = u.vars
    PROVE  \A n : Values(t, n) = Values(u, n)
<1>1. Vals(t) = Vals(u) /\ \A n : Of(t, n) = Of(u, n)
  BY DEF Vals, Of
<1>2. QED
  BY <1>1 DEF Values

LEMMA ValuesEmpty == \A n : Values(EmptyTable, n) = <<>>
<1> SUFFICES ASSUME NEW n PROVE Values(EmptyTable, n) = <<>>
  OBVIOUS
<1>1. IsTable(EmptyTable) /\ Len(EmptyTable.vars) = 0
  BY EmptyTableSound DEF SoundTable, EmptyTable
<1>2. PICK f : IsKept(f, Vals(EmptyTable), Of(EmptyTable, n), 0) /\ Values(EmptyTable, n) = f[0]
  BY <1>1, ValuesAre
<1>3. QED
  BY <1>2, KeptStep

LEMMA ValuesType ==
    ASSUME NEW K, NEW V, NEW t, Holds(t, K, V), NEW n
    PROVE  Values(t, n) \in Seq(V)
<1>1. IsTable(t) /\ Len(t.vars) \in Nat /\ \A p \in 1..Len(t.vars) : Vals(t)[p] \in V
  BY ValsIs DEF Holds
<1>2. PICK f : IsKept(f, Vals(t), Of(t, n), Len(t.vars)) /\ Values(t, n) = f[Len(t.vars)]
  BY <1>1, ValuesAre
<1>3. Len(t.vars) \in 0..Len(t.vars)
  BY <1>1
<1>4. QED
  BY <1>1, <1>2, <1>3, KeptType

LEMMA ValuesPushed ==
    ASSUME NEW t, SoundTable(t), NEW key, NEW val
    PROVE  LET u == Pushed(Grown(t), key, val)
           IN \A n : Values(u, n) = IF n = key THEN Append(Values(t, n), val) ELSE Values(t, n)
<1> DEFINE u == Pushed(Grown(t), key, val)
           N == Len(t.vars)
<1>1. SoundTable(Grown(t)) /\ Grown(t).vars = t.vars /\ Len(Grown(t).vars) + 1 < Grown(t).cap
  BY GrownSound
<1>2. /\ SoundTable(u) /\ Len(u.vars) = N + 1 /\ u.vars[N + 1] = [key |-> key, val |-> val]
      /\ \A n \in 1..N : u.vars[n] = t.vars[n]
  BY <1>1, PushedSound
<1> SUFFICES ASSUME NEW n
             PROVE  Values(u, n) = IF n = key THEN Append(Values(t, n), val) ELSE Values(t, n)
  OBVIOUS
<1> HIDE DEF u
<1>3. IsTable(t) /\ IsTable(u)
  BY <1>2 DEF SoundTable
<1>4. PICK f : IsKept(f, Vals(t), Of(t, n), N) /\ Values(t, n) = f[N]
  BY <1>3, ValuesAre
<1>5. PICK g : IsKept(g, Vals(u), Of(u, n), N + 1) /\ Values(u, n) = g[N + 1]
  BY <1>2, <1>3, ValuesAre
<1>6. /\ N \in Nat
      /\ \A p \in 1..N : /\ Vals(t)[p] = t.vars[p].val
                         /\ p \in Of(t, n) <=> t.vars[p].key = n
  BY <1>3, ValsIs
<1>7. \A p \in 1..(N + 1) : /\ Vals(u)[p] = u.vars[p].val
                            /\ p \in Of(u, n) <=> u.vars[p].key = n
  BY <1>2, <1>3, ValsIs
<1> HIDE DEF N
<1>8. \A p \in 1..N : p \in 1..(N + 1)
  BY <1>6
<1>9. N + 1 \in Nat /\ N <= N + 1 /\ N <= N /\ N + 1 \in 1..(N + 1) /\ (N + 1) - 1 = N /\ N \in 0..N
  BY <1>6
<1>10. \A p \in 1..N : (p \in Of(t, n) <=> p \in Of(u, n)) /\ Vals(t)[p] = Vals(u)[p]
  BY <1>2, <1>6, <1>7, <1>8
<1>11. f[N] = g[N]
  <2>1. \A p \in 0..N : f[p] = g[p]
    BY <1>4, <1>5, <1>6, <1>9, <1>10, KeptSame
  <2>2. QED
    BY <1>9, <2>1
<1>12. Vals(u)[N + 1] = val /\ (N + 1 \in Of(u, n) <=> key = n)
  BY <1>2, <1>7, <1>9
<1>13. /\ key = n => g[N + 1] = Append(g[N], val)
       /\ key # n => g[N + 1] = g[N]
  BY <1>5, <1>9, <1>12, KeptStep
<1>14. QED
  BY <1>4, <1>5, <1>11, <1>13

LEMMA ValuesOverwritten ==
    ASSUME NEW K, NEW V, NEW t, SoundTable(t), Holds(t, K, V), NULL \in V, NEW key,
           NEW val \in V, NEW fail, FindKey(t, key) # 0
    PROVE  LET u == Overwritten(t, FindKey(t, key), val, fail)
           IN /\ \A n : n # key => Values(u, n) = Values(t, n)
              /\ Values(t, key) # <<>> /\ Values(u, key) # <<>>
              /\ Tail(Values(u, key)) = Tail(Values(t, key))
<1> DEFINE i == FindKey(t, key)
           u == Overwritten(t, i, val, fail)
           N == Len(t.vars)
<1>1. IsTable(t)
  BY DEF SoundTable
<1>2. /\ i \in 1..N /\ t.vars[i].key = key
      /\ \A p \in 1..N : t.vars[p].key = key => i <= p
  BY <1>1, TableShape, FindKeyFirst
<1>3. /\ SoundTable(u) /\ Len(u.vars) = N
      /\ u.vars[i].val = IF fail = "val" THEN NULL ELSE val
      /\ \A n \in 1..N : /\ u.vars[n].key = t.vars[n].key
                         /\ n # i => u.vars[n] = t.vars[n]
  BY <1>2, OverwrittenSound
<1> HIDE DEF u, i
<1>4. IsTable(u)
  BY <1>3 DEF SoundTable
<1>5. /\ N \in Nat
      /\ \A n : \A p \in 1..N : /\ Vals(t)[p] = t.vars[p].val
                                /\ p \in Of(t, n) <=> t.vars[p].key = n
                                /\ Vals(u)[p] = u.vars[p].val
                                /\ p \in Of(u, n) <=> u.vars[p].key = n
                                /\ Vals(t)[p] \in V
  BY <1>1, <1>3, <1>4, ValsIs DEF Holds
<1> HIDE DEF N
<1>6. u.vars[i].val \in V
  BY <1>3
<1>7. \A p \in 1..N : /\ Vals(t)[p] \in V /\ Vals(u)[p] \in V
                      /\ p # i => Vals(t)[p] = Vals(u)[p]
  BY <1>3, <1>5, <1>6
<1>8. N \in 0..N /\ N <= N
  BY <1>5
<1>9. ASSUME NEW n, n # key PROVE Values(u, n) = Values(t, n)
  <2>1. PICK f : IsKept(f, Vals(t), Of(t, n), N) /\ Values(t, n) = f[N]
    BY <1>1, ValuesAre DEF N
  <2>2. PICK g : IsKept(g, Vals(u), Of(u, n), N) /\ Values(u, n) = g[N]
    BY <1>3, <1>4, ValuesAre
  <2>3. \A p \in 1..N : /\ p \in Of(t, n) <=> p \in Of(u, n)
                        /\ p \in Of(t, n) => Vals(t)[p] = Vals(u)[p]
    BY <1>2, <1>3, <1>5, <1>7, <1>9
  <2>4. \A p \in 0..N : f[p] = g[p]
    BY <1>5, <1>8, <2>1, <2>2, <2>3, KeptSame
  <2>5. QED
    BY <1>8, <2>1, <2>2, <2>4
<1>10. /\ Values(t, key) # <<>> /\ Values(u, key) # <<>>
       /\ Tail(Values(u, key)) = Tail(Values(t, key))
  <2>1. PICK f : IsKept(f, Vals(t), Of(t, key), N) /\ Values(t, key) = f[N]
    BY <1>1, ValuesAre DEF N
  <2>2. PICK g : IsKept(g, Vals(u), Of(u, key), N) /\ Values(u, key) = g[N]
    BY <1>3, <1>4, ValuesAre
  <2>3. Of(u, key) = Of(t, key)
    <3>1. DOMAIN u.vars = 1..N /\ DOMAIN t.vars = 1..N
      BY <1>1, <1>3, <1>4, ValsIs DEF N
    <3>2. QED
      BY <1>3, <3>1 DEF Of
  <2>4. i \in Of(t, key) /\ \A p \in 1..(i - 1) : p \notin Of(t, key)
    <3>1. \A p \in 1..(i - 1) : p \in 1..N /\ ~(i <= p)
      BY <1>2, <1>5
    <3>2. QED
      BY <1>2, <1>5, <3>1
  <2>5. f[N] # <<>> /\ g[N] # <<>> /\ Tail(f[N]) = Tail(g[N])
    <3> DEFINE s == Vals(t)
               r == Vals(u)
               P == Of(t, key)
    <3>1. IsKept(f, s, P, N) /\ IsKept(g, r, P, N)
      BY <2>1, <2>2, <2>3
    <3>2. /\ \A n \in 1..N : s[n] \in V /\ r[n] \in V
          /\ \A n \in 1..N : n # i => s[n] = r[n]
      BY <1>7
    <3>3. i \in P /\ \A n \in 1..(i - 1) : n \notin P
      BY <2>4
    <3>4. N \in Nat /\ i \in 1..N
      BY <1>2, <1>5
    <3> HIDE DEF s, r, P
    <3>5. QED
      BY <3>1, <3>2, <3>3, <3>4, KeptOtherFirst
  <2>6. QED
    BY <2>1, <2>2, <2>5
<1>11. QED
  BY <1>9, <1>10 DEF u, i

LEMMA ValuesUnset ==
    ASSUME NEW K, NEW V, NEW t, SoundTable(t), Holds(t, K, V), NEW key, FindKey(t, key) # 0
    PROVE  LET u == EnvUnset(t, key)
           IN /\ \A n : n # key => Values(u, n) = Values(t, n)
              /\ Values(t, key) # <<>> /\ Values(u, key) = Tail(Values(t, key))
<1> DEFINE i == FindKey(t, key)
           u == EnvUnset(t, key)
           N == Len(t.vars)
<1>1. IsTable(t)
  BY DEF SoundTable
<1>2. /\ i \in 1..N /\ t.vars[i].key = key
      /\ \A p \in 1..N : t.vars[p].key = key => i <= p
  BY <1>1, TableShape, FindKeyFirst
<1>3. /\ SoundTable(u) /\ Len(u.vars) = N - 1
      /\ \A n \in 1..(N - 1) : u.vars[n] = IF n < i THEN t.vars[n] ELSE t.vars[n + 1]
  BY EnvUnsetSound
<1> HIDE DEF u, i
<1>4. IsTable(u)
  BY <1>3 DEF SoundTable
<1>5. /\ N \in Nat
      /\ \A n : \A p \in 1..N : /\ Vals(t)[p] = t.vars[p].val
                                /\ p \in Of(t, n) <=> t.vars[p].key = n
                                /\ Vals(t)[p] \in V
  BY <1>1, ValsIs DEF Holds
<1>6. \A n : \A p \in 1..(N - 1) : /\ Vals(u)[p] = u.vars[p].val
                                   /\ p \in Of(u, n) <=> u.vars[p].key = n
  BY <1>3, <1>4, ValsIs
<1> HIDE DEF N
<1>7. \A p \in 1..(N - 1) : p \in 1..N /\ p + 1 \in 1..N
  BY <1>5
<1>8. ASSUME NEW n PROVE Shifted(Vals(u), Of(u, n), Vals(t), Of(t, n), N, i)
  <2>1. SUFFICES ASSUME NEW p \in 1..(N - 1)
                 PROVE  IF p < i
                        THEN (p \in Of(u, n) <=> p \in Of(t, n)) /\ Vals(u)[p] = Vals(t)[p]
                        ELSE /\ p \in Of(u, n) <=> p + 1 \in Of(t, n)
                             /\ Vals(u)[p] = Vals(t)[p + 1]
    BY DEF Shifted
  <2>2. u.vars[p] = IF p < i THEN t.vars[p] ELSE t.vars[p + 1]
    BY <1>3
  <2>3. Vals(u)[p] = u.vars[p].val /\ (p \in Of(u, n) <=> u.vars[p].key = n)
    BY <1>6
  <2>4. \A q \in {p, p + 1} : /\ Vals(t)[q] = t.vars[q].val
                              /\ q \in Of(t, n) <=> t.vars[q].key = n
    BY <1>5, <1>7
  <2>5. QED
    BY <2>2, <2>3, <2>4
<1>9. FirstOf(i, Of(t, key)) /\ \A n : n # key => i \notin Of(t, n)
  <2>1. \A p \in 1..(i - 1) : p \in 1..N /\ ~(i <= p)
    BY <1>2, <1>5
  <2>2. QED
    BY <1>2, <1>5, <2>1 DEF FirstOf
<1>10. ASSUME NEW n
       PROVE  /\ n # key => Values(u, n) = Values(t, n)
              /\ n = key => Values(t, n) # <<>> /\ Values(u, n) = Tail(Values(t, n))
  <2>1. PICK f : IsKept(f, Vals(t), Of(t, n), N) /\ Values(t, n) = f[N]
    BY <1>1, ValuesAre DEF N
  <2>2. PICK g : IsKept(g, Vals(u), Of(u, n), N - 1) /\ Values(u, n) = g[N - 1]
    BY <1>3, <1>4, ValuesAre
  <2>3. /\ i \notin Of(t, n) => g[N - 1] = f[N]
        /\ FirstOf(i, Of(t, n)) => f[N] # <<>> /\ g[N - 1] = Tail(f[N])
    <3> DEFINE s == Vals(t)
               r == Vals(u)
               P == Of(t, n)
               Q == Of(u, n)
    <3>1. Within(s, N, V)
      BY <1>5 DEF Within
    <3>2. Shifted(r, Q, s, P, N, i)
      BY <1>8
    <3>3. N \in Nat /\ i \in 1..N /\ IsKept(f, s, P, N) /\ IsKept(g, r, Q, N - 1)
      BY <1>2, <1>5, <2>1, <2>2
    <3> HIDE DEF s, r, P, Q
    <3>4. /\ i \notin P => g[N - 1] = f[N]
          /\ FirstOf(i, P) => f[N] # <<>> /\ g[N - 1] = Tail(f[N])
      BY <3>1, <3>2, <3>3, KeptShift
    <3>5. QED
      BY <3>4 DEF P
  <2>4. QED
    BY <1>9, <2>1, <2>2, <2>3
<1>11. QED
  BY <1>10 DEF u, i

\* A name's values but the first.
Rest(values) == IF values = <<>> THEN <<>> ELSE Tail(values)

\* env_set, whatever fails in it, replaces the first value of its name, or none.
LEMMA ValuesSet ==
    ASSUME NEW K, NEW V, NEW t, SoundTable(t), Holds(t, K, V), NULL \in V, NEW key,
           NEW val \in V, NEW fail
    PROVE  LET u == EnvSet(t, key, val, fail)
           IN /\ \A n : n # key => Values(u, n) = Values(t, n)
              /\ \/ Values(u, key) = Values(t, key)
                 \/ Values(u, key) # <<>> /\ Tail(Values(u, key)) = Rest(Values(t, key))
<1> DEFINE u == EnvSet(t, key, val, fail)
<1>1. CASE FindKey(t, key) = 0
  <2>1. \/ u = t
        \/ u = Grown(t)
        \/ u = Pushed(Grown(t), key, val)
    BY <1>1 DEF EnvSet, SetNew
  <2>2. CASE u.vars = t.vars
    <3>1. \A n : Values(u, n) = Values(t, n)
      BY <2>2, ValuesOfVars
    <3>2. QED
      BY <3>1
  <2>3. CASE u = Pushed(Grown(t), key, val)
    <3>1. \A n : Values(u, n) = IF n = key THEN Append(Values(t, n), val) ELSE Values(t, n)
      BY <2>3, ValuesPushed
    <3>2. Values(t, key) = <<>>
      <4>1. IsTable(t)
        BY DEF SoundTable
      <4>2. PICK f : /\ IsKept(f, Vals(t), Of(t, key), Len(t.vars))
                     /\ Values(t, key) = f[Len(t.vars)]
        BY <4>1, ValuesAre
      <4>3. Len(t.vars) \in Nat /\ \A p \in 1..Len(t.vars) : p \notin Of(t, key)
        <5>1. \A p \in DOMAIN t.vars : t.vars[p].key # key
          BY <1>1, <4>1, FindKeyFirst
        <5>2. QED
          BY <4>1, <5>1, ValsIs
      <4>4. f[Len(t.vars)] = <<>>
        BY <4>2, <4>3, KeptNone
      <4>5. QED
        BY <4>2, <4>4
    <3>3. Values(u, key) = <<val>>
      <4>1. Append(<<>>, val) = <<val>>
        OBVIOUS
      <4> HIDE DEF u
      <4>2. Values(u, key) = Append(Values(t, key), val)
        BY <3>1
      <4>3. QED
        BY <3>2, <4>1, <4>2
    <3>4. <<val>> # <<>> /\ Tail(<<val>>) = <<>>
      OBVIOUS
    <3>5. QED
      BY <3>1, <3>2, <3>3, <3>4 DEF Rest
  <2>4. QED
    BY <2>1, <2>2, <2>3, GrownSound
<1>2. CASE FindKey(t, key) # 0 /\ val # NULL
  <2>1. u = Overwritten(t, FindKey(t, key), val, fail)
    BY <1>2 DEF EnvSet
  <2>2. QED
    BY <1>2, <2>1, ValuesOverwritten DEF Rest
<1>3. CASE FindKey(t, key) # 0 /\ val = NULL
  BY <1>3 DEF EnvSet
<1>4. QED
  BY <1>1, <1>2, <1>3
---------------------------------------------------------------------------
(* What a child sees                                                       *)

\* A variable without a value is the only one of its name.
NullsOnce(t) ==
    \A p, q \in DOMAIN t.vars :
        t.vars[p].val = NULL /\ t.vars[p].key = t.vars[q].key => p = q

\* Of a table whose variables all have values but those that are alone, the
\* array for execve shows first what env_get finds.
LEMMA ArraySees ==
    ASSUME NEW t, IsTable(t), NullsOnce(t), NEW n
    PROVE  LET arr == EnvToArr(t)
               of  == {j \in DOMAIN arr : arr[j].key = n}
           IN IF of = {} THEN EnvGet(t, n) = NULL
              ELSE \E j \in of : arr[j].val = EnvGet(t, n) /\ \A k \in of : j <= k
<1> DEFINE N == Len(t.vars)
           P == {p \in DOMAIN t.vars : t.vars[p].val # NULL}
           a == EnvToArr(t)
           of == {j \in DOMAIN a : a[j].key = n}
           p == FindKey(t, n)
<1>1. PICK K, V : t \in TableOf(K, V)
  BY DEF IsTable
<1>2. N \in Nat /\ DOMAIN t.vars = 1..N
  BY TableShape
<1> DEFINE R == VarOf(K, V)
<1>3. \A q \in 1..N : t.vars[q] \in R
  <2>1. t.vars \in Seq(R)
    BY <1>1 DEF TableOf
  <2> HIDE DEF R
  <2>2. QED
    BY <2>1
<1>4. PICK f : IsKept(f, t.vars, P, N) /\ a = f[N]
  <2>1. a = Kept(t.vars, P)
    BY Zenon DEF EnvToArr
  <2> HIDE DEF P, a
  <2>2. QED
    BY <1>2, <2>1, KeptIs
<1>5. \A q \in 1..N : q \in P <=> t.vars[q].val # NULL
  BY <1>2
<1>6. N \in 0..N
  BY <1>2
<1> HIDE DEF R, P
<1>7. a \in Seq(R)
  <2>1. f[N] \in Seq(R)
    BY <1>2, <1>3, <1>4, <1>6, KeptType
  <2> HIDE DEF a
  <2>2. QED
    BY <1>4, <2>1
<1>8. InOrder(a, t.vars, P, N)
  <2> DEFINE s == t.vars
  <2>1. N \in Nat /\ IsKept(f, s, P, N) /\ \A q \in 1..N : s[q] \in R
    BY <1>2, <1>3, <1>4
  <2> HIDE DEF N, s, a
  <2>2. InOrder(f[N], s, P, N)
    BY <2>1, KeptOrder
  <2>3. QED
    BY <1>4, <2>2 DEF s
<1> HIDE DEF a
<1>9. Len(a) \in Nat /\ DOMAIN a = 1..Len(a)
  BY <1>7
<1>10. p # 0 => /\ p \in 1..N /\ t.vars[p].key = n
                /\ \A q \in 1..N : t.vars[q].key = n => p <= q
  BY <1>2, FindKeyFirst
<1>11. p = 0 => \A q \in 1..N : t.vars[q].key # n
  BY <1>2, FindKeyFirst
<1>12. p # 0 => EnvGet(t, n) = t.vars[p].val
  BY DEF EnvGet
<1>13. p = 0 => EnvGet(t, n) = NULL
  BY DEF EnvGet
<1> HIDE DEF p
<1>14. CASE p = 0 \/ t.vars[p].val = NULL
  <2>1. EnvGet(t, n) = NULL
    BY <1>12, <1>13, <1>14
  <2>2. \A q \in 1..N : q \in P => t.vars[q].key # n
    <3>1. SUFFICES ASSUME NEW q \in 1..N, q \in P, t.vars[q].key = n PROVE FALSE
      OBVIOUS
    <3>2. p # 0 /\ t.vars[p].val = NULL /\ t.vars[p].key = t.vars[q].key
      BY <1>10, <1>11, <1>14, <3>1
    <3>3. p = q
      BY <1>2, <1>10, <3>2 DEF NullsOnce
    <3>4. QED
      BY <1>5, <3>1, <3>2, <3>3
  <2>3. ASSUME NEW j \in 1..Len(a) PROVE a[j].key # n
    <3>1. PICK q \in 1..N : q \in P /\ a[j] = t.vars[q]
      BY <1>8, Zenon DEF InOrder
    <3>2. QED
      BY <2>2, <3>1
  <2>4. of = {}
    BY <1>9, <2>3
  <2> HIDE DEF of
  <2>5. QED
    BY <2>1, <2>4 DEF of, a
<1>15. CASE p # 0 /\ t.vars[p].val # NULL
  <2>1. p \in 1..N /\ p \in P
    BY <1>5, <1>10, <1>15
  <2>2. PICK j \in 1..Len(a) : /\ a[j] = t.vars[p]
                               /\ \A k \in 1..(j - 1) : \E r \in 1..(p - 1) :
                                      r \in P /\ a[k] = t.vars[r]
    BY <1>8, <2>1, Zenon DEF InOrder
  <2>3. \A k \in 1..Len(a) : k < j => a[k].key # n
    <3>1. SUFFICES ASSUME NEW k \in 1..Len(a), k < j PROVE a[k].key # n
      OBVIOUS
    <3>2. k \in 1..(j - 1)
      BY <1>7, <3>1
    <3>3. PICK r \in 1..(p - 1) : a[k] = t.vars[r]
      BY <2>2, <3>2
    <3>4. r \in 1..N /\ ~(p <= r)
      BY <1>2, <2>1
    <3>5. QED
      BY <1>10, <1>15, <3>3, <3>4
  <2>4. a[j].key = n
    BY <1>10, <1>15, <2>2
  <2>5. j \in of /\ \A k \in of : j <= k
    BY <1>9, <2>3, <2>4
  <2>6. a[j].val = EnvGet(t, n)
    BY <1>12, <1>15, <2>2
  <2> HIDE DEF of
  <2>7. QED
    BY <2>5, <2>6 DEF of, a
<1>16. QED
  BY <1>14, <1>15

LEMMA NullsOfVars ==
    ASSUME NEW t, NullsOnce(t), NEW u, u.vars = t.vars
    PROVE  NullsOnce(u)
BY DEF NullsOnce

LEMMA EnvSetNulls ==
    ASSUME NEW t, SoundTable(t), NullsOnce(t), NEW key, NEW val, NEW fail, fail # "val"
    PROVE  NullsOnce(EnvSet(t, key, val, fail))
<1>1. IsTable(t) /\ DOMAIN t.vars = 1..Len(t.vars) /\ Len(t.vars) \in Nat
  BY TableShape DEF SoundTable
<1>2. CASE FindKey(t, key) = 0
  <2> DEFINE g == Grown(t)
             u == Pushed(g, key, val)
             N == Len(t.vars)
  <2>1. SoundTable(g) /\ g.vars = t.vars /\ Len(g.vars) + 1 < g.cap
    BY GrownSound
  <2>2. /\ SoundTable(u) /\ Len(u.vars) = N + 1 /\ u.vars[N + 1] = [key |-> key, val |-> val]
        /\ \A n \in 1..N : u.vars[n] = t.vars[n]
    BY <2>1, PushedSound
  <2>3. \A n \in 1..N : t.vars[n].key # key
    BY <1>1, <1>2, FindKeyFirst
  <2>4. EnvSet(t, key, val, fail) \in {t, g, u}
    BY <1>2, Zenon DEF EnvSet, SetNew
  <2> HIDE DEF u
  <2>5. DOMAIN u.vars = 1..(N + 1)
    BY <2>2, TableShape DEF SoundTable
  <2>6. NullsOnce(u)
    <3>1. u.vars[N + 1].key = key /\ \A n \in 1..N : u.vars[n].key # key
      BY <2>2, <2>3
    <3>2. \A p, q \in 1..N : u.vars[p].val = NULL /\ u.vars[p].key = u.vars[q].key => p = q
      BY <1>1, <2>2 DEF NullsOnce
    <3> HIDE DEF N
    <3>3. \A p \in 1..(N + 1) : p \in 1..N \/ p = N + 1
      BY <1>1 DEF N
    <3>4. QED
      BY <2>5, <3>1, <3>2, <3>3 DEF NullsOnce
  <2>7. NullsOnce(g)
    BY <2>1, NullsOfVars
  <2>8. QED
    BY <2>4, <2>6, <2>7
<1>3. CASE FindKey(t, key) # 0 /\ val # NULL
  <2> DEFINE i == FindKey(t, key)
             u == Overwritten(t, i, val, fail)
  <2>1. i \in 1..Len(t.vars)
    BY <1>1, <1>3, FindKeyFirst
  <2>2. /\ SoundTable(u) /\ Len(u.vars) = Len(t.vars)
        /\ u.vars[i].val = IF fail = "val" THEN NULL ELSE val
        /\ \A n \in 1..Len(t.vars) : /\ u.vars[n].key = t.vars[n].key
                                     /\ n # i => u.vars[n] = t.vars[n]
    BY <2>1, OverwrittenSound
  <2>3. EnvSet(t, key, val, fail) = u
    BY <1>3 DEF EnvSet
  <2> HIDE DEF u, i
  <2>4. DOMAIN u.vars = 1..Len(t.vars)
    BY <2>2, TableShape DEF SoundTable
  <2>5. u.vars[i].val # NULL
    BY <1>3, <2>2
  <2>6. NullsOnce(u)
    <3>1. SUFFICES ASSUME NEW p \in 1..Len(t.vars), NEW q \in 1..Len(t.vars),
                          u.vars[p].val = NULL, u.vars[p].key = u.vars[q].key
                   PROVE  p = q
      BY <2>4 DEF NullsOnce
    <3>2. p # i
      BY <2>5, <3>1
    <3>3. t.vars[p].val = NULL /\ t.vars[p].key = t.vars[q].key
      BY <2>2, <3>1, <3>2
    <3>4. QED
      BY <1>1, <3>3 DEF NullsOnce
  <2>7. QED
    BY <2>3, <2>6
<1>4. CASE FindKey(t, key) # 0 /\ val = NULL
  BY <1>4 DEF EnvSet
<1>5. QED
  BY <1>2, <1>3, <1>4

LEMMA EnvUnsetNulls ==
    ASSUME NEW t, SoundTable(t), NullsOnce(t), NEW key
    PROVE  NullsOnce(EnvUnset(t, key))
<1> DEFINE i == FindKey(t, key)
           u == EnvUnset(t, key)
           N == Len(t.vars)
<1>1. IsTable(t) /\ DOMAIN t.vars = 1..N /\ N \in Nat
  BY TableShape DEF SoundTable
<1>2. CASE i = 0
  BY <1>2 DEF EnvUnset
<1>3. CASE i # 0
  <2>1. /\ SoundTable(u) /\ Len(u.vars) = N - 1
        /\ \A n \in 1..(N - 1) : u.vars[n] = IF n < i THEN t.vars[n] ELSE t.vars[n + 1]
    BY <1>3, EnvUnsetSound
  <2>2. i \in 1..N
    BY <1>1, <1>3, FindKeyFirst
  <2> HIDE DEF u, i, N
  <2>3. DOMAIN u.vars = 1..(N - 1)
    BY <2>1, TableShape DEF SoundTable
  <2>4. SUFFICES ASSUME NEW p \in 1..(N - 1), NEW q \in 1..(N - 1),
                        u.vars[p].val = NULL, u.vars[p].key = u.vars[q].key
                 PROVE  p = q
    BY <2>3 DEF NullsOnce, u
  <2> DEFINE a == IF p < i THEN p ELSE p + 1
             b == IF q < i THEN q ELSE q + 1
  <2>5. u.vars[p] = t.vars[a] /\ u.vars[q] = t.vars[b]
    BY <2>1
  <2>6. a \in 1..N /\ b \in 1..N /\ (a = b => p = q)
    BY <1>1, <2>2
  <2> HIDE DEF a, b
  <2>7. a = b
    BY <1>1, <2>4, <2>5, <2>6 DEF NullsOnce
  <2>8. QED
    BY <2>6, <2>7
<1>4. QED
  BY <1>2, <1>3
---------------------------------------------------------------------------
(* What is left of a table                                                *)

\* All elements are kept.
LEMMA KeptAll ==
    ASSUME NEW S, NEW s \in Seq(S), NEW P, \A n \in 1..Len(s) : n \in P
    PROVE  Kept(s, P) = s
<1> DEFINE N == Len(s)
<1>1. N \in Nat
  OBVIOUS
<1>2. PICK f : IsKept(f, s, P, N) /\ Kept(s, P) = f[N]
  BY <1>1, KeptIs
<1>3. \A n \in 0..N : f[n] \in Seq(S)
  <2>1. \A n \in 1..N : s[n] \in S
    OBVIOUS
  <2>2. QED
    BY <1>1, <1>2, <2>1, KeptType
<1> DEFINE Good(n) == Len(f[n]) = n /\ \A k \in 1..n : f[n][k] = s[k]
           T == {n \in 0..N : Good(n)}
<1>4. 0 \in T
  <2>1. f[0] = <<>>
    BY <1>1, <1>2, KeptStep
  <2>2. Len(<<>>) = 0
    OBVIOUS
  <2>3. QED
    BY <1>1, <2>1, <2>2
<1>5. ASSUME NEW n \in 0..(N - 1), n \in T PROVE n + 1 \in T
  <2>1. n + 1 \in 1..N /\ (n + 1) - 1 = n /\ n + 1 \in 0..N /\ n \in 0..N
    BY <1>1
  <2>2. f[n + 1] = Append(f[n], s[n + 1])
    BY <1>1, <1>2, <2>1, KeptStep
  <2> DEFINE a == f[n]
             x == s[n + 1]
             b == f[n + 1]
  <2>3. a \in Seq(S) /\ x \in S /\ b = Append(a, x) /\ Len(a) = n /\ \A k \in 1..n : a[k] = s[k]
    <3>1. x \in S
      BY <2>1
    <3>2. QED
      BY <1>3, <1>5, <2>1, <2>2, <3>1
  <2> HIDE DEF a, b
  <2>4. Len(b) = n + 1 /\ b[n + 1] = x /\ \A k \in 1..n : b[k] = a[k]
    BY <2>3
  <2>5. \A k \in 1..(n + 1) : k \in 1..n \/ k = n + 1
    OBVIOUS
  <2>6. \A k \in 1..(n + 1) : b[k] = s[k]
    BY <2>3, <2>4, <2>5
  <2>7. QED
    BY <2>1, <2>4, <2>6 DEF b
<1> HIDE DEF T
<1>6. 0 \in 0..N /\ N \in 0..N
  BY <1>1
<1>7. N \in T
  BY <1>1, <1>4, <1>5, <1>6, UpTo
<1>8. f[N] \in Seq(S) /\ Len(f[N]) = N /\ \A k \in 1..N : f[N][k] = s[k]
  BY <1>3, <1>6, <1>7 DEF T
<1> DEFINE a == f[N]
<1>9. a \in Seq(S) /\ Len(a) = Len(s) /\ \A k \in 1..Len(s) : a[k] = s[k]
  BY <1>8
<1> HIDE DEF a, N
<1>10. a = s
  BY <1>9
<1>11. QED
  BY <1>2, <1>10 DEF a

\* The variables that stay when those with these names go.
Spared(t, names) == {p \in DOMAIN t.vars : t.vars[p].key \notin names}

LEMMA SparedOfVars ==
    ASSUME NEW t, NEW u, u.vars = t.vars, NEW names
    PROVE  Kept(u.vars, Spared(u, names)) = Kept(t.vars, Spared(t, names))
BY DEF Spared

\* Of a table without a name twice, the variables that outlast an unset and then
\* the removal of some names are those that outlast the removal of all of them.
LEMMA UnsetSpares ==
    ASSUME NEW t, SoundTable(t), Distinct(t), NEW key, NEW names
    PROVE  LET u == EnvUnset(t, key)
           IN Kept(u.vars, Spared(u, names)) = Kept(t.vars, Spared(t, names \cup {key}))
<1> DEFINE i == FindKey(t, key)
           u == EnvUnset(t, key)
           N == Len(t.vars)
           P == Spared(t, names \cup {key})
           Q == Spared(u, names)
<1>1. IsTable(t) /\ N \in Nat /\ DOMAIN t.vars = 1..N
  BY TableShape DEF SoundTable
<1>2. CASE i = 0
  <2>1. u = t
    BY <1>2 DEF EnvUnset
  <2>2. \A p \in 1..N : t.vars[p].key # key
    BY <1>1, <1>2, FindKeyFirst
  <2>3. Spared(t, names) = Spared(t, names \cup {key})
    BY <1>1, <2>2 DEF Spared
  <2> HIDE DEF u
  <2>4. QED
    BY <2>1, <2>3 DEF u
<1>3. CASE i # 0
  <2>1. /\ SoundTable(u) /\ Len(u.vars) = N - 1
        /\ \A n \in 1..(N - 1) : u.vars[n] = IF n < i THEN t.vars[n] ELSE t.vars[n + 1]
    BY <1>3, EnvUnsetSound
  <2>2. i \in 1..N /\ t.vars[i].key = key
    BY <1>1, <1>3, FindKeyFirst
  <2> HIDE DEF u, i, N
  <2>3. DOMAIN u.vars = 1..(N - 1) /\ N - 1 \in Nat
    BY <1>1, <2>1, <2>2, TableShape DEF SoundTable
  <2>4. i \notin P
    BY <2>2 DEF Spared
  <2>5. \A p \in 1..N : p # i => t.vars[p].key # key
    BY <1>1, <2>2 DEF Distinct
  <2>6. Shifted(u.vars, Q, t.vars, P, N, i)
    <3>1. SUFFICES ASSUME NEW n \in 1..(N - 1)
                   PROVE  IF n < i THEN (n \in Q <=> n \in P) /\ u.vars[n] = t.vars[n]
                                   ELSE (n \in Q <=> n + 1 \in P) /\ u.vars[n] = t.vars[n + 1]
      BY DEF Shifted
    <3>2. CASE n < i
      <4>1. u.vars[n] = t.vars[n] /\ n \in 1..N /\ n # i
        BY <1>1, <2>1, <2>2, <3>2
      <4>2. t.vars[n].key # key
        BY <2>5, <4>1
      <4>3. QED
        BY <1>1, <2>3, <3>2, <4>1, <4>2 DEF Spared
    <3>3. CASE ~(n < i)
      <4>1. u.vars[n] = t.vars[n + 1] /\ n + 1 \in 1..N /\ n + 1 # i
        BY <1>1, <2>1, <2>2, <3>3
      <4>2. t.vars[n + 1].key # key
        BY <2>5, <4>1
      <4>3. QED
        BY <1>1, <2>3, <3>3, <4>1, <4>2 DEF Spared
    <3>4. QED
      BY <3>2, <3>3
  <2>7. PICK f : IsKept(f, t.vars, P, N) /\ Kept(t.vars, P) = f[N]
    BY <1>1, KeptIs DEF N
  <2>8. PICK g : IsKept(g, u.vars, Q, N - 1) /\ Kept(u.vars, Q) = g[N - 1]
    BY <2>1, <2>3, KeptIs
  <2>9. PICK K, V : t \in TableOf(K, V)
    BY <1>1 DEF IsTable
  <2>10. Within(t.vars, N, VarOf(K, V))
    <3>1. t.vars \in Seq(VarOf(K, V))
      BY <2>9 DEF TableOf
    <3> DEFINE R == VarOf(K, V)
    <3> HIDE DEF R
    <3>2. \A n \in 1..Len(t.vars) : t.vars[n] \in R
      BY <3>1 DEF R
    <3>3. QED
      BY <3>2 DEF Within, N, R
  <2>11. g[N - 1] = f[N]
    <3> DEFINE s == t.vars
               r == u.vars
               R == VarOf(K, V)
    <3>1. /\ IsKept(f, s, P, N) /\ IsKept(g, r, Q, N - 1) /\ Within(s, N, R)
          /\ Shifted(r, Q, s, P, N, i) /\ N \in Nat /\ i \in 1..N
      BY <1>1, <2>2, <2>6, <2>7, <2>8, <2>10
    <3> HIDE DEF s, r, R, P, Q
    <3>2. i \notin P => g[N - 1] = f[N]
      BY <3>1, KeptShift
    <3>3. QED
      BY <2>4, <3>2
  <2>12. QED
    BY <2>7, <2>8, <2>11 DEF u
<1>4. QED
  BY <1>2, <1>3
---------------------------------------------------------------------------
(* What env_set adds                                                       *)

HasName(t, n) == \E p \in DOMAIN t.vars : t.vars[p].key = n

\* env_set loses no name, and adds its own when nothing fails.
LEMMA EnvSetNames ==
    ASSUME NEW t, SoundTable(t), NEW key, NEW val, NEW fail
    PROVE  LET u == EnvSet(t, key, val, fail)
           IN /\ \A n : HasName(t, n) => HasName(u, n)
              /\ fail = "none" => HasName(u, key)
<1> DEFINE N == Len(t.vars)
<1>1. IsTable(t) /\ N \in Nat /\ DOMAIN t.vars = 1..N
  BY TableShape DEF SoundTable
<1>2. CASE FindKey(t, key) = 0
  <2> DEFINE g == Grown(t)
             u == Pushed(g, key, val)
  <2>1. SoundTable(g) /\ g.vars = t.vars /\ Len(g.vars) + 1 < g.cap
    BY GrownSound
  <2>2. /\ SoundTable(u) /\ Len(u.vars) = N + 1 /\ u.vars[N + 1] = [key |-> key, val |-> val]
        /\ \A n \in 1..N : u.vars[n] = t.vars[n]
    BY <2>1, PushedSound
  <2>3. EnvSet(t, key, val, fail) \in {t, g, u} /\ (fail = "none" => EnvSet(t, key, val, fail) = u)
    BY <1>2, Zenon DEF EnvSet, SetNew
  <2> HIDE DEF u, g
  <2>4. DOMAIN u.vars = 1..(N + 1)
    BY <2>2, TableShape DEF SoundTable
  <2>5. HasName(u, key) /\ \A n : HasName(t, n) => HasName(u, n)
    <3>1. u.vars[N + 1].key = key /\ N + 1 \in 1..(N + 1) /\ \A n \in 1..N : n \in 1..(N + 1)
      BY <1>1, <2>2
    <3>2. QED
      BY <1>1, <2>2, <2>4, <3>1 DEF HasName
  <2>6. \A n : HasName(t, n) => HasName(g, n)
    BY <2>1 DEF HasName
  <2>7. QED
    BY <2>3, <2>5, <2>6
<1>3. CASE FindKey(t, key) # 0
  <2>1. HasName(t, key)
    BY <1>1, <1>3, FindKeyFirst DEF HasName
  <2>2. CASE val = NULL
    BY <1>3, <2>1, <2>2 DEF EnvSet
  <2>3. CASE val # NULL
    <3> DEFINE u == Overwritten(t, FindKey(t, key), val, fail)
    <3>1. FindKey(t, key) \in 1..N
      BY <1>1, <1>3, FindKeyFirst
    <3>2. /\ SoundTable(u) /\ Len(u.vars) = N
          /\ \A n \in 1..N : u.vars[n].key = t.vars[n].key
      BY <3>1, OverwrittenSound
    <3>3. EnvSet(t, key, val, fail) = u
      BY <1>3, <2>3 DEF EnvSet
    <3> HIDE DEF u
    <3>4. DOMAIN u.vars = 1..N
      BY <3>2, TableShape DEF SoundTable
    <3>5. \A n : HasName(t, n) => HasName(u, n)
      BY <1>1, <3>2, <3>4 DEF HasName
    <3>6. QED
      BY <2>1, <3>3, <3>5
  <2>4. QED
    BY <2>2, <2>3
<1>4. QED
  BY <1>2, <1>3

\* A variable without a value changes what no name is found to be.
LEMMA GetAfterNull ==
    ASSUME NEW t, SoundTable(t), NEW key, NEW k
    PROVE  EnvGet(EnvSet(t, key, NULL, "none"), k) = EnvGet(t, k)
<1> DEFINE N == Len(t.vars)
<1>1. IsTable(t) /\ N \in Nat /\ DOMAIN t.vars = 1..N
  BY TableShape DEF SoundTable
<1>2. CASE FindKey(t, key) # 0
  BY <1>2 DEF EnvSet
<1>3. CASE FindKey(t, key) = 0
  <2> DEFINE g == Grown(t)
             u == Pushed(g, key, NULL)
  <2>1. SoundTable(g) /\ g.vars = t.vars /\ Len(g.vars) + 1 < g.cap
    BY GrownSound
  <2>2. EnvSet(t, key, NULL, "none") = u
    BY <1>3 DEF EnvSet, SetNew
  <2>3. /\ SoundTable(u) /\ Len(u.vars) = N + 1 /\ u.vars[N + 1] = [key |-> key, val |-> NULL]
        /\ \A n \in 1..N : u.vars[n] = t.vars[n]
    BY <2>1, PushedSound
  <2>4. \A n \in 1..N : t.vars[n].key # key
    BY <1>1, <1>3, FindKeyFirst
  <2> HIDE DEF u
  <2>5. IsTable(u)
    BY <2>3 DEF SoundTable
  <2>6. CASE k = key
    <3>1. EnvGet(t, k) = NULL
      BY <1>3, <2>6 DEF EnvGet
    <3>2. \A n \in 1..(N + 1) : n < N + 1 => n \in 1..N
      BY <1>1
    <3>3. N + 1 \in 1..Len(u.vars) /\ u.vars[N + 1].key = k /\ u.vars[N + 1].val = NULL
      BY <1>1, <2>3, <2>6
    <3>4. \A n \in 1..Len(u.vars) : n < N + 1 => u.vars[n].key # k
      BY <2>3, <2>4, <2>6, <3>2
    <3>5. EnvGet(u, k) = u.vars[N + 1].val
      BY <2>5, <3>3, <3>4, GetAt
    <3>6. QED
      BY <2>2, <3>1, <3>3, <3>5
  <2>7. CASE k # key
    <3>1. /\ Len(t.vars) <= Len(u.vars)
          /\ \A n \in 1..Len(t.vars) : u.vars[n] = t.vars[n]
      BY <1>1, <2>3
    <3>2. \A n \in 1..Len(u.vars) : n > Len(t.vars) => n = N + 1
      BY <1>1, <2>3
    <3>3. \A n \in 1..Len(u.vars) : n > Len(t.vars) => u.vars[n].key # k
      BY <2>3, <2>7, <3>2
    <3>4. EnvGet(u, k) = EnvGet(t, k)
      BY <1>1, <2>5, <3>1, <3>3, GetSame
    <3>5. QED
      BY <2>2, <3>4
  <2>8. QED
    BY <2>6, <2>7
<1>4. QED
  BY <1>2, <1>3
=============================================================================
