---------------------------- MODULE ArenaProofs ----------------------------
(* The pieces of an arena stay apart, for any sizes, blocks and marks.     *)
EXTENDS Arena, TLAPS

---------------------------------------------------------------------------
(* Sizes                                                                   *)

\* A number is its quotient and its remainder.
LEMMA Division ==
    \A n \in Int, d \in Nat \ {0} : n = (d * (n \div d)) + (n % d)
BY SMT

\* Multiples have no remainder, and a number less its remainder is one.
LEMMA Multiple == \A d \in Nat \ {0}, q \in Int : (d * q) % d = 0
BY SMT

LEMMA LessRemainder == \A n \in Int, d \in Nat \ {0} : (n - (n % d)) % d = 0
BY SMT

\* Two multiples add up to one.
LEMMA SumOfMultiples ==
    ASSUME NEW a \in Nat, NEW b \in Nat, NEW d \in Nat \ {0}, a % d = 0, b % d = 0
    PROVE  (a + b) % d = 0
<1>1. a = d * (a \div d) /\ b = d * (b \div d)
  BY Division, a \in Int, b \in Int, SMT
<1>2. a \div d \in Int /\ b \div d \in Int
  BY SMT
<1>3. \A p, q, e \in Int : (e * p) + (e * q) = e * (p + q)
  BY SMT
<1>4. a + b = d * ((a \div d) + (b \div d))
  BY <1>1, <1>2, <1>3, d \in Int
<1>5. (a \div d) + (b \div d) \in Int
  BY <1>2
<1>6. (d * ((a \div d) + (b \div d))) % d = 0
  BY <1>5, Multiple, Zenon
<1>7. QED
  BY <1>4, <1>6, Zenon

\* The rounded size is a multiple of Align and not less than the size.
LEMMA RoundedSize ==
    ASSUME NEW size \in Nat
    PROVE  /\ Rounded(size) \in Nat /\ size <= Rounded(size)
           /\ Rounded(size) % Align = 0
<1> DEFINE n == size + (Align - 1)
<1>1. n \in Nat /\ Align \in Nat \ {0} /\ size <= n
  BY ArenaAssumption
<1>2. n % Align \in 0..(Align - 1)
  BY <1>1, SMT
<1>3. Rounded(size) = n - (n % Align)
  BY Zenon DEF Rounded
<1>4. (n - (n % Align)) % Align = 0
  BY <1>1, LessRemainder, n \in Int, Zenon
<1>5. n - (n % Align) \in Nat /\ size <= n - (n % Align)
  <2> HIDE DEF n
  <2> DEFINE r == n % Align
  <2>1. r \in Int /\ 0 <= r /\ r <= Align - 1
    BY <1>1, <1>2
  <2>2. size + (Align - 1) = n
    BY DEF n
  <2> HIDE DEF r
  <2>3. n - r \in Nat /\ size <= n - r
    BY <2>1, <2>2, <1>1
  <2>4. QED
    BY <2>3, Zenon DEF r
<1>6. QED
  BY <1>3, <1>4, <1>5, Zenon

---------------------------------------------------------------------------
(* The inductive invariant                                                 *)

Apart(s) ==
    \A p, q \in s : p # q /\ p.id = q.id => p.at + p.len <= q.at \/ q.at + q.len <= p.at

\* Piece p lies in one of the first k blocks of c, in the k-th one below place u.
Below(c, p, k, u) ==
    \E j \in 1..k : /\ p.id = c[j].id
                   /\ p.at + p.len <= IF j = k THEN u ELSE c[j].used

\* Mark m was set when the chain, which is c now, had k blocks.
MarkAt(c, m, k) ==
    IF k = 0 THEN m.id = NULL /\ m.used = 0 /\ m.handed = {}
    ELSE /\ k \in DOMAIN c /\ m.id = c[k].id /\ m.used <= c[k].used
         /\ \A p \in m.handed : Below(c, p, k, m.used)

Types == /\ chain \in Seq(BlockType) /\ heap \subseteq Blocks
         /\ marks \in Seq(MarkType) /\ handed \subseteq PieceType

HeapInv == /\ heap = Ids(chain)
           /\ \A j, k \in DOMAIN chain : chain[j].id = chain[k].id => j = k

UsedInv == /\ \A k \in DOMAIN chain : /\ chain[k].used <= chain[k].cap
                                      /\ chain[k].used % Align = 0
           /\ \A j \in DOMAIN marks : marks[j].used % Align = 0

AlignInv == /\ \A p \in handed : p.at % Align = 0
            /\ \A j \in DOMAIN marks : \A p \in marks[j].handed : p.at % Align = 0

PieceInv == /\ \A p \in handed : \E k \in DOMAIN chain :
                   p.id = chain[k].id /\ p.at + p.len <= chain[k].used
            /\ Apart(handed)

\* pos[j] is the place in chain c of the block of mark j of ms.
Ordered(c, ms, pos) ==
    /\ \A j \in DOMAIN ms : MarkAt(c, ms[j], pos[j])
    /\ \A j, l \in DOMAIN ms :
           j < l => /\ pos[j] <= pos[l]
                    /\ pos[j] = pos[l] => ms[j].used <= ms[l].used

MarkInv == /\ \A j \in DOMAIN marks : Apart(marks[j].handed)
           /\ \E pos \in [DOMAIN marks -> Nat] : Ordered(chain, marks, pos)

Inv == Types /\ HeapInv /\ UsedInv /\ AlignInv /\ PieceInv /\ MarkInv

---------------------------------------------------------------------------
(* Chains                                                                  *)

\* A prefix of a chain.
LEMMA Prefix ==
    ASSUME NEW S, NEW c \in Seq(S), NEW k \in 0..Len(c)
    PROVE  /\ SubSeq(c, 1, k) \in Seq(S) /\ Len(SubSeq(c, 1, k)) = k
           /\ \A j \in 1..k : SubSeq(c, 1, k)[j] = c[j]
OBVIOUS

\* The block at the top.
LEMMA TopBlock ==
    ASSUME Types, chain # <<>>
    PROVE  Len(chain) \in DOMAIN chain /\ Len(chain) \in Nat \ {0} /\ Top \in BlockType
BY DEF Types, Top

\* A mark stays good while the blocks below it, and what they count as used, stay.
LEMMA MarkKept ==
    ASSUME NEW c \in Seq(BlockType), NEW d \in Seq(BlockType), NEW m \in MarkType,
           NEW k \in Nat, k <= Len(d), MarkAt(c, m, k),
           \A j \in 1..k : d[j].id = c[j].id,
           \A j \in 1..(k - 1) : c[j].used <= d[j].used,
           k > 0 => m.used <= d[k].used
    PROVE  MarkAt(d, m, k)
<1>1. CASE k = 0
  BY <1>1 DEF MarkAt
<1>2. CASE k # 0
  <2>1. k \in 1..k /\ k \in DOMAIN d
    BY <1>2
  <2>2. m.id = d[k].id /\ m.used <= d[k].used
    BY <1>2, <2>1 DEF MarkAt
  <2>3. ASSUME NEW p \in m.handed PROVE Below(d, p, k, m.used)
    <3>1. PICK j \in 1..k : /\ p.id = c[j].id
                            /\ p.at + p.len <= IF j = k THEN m.used ELSE c[j].used
      BY <1>2, <2>3 DEF MarkAt, Below
    <3>2. p \in PieceType /\ p.at + p.len \in Nat
      BY <2>3 DEF MarkType, PieceType
    <3>3. CASE j = k
      BY <3>1, <3>3 DEF Below
    <3>4. CASE j # k
      <4>1. j \in 1..(k - 1) /\ j \in DOMAIN c /\ j \in DOMAIN d
        BY <1>2, <2>1, <3>4 DEF MarkAt
      <4>2. c[j].used \in Nat /\ d[j].used \in Nat /\ c[j].used <= d[j].used
        <5>1. c[j] \in BlockType /\ d[j] \in BlockType
          BY <4>1
        <5>2. QED
          BY <4>1, <5>1 DEF BlockType
      <4>3. p.at + p.len <= d[j].used
        BY <3>1, <3>2, <3>4, <4>2
      <4>4. QED
        BY <3>1, <3>4, <4>3 DEF Below
    <3>5. QED
      BY <3>3, <3>4
  <2>4. QED
    BY <1>2, <2>1, <2>2, <2>3 DEF MarkAt
<1>3. QED
  BY <1>1, <1>2

\* mem_pop goes back to the place where the mark was set.
LEMMA BackToMark ==
    ASSUME Types, HeapInv, NEW m \in MarkType, NEW k \in Nat, MarkAt(chain, m, k)
    PROVE  k \in 0..Len(chain) /\ BackTo(m.id) = SubSeq(chain, 1, k)
<1> DEFINE Q(n) == /\ n > 0 => chain[n].id = m.id
                   /\ \A b \in (n + 1)..Len(chain) : chain[b].id # m.id
<1>1. k \in 0..Len(chain)
  BY DEF MarkAt, Types
<1>2. \A b \in 1..Len(chain) : chain[b].id = m.id => k > 0 /\ b = k
  <2>1. \A b \in 1..Len(chain) : b \in DOMAIN chain /\ chain[b] \in BlockType
    BY DEF Types
  <2>2. \A b \in 1..Len(chain) : chain[b].id \in Blocks
    BY <2>1 DEF BlockType
  <2>3. QED
    BY <2>1, <2>2, ArenaAssumption DEF MarkAt, HeapInv
<1>3. Q(k)
  BY <1>1, <1>2 DEF MarkAt
<1>4. ASSUME NEW n \in 0..Len(chain), Q(n) PROVE n = k
  <2>1. CASE n > 0
    BY <1>2, <1>4, <2>1
  <2>2. CASE n = 0
    BY <1>1, <1>3, <1>4, <2>2
  <2>3. QED
    BY <2>1, <2>2
<1> HIDE DEF Q
<1>5. (CHOOSE n \in 0..Len(chain) : Q(n)) = k
  BY <1>1, <1>3, <1>4
<1>6. BackTo(m.id) = SubSeq(chain, 1, CHOOSE n \in 0..Len(chain) : Q(n))
  BY Zenon DEF BackTo, Q
<1>7. QED
  BY <1>1, <1>5, <1>6

---------------------------------------------------------------------------
(* What ms_alloc does, in either way                                       *)

\* The chain is now d: the blocks of the chain, with one more perhaps, and the
\* last one has room taken for a piece p.
Grown(d, p) ==
    /\ d \in Seq(BlockType) /\ Len(d) \in {Len(chain), Len(chain) + 1} /\ d # <<>>
    /\ \A k \in DOMAIN chain : d[k].id = chain[k].id /\ d[k].used >= chain[k].used
    /\ \A k \in DOMAIN d : d[k].used <= d[k].cap /\ d[k].used % Align = 0
    /\ \A j, k \in DOMAIN d : d[j].id = d[k].id => j = k
    /\ p \in PieceType /\ p.id = d[Len(d)].id /\ p.at % Align = 0
    /\ p.at + p.len <= d[Len(d)].used
    /\ Len(d) = Len(chain) => chain[Len(chain)].used <= p.at

\* When the top block has room.
LEMMA GrownHere ==
    ASSUME Inv, NEW size \in Nat, AllocHere(size, size)
    PROVE  \E p : /\ Grown(chain', p) /\ handed' = handed \cup {p}
                  /\ heap' = Ids(chain')
<1> DEFINE p == Piece(Top.id, Top.used, size)
           n == Len(chain)
           r == Rounded(size)
<1>1. chain \in Seq(BlockType) /\ n \in DOMAIN chain /\ n \in Nat \ {0} /\ Top \in BlockType
  BY TopBlock DEF Inv, AllocHere, Fits, Types
<1>2. r \in Nat /\ size <= r /\ r % Align = 0
  BY RoundedSize
<1>3. Top.used + r <= Top.cap
  BY DEF AllocHere, Fits
<1>4. Top.used % Align = 0 /\ Top.used \in Nat /\ Top.cap \in Nat /\ Top.id \in Blocks
  BY <1>1 DEF Inv, UsedInv, Top, BlockType
<1>5. (Top.used + r) % Align = 0 /\ Top.used + r \in Nat
  BY <1>2, <1>4, SumOfMultiples, ArenaAssumption
<1> HIDE DEF r
<1>6. chain' = [chain EXCEPT ![n] = [Top EXCEPT !.used = Top.used + r]]
  BY <1>1 DEF AllocHere, Top, r
<1>7. [Top EXCEPT !.used = Top.used + r] \in BlockType
  BY <1>1, <1>5 DEF BlockType
<1>8. /\ chain' \in Seq(BlockType) /\ Len(chain') = n /\ DOMAIN chain' = DOMAIN chain
      /\ \A k \in DOMAIN chain : k # n => chain'[k] = chain[k]
      /\ chain'[n] = [Top EXCEPT !.used = Top.used + r]
  BY <1>1, <1>6, <1>7
<1>9. /\ chain'[n].id = Top.id /\ chain'[n].cap = Top.cap /\ chain'[n].used = Top.used + r
  BY <1>1, <1>8 DEF BlockType
<1>10. \A k \in DOMAIN chain : chain[k] \in BlockType
  BY <1>1
<1>11. \A k \in DOMAIN chain : chain'[k].id = chain[k].id /\ chain'[k].used >= chain[k].used
  <2>1. ASSUME NEW k \in DOMAIN chain, k # n PROVE chain'[k] = chain[k] /\ chain[k].used \in Nat
    BY <1>8, <1>10, <2>1 DEF BlockType
  <2>2. chain'[n].id = chain[n].id /\ chain'[n].used >= chain[n].used
    <3>1. Top = chain[n]
      BY DEF Top
    <3>2. \A a, b \in Nat : a + b >= a
      OBVIOUS
    <3>3. QED
      BY <1>2, <1>4, <1>9, <3>1, <3>2
  <2>3. QED
    BY <2>1, <2>2
<1>12. \A k \in DOMAIN chain : chain'[k].used <= chain'[k].cap /\ chain'[k].used % Align = 0
  <2>1. \A k \in DOMAIN chain : k # n => chain'[k].used <= chain'[k].cap /\ chain'[k].used % Align = 0
    BY <1>8 DEF Inv, UsedInv
  <2>2. chain'[n].used <= chain'[n].cap /\ chain'[n].used % Align = 0
    BY <1>3, <1>5, <1>9
  <2>3. QED
    BY <2>1, <2>2
<1>13. \A j, k \in DOMAIN chain : chain'[j].id = chain'[k].id => j = k
  BY <1>11 DEF Inv, HeapInv
<1>14. p \in PieceType /\ p.id = chain'[n].id /\ p.at % Align = 0 /\ p.at = Top.used /\ p.len = size
  BY <1>4, <1>9 DEF Piece, PieceType
<1>15. p.at + p.len <= chain'[n].used
  BY <1>2, <1>4, <1>9, <1>14
<1>16. Grown(chain', p)
  <2> HIDE DEF p
  <2>1. Top = chain[n] /\ Top.used <= p.at
    BY <1>4, <1>14 DEF Top
  <2>2. chain' # <<>>
    BY <1>1, <1>8
  <2>3. QED
    BY <1>8, <1>11, <1>12, <1>13, <1>14, <1>15, <2>1, <2>2 DEF Grown
<1>17. heap' = Ids(chain')
  BY <1>8, <1>11 DEF AllocHere, Inv, HeapInv, Ids
<1>18. QED
  BY <1>16, <1>17 DEF AllocHere

\* When it has not: a new block.
LEMMA GrownNew ==
    ASSUME Inv, NEW size \in Nat, AllocNew(size, size)
    PROVE  \E p : /\ Grown(chain', p) /\ handed' = handed \cup {p}
                  /\ heap' = Ids(chain')
<1> DEFINE n == Len(chain)
           r == Rounded(size)
<1>1. PICK id \in Blocks \ heap :
          /\ chain' = Append(chain, [NewBlock(id, r) EXCEPT !.used = r])
          /\ heap' = heap \cup {id}
          /\ handed' = handed \cup {Piece(id, 0, size)}
  BY DEF AllocNew
<1>2. r \in Nat /\ size <= r /\ r % Align = 0
  BY RoundedSize
<1> HIDE DEF r
<1> DEFINE b == [NewBlock(id, r) EXCEPT !.used = r]
           p == Piece(id, 0, size)
<1>3. b \in BlockType /\ b.id = id /\ b.used = r /\ r <= b.cap
  BY <1>2, ArenaAssumption DEF NewBlock, CapFor, BlockType
<1>4. chain \in Seq(BlockType) /\ n \in Nat /\ chain' = Append(chain, b)
  BY <1>1 DEF Inv, Types
<1> HIDE DEF b
<1>5. /\ chain' \in Seq(BlockType) /\ Len(chain') = n + 1
      /\ DOMAIN chain = 1..n /\ DOMAIN chain' = 1..(n + 1)
      /\ \A k \in 1..n : chain'[k] = chain[k] /\ chain[k] \in BlockType
      /\ chain'[n + 1] = b
  BY <1>3, <1>4
<1>6. \A k \in 1..n : chain[k].used \in Nat /\ chain[k].id # id
  <2>1. \A k \in 1..n : chain[k].id \in heap
    BY <1>5 DEF Inv, HeapInv, Ids
  <2>2. \A k \in 1..n : chain[k].used \in Nat
    BY <1>5 DEF BlockType
  <2>3. QED
    BY <2>1, <2>2
<1>7. \A k \in 1..n : chain'[k].id = chain[k].id /\ chain'[k].used >= chain[k].used
  BY <1>5, <1>6
<1>8. \A k \in 1..(n + 1) : chain'[k].used <= chain'[k].cap /\ chain'[k].used % Align = 0
  BY <1>2, <1>3, <1>4, <1>5 DEF Inv, UsedInv
<1>9. \A j, k \in 1..(n + 1) : chain'[j].id = chain'[k].id => j = k
  BY <1>3, <1>4, <1>5, <1>6 DEF Inv, HeapInv
<1>10. 0 % Align = 0
  BY ArenaAssumption, Multiple, 0 \in Int, Align * 0 = 0
<1>11. p \in PieceType /\ p.id = b.id /\ p.at = 0 /\ p.len = size
  BY <1>3 DEF Piece, PieceType
<1>12. Grown(chain', p)
  <2> HIDE DEF p
  <2>1. p.at + p.len <= chain'[n + 1].used
    BY <1>2, <1>3, <1>5, <1>11
  <2>2. chain' # <<>> /\ Len(chain') # n
    <3> HIDE DEF n
    <3>1. Len(chain') = n + 1 /\ n \in Nat
      BY <1>4, <1>5
    <3>2. Len(chain') # 0 /\ Len(chain') # n
      BY <3>1
    <3>3. QED
      BY <3>2
  <2>3. QED
    BY <1>5, <1>7, <1>8, <1>9, <1>10, <1>11, <2>1, <2>2 DEF Grown
<1>13. heap' = Ids(chain')
  <2>1. Ids(chain') = Ids(chain) \cup {id}
    BY <1>3, <1>4, <1>5 DEF Ids
  <2>2. QED
    BY <1>1, <2>1 DEF Inv, HeapInv
<1>14. QED
  BY <1>1, <1>12, <1>13

\* The new piece is apart from the others, and every mark stays good.
LEMMA GrownInv ==
    ASSUME Inv, NEW p, Grown(chain', p), handed' = handed \cup {p},
           heap' = Ids(chain'), marks' = marks
    PROVE  Inv'
<1> DEFINE n == Len(chain)
           d == chain'
           e == Len(d)
<1>1. /\ chain \in Seq(BlockType) /\ n \in Nat /\ DOMAIN chain = 1..n
      /\ marks \in Seq(MarkType) /\ handed \subseteq PieceType
  BY DEF Inv, Types
<1>2. d \in Seq(BlockType) /\ e \in {n, n + 1} /\ e \in Nat \ {0} /\ DOMAIN d = 1..e
  <2>1. d \in Seq(BlockType) /\ e \in {n, n + 1} /\ d # <<>>
    BY DEF Grown
  <2>2. e \in Nat \ {0} /\ DOMAIN d = 1..e
    <3> HIDE DEF d
    <3>1. QED
      BY <2>1
  <2>3. QED
    BY <2>1, <2>2
<1>3. /\ \A k \in 1..n : d[k].id = chain[k].id /\ d[k].used >= chain[k].used
      /\ p \in PieceType /\ p.id = d[e].id /\ p.at % Align = 0
      /\ p.at + p.len <= d[e].used
      /\ e = n => chain[n].used <= p.at
      /\ \A j, k \in 1..e : d[j].id = d[k].id => j = k
  BY <1>1, <1>2, Zenon DEF Grown
<1> HIDE DEF n, e
<1>4. \A k \in 1..n : k \in 1..e
  BY <1>1, <1>2
<1>5. /\ \A k \in 1..n : chain[k].used \in Nat
      /\ \A k \in 1..e : d[k] \in BlockType /\ d[k].used \in Nat /\ d[k].id \in Blocks
  <2>1. \A k \in 1..n : chain[k] \in BlockType
    BY <1>1
  <2>2. \A k \in 1..e : d[k] \in BlockType
    <3> HIDE DEF d
    <3>1. QED
      BY <1>2
  <2>3. QED
    BY <2>1, <2>2 DEF BlockType
<1>6. Types'
  <2>1. heap' \subseteq Blocks
    BY <1>2, <1>5 DEF Ids
  <2>2. handed' \subseteq PieceType
    BY <1>1, <1>3
  <2>3. QED
    BY <1>1, <1>2, <2>1, <2>2 DEF Types
<1>7. HeapInv'
  BY DEF Grown, HeapInv
<1>8. UsedInv'
  BY DEF Grown, UsedInv, Inv
<1>9. AlignInv'
  BY DEF Grown, AlignInv, Inv
<1>10. \A q \in handed : /\ q.at \in Nat /\ q.len \in Nat
                        /\ \E k \in 1..n : q.id = d[k].id /\ q.at + q.len <= chain[k].used
  <2>1. \A q \in handed : \E k \in 1..n : q.id = chain[k].id /\ q.at + q.len <= chain[k].used
    BY <1>1 DEF Inv, PieceInv
  <2>2. QED
    BY <1>1, <1>3, <2>1 DEF PieceType
<1>11. \A q \in handed : q.id = p.id => q.at + q.len <= p.at
  <2>1. SUFFICES ASSUME NEW q \in handed, q.id = p.id PROVE q.at + q.len <= p.at
    OBVIOUS
  <2>2. PICK k \in 1..n : q.id = d[k].id /\ q.at + q.len <= chain[k].used
    BY <1>10
  <2>3. k = e
    <3>1. k \in 1..e /\ e \in 1..e
      BY <1>2, <1>4
    <3>2. QED
      BY <1>3, <2>1, <2>2, <3>1
  <2>4. k = n /\ e = n
    BY <1>1, <1>2, <2>3
  <2>5. q.at + q.len \in Nat /\ chain[n].used \in Nat /\ p.at \in Nat
    BY <1>3, <1>5, <1>10, <2>4 DEF PieceType
  <2>6. QED
    BY <1>3, <2>2, <2>4, <2>5
<1>12. PieceInv'
  <2>1. ASSUME NEW q \in handed' PROVE \E k \in DOMAIN d : q.id = d[k].id /\ q.at + q.len <= d[k].used
    <3>1. CASE q = p
      <4>1. e \in DOMAIN d
        BY <1>2
      <4>2. QED
        BY <1>3, <3>1, <4>1
    <3>2. CASE q \in handed
      <4>1. PICK k \in 1..n : q.id = d[k].id /\ q.at + q.len <= chain[k].used
        BY <1>10, <3>2
      <4>2. k \in 1..e
        BY <1>4
      <4>3. /\ q.at + q.len \in Nat /\ chain[k].used \in Nat /\ d[k].used \in Nat
            /\ d[k].used >= chain[k].used
        BY <1>3, <1>5, <1>10, <3>2, <4>2
      <4>4. q.id = d[k].id /\ q.at + q.len <= d[k].used
        BY <4>1, <4>3
      <4>5. QED
        BY <1>2, <4>2, <4>4
    <3>3. QED
      BY <2>1, <3>1, <3>2
  <2>2. Apart(handed')
    <3>1. Apart(handed)
      BY DEF Inv, PieceInv
    <3>2. QED
      BY <1>11, <3>1 DEF Apart
  <2>3. QED
    BY <2>1, <2>2 DEF PieceInv
<1>13. MarkInv'
  <2>1. PICK pos \in [DOMAIN marks -> Nat] : Ordered(chain, marks, pos)
    BY DEF Inv, MarkInv
  <2>2. ASSUME NEW j \in DOMAIN marks PROVE MarkAt(d, marks[j], pos[j])
    <3> DEFINE m == marks[j]
               k == pos[j]
    <3>1. m \in MarkType /\ k \in Nat /\ MarkAt(chain, m, k) /\ m.used \in Nat
      <4>1. m \in MarkType /\ k \in Nat
        BY <1>1, <2>1, <2>2
      <4>2. QED
        BY <2>1, <4>1 DEF Ordered, MarkType
    <3> HIDE DEF m, k
    <3>2. k <= n /\ (k > 0 => k \in 1..n /\ m.used <= chain[k].used)
      BY <1>1, <3>1 DEF MarkAt
    <3>3. k <= e
      BY <1>1, <1>2, <1>4, <3>1, <3>2
    <3>4. k > 0 => m.used <= d[k].used
      <4>1. SUFFICES ASSUME k > 0 PROVE m.used <= d[k].used
        OBVIOUS
      <4>2. chain[k].used \in Nat /\ d[k].used \in Nat /\ d[k].used >= chain[k].used
        BY <1>3, <1>5, <3>1, <3>2, <3>3, <4>1
      <4>3. QED
        BY <3>1, <3>2, <4>1, <4>2
    <3>5. /\ \A i \in 1..k : d[i].id = chain[i].id
          /\ \A i \in 1..(k - 1) : chain[i].used <= d[i].used
      <4>1. \A i \in 1..k : i \in 1..n
        BY <1>1, <3>1, <3>2
      <4>2. \A i \in 1..n : chain[i].used \in Nat /\ d[i].used \in Nat
        BY <1>5, <1>4
      <4>3. \A i \in 1..(k - 1) : i \in 1..n
        BY <1>1, <3>1, <3>2
      <4>4. QED
        BY <1>3, <4>1, <4>2, <4>3
    <3>6. MarkAt(d, m, k)
      <4>1. k <= Len(d)
        BY <3>3 DEF e
      <4>2. QED
        BY ONLY MarkKept, <1>1, <1>2, <3>1, <3>4, <3>5, <4>1
    <3>7. QED
      BY <3>6 DEF m, k
  <2>3. Ordered(chain', marks', pos)
    BY <2>1, <2>2 DEF Ordered
  <2>4. QED
    BY <2>1, <2>3 DEF MarkInv, Inv
<1>14. QED
  BY <1>6, <1>7, <1>8, <1>9, <1>12, <1>13 DEF Inv

---------------------------------------------------------------------------
(* The other operations                                                    *)

\* An arena without blocks has handed out nothing.
LEMMA NothingHanded ==
    ASSUME Inv, chain = <<>>
    PROVE  handed = {}
BY DEF Inv, PieceInv

LEMMA MemInitInv ==
    ASSUME Inv, MemInit
    PROVE  Inv'
<1>1. PICK id \in Blocks \ heap : /\ chain' = <<NewBlock(id, MinBlock)>>
                                 /\ heap' = heap \cup {id}
  BY DEF MemInit
<1>2. /\ chain = <<>> /\ marks = <<>> /\ marks' = marks /\ handed' = handed
  BY DEF MemInit
<1> DEFINE b == NewBlock(id, MinBlock)
<1>3. b \in BlockType /\ b.id = id /\ b.used = 0 /\ 0 <= b.cap
  BY ArenaAssumption DEF NewBlock, CapFor, BlockType
<1> HIDE DEF b
<1>4. chain' = <<b>> /\ DOMAIN chain' = {1} /\ chain'[1] = b
  <2>1. chain' = <<b>>
    BY <1>1, Zenon DEF b
  <2>2. QED
    BY <2>1
<1>5. handed' = {} /\ heap = {}
  BY <1>2, NothingHanded DEF Inv, HeapInv, Ids
<1>6. Types'
  BY <1>1, <1>2, <1>3, <1>4, <1>5 DEF Inv, Types
<1>7. HeapInv'
  BY <1>1, <1>3, <1>4, <1>5 DEF HeapInv, Ids
<1>8. 0 % Align = 0
  BY ArenaAssumption, Multiple, 0 \in Int, Align * 0 = 0
<1>9. UsedInv' /\ AlignInv' /\ PieceInv'
  BY <1>2, <1>3, <1>4, <1>5, <1>8 DEF UsedInv, AlignInv, PieceInv, Apart
<1>10. MarkInv'
  <2>1. DOMAIN marks' = {}
    BY <1>2
  <2>2. [j \in DOMAIN marks' |-> 0] \in [DOMAIN marks' -> Nat]
    OBVIOUS
  <2>3. QED
    BY <2>1, <2>2 DEF MarkInv, Ordered
<1>11. QED
  BY <1>6, <1>7, <1>9, <1>10 DEF Inv

LEMMA ResetInv ==
    ASSUME Inv, Reset
    PROVE  Inv'
<1>1. chain' = <<>> /\ marks' = <<>> /\ handed' = {} /\ heap' = {}
  BY DEF Reset, Inv, HeapInv
<1>2. Ids(chain') = {} /\ DOMAIN chain' = {} /\ DOMAIN marks' = {}
  BY <1>1 DEF Ids
<1>3. Types'
  BY <1>1 DEF Types
<1>4. HeapInv' /\ UsedInv' /\ AlignInv' /\ PieceInv'
  BY <1>1, <1>2 DEF HeapInv, UsedInv, AlignInv, PieceInv, Apart
<1>5. MarkInv'
  <2>1. [j \in DOMAIN marks' |-> 0] \in [DOMAIN marks' -> Nat]
    OBVIOUS
  <2>2. QED
    BY <1>2, <2>1 DEF MarkInv, Ordered
<1>6. QED
  BY <1>3, <1>4, <1>5 DEF Inv

\* A new mark stands at the top of the chain, not below any other.
LEMMA MarkInvStep ==
    ASSUME Inv, Mark
    PROVE  Inv'
<1> DEFINE n == Len(chain)
           l == Len(marks) + 1
           m == [id |-> IF chain = <<>> THEN NULL ELSE Top.id,
                 used |-> MarkedUsed, handed |-> handed]
<1>1. /\ chain \in Seq(BlockType) /\ n \in Nat /\ DOMAIN chain = 1..n
      /\ marks \in Seq(MarkType) /\ handed \subseteq PieceType
  BY DEF Inv, Types
<1>2. marks' = Append(marks, m) /\ chain' = chain /\ heap' = heap /\ handed' = handed
  BY DEF Mark
<1>3. /\ m.handed = handed
      /\ n = 0 => m.id = NULL /\ m.used = 0
      /\ n > 0 => m.id = chain[n].id /\ m.used = chain[n].used
  BY <1>1 DEF MarkedUsed, Top
<1>4. m \in MarkType /\ m.used % Align = 0
  <2>1. CASE n = 0
    <3>1. 0 % Align = 0
      BY ArenaAssumption, Multiple, 0 \in Int, Align * 0 = 0
    <3>2. m \in MarkType
      BY <1>1, <1>3, <2>1 DEF MarkType, MarkedUsed, Top
    <3>3. QED
      BY <1>3, <2>1, <3>1, <3>2
  <2>2. CASE n > 0
    <3>1. chain # <<>> /\ Top \in BlockType /\ Top.used % Align = 0
      BY <1>1, <2>2, TopBlock DEF Inv, UsedInv, Top
    <3>2. MarkedUsed = Top.used
      BY <3>1 DEF MarkedUsed
    <3>3. QED
      BY <1>1, <3>1, <3>2 DEF MarkType, BlockType
  <2>3. QED
    BY <1>1, <2>1, <2>2
<1> HIDE DEF m
<1>5. MarkAt(chain, m, n)
  <2>1. CASE n = 0
    BY <1>1, <1>3, <2>1, NothingHanded DEF MarkAt
  <2>2. CASE n > 0
    <3>1. n \in DOMAIN chain /\ chain[n].used \in Nat
      <4>1. n \in DOMAIN chain /\ chain[n] \in BlockType
        BY <1>1, <2>2
      <4>2. QED
        BY <4>1 DEF BlockType
    <3>2. \A p \in handed : Below(chain, p, n, m.used)
      BY <1>1, <1>3, <2>2 DEF Inv, PieceInv, Below
    <3>3. QED
      BY <1>3, <2>2, <3>1, <3>2 DEF MarkAt
  <2>3. QED
    BY <1>1, <2>1, <2>2
<1> HIDE DEF n
<1>6. /\ l \in Nat \ {0} /\ marks' \in Seq(MarkType) /\ DOMAIN marks = 1..(l - 1)
      /\ DOMAIN marks' = 1..l /\ marks'[l] = m
      /\ \A j \in 1..(l - 1) : marks'[j] = marks[j] /\ marks[j] \in MarkType
  BY <1>1, <1>2, <1>4
<1> HIDE DEF l
<1>7. Types' /\ HeapInv' /\ PieceInv'
  BY <1>2, <1>6 DEF Inv, Types, HeapInv, PieceInv, Ids
<1>8. UsedInv' /\ AlignInv'
  BY <1>2, <1>3, <1>4, <1>6 DEF Inv, UsedInv, AlignInv
<1>9. MarkInv'
  <2>1. PICK pos \in [DOMAIN marks -> Nat] : Ordered(chain, marks, pos)
    BY DEF Inv, MarkInv
  <2> DEFINE pos2 == [j \in DOMAIN marks' |-> IF j = l THEN n ELSE pos[j]]
  <2>2. /\ pos2 \in [DOMAIN marks' -> Nat] /\ pos2[l] = n
        /\ \A j \in 1..(l - 1) : pos2[j] = pos[j] /\ pos[j] \in Nat
    BY <1>1, <1>6, <2>1
  <2> HIDE DEF pos2
  <2>3. ASSUME NEW j \in 1..(l - 1)
        PROVE  /\ MarkAt(chain, marks[j], pos[j])
               /\ pos[j] <= n /\ (pos[j] = n => marks[j].used <= m.used)
    <3>1. MarkAt(chain, marks[j], pos[j]) /\ pos[j] \in Nat
      BY <1>6, <2>1, <2>2 DEF Ordered
    <3>2. pos[j] = 0 => marks[j].used = 0
      BY <3>1 DEF MarkAt
    <3>3. pos[j] # 0 => pos[j] \in 1..n /\ marks[j].used <= chain[pos[j]].used
      BY <1>1, <3>1 DEF MarkAt
    <3>4. QED
      BY <1>1, <1>3, <3>1, <3>2, <3>3
  <2>4. Ordered(chain', marks', pos2)
    <3>1. \A j \in DOMAIN marks' : MarkAt(chain', marks'[j], pos2[j])
      BY <1>2, <1>5, <1>6, <2>2, <2>3
    <3>2. \A j, k \in 1..(l - 1) :
             j < k => /\ pos2[j] <= pos2[k]
                      /\ pos2[j] = pos2[k] => marks'[j].used <= marks'[k].used
      BY <1>6, <2>1, <2>2 DEF Ordered
    <3>3. \A j \in 1..(l - 1) : /\ pos2[j] <= pos2[l]
                                /\ pos2[j] = pos2[l] => marks'[j].used <= marks'[l].used
      BY <1>6, <2>2, <2>3
    <3>4. \A j, k \in 1..l : j < k => j \in 1..(l - 1) /\ (k = l \/ k \in 1..(l - 1))
      BY <1>6
    <3>5. \A j, k \in DOMAIN marks' :
             j < k => /\ pos2[j] <= pos2[k]
                      /\ pos2[j] = pos2[k] => marks'[j].used <= marks'[k].used
      BY <1>6, <3>2, <3>3, <3>4, Zenon
    <3>6. QED
      BY <3>1, <3>5 DEF Ordered
  <2>5. \A j \in DOMAIN marks' : Apart(marks'[j].handed)
    BY <1>3, <1>6 DEF Inv, MarkInv, PieceInv
  <2>6. QED
    BY <2>2, <2>4, <2>5 DEF MarkInv
<1>10. QED
  BY <1>7, <1>8, <1>9 DEF Inv

\* mem_pop cuts the chain at its mark; the marks set before it stay good, for
\* none stands above it.
LEMMA PopInv ==
    ASSUME Inv, Pop
    PROVE  Inv'
<1> DEFINE l == Len(marks)
           m == marks[l]
           d == chain'
<1>1. /\ chain \in Seq(BlockType) /\ marks \in Seq(MarkType) /\ l \in Nat \ {0}
      /\ DOMAIN marks = 1..l
  BY DEF Inv, Types, Pop
<1>2. PICK pos \in [DOMAIN marks -> Nat] : Ordered(chain, marks, pos)
  BY DEF Inv, MarkInv
<1> DEFINE k == pos[l]
           kept == SubSeq(chain, 1, k)
<1>3. m \in MarkType /\ k \in Nat /\ MarkAt(chain, m, k) /\ m.used \in Nat
  <2>1. l \in DOMAIN marks /\ m \in MarkType
    BY <1>1
  <2>2. QED
    BY <1>2, <2>1 DEF Ordered, MarkType
<1>4. k \in 0..Len(chain) /\ BackTo(m.id) = kept
  BY <1>3, BackToMark DEF Inv
<1>5. /\ kept \in Seq(BlockType) /\ Len(kept) = k
      /\ \A j \in 1..k : kept[j] = chain[j] /\ j \in DOMAIN chain /\ chain[j] \in BlockType
  BY <1>1, <1>3, <1>4, Prefix
<1>6. /\ d = IF kept = <<>> THEN kept ELSE [kept EXCEPT ![Len(kept)].used = m.used]
      /\ heap' = heap \ (Ids(chain) \ Ids(kept))
      /\ handed' = m.handed
      /\ marks' = SubSeq(marks, 1, l - 1)
  BY <1>4, Zenon DEF Pop
<1> HIDE DEF kept, k
<1>7. /\ d \in Seq(BlockType) /\ Len(d) = k /\ DOMAIN d = 1..k
      /\ \A j \in 1..k : /\ d[j].id = chain[j].id /\ d[j].cap = chain[j].cap
                        /\ d[j].used = IF j = k THEN m.used ELSE chain[j].used
  <2>1. CASE k = 0
    <3>1. kept = <<>> /\ d = <<>>
      BY <1>5, <1>6, <2>1
    <3>2. QED
      BY <2>1, <3>1
  <2>2. CASE k > 0
    <3> HIDE DEF d, m
    <3>1. k \in 1..k /\ kept # <<>>
      BY <1>3, <1>5, <2>2
    <3>2. d = [kept EXCEPT ![k] = [kept[k] EXCEPT !.used = m.used]]
      BY <1>5, <1>6, <3>1
    <3>3. kept[k] \in BlockType /\ [kept[k] EXCEPT !.used = m.used] \in BlockType
      <4>1. kept[k] \in BlockType
        BY <1>5, <3>1
      <4>2. QED
        BY <1>3, <4>1 DEF BlockType
    <3>4. /\ d \in Seq(BlockType) /\ Len(d) = k /\ DOMAIN d = 1..k
          /\ d[k] = [kept[k] EXCEPT !.used = m.used]
          /\ \A j \in 1..k : j # k => d[j] = kept[j]
      BY <1>3, <1>5, <3>1, <3>2, <3>3
    <3>5. /\ d[k].id = kept[k].id /\ d[k].cap = kept[k].cap /\ d[k].used = m.used
      BY <3>3, <3>4 DEF BlockType
    <3>6. QED
      BY <1>5, <3>1, <3>4, <3>5
  <2>3. QED
    BY <1>3, <2>1, <2>2
<1>8. /\ \A j \in 1..k : chain[j].used \in Nat
      /\ k > 0 => k \in DOMAIN chain /\ m.used <= chain[k].used
  BY <1>3, <1>5 DEF BlockType, MarkAt
<1> HIDE DEF d
<1>9. Ids(d) = Ids(kept) /\ Ids(kept) \subseteq Ids(chain)
  BY <1>5, <1>7 DEF Ids
<1>10. HeapInv'
  <2>1. Ids(chain') = Ids(d)
    BY DEF d
  <2>2. heap' = Ids(chain')
    BY <1>6, <1>9, <2>1 DEF Inv, HeapInv
  <2>3. \A i, j \in DOMAIN d : d[i].id = d[j].id => i = j
    BY <1>5, <1>7 DEF Inv, HeapInv
  <2>4. QED
    BY <2>2, <2>3 DEF HeapInv, d
<1>11. /\ marks' \in Seq(MarkType) /\ DOMAIN marks' = 1..(l - 1)
       /\ \A j \in 1..(l - 1) : /\ marks'[j] = marks[j] /\ marks[j] \in MarkType
                               /\ j \in DOMAIN marks
  <2>1. l - 1 \in 0..Len(marks)
    BY <1>1
  <2>2. /\ marks' \in Seq(MarkType) /\ Len(marks') = l - 1
        /\ \A j \in 1..(l - 1) : marks'[j] = marks[j]
    BY <1>1, <1>6, <2>1, Prefix
  <2> HIDE DEF m
  <2>3. QED
    BY <1>1, <2>2
<1>12. Types'
  <2>1. handed' \subseteq PieceType
    BY <1>3, <1>6 DEF MarkType
  <2>2. QED
    BY <1>6, <1>7, <1>11, <2>1 DEF Inv, Types, d
<1>13. l \in DOMAIN marks /\ m.used % Align = 0 /\ Apart(m.handed)
       /\ \A p \in m.handed : p.at % Align = 0
  BY <1>1 DEF Inv, UsedInv, AlignInv, MarkInv
<1>14. UsedInv'
  <2>1. \A j \in DOMAIN d : d[j].used <= d[j].cap /\ d[j].used % Align = 0
    <3>1. SUFFICES ASSUME NEW j \in 1..k PROVE d[j].used <= d[j].cap /\ d[j].used % Align = 0
      BY <1>7
    <3>2. /\ chain[j].used <= chain[j].cap /\ chain[j].used % Align = 0
          /\ chain[j].cap \in Nat /\ chain[j].used \in Nat
      BY <1>5 DEF Inv, UsedInv, BlockType
    <3>3. CASE j = k
      <4>1. m.used <= chain[j].cap
        BY <1>3, <1>8, <3>2, <3>3
      <4>2. QED
        BY <1>7, <1>13, <3>3, <4>1
    <3>4. CASE j # k
      BY <1>7, <3>2, <3>4
    <3>5. QED
      BY <3>3, <3>4
  <2>2. QED
    BY <1>11, <2>1 DEF Inv, UsedInv, d
<1>15. AlignInv'
  BY <1>6, <1>11, <1>13 DEF Inv, AlignInv
<1>16. PieceInv'
  <2>1. ASSUME NEW p \in m.handed
        PROVE  \E j \in DOMAIN d : p.id = d[j].id /\ p.at + p.len <= d[j].used
    <3>1. k > 0 /\ Below(chain, p, k, m.used)
      BY <1>3, <2>1 DEF MarkAt
    <3>2. QED
      BY <1>7, <3>1 DEF Below
  <2>2. QED
    BY <1>6, <1>13, <2>1 DEF PieceInv, d
<1>17. ASSUME NEW j \in 1..(l - 1) PROVE MarkAt(d, marks[j], pos[j])
  <2> DEFINE x == marks[j]
             i == pos[j]
  <2>1. /\ x \in MarkType /\ i \in Nat /\ MarkAt(chain, x, i) /\ x.used \in Nat
        /\ i <= k /\ (i = k => x.used <= m.used)
    <3>1. j \in DOMAIN marks /\ x \in MarkType /\ j < l
      BY <1>1, <1>11
    <3>2. QED
      BY <1>2, <1>13, <3>1 DEF Ordered, MarkType, k
  <2> HIDE DEF x, i, m
  <2>2. i > 0 => x.used <= d[i].used
    <3>1. SUFFICES ASSUME i > 0 PROVE x.used <= d[i].used
      OBVIOUS
    <3>2. i \in 1..k /\ x.used <= chain[i].used
      BY <1>3, <2>1, <3>1 DEF MarkAt
    <3>3. QED
      BY <1>7, <2>1, <3>2
  <2>3. \A a \in 1..i : d[a].id = chain[a].id
    BY <1>3, <1>7, <2>1
  <2>4. \A a \in 1..(i - 1) : chain[a].used <= d[a].used
    <3>1. SUFFICES ASSUME NEW a \in 1..(i - 1) PROVE chain[a].used <= d[a].used
      OBVIOUS
    <3>2. a \in 1..k /\ a # k
      BY <1>3, <2>1
    <3>3. d[a].used = chain[a].used /\ chain[a].used \in Nat
      BY <1>7, <1>8, <3>2
    <3>4. QED
      BY <3>3
  <2>5. i <= Len(d)
    BY <1>7, <2>1
  <2>6. MarkAt(d, x, i)
    BY ONLY MarkKept, <1>1, <1>7, <2>1, <2>2, <2>3, <2>4, <2>5
  <2>7. QED
    BY <2>6 DEF x, i
<1>18. MarkInv'
  <2> DEFINE pos2 == [j \in 1..(l - 1) |-> pos[j]]
  <2>1. pos2 \in [DOMAIN marks' -> Nat] /\ \A j \in 1..(l - 1) : pos2[j] = pos[j]
    BY <1>2, <1>11
  <2> HIDE DEF pos2
  <2>2. Ordered(chain', marks', pos2)
    BY <1>2, <1>11, <1>17, <2>1 DEF Ordered, d
  <2>3. \A j \in DOMAIN marks' : Apart(marks'[j].handed)
    BY <1>11 DEF Inv, MarkInv
  <2>4. QED
    BY <2>1, <2>2, <2>3 DEF MarkInv
<1>19. QED
  BY <1>10, <1>12, <1>14, <1>15, <1>16, <1>18 DEF Inv

---------------------------------------------------------------------------
(* Theorems                                                                *)

LEMMA InitInv == Init => Inv
<1> SUFFICES ASSUME Init PROVE Inv
  OBVIOUS
<1>1. Types /\ HeapInv /\ UsedInv /\ AlignInv /\ PieceInv
  BY DEF Init, Types, HeapInv, UsedInv, AlignInv, PieceInv, Apart, Ids
<1>2. MarkInv
  <2>1. DOMAIN marks = {} /\ [j \in DOMAIN marks |-> 0] \in [DOMAIN marks -> Nat]
    BY DEF Init
  <2>2. QED
    BY <2>1 DEF MarkInv, Ordered
<1>3. QED
  BY <1>1, <1>2 DEF Inv

\* ms_alloc in either way.
LEMMA AllocInv ==
    ASSUME Inv, NEW size \in Nat, AllocHere(size, size) \/ AllocNew(size, size)
    PROVE  Inv'
<1>1. PICK p : Grown(chain', p) /\ handed' = handed \cup {p} /\ heap' = Ids(chain')
  BY GrownHere, GrownNew
<1>2. marks' = marks
  BY DEF AllocHere, AllocNew
<1>3. QED
  BY <1>1, <1>2, GrownInv

LEMMA NextInv == Inv /\ [Next]_vars => Inv'
<1> SUFFICES ASSUME Inv, [Next]_vars PROVE Inv'
  OBVIOUS
<1>1. CASE MemInit
  BY <1>1, MemInitInv
<1>2. CASE Alloc
  BY <1>2, AllocInv, ArenaAssumption DEF Alloc
<1>3. CASE Strndup
  <2>1. PICK n \in 0..(MaxSize - 1) : AllocHere(n + 1, n + 1) \/ AllocNew(n + 1, n + 1)
    BY <1>3 DEF Strndup
  <2>2. n + 1 \in Nat
    BY ArenaAssumption
  <2>3. QED
    BY <2>1, <2>2, AllocInv
<1>4. CASE Mark
  BY <1>4, MarkInvStep
<1>5. CASE Pop
  BY <1>5, PopInv
<1>6. CASE Reset
  BY <1>6, ResetInv
<1>7. CASE UNCHANGED vars
  <2>1. Types' /\ HeapInv' /\ UsedInv' /\ AlignInv' /\ PieceInv'
    BY <1>7 DEF vars, Inv, Types, HeapInv, UsedInv, AlignInv, PieceInv, Ids
  <2>2. MarkInv'
    BY <1>7 DEF vars, Inv, MarkInv
  <2>3. QED
    BY <2>1, <2>2 DEF Inv
<1>8. QED
  BY <1>1, <1>2, <1>3, <1>4, <1>5, <1>6, <1>7 DEF Next

\* For any sizes, blocks and marks, and whatever is allocated, marked, popped and
\* reset: no two pieces in use overlap, and none reaches past its block's used part.
THEOREM PiecesNeverOverlap == Spec => []NoOverlap
<1>1. Inv => NoOverlap
  BY DEF Inv, PieceInv, Apart, NoOverlap
<1>2. QED
  BY InitInv, NextInv, <1>1, PTL DEF Spec

\* The chain holds every block malloc has returned and none that is freed, no
\* block is used beyond its size, and every piece is aligned.
THEOREM ChainAlwaysSound == Spec => []ChainSound
<1>1. Inv => ChainSound
  BY DEF Inv, Types, HeapInv, UsedInv, AlignInv, ChainSound
<1>2. QED
  BY InitInv, NextInv, <1>1, PTL DEF Spec
=============================================================================
