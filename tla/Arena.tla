------------------------------- MODULE Arena -------------------------------
(***************************************************************************)
(* mem/: an arena is a chain of blocks and hands out pieces of the block   *)
(* at its top.  Pieces are freed all at once by mem_reset, or back to a    *)
(* mark by mem_pop.  A block that is freed may come back from malloc.      *)
(***************************************************************************)
EXTENDS Integers, Sequences

CONSTANTS
    Blocks,     \* the blocks malloc can return
    NULL,
    MinBlock,   \* MS_MIN_BLOCK, 512 in the build
    Align,      \* sizeof(void *)
    MaxSize,    \* bound: bytes asked for at once
    MaxMarks    \* bound: marks kept at once

ASSUME ArenaAssumption ==
    /\ NULL \notin Blocks
    /\ Align \in Nat \ {0}
    /\ MinBlock \in Nat \ {0} /\ MinBlock % Align = 0
    /\ MaxSize \in Nat /\ MaxMarks \in Nat

VARIABLES
    chain,      \* [id, cap, used] of every block, the one at the top last
    heap,       \* the blocks malloc has returned and that are not freed
    marks,      \* the caller's marks, the last one first to pop: [id, used, handed]
    handed      \* history: the pieces the caller may use, [id, at, len]

vars == <<chain, heap, marks, handed>>

BlockType == [id : Blocks, cap : Nat, used : Nat]
PieceType == [id : Blocks, at : Nat, len : Nat]
MarkType  == [id : Blocks \cup {NULL}, used : Nat, handed : SUBSET PieceType]

Top == chain[Len(chain)]

\* Mutant: a block never has more than the minimum.
CapFor_Min(need) == MinBlock

\* new_block
CapFor(need) == IF need < MinBlock THEN MinBlock ELSE need

\* (size + sizeof(void *) - 1) & ~(sizeof(void *) - 1)
Rounded(size) == (size + (Align - 1)) - ((size + (Align - 1)) % Align)

NewBlock(id, need) == [id |-> id, cap |-> CapFor(need), used |-> 0]

Init == chain = <<>> /\ heap = {} /\ marks = <<>> /\ handed = {}

\* mem_init, called on an arena that holds nothing.  If malloc fails, here or in
\* ms_alloc, nothing changes.
MemInit ==
    /\ chain = <<>> /\ marks = <<>>
    /\ \E id \in Blocks \ heap :
           /\ chain' = <<NewBlock(id, MinBlock)>>
           /\ heap' = heap \cup {id}
    /\ UNCHANGED <<marks, handed>>

Fits(need) == chain # <<>> /\ Top.used + need <= Top.cap

Piece(id, at, len) == [id |-> id, at |-> at, len |-> len]

\* ms_alloc when the top block has room; the caller then writes len bytes.
AllocHere(size, len) ==
    /\ Fits(Rounded(size))
    /\ chain' = [chain EXCEPT ![Len(chain)].used = @ + Rounded(size)]
    /\ handed' = handed \cup {Piece(Top.id, Top.used, len)}
    /\ UNCHANGED <<heap, marks>>

\* ms_alloc when it has not.
AllocNew(size, len) ==
    /\ ~Fits(Rounded(size))
    /\ \E id \in Blocks \ heap :
           /\ chain' = Append(chain, [NewBlock(id, Rounded(size)) EXCEPT
                                          !.used = Rounded(size)])
           /\ heap' = heap \cup {id}
           /\ handed' = handed \cup {Piece(id, 0, len)}
    /\ UNCHANGED marks

Alloc == \E size \in 1..MaxSize : AllocHere(size, size) \/ AllocNew(size, size)

\* ms_strndup, ms_strdup: n characters and a NUL are written.
Strndup == \E n \in 0..(MaxSize - 1) :
               LET size == n + 1 IN AllocHere(size, n + 1) \/ AllocNew(size, n + 1)

\* Mutant: the mark does not remember how much of its block was used.
MarkedUsed_None == 0

MarkedUsed == IF chain = <<>> THEN 0 ELSE Top.used

\* mem_mark
Mark ==
    /\ Len(marks) < MaxMarks
    /\ marks' = Append(marks, [id |-> IF chain = <<>> THEN NULL ELSE Top.id,
                               used |-> MarkedUsed, handed |-> handed])
    /\ UNCHANGED <<chain, heap, handed>>

Ids(s) == {s[k].id : k \in DOMAIN s}

\* The chain without what lies above the block id: nothing if it is not there.
BackTo(id) ==
    LET k == CHOOSE k \in 0..Len(chain) :
                 /\ k > 0 => chain[k].id = id
                 /\ \A b \in (k + 1)..Len(chain) : chain[b].id # id
    IN SubSeq(chain, 1, k)

\* mem_pop of the last mark: what was handed out since then is given back.
Pop ==
    /\ marks # <<>>
    /\ LET m    == marks[Len(marks)]
           kept == BackTo(m.id)
       IN /\ chain' = IF kept = <<>> THEN kept ELSE [kept EXCEPT ![Len(kept)].used = m.used]
          /\ heap' = heap \ (Ids(chain) \ Ids(kept))
          /\ handed' = m.handed
    /\ marks' = SubSeq(marks, 1, Len(marks) - 1)

\* mem_reset: nothing handed out, and no mark, may be used again.
Reset ==
    /\ chain' = <<>> /\ heap' = heap \ Ids(chain)
    /\ marks' = <<>> /\ handed' = {}

Next == MemInit \/ Alloc \/ Strndup \/ Mark \/ Pop \/ Reset

Spec == Init /\ [][Next]_vars

---------------------------------------------------------------------------
(* Properties                                                              *)

\* No piece reaches into another one, whatever was allocated, marked, popped or
\* reset before, and none reaches past what its block counts as used: it will not
\* be handed out a second time.
NoOverlap ==
    /\ \A p \in handed : \E k \in DOMAIN chain :
           p.id = chain[k].id /\ p.at + p.len <= chain[k].used
    /\ \A p, q \in handed :
           p # q /\ p.id = q.id => p.at + p.len <= q.at \/ q.at + q.len <= p.at

\* The blocks of the chain are exactly those malloc has handed out: none is lost
\* and none is freed while it is in use.  No block is used beyond its size, and
\* every piece is aligned for a pointer.
ChainSound ==
    /\ chain \in Seq(BlockType) /\ heap \subseteq Blocks
    /\ marks \in Seq(MarkType) /\ handed \subseteq PieceType
    /\ heap = Ids(chain)
    /\ \A j, k \in DOMAIN chain : chain[j].id = chain[k].id => j = k
    /\ \A k \in DOMAIN chain : chain[k].used <= chain[k].cap
    /\ \A p \in handed : p.at % Align = 0
=============================================================================
