SPECIFICATION Spec
CONSTANT
    TokenLists <- MCTokenLists
INVARIANTS
    TypeOK NoArgvOverrun ArgvFilled AcceptsGrammar EachTokenPlaced
