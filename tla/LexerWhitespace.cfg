SPECIFICATION Spec
CONSTANT
    InputLines <- MCWhiteLines
PROPERTIES
    LexerReturns
