SPECIFICATION Spec
CONSTANT
    InputLines <- MCLines
INVARIANTS
    TypeOK WordsAgree OperatorsAgree RefusedIffUnclosed
PROPERTIES
    ReturnsOnBlanks
