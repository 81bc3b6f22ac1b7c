CONSTANTS
    Alphabet <- MCAlphabet
    Lines <- MCPlainLines
SPECIFICATION Spec
INVARIANTS
    ScreenMatchesCsv
    ScreenIsScreened
