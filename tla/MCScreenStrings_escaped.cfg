CONSTANTS
    Alphabet <- MCAlphabet
    Lines <- MCAllLines
SPECIFICATION Spec
INVARIANT
    ScreenMatchesCsv
