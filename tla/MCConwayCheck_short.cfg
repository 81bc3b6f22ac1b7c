CONSTANTS
    DbFiles <- MCDbFiles
    AcroFiles <- MCAcroFilesShort
SPECIFICATION Spec
INVARIANT
    NoCrash
