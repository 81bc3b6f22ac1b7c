CONSTANTS
    DbFiles <- MCDbFiles
    AcroFiles <- MCAcroFiles
SPECIFICATION Spec
INVARIANTS
    TypeOK
    NoReportMeansAgreement
