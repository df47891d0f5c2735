SPECIFICATION SetupSpec
CONSTANTS
    Cabinets <- MCCabinets
    Certificate <- MCCertificate
    Tool <- MCTool
INVARIANTS
    ExtractionIsSound
    StaysInside
    SuccessIsTrue
