SPECIFICATION Spec
CONSTANTS
    Sdks <- TheSdks
    Sort <- TheSort
    Handle = "Handle"
    None = None
INVARIANTS
    TypeOK
    CallsDeclared
    FieldsFilled
    ArgumentsPassed
    ResultsWritten
    SignalsBound
    RemoversExist
