SPECIFICATION Spec
CONSTANTS
    MaxDones = 2
    Files = {settings, copy}
    settings = settings
    copy = copy
    NoFile = NoFile
INVARIANTS
    RunShown
    ReportedWritten
PROPERTY
    ClosedByAnswer
