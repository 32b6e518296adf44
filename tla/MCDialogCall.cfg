SPECIFICATION DialogSpec
INVARIANTS
    NoStaleDialog
