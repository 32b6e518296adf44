SPECIFICATION Spec
CONSTANTS
    MaxLogSize = 5
    Heights = {1, 2, 4}
    MaxLines = 9
INVARIANTS
    IteratorsValid
PROPERTY
    ImplementsScrollView
