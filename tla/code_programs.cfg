CONSTANTS
    Programs <- AllPrograms
    Main = "M"
    IntBits = 20
    StackDepth = 6
    RegisterCount = 12
SPECIFICATION Spec
INVARIANTS AtInstruction ReadsOnlyWritten
PROPERTY ImplementsSource
