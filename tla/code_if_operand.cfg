CONSTANTS
    Programs <- IfPrograms
    Main = "M"
    IntBits = 20
    StackDepth = 6
    RegisterCount = 12
SPECIFICATION Spec
PROPERTY ImplementsSource
