\* Two slots beside the base shells: programs nested three deep, slots found
\* missing and used again.
CONSTANTS
    NTerm = 2
    MaxProc = 4
SPECIFICATION Spec
INVARIANTS
    TypeOK
    Coherent
    SavedContexts
    ParentsWait
    Stacked
    BaseShells
    CountRight
PROPERTIES
    ImplementsStacks
    BootCompletes
    EveryTerminalRuns
    SwitchServed
    SigquitServed
