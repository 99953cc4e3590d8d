\* A program that faults on one terminal beside one that halts on another.
CONSTANTS
    NTerm = 2
    MaxProc = 4
SPECIFICATION Spec
PROPERTY FaultReported
