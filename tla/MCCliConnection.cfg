SPECIFICATION Spec
CONSTANTS
    None = None
    Unusable = Unusable
    Misfit = Misfit
    t1 = t1
    t2 = t2
    Invocations <- MCInvocations
    Records <- MCRecords
    Inputs <- MCInputs
INVARIANTS
    ConnectionErrorsAreExplicit
\* The command ends.
CHECK_DEADLOCK FALSE
