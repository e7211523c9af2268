SPECIFICATION Spec
CONSTANTS
    Process <- Processes
    JobLists <- SomeLists
    MaxRuns = 3
    Names <- SomeNames
    Plain <- PlainSources
    Missing <- MissingInputs
INVARIANT NoTempLeft
INVARIANT OthersCompleted
INVARIANT WholeProgram
INVARIANT OldAssemblyKept
PROPERTY ImplementsBuild
