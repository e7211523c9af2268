SPECIFICATION Spec
CONSTANTS
    Files <- MCFiles
    Kinds <- MCKinds
    WordLength = 4
INVARIANT StatesExact
INVARIANT AcceptsLanguage
INVARIANT RefusesAmbiguous
PROPERTY WorklistAdvances
