SPECIFICATION EvalSpec
CONSTANTS
    None = None
    Absent = Absent
    Phrases <- AllPhrases
    Scenarios <- AllScenarios
    Gates <- DefaultGates
INVARIANTS
    EvalTypeOK
    PassIsEarned
    FailuresAreReal
    ArtifactsAgree
    GoldenGate
