SPECIFICATION Spec
CONSTANTS
    Secret = {s1, s2}
    Batch = {b1, b2}
    CodesPerBatch = 1
    Challenge = {c1, c2}
    Proc = {p1, p2}
    Intents = {"ADMIN"}
    MaxAttempts = 1
    MaxStep = 2
    None = None
SYMMETRY Symmetry
INVARIANTS TypeOK SecondFactorIsSpentOnce GuessesAreBounded EnabledSecretIsOnThePhone CodesAreOneGeneration
 
