CONSTANTS
    Run = {a, b}
SPECIFICATION Spec
INVARIANTS
    PreregSurvives
