CONSTANTS
    Run = {a, b}
SPECIFICATION Spec
INVARIANTS
    NeverTorn
    PreregSurvivesUnlessFound
PROPERTIES
    OnlyRunsDirCanVanish
SYMMETRY Symmetry
