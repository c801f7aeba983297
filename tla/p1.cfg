CONSTANTS
    Fixture = {"good", "bad"}
    Payload <- Payloads
    Manifests <- Corpora
    Image = {"image1", "image2"}
    Key = {"key1", "key2"}
    Command <- Commands
    MaxChanges = 1
    Absent = Absent
SPECIFICATION FairSpec
INVARIANTS
    VerdictBindsWhatRan
    ExitZeroIsEvidence
    LogIsTheSignedOne
PROPERTIES
    P1RowSettles
CHECK_DEADLOCK FALSE
