------------------------- MODULE MCEvidenceArchive -------------------------
(* Instances of EvidenceArchive for TLC. *)
EXTENDS EvidenceArchive, TLC

Base == [profile |-> "p2", gated_commit |-> "g1", policy |-> "pol1",
         event |-> "ev1", detector |-> "retry", seed_image |-> "img1"]

Stale == Base @@ [scenario |-> "set_head_stale", image |-> "img1"]
Drift == Base @@ [scenario |-> "subject_drift_second_image", image |-> "img2"]
NoDrift == Base @@ [scenario |-> "subject_drift_second_image", image |-> "img1"]

Contexts == {Stale, Drift, NoDrift}

Pass == [kind |-> "admitted_run", reason |-> "completed", outcome |-> "pass"]
Refused(reason) ==
    [kind |-> "blocking_refusal", reason |-> reason, outcome |-> "error"]
Neutral == [kind |-> "non_run", reason |-> "skip_neutral", outcome |-> "error"]

Observations ==
    {Pass, Refused("set_head_stale"), Refused("subject_drift"), Neutral}
=============================================================================
