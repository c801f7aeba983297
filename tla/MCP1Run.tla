------------------------------ MODULE MCP1Run ------------------------------
(* An instance of P1Run for TLC. *)
EXTENDS P1Run

Entry(label, payload) == [label |-> label, payload_digest |-> payload]

\* Sealed over the first payloads or the second, of one label, of a label that
\* is none, empty, not there.
Corpora ==
    { [good |-> Entry("KNOWN_GOOD", "p1"), bad |-> Entry("KNOWN_BAD", "p1")],
      [good |-> Entry("KNOWN_GOOD", "p2"), bad |-> Entry("KNOWN_BAD", "p1")],
      [good |-> Entry("KNOWN_GOOD", "p1")],
      [good |-> Entry("KNOWN_GOOD", "p1"), bad |-> Entry("EVASIVE", "p1")],
      <<>>, Absent }

\* The right command, one with a malformed digest, one without a key file, one
\* with another key.
Commands ==
    { [digest |-> "image1", key |-> "key1", trusted |-> "key1"],
      [digest |-> Absent, key |-> "key1", trusted |-> "key1"],
      [digest |-> "image1", key |-> Absent, trusted |-> "key1"],
      [digest |-> "image1", key |-> "key2", trusted |-> "key1"] }

Payloads == {"p1", "p2", Absent}
=============================================================================
