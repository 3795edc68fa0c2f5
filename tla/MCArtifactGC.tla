----------------------------- MODULE MCArtifactGC -----------------------------
\* Two requests whose payloads overlap: both produce d1, which is also the input
\* of the second.
EXTENDS ArtifactGC, TLC
CONSTANTS r1, r2, d1, d2

TwoRequests == {r1, r2}
TwoDigests == {d1, d2}
Both == {"normal", "legacy"}
NormalOnly == {"normal"}
FirstDigest == {d1}
NoDigests == {}
Inputs == (r1 :> d2) @@ (r2 :> d1)
Outputs == (r1 :> {d1}) @@ (r2 :> {d1})
=============================================================================
