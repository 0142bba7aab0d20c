------------------------------ MODULE MCIngestion ------------------------------
(* Instances of Ingestion for TLC: one or two items and payloads of every     *)
(* kind, the plain one in one variation only.                                 *)
EXTENDS Ingestion, TLC

CONSTANTS A, D, U, G, M, r1, r2

OneItem == {1}
TwoItems == {1, 2}
OneRun == {r1}
TwoRuns == {r1, r2}
None == {}
One == {1}
Two == {2}
OneOrTwo == {1, 2}

\* The life of a repository: its base is unknown, its name is known, it is gone,
\* it cannot be read.
LifeContents == {D, U, G, M}
LifeKind == (D :> "derivative") @@ (U :> "reupload") @@ (G :> "gone") @@ (M :> "malformed")

PlainContents == {A, D, U, G, M}
PlainKind == (A :> "plain") @@ LifeKind

\* Payloads an editor has to link.
OnlyDerivative == {D}
OnlyDerivativeKind == (D :> "derivative")
OnlyReupload == {U}
OnlyReuploadKind == (U :> "reupload")
=============================================================================
