--------------------------- MODULE MCAlertArchive ---------------------------
(* Instances of AlertArchive for TLC. *)
EXTENDS AlertArchive, TLC

CONSTANTS r1, w1, w2, unreviewed, truePositive

OneWriter == {w1}
TwoWriters == {w1, w2}
OneReader == {r1}
NoReader == {}
Verdict2 == {unreviewed, truePositive}
CutoverOnly == {"cutover"}
RetentionOnly == {"retention"}
BothMoves == {"retention", "cutover"}
=============================================================================
