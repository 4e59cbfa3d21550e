--------------------------- MODULE MCHarnessRunner ---------------------------
\* The phases of HarnessRunner for TLC: spec stands for the five phases
\* before apply, archive for the two after verify.
EXTENDS HarnessRunner

Track == <<"spec", "apply", "verify", "archive">>
=============================================================================
