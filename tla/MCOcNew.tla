------------------------------ MODULE MCOcNew ------------------------------
\* Excerpts of the phase table of flow.py for TLC.
EXTENDS OcNewConductor, TLC

Symmetry == Permutations(Process)

\* The phases around the approval of the code change, and the archive.
ShortFlow == <<"approval", "apply", "archive">>

ShortRequired == [approval |-> {"tasks.md"},
                  apply    |-> {"approval.json", "tasks.md"},
                  archive  |-> {"harness-report.json"}]

ShortEvidence == {"approval.json", "harness-report.json"}

ShortSpecs == {"tasks.md"}

\* Two phases, for the interleavings of two processes.
PairFlow == <<"propose", "spec">>

PairRequired == [propose |-> {}, spec |-> {"proposal.md"}]

Conf(m, b, t) == [mode |-> m, budget |-> b, strict |-> t]

PairConfigs == {Conf("automatic", "lenient", TRUE)}

SomeConfigs == {Conf("automatic", "lenient", TRUE), Conf("hybrid", "strict", FALSE),
                Conf("stepwise", "lenient", FALSE)}
=============================================================================
