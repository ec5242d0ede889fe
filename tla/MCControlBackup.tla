--------------------------- MODULE MCControlBackup ---------------------------
\* Two builds that agree on version 1 and disagree from version 2 on.
EXTENDS ControlBackup, TLC

MCBuilds == {<<"a", "b">>, <<"a", "c", "d">>}
MCNames == 1..2
MCTimes == 1..2
MCSymmetry == Permutations(Procs)
=============================================================================
