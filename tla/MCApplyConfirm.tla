--------------------------- MODULE MCApplyConfirm ---------------------------
EXTENDS ApplyConfirm

CONSTANTS t1, t2, t3, old, c1

TwoTexts   == {t1, t2}
ThreeTexts == {t1, t2, t3}
OldTexts   == {old}
OneCli     == {c1}
Nobody     == {}
Everyone   == Procs \ {Boot}
NoPairs    == {}
Relabel    == {<<t3, t1>>}
Replug     == {<<t2, t1>>}
Swap       == {<<t1, t2>>}
=============================================================================
