---------------------------- MODULE MCKernelBoot ----------------------------
EXTENDS KernelBoot

CONSTANTS good, bad

TwoVersions == {good, bad}
OnlyGood    == {good}
=============================================================================
