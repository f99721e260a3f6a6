------------------------ MODULE MCApplyTransaction --------------------------
(* Small instances of ApplyTransaction for TLC.                            *)
EXTENDS ApplyTransaction

CONSTANTS a, b, h

(* Two configs that differ in every feature an undo depends on.            *)
TwoConfigs == {a, b}
OnlyA == {a}
OnlyB == {b}
OneHost == {h}
Nothing == {}
BanOnly == {"ban"}
RollbackOnly == {"rollback"}
=============================================================================
