---------------------------- MODULE MCInventory ----------------------------
(* Tags for model-checking Inventory; any of them may stand for another. *)
EXTENDS Inventory, TLC

CONSTANTS tagA, tagB
MCTags == {tagA, tagB}
=============================================================================
