--------------------------- MODULE MCVaultAccess ---------------------------
(* Model values and small sets for model-checking VaultAccess. *)
EXTENDS VaultAccess

CONSTANTS ana, c1

MCNames   == {AdminName, ana}
MCCards   == {c1}
MCFingers == {1, 2, 3, 4}

Asked(id, card, finger) ==
  [userID |-> id, name |-> ana, card |-> card, finger |-> finger]
Create(card, finger)     == [type |-> "CREATE_USER", user |-> Asked(Admin, card, finger)]
Modify(id, card, finger) == [type |-> "MODIFY_USER", user |-> Asked(id, card, finger)]
Register(name)           == [type |-> "REGISTER_USER", name |-> name]
Remove(id)               == [type |-> "REMOVE_USER", userId |-> id]

(* Users with a finger, with a password and with neither, which is refused; *)
(* one of them gets a card and a finger, or loses the card.                 *)
MCCommands ==
  {Create(NoCard, 2), Create(NoCard, NoFinger), Modify(2, c1, 3),
   Modify(2, NoCard, NoFinger), Register(ana), Remove(2)}

(* Users with a finger, given and taken. *)
MCFingerCommands == {Create(NoCard, 2), Create(NoCard, 3), Remove(2)}
=============================================================================
