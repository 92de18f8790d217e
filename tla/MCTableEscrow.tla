---------------------------- MODULE MCTableEscrow ----------------------------
(* Model-checking instance of TableEscrow: two wallets with two chips each. *)
EXTENDS TableEscrow, TLC

CONSTANTS alice, bob

MCPlayers == {alice, bob}
MCAmounts == 0 .. 4
MCWallet == [p \in MCPlayers |-> 2]
MCSymmetry == Permutations(MCPlayers)
=============================================================================
