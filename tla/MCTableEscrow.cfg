SPECIFICATION Spec
CONSTANTS
  alice = alice
  bob = bob
  Players <- MCPlayers
  Amounts <- MCAmounts
  InitialWallet <- MCWallet
  MaxRakeBps = 5000
SYMMETRY MCSymmetry
INVARIANTS
  TypeOK
  Solvent
  SupplyConserved
