SPECIFICATION Spec
CONSTANTS
  Atoms <- MCAtoms
  Empty = ""
  NotANumber = NotANumber
  Value <- MCValue
  Words <- MCWords
  Leftovers <- MCLeftovers
  InitialFiles <- MCFiles
  MaxUsers = 2
  MaxFaults = 2
INVARIANTS TypeOK FileAgrees NamesUnique
PROPERTIES AccountsEndure SignInDecides
