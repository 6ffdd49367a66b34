\* Every kernel by the teams that compute it; the kernel returns.
CONSTANTS
  Tensors <- MCTensors
  Programs <- MCPrograms
  MaxTeam <- MCMaxTeam
SPECIFICATION Spec
INVARIANTS TypeOK SerialResult NoRace CallsShared
PROPERTIES Returns
