\* A product of matrices with two threads.
CONSTANTS
  Tensors <- MCTensors
  Programs <- Matmul
  MaxTeam <- MCMaxTeam
SPECIFICATION Spec
INVARIANTS NativeResult
