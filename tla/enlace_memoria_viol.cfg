SPECIFICATION Spec
CONSTANTS
  Pedidos = 3
  Largos = {0, 8}
INVARIANT ConfirmaLoEscrito
CHECK_DEADLOCK FALSE
