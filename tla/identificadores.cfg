SPECIFICATION Spec
CONSTANTS
  Consolas = {c1, c2, c3, c4}
  Ninguna = ninguna
SYMMETRY Simetria
INVARIANT RepetidosSoloConCarrera
INVARIANT UnLugarSiEsUnico
CHECK_DEADLOCK FALSE
