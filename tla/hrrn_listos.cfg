SPECIFICATION Spec
CONSTANTS
  Procesos = {p1, p2, p3}
  Ninguno = ninguno
  Operaciones = {"YIELD", "IO", "F_READ", "F_TRUNCATE", "WAIT", "SIGNAL"}
  Rafagas = 2
  MaxReloj = 3
  EstimacionesIniciales = {0, 2}
  Instancias = 0
SYMMETRY Simetria
INVARIANT MarcaDeEstaVez
PROPERTY NadieAdelanta
CHECK_DEADLOCK FALSE
