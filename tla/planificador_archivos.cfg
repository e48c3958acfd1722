SPECIFICATION Spec
CONSTANTS
  Procesos = {p1, p2, p3}
  Recursos = {}
  Instancias = 1
  InstanciasIniciales <- MCInstanciasIniciales
  Archivos = {f1}
  Grado = 3
  Algoritmo = "HRRN"
  Instrucciones = {"F_OPEN", "F_CLOSE", "F_TRUNCATE", "F_SEEK", "F_READ", "F_WRITE", "YIELD", "I/O"}
  MaxInstrucciones = 3
  RespuestasMemoria = {"AUX_OK"}
  RespuestasReintento = {"AUX_OK"}
  Ninguno = Ninguno
SYMMETRY Simetria
INVARIANT UnLugar
INVARIANT EstadoFiel
INVARIANT ExecNuncaVacia
CHECK_DEADLOCK FALSE
