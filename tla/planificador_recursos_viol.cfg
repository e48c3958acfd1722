SPECIFICATION Spec
CONSTANTS
  Procesos = {p1, p2, p3}
  Recursos = {r1}
  Instancias = 1
  InstanciasIniciales <- MCInstanciasIniciales
  Archivos = {}
  Grado = 3
  Algoritmo = "FIFO"
  Instrucciones = {"YIELD", "WAIT", "SIGNAL"}
  MaxInstrucciones = 3
  RespuestasMemoria = {"AUX_OK"}
  RespuestasReintento = {"AUX_OK"}
  Ninguno = Ninguno
INVARIANT NoSobreOtorga
CHECK_DEADLOCK FALSE
