SPECIFICATION Spec
CONSTANTS
  Procesos = {p1, p2, p3}
  Recursos = {r1, r2}
  Instancias = 1
  InstanciasIniciales <- MCInstanciasIniciales
  Archivos = {}
  Grado = 2
  Algoritmo = "FIFO"
  Instrucciones = {"YIELD", "I/O", "WAIT", "SIGNAL", "CREATE_SEGMENT", "DELETE_SEGMENT", "F_TRUNCATE", "SEGMENTATION_FAULT"}
  MaxInstrucciones = 3
  RespuestasMemoria = {"AUX_OK", "COMPACTACION", "OUT_OF_MEMORY"}
  RespuestasReintento = {"AUX_OK", "OUT_OF_MEMORY"}
  Ninguno = Ninguno
SYMMETRY Simetria
INVARIANT TypeOK
INVARIANT CreditosDeListos
INVARIANT UnicaCpu
INVARIANT AvisoNoSePierde
INVARIANT IOSacaAlPropio
INVARIANT NadieEsperaUnidadLibre
PROPERTY ImplementaMultiprogramacion
CHECK_DEADLOCK FALSE
