SPECIFICATION SpecSistemaEquitativa
CONSTANTS
  Procesos = {p1, p2}
  Recursos = {r1}
  Instancias = 0
  InstanciasIniciales <- MCInstanciasIniciales
  Archivos = {}
  Grado = 2
  Algoritmo = "FIFO"
  Instrucciones = {"WAIT", "SIGNAL", "CREATE_SEGMENT", "DELETE_SEGMENT"}
  MaxInstrucciones = 4
  RespuestasMemoria = {"AUX_OK", "COMPACTACION", "OUT_OF_MEMORY"}
  RespuestasReintento = {"AUX_OK", "COMPACTACION", "OUT_OF_MEMORY"}
  Ninguno = Ninguno
  TamMemoria = 6
  TamSegmento0 = 1
  Asignacion = "BEST"
  Nulo = Nulo
  CantSegmentos = 3
  Ids = {1, 2}
  Tamanios = {2, 3}
  ProgramasOrdenados = TRUE
  MaxPedidos = 20
  MaxCompactaciones = 40
INVARIANT SocketEnOrden
INVARIANT NoSePierdeNadie
INVARIANT CpuConTablaVigente
PROPERTY ImplementaMemoria
PROPERTY TerminanSiHayMemoria
CHECK_DEADLOCK FALSE
