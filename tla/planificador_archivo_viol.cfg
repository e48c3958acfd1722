SPECIFICATION SpecEquitativa
CONSTANTS
  Procesos = {p1, p2}
  Recursos = {}
  Instancias = 1
  InstanciasIniciales <- MCInstanciasIniciales
  Archivos = {f1}
  Grado = 2
  Algoritmo = "FIFO"
  Instrucciones = {"YIELD", "F_OPEN", "F_CLOSE"}
  MaxInstrucciones = 2
  RespuestasMemoria = {"AUX_OK"}
  RespuestasReintento = {"AUX_OK"}
  Ninguno = Ninguno
PROPERTY EsperaDeArchivoTermina
CHECK_DEADLOCK FALSE
