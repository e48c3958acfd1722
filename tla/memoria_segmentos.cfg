SPECIFICATION Spec
CONSTANTS
  TamMemoria = 7
  TamSegmento0 = 1
  Asignacion = "BEST"
  Nulo = Nulo
  Procesos = {p1, p2}
  CantSegmentos = 3
  Ids = {1, 2}
  Tamanios = {1, 2, 3}
  ProgramasOrdenados = FALSE
  MaxPedidos = 7
  MaxCompactaciones = 2
  Ninguno = Ninguno
SYMMETRY Simetria
INVARIANT Teselado
INVARIANT SinSolapamiento
INVARIANT SegmentosOcupados
INVARIANT OcupadoTieneDuenio
INVARIANT TablasCoinciden
INVARIANT CompactarDosLibres
CHECK_DEADLOCK FALSE
