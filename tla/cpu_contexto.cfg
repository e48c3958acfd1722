SPECIFICATION Spec
CONSTANTS
  Procesos = {p1, p2}
  Registros <- MCRegistros
  Tamanio <- MCTamanio
  Base <- MCBase
  Palabras = 10
  Llenas <- MCLlenas
  Programas <- MCProgramas
  Segmentos <- MCSegmentos
  TAM_MAX_SEGMENTO = 4
  TAM_MEMORIA = 8
INVARIANT ContextoPropio
INVARIANT DesalojoEsDelContador
INVARIANT MensajesAparejados
INVARIANT AccesoEnSegmento
PROPERTY VuelveAlKernel
CHECK_DEADLOCK FALSE
