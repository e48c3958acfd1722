SPECIFICATION Spec
CONSTANTS
  consolas = consolas
  juegos = juegos
  Archivos = {consolas, juegos}
  SIZE_BLOQUE = 4
  CANTIDAD_BLOQUES = 11
  Discos <- MCDiscos
  Directos = {0, 3}
  Tamanios = {0, 3, 7, 12, 16}
  Punteros = {3, 5}
  Cantidades = {2, 8}
  MaxPedidos = 4
  MaxCaidas = 1
  Nulo = Nulo
  Vacio = Vacio
INVARIANT TypeOK
INVARIANT FcbPersistido
INVARIANT SinCompartir
INVARIANT BloquesOcupados
INVARIANT EscrituraFiel
INVARIANT TruncarConserva
INVARIANT LecturaFiel
PROPERTY AjenosIntactos
CHECK_DEADLOCK FALSE
