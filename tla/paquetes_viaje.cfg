SPECIFICATION Spec
CONSTANTS
  Programas <- MCProgramas
  Restos <- MCRestos
  Tablas <- MCTablas
  Vueltas = 3
INVARIANT CamposIntactos
INVARIANT TextosConservanPrincipio
CHECK_DEADLOCK FALSE
