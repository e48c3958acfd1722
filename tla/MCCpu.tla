------------------------------- MODULE MCCpu -------------------------------
(***************************************************************************)
(* An instance of Cpu for TLC: five registers, of one, two and four words, *)
(* and programs like the ones of modules/consola/pruebas, whose values     *)
(* fill their registers, with segments of 3, 2 and 4 words.                *)
(***************************************************************************)
EXTENDS Cpu, TLC

MCRegistros == {"AX", "BX", "EAX", "EBX", "RAX"}
MCTamanio == "AX" :> 1 @@ "BX" :> 1 @@ "EAX" :> 2 @@ "EBX" :> 2 @@ "RAX" :> 4
MCBase == "AX" :> 1 @@ "BX" :> 2 @@ "EAX" :> 3 @@ "EBX" :> 5 @@ "RAX" :> 7
MCLlenas == {"HOLA", "FRA0", "Cosc", "uWin"}
MCSegmentos == (0 :> 3)

Con(op, r, v) == [op |-> op, registro |-> r, valor |-> v]
En(op, r, d) == [op |-> op, registro |-> r, dir |-> d]
Sin(op) == [op |-> op]
Archivo(op, d, n) == [op |-> op, dir |-> d, n |-> n]
Segmento(op, id, n) == [op |-> op, id |-> id, n |-> n]

MCProgramas == {
  << Con("SET", "AX", <<"HOLA">>), Sin("YIELD"),
     Con("SET", "BX", <<"no">>), Sin("YIELD"),
     En("MOV_OUT", "AX", 1), En("MOV_IN", "BX", 1), Sin("EXIT") >>,
  << Con("SET", "EAX", <<"Cosc", "uWin">>), Sin("WAIT"),
     En("MOV_OUT", "EAX", 1), Archivo("F_WRITE", 1, 2),
     En("MOV_IN", "EBX", 1), Sin("SIGNAL"), En("MOV_IN", "EAX", 2), Sin("EXIT") >>,
  << Segmento("CREATE_SEGMENT", 1, 2), En("MOV_OUT", "EBX", 4),
     Archivo("F_READ", 3, 2), Con("SET", "BX", <<"FRA0">>), Sin("F_OPEN"),
     En("MOV_IN", "AX", 5), Segmento("DELETE_SEGMENT", 1, 0),
     En("MOV_IN", "AX", 4), Sin("EXIT") >>,
  << Con("SET", "EBX", <<"Cosc", "si">>), Con("SET", "EBX", <<"uWin", "Cosc">>),
     Sin("IO"), Con("SET", "AX", <<"FRA0">>), Con("SET", "BX", <<"HOLA">>),
     Sin("YIELD"), En("MOV_OUT", "BX", 0), Sin("EXIT") >>,
  << Con("SET", "RAX", <<"HOLA", "Cosc", "uWin", "FRA0">>), Sin("YIELD"),
     Segmento("CREATE_SEGMENT", 1, 4), En("MOV_OUT", "RAX", 4),
     Con("SET", "RAX", <<"no">>), Sin("F_SEEK"), En("MOV_IN", "RAX", 4),
     Con("SET", "EBX", <<"Cosc", "uWin">>), Sin("YIELD"), En("MOV_OUT", "RAX", 0),
     Sin("EXIT") >> }
=============================================================================
