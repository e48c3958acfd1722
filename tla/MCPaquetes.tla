------------------------------ MODULE MCPaquetes ------------------------------
(***************************************************************************)
(* Instances of Paquetes for TLC. A text is two or three characters; the   *)
(* heap may hold nothing, another character or a newline.                  *)
(***************************************************************************)
EXTENDS Paquetes, TLC

MCProgramas == {<<>>, <<<<65>>>>, <<<<65, 66>>, <<66, 65, 65>>>>}

MCRestos == {<<>>, <<88>>, <<Salto>>, <<88, Salto>>}

Cero == [id |-> 0, size |-> 128, base |-> 4096]
Uno  == [id |-> 1, size |-> 300, base |-> 8192]

MCTablas == {<<>>, <<Cero>>, <<Cero, Uno>>}
=============================================================================
