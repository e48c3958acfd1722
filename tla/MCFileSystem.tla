---------------------------- MODULE MCFileSystem ----------------------------
(***************************************************************************)
(* An instance of FileSystem for TLC: two names and blocks of four         *)
(* units. The process finds one of four disks.                             *)
(***************************************************************************)
EXTENDS FileSystem

CONSTANTS consolas, juegos

Fcb3(tamanio, directo, indirecto) ==
  [tamanio |-> tamanio, directo |-> directo, indirecto |-> indirecto]

(* The file of blocks with these pointers and data elsewhere, or zeros.    *)
ConPunteros(punteros, resto) ==
  [u \in Unidades |->
     LET b == u \div SIZE_BLOQUE
         i == 1 + (u % SIZE_BLOQUE)
     IN  IF b \in DOMAIN punteros /\ i <= Len(punteros[b]) THEN punteros[b][i] ELSE resto]

(* Files just made by open and ftruncate.                                  *)
DiscoNuevo ==
  [fcbs |-> [f \in Archivos |-> Nulo], bloques |-> [u \in Unidades |-> 0], bitmap |-> {}]

(* What this program leaves of a new disk after creating two files and     *)
(* truncating them to three blocks and to one: the direct blocks, 0 and 4, *)
(* were taken and forgotten, and the first pointer was not written.        *)
DiscoDelPrograma ==
  [fcbs |-> [f \in Archivos |-> IF f = consolas THEN Fcb3(12, 3, 1)
                                ELSE IF f = juegos THEN Fcb3(4, 0, 0) ELSE Nulo],
   bloques |-> ConPunteros(1 :> <<0, 2, 3>>, 0),
   bitmap |-> 0 .. 4]

(* The FCBs of the repository (fcbs/Consoles, fcbs/Videogames): both have  *)
(* block 0, and the block of pointers of the first holds text.             *)
DiscoDelRepositorio ==
  [fcbs |-> [f \in Archivos |-> IF f = consolas THEN Fcb3(16, 0, 7)
                                ELSE IF f = juegos THEN Fcb3(4, 0, 0) ELSE Nulo],
   bloques |-> [u \in Unidades |-> Relleno],
   bitmap |-> 0 .. 8]

(* Every file with blocks of its own, as the code means them to be.        *)
DiscoPrevisto ==
  [fcbs |-> [f \in Archivos |-> IF f = consolas THEN Fcb3(8, 0, 1)
                                ELSE IF f = juegos THEN Fcb3(11, 3, 4) ELSE Nulo],
   bloques |-> ConPunteros((1 :> <<2>>) @@ (4 :> <<5, 6>>), Relleno),
   bitmap |-> 0 .. 6]

MCDiscos == {DiscoNuevo, DiscoDelPrograma, DiscoDelRepositorio, DiscoPrevisto}
=============================================================================
