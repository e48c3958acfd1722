------------------------- MODULE PlanificadorProofs -------------------------
(***************************************************************************)
(* Theorems about Planificador, for every set of processes, resources and  *)
(* files, every degree of multiprogramming, program and answer of memory.  *)
(***************************************************************************)
EXTENDS PlanificadorAbstracto, LemasListas, FiniteSetTheorems, SequenceTheorems,
        TLAPS

-----------------------------------------------------------------------------
(* Lemmas about sequences.                                                 *)

(* Taking one position out of a list leaves a list of the same elements,   *)
(* one shorter.                                                            *)
LEMMA RemoveAtPropiedades ==
  ASSUME NEW S, NEW s \in Seq(S), NEW i \in 1..Len(s)
  PROVE  /\ RemoveAt(s, i) \in Seq(S)
         /\ Len(RemoveAt(s, i)) = Len(s) - 1
<1> DEFINE a == SubSeq(s, 1, i - 1)
           b == SubSeq(s, i + 1, Len(s))
<1>1. a \in Seq(S) /\ Len(a) = i - 1
  BY SubSeqProperties, ElementOfSeq, LenProperties
<1>2. b \in Seq(S) /\ Len(b) = Len(s) - i
  BY SubSeqProperties, ElementOfSeq, LenProperties
<1>3. RemoveAt(s, i) = a \o b
  BY DEF RemoveAt
<1> HIDE DEF a, b
<1>4. a \o b \in Seq(S) /\ Len(a \o b) = Len(a) + Len(b)
  BY <1>1, <1>2, ConcatProperties
<1>5. Len(s) \in Nat
  BY LenProperties
<1>6. QED
  BY <1>1, <1>2, <1>3, <1>4, <1>5

(* The only element of a list is at its position 1, and without it the     *)
(* list is empty.                                                          *)
LEMMA RemoveAtUnico ==
  ASSUME NEW p
  PROVE  RemoveAt(<<p>>, 1) = <<>> /\ Indice(<<p>>, p) = 1
<1> DEFINE s == <<p>>
<1>1. s \in Seq({p}) /\ Len(s) = 1 /\ 1 \in 1..Len(s)
  OBVIOUS
<1>2. Indice(s, p) = 1
  BY <1>1 DEF Indice
<1> HIDE DEF s
<1>3. Len(RemoveAt(s, 1)) = Len(s) - 1 /\ RemoveAt(s, 1) \in Seq({p})
  BY <1>1, RemoveAtPropiedades
<1>4. RemoveAt(s, 1) = <<>>
  BY <1>1, <1>3, EmptySeq
<1>5. QED
  BY <1>2, <1>4 DEF s

-----------------------------------------------------------------------------
(* What the lists of the kernel do, as facts about sequences of processes. *)
LEMMA ListaAgrega ==
  ASSUME NEW s \in Seq(Procesos), NEW p \in Procesos
  PROVE  /\ Append(s, p) \in Seq(Procesos)
         /\ Append(s, p) # <<>>
         /\ Len(Append(s, p)) = Len(s) + 1
  BY AppendProperties

(* list_remove of index 0 of a list that is not empty.                     *)
LEMMA ListaQuita ==
  ASSUME NEW s \in Seq(Procesos), s # <<>>
  PROVE  /\ Head(s) \in Procesos
         /\ Tail(s) \in Seq(Procesos)
         /\ Len(Tail(s)) = Len(s) - 1
  BY HeadTailProperties

(* A list is empty exactly when it has no elements to count.               *)
LEMMA ListaVacia ==
  ASSUME NEW s \in Seq(Procesos)
  PROVE  Len(s) \in Nat /\ (Len(s) = 0 <=> s = <<>>)
  BY EmptySeq, LenProperties

-----------------------------------------------------------------------------
(* Where the process of a thread and the processes of BLOCKED and of NEW   *)
(* can be: BLOCKED holds at most the process of the eviction thread, which *)
(* is why removing its index 0 is right, and each credit of NEW is a       *)
(* process of NEW.                                                         *)
Bloqueantes == {"io", "truncate", "read_write", "semaforo_archivo"}

FormaNew == Len(nuevos) = semInicializar + Uno(pcLargo # "inicializar")

FormaLargo ==
  pcLargo \in {"mutex_memoria", "create_pcb", "grado"} =>
    pcbLargo \in Procesos /\ nuevos # <<>>

FormaDesalojo == pcDesalojo # "executing" => pcbDesalojo \in Procesos

FormaBloqueados ==
  bloqueados = IF pcDesalojo \in Bloqueantes THEN <<pcbDesalojo>> ELSE <<>>

FormaArchivos ==
  \A f \in Archivos : colaArchivo[f] # <<>> => pcDesalojo = "semaforo_archivo"

Forma == FormaNew /\ FormaLargo /\ FormaDesalojo /\ FormaBloqueados /\ FormaArchivos

(* What the dispatcher has taken out of READY and not yet put in EXEC.     *)
FormaCorto == IF pcCorto = "agregar" THEN pcbCorto \in Procesos ELSE pcbCorto = Ninguno

IInv == TypeOK /\ Forma /\ FormaCorto

(* The initial state satisfies IInv.                                       *)
LEMMA InicioIInv == Init => IInv
<1> SUFFICES ASSUME Init PROVE IInv
  OBVIOUS
<1> USE ConstantesOK DEF Init
<1>1. TipoListas
  BY DEF TipoListas
<1>2. TipoProcesos
  BY DEF TipoProcesos, Estados
<1>3. TipoHilos
  BY DEF TipoHilos, PcDesalojo
<1>4. TipoSemaforos
  BY DEF TipoSemaforos
<1>5. TipoRecursos
  BY DEF TipoRecursos
<1>6. TipoArchivos
  BY DEF TipoArchivos
<1>7. FormaNew
  BY DEF FormaNew, Uno
<1>8. FormaLargo
  BY DEF FormaLargo
<1>9. FormaDesalojo
  BY DEF FormaDesalojo
<1>10. FormaBloqueados
  BY DEF FormaBloqueados, Bloqueantes
<1>11. FormaArchivos
  BY DEF FormaArchivos
<1>12. FormaCorto
  BY DEF FormaCorto
<1>13. QED
  BY <1>1, <1>2, <1>3, <1>4, <1>5, <1>6, <1>7, <1>8, <1>9, <1>10, <1>11, <1>12
  DEF IInv, TypeOK, Forma

(* Every step keeps the types and the shape of the lists.                  *)
LEMMA PasoForma == IInv /\ [Next]_vars => (TypeOK /\ Forma)'
<1> DEFINE Meta == TypeOK /\ Forma
<1> SUFFICES ASSUME IInv, [Next]_vars PROVE Meta'
  OBVIOUS
<1> USE DEF IInv, TypeOK, Forma, listas, semaforos, recursos, archivos, largo,
     corto, desalojo, programas
<1>1. ASSUME NEW p \in Procesos, CreaPCB(p) PROVE Meta'
  <2> USE <1>1 DEF CreaPCB
  <2>1. TipoProcesos'
    BY DEF TipoProcesos, Estados
  <2>2. QED
    BY <2>1 DEF TipoListas, TipoHilos, TipoSemaforos, TipoRecursos, TipoArchivos,
         FormaNew, FormaLargo, FormaDesalojo, FormaBloqueados, FormaArchivos, Uno
<1>2. ASSUME NEW p \in Procesos, AgregaNew(p) PROVE Meta'
  <2> USE <1>2 DEF AgregaNew
  <2>1. TipoListas'
    BY ListaAgrega, ListaQuita, ListaVacia DEF TipoListas
  <2>2. TipoProcesos'
    BY ListaAgrega, ListaQuita DEF TipoProcesos, Estados, TipoListas
  <2>3. TipoSemaforos'
    BY DEF TipoSemaforos
  <2>4. FormaNew'
    BY ListaAgrega, ListaQuita, ListaVacia DEF FormaNew, TipoListas,
         TipoSemaforos, Uno
  <2>5. FormaLargo'
    BY ListaAgrega, ListaQuita, ListaVacia DEF FormaLargo, FormaNew, TipoListas,
         TipoSemaforos, Uno
  <2>6. QED
    BY <2>1, <2>2, <2>3, <2>4, <2>5 DEF TipoHilos, TipoRecursos, TipoArchivos,
         FormaDesalojo, FormaBloqueados, FormaArchivos
<1>3. CASE LargoInicializar
  <2> USE <1>3 DEF LargoInicializar, PasoLargo
  <2>1. TipoHilos'
    BY DEF TipoHilos, PcDesalojo, FormaLargo
  <2>2. TipoSemaforos'
    BY DEF TipoSemaforos, FormaLargo
  <2>3. FormaNew'
    BY ListaAgrega, ListaQuita, ListaVacia DEF FormaNew, TipoListas,
         TipoSemaforos, Uno, FormaLargo
  <2>4. FormaLargo'
    BY ListaAgrega, ListaQuita, ListaVacia DEF FormaLargo, FormaNew, TipoListas,
         TipoSemaforos, Uno
  <2>5. QED
    BY <2>1, <2>2, <2>3, <2>4 DEF TipoListas, TipoProcesos, TipoRecursos,
         TipoArchivos, FormaDesalojo, FormaBloqueados, FormaArchivos
<1>4. CASE LargoTomaNew
  <2> USE <1>4 DEF LargoTomaNew, PasoLargo
  <2>1. TipoHilos'
    <3>1. nuevos # <<>>
      BY <1>4, ListaVacia DEF FormaNew, TipoListas, TipoSemaforos, Uno,
           LargoTomaNew, PasoLargo
    <3>2. Head(nuevos) \in Procesos
      BY <3>1, ListaQuita DEF TipoListas
    <3>3. QED
      BY <1>4, <3>2 DEF TipoHilos, LargoTomaNew, PasoLargo
  <2>2. TipoSemaforos'
    BY DEF TipoSemaforos, FormaLargo
  <2>3. FormaNew'
    BY ListaAgrega, ListaQuita, ListaVacia DEF FormaNew, TipoListas,
         TipoSemaforos, Uno, FormaLargo
  <2>4. FormaLargo'
    BY ListaAgrega, ListaQuita, ListaVacia DEF FormaLargo, FormaNew, TipoListas,
         TipoSemaforos, Uno
  <2>5. QED
    BY <2>1, <2>2, <2>3, <2>4 DEF TipoListas, TipoProcesos, TipoRecursos,
         TipoArchivos, FormaDesalojo, FormaBloqueados, FormaArchivos
<1>5. CASE LargoPideTabla
  <2> USE <1>5 DEF LargoPideTabla, PasoLargo
  <2>1. TipoHilos'
    BY DEF TipoHilos, PcDesalojo, FormaLargo
  <2>2. FormaNew'
    BY ListaAgrega, ListaQuita, ListaVacia DEF FormaNew, TipoListas,
         TipoSemaforos, Uno, FormaLargo
  <2>3. FormaLargo'
    BY ListaAgrega, ListaQuita, ListaVacia DEF FormaLargo, FormaNew, TipoListas,
         TipoSemaforos, Uno
  <2>4. QED
    BY <2>1, <2>2, <2>3 DEF TipoListas, TipoProcesos, TipoSemaforos,
         TipoRecursos, TipoArchivos, FormaDesalojo, FormaBloqueados, FormaArchivos
<1>6. CASE LargoRecibeTabla
  <2> USE <1>6 DEF LargoRecibeTabla, PasoLargo
  <2>1. TipoHilos'
    BY DEF TipoHilos, PcDesalojo, FormaLargo
  <2>2. FormaNew'
    BY ListaAgrega, ListaQuita, ListaVacia DEF FormaNew, TipoListas,
         TipoSemaforos, Uno, FormaLargo
  <2>3. FormaLargo'
    BY ListaAgrega, ListaQuita, ListaVacia DEF FormaLargo, FormaNew, TipoListas,
         TipoSemaforos, Uno
  <2>4. QED
    BY <2>1, <2>2, <2>3 DEF TipoListas, TipoProcesos, TipoSemaforos,
         TipoRecursos, TipoArchivos, FormaDesalojo, FormaBloqueados, FormaArchivos
<1>7. CASE LargoAdmite
  <2> USE <1>7 DEF LargoAdmite, PasoLargo
  <2>1. TipoListas'
    BY ListaAgrega, ListaQuita, ListaVacia DEF TipoListas, FormaLargo
  <2>2. TipoProcesos'
    BY ListaAgrega, ListaQuita DEF TipoProcesos, Estados, FormaLargo, TipoListas
  <2>3. TipoHilos'
    BY ListaAgrega, ListaQuita DEF TipoHilos, PcDesalojo, FormaLargo, TipoListas
  <2>4. TipoSemaforos'
    BY DEF TipoSemaforos, FormaLargo
  <2>5. FormaNew'
    BY ListaAgrega, ListaQuita, ListaVacia DEF FormaNew, TipoListas,
         TipoSemaforos, Uno, FormaLargo
  <2>6. FormaLargo'
    BY ListaAgrega, ListaQuita, ListaVacia DEF FormaLargo, FormaNew, TipoListas,
         TipoSemaforos, Uno
  <2>7. QED
    BY <2>1, <2>2, <2>3, <2>4, <2>5, <2>6 DEF TipoRecursos, TipoArchivos,
         FormaDesalojo, FormaBloqueados, FormaArchivos
<1>8. CASE CortoEsperaCpu
  <2> USE <1>8 DEF CortoEsperaCpu, PasoCorto
  <2>1. TipoHilos'
    BY DEF TipoHilos, PcDesalojo
  <2>2. TipoSemaforos'
    BY DEF TipoSemaforos
  <2>3. QED
    BY <2>1, <2>2 DEF TipoListas, TipoProcesos, TipoRecursos, TipoArchivos,
         FormaNew, FormaLargo, FormaDesalojo, FormaBloqueados, FormaArchivos, Uno
<1>9. CASE CortoEsperaListo
  <2> USE <1>9 DEF CortoEsperaListo, PasoCorto
  <2>1. TipoHilos'
    BY DEF TipoHilos, PcDesalojo
  <2>2. TipoSemaforos'
    BY DEF TipoSemaforos
  <2>3. QED
    BY <2>1, <2>2 DEF TipoListas, TipoProcesos, TipoRecursos, TipoArchivos,
         FormaNew, FormaLargo, FormaDesalojo, FormaBloqueados, FormaArchivos, Uno
<1>10. CASE CortoElige
  <2> USE <1>10 DEF CortoElige, PasoCorto, Elegibles
  <2>1. PICK i \in Elegibles : /\ listos' = RemoveAt(listos, i)
                              /\ pcbCorto' = listos[i]
                              /\ estado' = [estado EXCEPT ![listos[i]] = "EXEC"]
    BY <1>10 DEF CortoElige
  <2>2. i \in 1..Len(listos)
    BY <1>10, ListaVacia, LenProperties DEF TipoListas, Elegibles, CortoElige
  <2>3. listos[i] \in Procesos /\ RemoveAt(listos, i) \in Seq(Procesos)
    BY <2>2, ElementOfSeq, RemoveAtPropiedades DEF TipoListas
  <2>4. TipoListas'
    BY <1>10, <2>1, <2>3 DEF TipoListas, CortoElige
  <2>5. TipoProcesos'
    BY <1>10, <2>1, <2>3 DEF TipoProcesos, Estados
  <2>6. TipoHilos'
    BY <1>10, <2>1, <2>3 DEF TipoHilos, PcDesalojo
  <2>7. QED
    BY <2>4, <2>5, <2>6 DEF TipoSemaforos, TipoRecursos, TipoArchivos, FormaNew,
         FormaLargo, FormaDesalojo, FormaBloqueados, FormaArchivos, Uno
<1>43. CASE CortoAgrega
  <2> USE <1>43 DEF CortoAgrega, PasoCorto
  <2>1. pcbCorto \in Procesos
    BY DEF FormaCorto
  <2>2. TipoListas'
    BY <2>1, ListaAgrega DEF TipoListas
  <2>3. TipoHilos'
    BY DEF TipoHilos, PcDesalojo
  <2>4. QED
    BY <2>2, <2>3 DEF TipoProcesos, TipoSemaforos, TipoRecursos, TipoArchivos,
         FormaNew, FormaLargo, FormaDesalojo, FormaBloqueados, FormaArchivos, Uno
<1>11. CASE CortoAvisa
  <2> USE <1>11 DEF CortoAvisa, PasoCorto
  <2>1. TipoHilos'
    BY DEF TipoHilos, PcDesalojo
  <2>2. QED
    BY <2>1 DEF TipoListas, TipoProcesos, TipoSemaforos, TipoRecursos,
         TipoArchivos, FormaNew, FormaLargo, FormaDesalojo, FormaBloqueados,
         FormaArchivos, Uno
<1>12. CASE DesalojoToma
  <2> USE <1>12 DEF DesalojoToma
  <2>1. TipoListas'
    BY ListaAgrega, ListaQuita, ListaVacia DEF TipoListas
  <2>2. TipoHilos'
    BY ListaAgrega, ListaQuita DEF TipoHilos, PcDesalojo, TipoListas
  <2>3. FormaDesalojo'
    BY ListaAgrega, ListaQuita DEF FormaDesalojo, TipoListas
  <2>4. FormaBloqueados'
    BY DEF FormaBloqueados, Bloqueantes
  <2>5. FormaArchivos'
    BY DEF FormaArchivos
  <2>6. QED
    BY <2>1, <2>2, <2>3, <2>4, <2>5 DEF TipoProcesos, TipoSemaforos,
         TipoRecursos, TipoArchivos, FormaNew, FormaLargo, Uno
<1>13. CASE DesalojoSinProceso
  <2> USE <1>13 DEF DesalojoSinProceso
  <2>1. TipoHilos'
    BY DEF TipoHilos, PcDesalojo
  <2>2. QED
    BY <2>1 DEF TipoListas, TipoProcesos, TipoSemaforos, TipoRecursos,
         TipoArchivos, FormaNew, FormaLargo, FormaDesalojo, FormaBloqueados,
         FormaArchivos, Uno
<1>14. CASE Exit
  <2> USE <1>14 DEF Exit, TerminaProceso, CambiaEstado, Fin
  <2>1. pcbDesalojo \in Procesos
    BY DEF FormaDesalojo
  <2>2. TipoProcesos'
    BY <2>1 DEF TipoProcesos, Estados
  <2>3. TipoHilos'
    BY <2>1 DEF TipoHilos, PcDesalojo
  <2>4. TipoSemaforos'
    BY <2>1 DEF TipoSemaforos
  <2>5. FormaDesalojo'
    BY <2>1 DEF FormaDesalojo, TipoListas
  <2>6. FormaBloqueados'
    BY <2>1 DEF FormaBloqueados, Bloqueantes
  <2>7. FormaArchivos'
    BY <2>1 DEF FormaArchivos
  <2>8. QED
    BY <2>2, <2>3, <2>4, <2>5, <2>6, <2>7 DEF TipoListas, TipoRecursos,
         TipoArchivos, FormaNew, FormaLargo, Uno
<1>15. CASE SegmentationFault
  <2> USE <1>15 DEF SegmentationFault, Devuelto, TerminaProceso, CambiaEstado, Fin
  <2>1. pcbDesalojo \in Procesos
    BY DEF FormaDesalojo
  <2>2. TipoProcesos'
    BY <2>1 DEF TipoProcesos, Estados
  <2>3. TipoHilos'
    BY <2>1 DEF TipoHilos, PcDesalojo
  <2>4. TipoSemaforos'
    BY <2>1 DEF TipoSemaforos
  <2>5. FormaDesalojo'
    BY <2>1 DEF FormaDesalojo, TipoListas
  <2>6. FormaBloqueados'
    BY <2>1 DEF FormaBloqueados, Bloqueantes
  <2>7. FormaArchivos'
    BY <2>1 DEF FormaArchivos
  <2>8. QED
    BY <2>2, <2>3, <2>4, <2>5, <2>6, <2>7 DEF TipoListas, TipoRecursos,
         TipoArchivos, FormaNew, FormaLargo, Uno
<1>16. CASE Yield
  <2> USE <1>16 DEF Yield, Devuelto, CambiaEstado, Fin
  <2>1. pcbDesalojo \in Procesos
    BY DEF FormaDesalojo
  <2>2. TipoListas'
    BY <2>1, ListaAgrega, ListaQuita, ListaVacia DEF TipoListas
  <2>3. TipoProcesos'
    BY <2>1, ListaAgrega, ListaQuita DEF TipoProcesos, Estados, TipoListas
  <2>4. TipoHilos'
    BY <2>1, ListaAgrega, ListaQuita DEF TipoHilos, PcDesalojo, TipoListas
  <2>5. TipoSemaforos'
    BY <2>1 DEF TipoSemaforos
  <2>6. FormaDesalojo'
    BY <2>1, ListaAgrega, ListaQuita DEF FormaDesalojo, TipoListas
  <2>7. FormaBloqueados'
    BY <2>1 DEF FormaBloqueados, Bloqueantes
  <2>8. FormaArchivos'
    BY <2>1 DEF FormaArchivos
  <2>9. QED
    BY <2>2, <2>3, <2>4, <2>5, <2>6, <2>7, <2>8 DEF TipoRecursos, TipoArchivos,
         FormaNew, FormaLargo, Uno
<1>17. CASE IO
  <2> USE <1>17 DEF IO, Devuelto, Bloquea, CambiaEstado, Fin
  <2>1. pcbDesalojo \in Procesos
    BY DEF FormaDesalojo
  <2>2. TipoListas'
    BY <2>1, ListaAgrega, ListaQuita, ListaVacia DEF TipoListas
  <2>3. TipoProcesos'
    BY <2>1 DEF TipoProcesos, Estados
  <2>4. TipoHilos'
    BY <2>1 DEF TipoHilos, PcDesalojo
  <2>5. FormaDesalojo'
    BY <2>1 DEF FormaDesalojo, TipoListas
  <2>6. FormaBloqueados'
    BY <2>1 DEF FormaBloqueados, Bloqueantes
  <2>7. FormaArchivos'
    BY <2>1 DEF FormaArchivos
  <2>8. QED
    BY <2>2, <2>3, <2>4, <2>5, <2>6, <2>7 DEF TipoSemaforos, TipoRecursos,
         TipoArchivos, FormaNew, FormaLargo, Uno
<1>18. CASE FinIO
  <2> USE <1>18 DEF FinIO, Desbloquea, CambiaEstado, Fin
  <2>1. pcbDesalojo \in Procesos
    BY DEF FormaDesalojo
  <2>2. bloqueados' = <<>>
    BY RemoveAtUnico DEF FormaBloqueados, Bloqueantes
  <2>3. TipoListas'
    <3>1. Append(listos, pcbDesalojo) \in Seq(Procesos) /\ <<>> \in Seq(Procesos)
      BY <2>1, ListaAgrega, EmptySeq DEF TipoListas
    <3>2. QED
      BY <1>18, <2>2, <3>1 DEF TipoListas, FinIO, Desbloquea
  <2>4. TipoProcesos'
    BY <2>1 DEF TipoProcesos, Estados
  <2>5. TipoHilos'
    BY <2>1 DEF TipoHilos, PcDesalojo
  <2>6. TipoSemaforos'
    BY <2>1 DEF TipoSemaforos
  <2>7. FormaDesalojo'
    BY <2>1 DEF FormaDesalojo, TipoListas
  <2>8. FormaBloqueados'
    BY <2>1, <2>2 DEF FormaBloqueados, Bloqueantes
  <2>9. FormaArchivos'
    BY <2>1 DEF FormaArchivos
  <2>10. QED
    BY <2>3, <2>4, <2>5, <2>6, <2>7, <2>8, <2>9 DEF TipoRecursos, TipoArchivos,
         FormaNew, FormaLargo, Uno
<1>19. CASE FTruncate
  <2> USE <1>19 DEF FTruncate, Devuelto, Bloquea, CambiaEstado, Fin
  <2>1. pcbDesalojo \in Procesos
    BY DEF FormaDesalojo
  <2>2. TipoListas'
    BY <2>1, ListaAgrega, ListaQuita, ListaVacia DEF TipoListas
  <2>3. TipoProcesos'
    BY <2>1 DEF TipoProcesos, Estados
  <2>4. TipoHilos'
    BY <2>1 DEF TipoHilos, PcDesalojo
  <2>5. TipoSemaforos'
    BY <2>1 DEF TipoSemaforos
  <2>6. FormaDesalojo'
    BY <2>1 DEF FormaDesalojo, TipoListas
  <2>7. FormaBloqueados'
    BY <2>1 DEF FormaBloqueados, Bloqueantes
  <2>8. FormaArchivos'
    BY <2>1 DEF FormaArchivos
  <2>9. QED
    BY <2>2, <2>3, <2>4, <2>5, <2>6, <2>7, <2>8 DEF TipoRecursos, TipoArchivos,
         FormaNew, FormaLargo, Uno
<1>20. CASE FinFTruncate
  <2> USE <1>20 DEF FinFTruncate, Desbloquea, CambiaEstado, Fin
  <2>1. pcbDesalojo \in Procesos
    BY DEF FormaDesalojo
  <2>2. bloqueados' = <<>>
    BY RemoveAtUnico DEF FormaBloqueados, Bloqueantes
  <2>3. TipoListas'
    BY <2>1, ListaAgrega, ListaQuita, ListaVacia, <2>2 DEF TipoListas, Bloqueantes
  <2>4. TipoProcesos'
    BY <2>1 DEF TipoProcesos, Estados
  <2>5. TipoHilos'
    BY <2>1 DEF TipoHilos, PcDesalojo
  <2>6. TipoSemaforos'
    BY <2>1 DEF TipoSemaforos
  <2>7. FormaDesalojo'
    BY <2>1 DEF FormaDesalojo, TipoListas
  <2>8. FormaBloqueados'
    BY <2>1, <2>2 DEF FormaBloqueados, Bloqueantes
  <2>9. FormaArchivos'
    BY <2>1 DEF FormaArchivos
  <2>10. QED
    BY <2>3, <2>4, <2>5, <2>6, <2>7, <2>8, <2>9 DEF TipoRecursos, TipoArchivos,
         FormaNew, FormaLargo, Uno
<1>21. CASE FinFReadWrite
  <2> USE <1>21 DEF FinFReadWrite, Desbloquea, CambiaEstado, Fin
  <2>1. pcbDesalojo \in Procesos
    BY DEF FormaDesalojo
  <2>2. bloqueados' = <<>>
    BY RemoveAtUnico DEF FormaBloqueados, Bloqueantes
  <2>3. TipoListas'
    BY <2>1, ListaAgrega, ListaQuita, ListaVacia, <2>2 DEF TipoListas, Bloqueantes
  <2>4. TipoProcesos'
    BY <2>1 DEF TipoProcesos, Estados
  <2>5. TipoHilos'
    BY <2>1 DEF TipoHilos, PcDesalojo
  <2>6. TipoSemaforos'
    BY <2>1 DEF TipoSemaforos
  <2>7. FormaDesalojo'
    BY <2>1 DEF FormaDesalojo, TipoListas
  <2>8. FormaBloqueados'
    BY <2>1, <2>2 DEF FormaBloqueados, Bloqueantes
  <2>9. FormaArchivos'
    BY <2>1 DEF FormaArchivos
  <2>10. QED
    BY <2>3, <2>4, <2>5, <2>6, <2>7, <2>8, <2>9 DEF TipoRecursos, TipoArchivos,
         FormaNew, FormaLargo, Uno
<1>22. ASSUME NEW f \in Archivos, FOpenOcupado(f) PROVE Meta'
  <2> USE <1>22 DEF FOpenOcupado, Devuelto, Bloquea, CambiaEstado, Fin
  <2>1. pcbDesalojo \in Procesos
    BY DEF FormaDesalojo
  <2>2. TipoListas'
    BY <2>1, ListaAgrega, ListaQuita, ListaVacia DEF TipoListas
  <2>3. TipoProcesos'
    BY <2>1, ListaAgrega, ListaQuita DEF TipoProcesos, Estados, TipoListas
  <2>4. TipoHilos'
    BY <2>1, ListaAgrega, ListaQuita DEF TipoHilos, PcDesalojo, TipoListas
  <2>5. TipoArchivos'
    BY <2>1, ListaAgrega, ListaQuita DEF TipoArchivos, TipoListas
  <2>6. FormaDesalojo'
    BY <2>1, ListaAgrega, ListaQuita DEF FormaDesalojo, TipoListas
  <2>7. FormaBloqueados'
    BY <2>1 DEF FormaBloqueados, Bloqueantes
  <2>8. FormaArchivos'
    BY <2>1 DEF FormaArchivos
  <2>9. QED
    BY <2>2, <2>3, <2>4, <2>5, <2>6, <2>7, <2>8 DEF TipoSemaforos, TipoRecursos,
         FormaNew, FormaLargo, Uno
<1>23. ASSUME NEW f \in Archivos, FOpen(f) PROVE Meta'
  <2> USE <1>23 DEF FOpen, Devuelto, SigueEjecutando, CambiaEstado, Fin
  <2>1. pcbDesalojo \in Procesos
    BY DEF FormaDesalojo
  <2>2. TipoListas'
    BY <2>1, ListaAgrega, ListaQuita, ListaVacia DEF TipoListas
  <2>3. TipoProcesos'
    BY <2>1 DEF TipoProcesos, Estados
  <2>4. TipoHilos'
    BY <2>1 DEF TipoHilos, PcDesalojo
  <2>5. TipoSemaforos'
    BY <2>1 DEF TipoSemaforos
  <2>6. TipoArchivos'
    BY <2>1 DEF TipoArchivos
  <2>7. FormaDesalojo'
    BY <2>1 DEF FormaDesalojo, TipoListas
  <2>8. FormaBloqueados'
    BY <2>1 DEF FormaBloqueados, Bloqueantes
  <2>9. FormaArchivos'
    BY <2>1 DEF FormaArchivos
  <2>10. QED
    BY <2>2, <2>3, <2>4, <2>5, <2>6, <2>7, <2>8, <2>9 DEF TipoRecursos, FormaNew,
         FormaLargo, Uno
<1>24. ASSUME NEW f \in Archivos, FClose(f) PROVE Meta'
  <2> USE <1>24 DEF FClose, Devuelto, Fin
  <2>1. pcbDesalojo \in Procesos
    BY DEF FormaDesalojo
  <2>2. colaArchivo[f] = <<>>
    BY DEF FormaArchivos
  <2>3. TipoListas'
    <3>1. bloqueados' = bloqueados /\ listos' = listos
      BY <1>24, <2>2 DEF FClose
    <3>2. QED
      BY <1>24, <2>1, <3>1, ListaAgrega DEF TipoListas, FClose
  <2>4. TipoProcesos'
    BY <2>1, <2>2, ListaAgrega, ListaQuita DEF TipoProcesos, Estados, TipoListas,
         TipoArchivos
  <2>5. TipoHilos'
    BY <2>1, <2>2, ListaAgrega, ListaQuita DEF TipoHilos, PcDesalojo, TipoListas,
         TipoArchivos
  <2>6. TipoSemaforos'
    BY <2>1, <2>2 DEF TipoSemaforos, TipoArchivos
  <2>7. TipoArchivos'
    BY <2>1, <2>2, ListaAgrega, ListaQuita DEF TipoArchivos, TipoListas
  <2>8. FormaDesalojo'
    BY <2>1, <2>2, ListaAgrega, ListaQuita DEF FormaDesalojo, TipoListas,
         TipoArchivos
  <2>9. FormaBloqueados'
    BY <2>1, <2>2 DEF FormaBloqueados, Bloqueantes, TipoArchivos
  <2>10. FormaArchivos'
    BY <2>1, <2>2 DEF FormaArchivos, TipoArchivos
  <2>11. QED
    BY <2>3, <2>4, <2>5, <2>6, <2>7, <2>8, <2>9, <2>10 DEF TipoRecursos,
         FormaNew, FormaLargo, Uno
<1>25. ASSUME NEW f \in Archivos, FSeek(f) PROVE Meta'
  <2> USE <1>25 DEF FSeek, Devuelto, SigueEjecutando, CambiaEstado, Fin
  <2>1. pcbDesalojo \in Procesos
    BY DEF FormaDesalojo
  <2>2. TipoListas'
    BY <2>1, ListaAgrega, ListaQuita, ListaVacia DEF TipoListas
  <2>3. TipoProcesos'
    BY <2>1 DEF TipoProcesos, Estados
  <2>4. TipoHilos'
    BY <2>1 DEF TipoHilos, PcDesalojo
  <2>5. TipoSemaforos'
    BY <2>1 DEF TipoSemaforos
  <2>6. FormaDesalojo'
    BY <2>1 DEF FormaDesalojo, TipoListas
  <2>7. FormaBloqueados'
    BY <2>1 DEF FormaBloqueados, Bloqueantes
  <2>8. FormaArchivos'
    BY <2>1 DEF FormaArchivos
  <2>9. QED
    BY <2>2, <2>3, <2>4, <2>5, <2>6, <2>7, <2>8 DEF TipoRecursos, TipoArchivos,
         FormaNew, FormaLargo, Uno
<1>26. ASSUME NEW f \in Archivos, FReadWrite(f) PROVE Meta'
  <2> USE <1>26 DEF FReadWrite, Devuelto, Bloquea, CambiaEstado, Fin
  <2>1. pcbDesalojo \in Procesos
    BY DEF FormaDesalojo
  <2>2. TipoListas'
    BY <2>1, ListaAgrega, ListaQuita, ListaVacia DEF TipoListas
  <2>3. TipoProcesos'
    BY <2>1 DEF TipoProcesos, Estados
  <2>4. TipoHilos'
    BY <2>1 DEF TipoHilos, PcDesalojo
  <2>5. FormaDesalojo'
    BY <2>1 DEF FormaDesalojo, TipoListas
  <2>6. FormaBloqueados'
    <3>1. bloqueados = <<>>
      BY <1>26 DEF FormaBloqueados, Bloqueantes, FReadWrite, Devuelto
    <3>2. bloqueados' = <<pcbDesalojo>>
      BY <1>26, <3>1 DEF FReadWrite, Bloquea
    <3>3. pcDesalojo' = "read_write" /\ pcbDesalojo' = pcbDesalojo
      BY <1>26 DEF FReadWrite, Fin
    <3>4. QED
      BY <3>2, <3>3 DEF FormaBloqueados, Bloqueantes
  <2>7. FormaArchivos'
    BY <2>1 DEF FormaArchivos
  <2>8. QED
    BY <2>2, <2>3, <2>4, <2>5, <2>6, <2>7 DEF TipoSemaforos, TipoRecursos,
         TipoArchivos, FormaNew, FormaLargo, Uno
<1>27. ASSUME NEW f \in Archivos, ArchivoNoAbierto(f) PROVE Meta'
  <2> USE <1>27 DEF ArchivoNoAbierto, Devuelto
  <2>1. pcbDesalojo \in Procesos
    BY DEF FormaDesalojo
  <2>2. TipoProcesos'
    BY <2>1 DEF TipoProcesos, Estados
  <2>3. TipoHilos'
    BY <2>1 DEF TipoHilos, PcDesalojo
  <2>4. QED
    BY <2>2, <2>3 DEF TipoListas, TipoSemaforos, TipoRecursos, TipoArchivos,
         FormaNew, FormaLargo, FormaDesalojo, FormaBloqueados, FormaArchivos, Uno
<1>28. CASE RecursoInexistente
  <2> USE <1>28 DEF RecursoInexistente, Devuelto, TerminaProceso, CambiaEstado,
       Fin
  <2>1. pcbDesalojo \in Procesos
    BY DEF FormaDesalojo
  <2>2. TipoProcesos'
    BY <2>1 DEF TipoProcesos, Estados
  <2>3. TipoHilos'
    BY <2>1 DEF TipoHilos, PcDesalojo
  <2>4. TipoSemaforos'
    BY <2>1 DEF TipoSemaforos
  <2>5. FormaDesalojo'
    BY <2>1 DEF FormaDesalojo, TipoListas
  <2>6. FormaBloqueados'
    BY <2>1 DEF FormaBloqueados, Bloqueantes
  <2>7. FormaArchivos'
    BY <2>1 DEF FormaArchivos
  <2>8. QED
    BY <2>2, <2>3, <2>4, <2>5, <2>6, <2>7 DEF TipoListas, TipoRecursos,
         TipoArchivos, FormaNew, FormaLargo, Uno
<1>29. ASSUME NEW r \in Recursos, WaitConcedido(r) PROVE Meta'
  <2> USE <1>29 DEF WaitConcedido, Devuelto, SigueEjecutando, CambiaEstado, Fin
  <2>1. pcbDesalojo \in Procesos
    BY DEF FormaDesalojo
  <2>2. TipoListas'
    BY <2>1, ListaAgrega, ListaQuita, ListaVacia DEF TipoListas
  <2>3. TipoProcesos'
    BY <2>1 DEF TipoProcesos, Estados
  <2>4. TipoHilos'
    BY <2>1 DEF TipoHilos, PcDesalojo
  <2>5. TipoRecursos'
    BY <2>1 DEF TipoRecursos
  <2>6. FormaDesalojo'
    BY <2>1 DEF FormaDesalojo, TipoListas
  <2>7. FormaBloqueados'
    BY <2>1 DEF FormaBloqueados, Bloqueantes
  <2>8. FormaArchivos'
    BY <2>1 DEF FormaArchivos
  <2>9. QED
    BY <2>2, <2>3, <2>4, <2>5, <2>6, <2>7, <2>8 DEF TipoSemaforos, TipoArchivos,
         FormaNew, FormaLargo, Uno
<1>30. ASSUME NEW r \in Recursos, WaitBloquea(r) PROVE Meta'
  <2> USE <1>30 DEF WaitBloquea, Devuelto, Fin
  <2>1. pcbDesalojo \in Procesos
    BY DEF FormaDesalojo
  <2>2. TipoProcesos'
    BY <2>1, ListaAgrega, ListaQuita DEF TipoProcesos, Estados, TipoListas
  <2>3. TipoHilos'
    BY <2>1, ListaAgrega, ListaQuita DEF TipoHilos, PcDesalojo, TipoListas
  <2>4. TipoSemaforos'
    BY <2>1 DEF TipoSemaforos
  <2>5. TipoRecursos'
    BY <2>1, ListaAgrega, ListaQuita DEF TipoRecursos, TipoListas
  <2>6. FormaDesalojo'
    BY <2>1, ListaAgrega, ListaQuita DEF FormaDesalojo, TipoListas
  <2>7. FormaBloqueados'
    BY <2>1 DEF FormaBloqueados, Bloqueantes
  <2>8. FormaArchivos'
    BY <2>1 DEF FormaArchivos
  <2>9. QED
    BY <2>2, <2>3, <2>4, <2>5, <2>6, <2>7, <2>8 DEF TipoListas, TipoArchivos,
         FormaNew, FormaLargo, Uno
<1>31. ASSUME NEW r \in Recursos, Signal(r) PROVE Meta'
  <2> USE <1>31 DEF Signal, Devuelto, Fin, CambiaEstado, Despierta
  <2>1. pcbDesalojo \in Procesos
    BY DEF FormaDesalojo
  <2>2. TipoListas'
    BY <2>1, ListaAgrega, ListaQuita, ListaVacia, ZenonT(40) DEF TipoListas, TipoRecursos
  <2>3. TipoProcesos'
    <3>1. Despierta(r) => Head(colaRecurso[r]) \in Procesos
      BY ListaQuita DEF TipoRecursos, Despierta
    <3>2. estado' \in [Procesos -> Estados]
      <4>1. CASE Despierta(r)
        BY <1>31, <2>1, <3>1, <4>1 DEF TipoProcesos, Estados, Signal
      <4>2. CASE ~Despierta(r)
        BY <1>31, <2>1, <4>2 DEF TipoProcesos, Estados, Signal, CambiaEstado
      <4>3. QED
        BY <4>1, <4>2
    <3>3. restantes' \in [Procesos -> Nat] /\ pcConsola' = pcConsola
      BY <1>31, <2>1 DEF TipoProcesos, Signal, Devuelto
    <3>4. QED
      BY <3>2, <3>3 DEF TipoProcesos
  <2>4. TipoHilos'
    BY <2>1, ListaAgrega, ListaQuita DEF TipoHilos, PcDesalojo, TipoListas,
         TipoRecursos
  <2>5. TipoSemaforos'
    BY <2>1 DEF TipoSemaforos, TipoRecursos
  <2>6. TipoRecursos'
    <3>1. CASE Despierta(r)
      <4>1. Tail(colaRecurso[r]) \in Seq(Procesos)
        BY <3>1, ListaQuita DEF TipoRecursos, Despierta
      <4>2. colaRecurso' \in [Recursos -> Seq(Procesos)]
        BY <1>31, <3>1, <4>1 DEF TipoRecursos, Signal
      <4>3. instancias' \in [Recursos -> Nat] /\ saldo' = saldo
        BY <1>31, <3>1 DEF TipoRecursos, Signal
      <4>4. QED
        BY <4>2, <4>3 DEF TipoRecursos
    <3>2. CASE ~Despierta(r)
      BY <1>31, <3>2 DEF TipoRecursos, Signal
    <3>3. QED
      BY <3>1, <3>2
  <2>7. FormaDesalojo'
    BY <2>1, ListaAgrega, ListaQuita DEF FormaDesalojo, TipoListas, TipoRecursos
  <2>8. FormaBloqueados'
    BY <2>1 DEF FormaBloqueados, Bloqueantes, TipoRecursos
  <2>9. FormaArchivos'
    BY <2>1 DEF FormaArchivos, TipoRecursos
  <2>10. QED
    BY <2>2, <2>3, <2>4, <2>5, <2>6, <2>7, <2>8, <2>9 DEF TipoArchivos, FormaNew,
         FormaLargo, Uno
<1>32. CASE PideSegmento
  <2> USE <1>32 DEF PideSegmento, Devuelto, Fin
  <2>1. pcbDesalojo \in Procesos
    BY DEF FormaDesalojo
  <2>2. TipoProcesos'
    BY <2>1 DEF TipoProcesos, Estados
  <2>3. TipoHilos'
    BY <2>1 DEF TipoHilos, PcDesalojo
  <2>4. FormaDesalojo'
    BY <2>1 DEF FormaDesalojo, TipoListas
  <2>5. FormaBloqueados'
    BY <2>1 DEF FormaBloqueados, Bloqueantes
  <2>6. FormaArchivos'
    BY <2>1 DEF FormaArchivos
  <2>7. QED
    BY <2>2, <2>3, <2>4, <2>5, <2>6 DEF TipoListas, TipoSemaforos, TipoRecursos,
         TipoArchivos, FormaNew, FormaLargo, Uno
<1>33. CASE TomaMemoria
  <2> USE <1>33 DEF TomaMemoria
  <2>1. pcbDesalojo \in Procesos
    BY DEF FormaDesalojo
  <2>2. TipoHilos'
    BY <2>1 DEF TipoHilos, PcDesalojo
  <2>3. FormaDesalojo'
    BY <2>1 DEF FormaDesalojo, TipoListas
  <2>4. FormaBloqueados'
    BY <2>1 DEF FormaBloqueados, Bloqueantes
  <2>5. FormaArchivos'
    BY <2>1 DEF FormaArchivos
  <2>6. QED
    BY <2>2, <2>3, <2>4, <2>5 DEF TipoListas, TipoProcesos, TipoSemaforos,
         TipoRecursos, TipoArchivos, FormaNew, FormaLargo, Uno
<1>34. CASE CreateSegmentOk
  <2> USE <1>34 DEF CreateSegmentOk, Responde, SigueEjecutando, CambiaEstado, Fin
  <2>1. pcbDesalojo \in Procesos
    BY DEF FormaDesalojo
  <2>2. TipoListas'
    BY <2>1, ListaAgrega, ListaQuita, ListaVacia DEF TipoListas
  <2>3. TipoProcesos'
    BY <2>1 DEF TipoProcesos, Estados
  <2>4. TipoHilos'
    BY <2>1 DEF TipoHilos, PcDesalojo
  <2>5. FormaDesalojo'
    BY <2>1 DEF FormaDesalojo, TipoListas
  <2>6. FormaBloqueados'
    BY <2>1 DEF FormaBloqueados, Bloqueantes
  <2>7. FormaArchivos'
    BY <2>1 DEF FormaArchivos
  <2>8. QED
    BY <2>2, <2>3, <2>4, <2>5, <2>6, <2>7 DEF TipoSemaforos, TipoRecursos,
         TipoArchivos, FormaNew, FormaLargo, Uno
<1>35. CASE CreateSegmentCompacta
  <2> USE <1>35 DEF CreateSegmentCompacta, Responde
  <2>1. pcbDesalojo \in Procesos
    BY DEF FormaDesalojo
  <2>2. TipoHilos'
    BY <2>1 DEF TipoHilos, PcDesalojo
  <2>3. FormaDesalojo'
    BY <2>1 DEF FormaDesalojo, TipoListas
  <2>4. FormaBloqueados'
    BY <2>1 DEF FormaBloqueados, Bloqueantes
  <2>5. FormaArchivos'
    BY <2>1 DEF FormaArchivos
  <2>6. QED
    BY <2>2, <2>3, <2>4, <2>5 DEF TipoListas, TipoProcesos, TipoSemaforos,
         TipoRecursos, TipoArchivos, FormaNew, FormaLargo, Uno
<1>36. CASE CreateSegmentSinMemoria
  <2> USE <1>36 DEF CreateSegmentSinMemoria, Responde, TerminaProceso,
       CambiaEstado, Fin
  <2>1. pcbDesalojo \in Procesos
    BY DEF FormaDesalojo
  <2>2. TipoProcesos'
    BY <2>1 DEF TipoProcesos, Estados
  <2>3. TipoHilos'
    BY <2>1 DEF TipoHilos, PcDesalojo
  <2>4. TipoSemaforos'
    BY <2>1 DEF TipoSemaforos
  <2>5. FormaDesalojo'
    BY <2>1 DEF FormaDesalojo, TipoListas
  <2>6. FormaBloqueados'
    BY <2>1 DEF FormaBloqueados, Bloqueantes
  <2>7. FormaArchivos'
    BY <2>1 DEF FormaArchivos
  <2>8. QED
    BY <2>2, <2>3, <2>4, <2>5, <2>6, <2>7 DEF TipoListas, TipoRecursos,
         TipoArchivos, FormaNew, FormaLargo, Uno
<1>37. CASE DeleteSegmentOk
  <2> USE <1>37 DEF DeleteSegmentOk, SigueEjecutando, CambiaEstado, Fin
  <2>1. pcbDesalojo \in Procesos
    BY DEF FormaDesalojo
  <2>2. TipoListas'
    BY <2>1, ListaAgrega, ListaQuita, ListaVacia DEF TipoListas
  <2>3. TipoProcesos'
    BY <2>1 DEF TipoProcesos, Estados
  <2>4. TipoHilos'
    BY <2>1 DEF TipoHilos, PcDesalojo
  <2>5. FormaDesalojo'
    BY <2>1 DEF FormaDesalojo, TipoListas
  <2>6. FormaBloqueados'
    BY <2>1 DEF FormaBloqueados, Bloqueantes
  <2>7. FormaArchivos'
    BY <2>1 DEF FormaArchivos
  <2>8. QED
    BY <2>2, <2>3, <2>4, <2>5, <2>6, <2>7 DEF TipoSemaforos, TipoRecursos,
         TipoArchivos, FormaNew, FormaLargo, Uno
<1>38. CASE UNCHANGED vars
  BY <1>38 DEF vars, TipoListas, TipoProcesos, TipoHilos, TipoSemaforos,
       TipoRecursos, TipoArchivos, FormaNew, FormaLargo, FormaDesalojo,
       FormaBloqueados, FormaArchivos
<1>39. QED
  BY <1>1, <1>2, <1>3, <1>4, <1>5, <1>6, <1>7, <1>8, <1>9, <1>10, <1>11, <1>12,
       <1>13, <1>14, <1>15, <1>16, <1>17, <1>18, <1>19, <1>20, <1>21, <1>22,
       <1>23, <1>24, <1>25, <1>26, <1>27, <1>28, <1>29, <1>30, <1>31, <1>32,
       <1>33, <1>34, <1>35, <1>36, <1>37, <1>38, <1>43
  DEF Next, Consola, LargoPlazo, CortoPlazo, Desalojo, ManejoInstrucciones

(* Only the dispatcher touches what it has in its hands.                   *)
LEMMA PasoFormaCorto == IInv /\ [Next]_vars => FormaCorto'
<1> SUFFICES ASSUME IInv, [Next]_vars PROVE FormaCorto'
  OBVIOUS
<1> USE DEF corto
<1>1. CASE CortoElige
  <2>1. PICK i \in Elegibles : pcbCorto' = listos[i]
    BY <1>1 DEF CortoElige
  <2>2. listos \in Seq(Procesos) /\ i \in 1..Len(listos)
    BY <1>1, ListaVacia, LenProperties
    DEF IInv, TypeOK, TipoListas, Elegibles, CortoElige
  <2>3. listos[i] \in Procesos
    BY <2>2, ElementOfSeq
  <2>4. QED
    BY <1>1, <2>1, <2>3 DEF FormaCorto, CortoElige, PasoCorto
<1>2. CASE CortoAgrega \/ CortoAvisa \/ CortoEsperaCpu \/ CortoEsperaListo
  BY <1>2 DEF IInv, FormaCorto, CortoAgrega, CortoAvisa, CortoEsperaCpu,
       CortoEsperaListo, PasoCorto
<1>3. CASE UNCHANGED corto
  BY <1>3 DEF IInv, FormaCorto
<1>4. QED
  BY <1>1, <1>2, <1>3
  DEF Next, Consola, LargoPlazo, CortoPlazo, Desalojo, ManejoInstrucciones, vars,
      CreaPCB, AgregaNew, LargoInicializar, LargoTomaNew, LargoPideTabla,
      LargoRecibeTabla, LargoAdmite, DesalojoToma, DesalojoSinProceso, Exit,
      SegmentationFault, Yield, IO, FinIO, FTruncate, FinFTruncate, FinFReadWrite,
      FOpenOcupado, FOpen, FClose, FSeek, FReadWrite, ArchivoNoAbierto,
      RecursoInexistente, WaitConcedido, WaitBloquea, Signal, PideSegmento,
      TomaMemoria, CreateSegmentOk, CreateSegmentCompacta,
      CreateSegmentSinMemoria, DeleteSegmentOk

(* Every step keeps IInv.                                                  *)
LEMMA PasoIInv == IInv /\ [Next]_vars => IInv'
  BY PasoForma, PasoFormaCorto DEF IInv

-----------------------------------------------------------------------------
(* The lists, counters and threads of the kernel have their types: no      *)
(* semaphore and no resource counter ever goes below zero.                 *)
THEOREM Tipos == Spec => []TypeOK
<1>1. IInv => TypeOK
  BY DEF IInv
<1>2. QED
  BY InicioIInv, PasoIInv, <1>1, PTL DEF Spec

(* FinIO removes index 0 of BLOCKED without looking at it: it is always    *)
(* the process whose I/O ends.                                             *)
THEOREM IOBien == Spec => []IOSacaAlPropio
<1>1. IInv => IOSacaAlPropio
  BY DEF IInv, Forma, FormaBloqueados, Bloqueantes, IOSacaAlPropio
<1>2. QED
  BY InicioIInv, PasoIInv, <1>1, PTL DEF Spec

-----------------------------------------------------------------------------
(* The dispatcher takes one process out of READY, whichever it chooses.    *)
LEMMA UnoSaleDeReady ==
  ASSUME IInv, CortoElige
  PROVE  Len(listos') = Len(listos) - 1
<1>1. PICK i \in Elegibles : listos' = RemoveAt(listos, i)
  BY DEF CortoElige
<1>2. listos \in Seq(Procesos)
  BY DEF IInv, TypeOK, TipoListas
<1>3. i \in 1..Len(listos)
  BY <1>2, ListaVacia, LenProperties DEF Elegibles, CortoElige
<1>4. QED
  BY <1>1, <1>2, <1>3, RemoveAtPropiedades

(* Nobody waits for a file that is being closed: a process that did would  *)
(* hold the eviction thread, which is the one that closes.                 *)
LEMMA CierraSinEspera ==
  ASSUME IInv, NEW f \in Archivos, FClose(f)
  PROVE  listos' = listos
<1>1. colaArchivo[f] = <<>>
  BY DEF IInv, Forma, FormaArchivos, FClose, Devuelto
<1>2. QED
  BY <1>1 DEF FClose

(* Every step keeps a credit of sem_proceso_a_ready_terminado per process  *)
(* of READY.                                                               *)
LEMMA PasoCreditos ==
  IInv /\ CreditosDeListos /\ [Next]_vars => CreditosDeListos'
<1> SUFFICES ASSUME IInv, CreditosDeListos, [Next]_vars PROVE CreditosDeListos'
  OBVIOUS
<1> USE DEF IInv, TypeOK, Forma, listas, semaforos, recursos, archivos, largo,
     corto, desalojo, programas
<1>1. CASE LargoAdmite
  BY <1>1, ListaAgrega, ListaVacia
  DEF CreditosDeListos, TipoListas, TipoSemaforos, Uno, FormaLargo,
       FormaDesalojo, LargoAdmite, PasoLargo
<1>2. CASE CortoEsperaCpu
  BY <1>2, ListaAgrega, ListaVacia
  DEF CreditosDeListos, TipoListas, TipoSemaforos, Uno, FormaLargo,
       FormaDesalojo, CortoEsperaCpu, PasoCorto
<1>3. CASE CortoEsperaListo
  BY <1>3, ListaAgrega, ListaVacia
  DEF CreditosDeListos, TipoListas, TipoSemaforos, Uno, FormaLargo,
       FormaDesalojo, CortoEsperaListo, PasoCorto
<1>4. CASE CortoElige
  <2>1. Len(listos') = Len(listos) - 1
    BY <1>4, UnoSaleDeReady
  <2>2. semTerminado' = semTerminado /\ pcCorto = "elegir" /\ pcCorto' = "agregar"
    BY <1>4 DEF CortoElige, PasoCorto
  <2>3. QED
    BY <2>1, <2>2, ListaVacia DEF CreditosDeListos, TipoListas, TipoSemaforos, Uno
<1>14. CASE CortoAgrega
  BY <1>14 DEF CreditosDeListos, Uno, CortoAgrega, PasoCorto
<1>5. CASE CortoAvisa
  BY <1>5, ListaAgrega, ListaVacia
  DEF CreditosDeListos, TipoListas, TipoSemaforos, Uno, FormaLargo,
       FormaDesalojo, CortoAvisa, PasoCorto
<1>6. CASE Yield
  BY <1>6, ListaAgrega, ListaVacia
  DEF CreditosDeListos, TipoListas, TipoSemaforos, Uno, FormaLargo,
       FormaDesalojo, Yield, Devuelto, CambiaEstado, Fin
<1>7. CASE FinIO
  BY <1>7, ListaAgrega, ListaVacia
  DEF CreditosDeListos, TipoListas, TipoSemaforos, Uno, FormaLargo,
       FormaDesalojo, FinIO, Desbloquea, CambiaEstado, Fin
<1>8. CASE FinFTruncate
  BY <1>8, ListaAgrega, ListaVacia
  DEF CreditosDeListos, TipoListas, TipoSemaforos, Uno, FormaLargo,
       FormaDesalojo, FinFTruncate, Desbloquea, CambiaEstado, Fin
<1>9. CASE FinFReadWrite
  BY <1>9, ListaAgrega, ListaVacia
  DEF CreditosDeListos, TipoListas, TipoSemaforos, Uno, FormaLargo,
       FormaDesalojo, FinFReadWrite, Desbloquea, CambiaEstado, Fin
<1>10. ASSUME NEW f \in Archivos, FClose(f) PROVE CreditosDeListos'
  BY <1>10, CierraSinEspera DEF CreditosDeListos, FClose
<1>11. ASSUME NEW r \in Recursos, Signal(r) PROVE CreditosDeListos'
  <2>1. pcbDesalojo \in Procesos /\ pcCorto' = pcCorto
    BY <1>11 DEF FormaDesalojo, Signal, Devuelto
  <2>2. CASE Despierta(r)
    <3>1. Head(colaRecurso[r]) \in Procesos
      BY <2>2, ListaQuita DEF TipoRecursos, Despierta
    <3>2. Len(listos') = Len(listos) + 1 /\ semTerminado' = semTerminado + 1
      BY <1>11, <2>2, <3>1, ListaAgrega DEF TipoListas, Signal
    <3>3. QED
      BY <2>1, <3>2, ListaVacia DEF CreditosDeListos, TipoListas, TipoSemaforos,
           Uno
  <2>3. CASE ~Despierta(r)
    BY <1>11, <2>1, <2>3 DEF CreditosDeListos, Signal
  <2>4. QED
    BY <2>2, <2>3
<1>12. CASE UNCHANGED <<listos, semTerminado, pcCorto>>
  BY <1>12 DEF CreditosDeListos
<1>13. QED
  BY <1>1, <1>2, <1>3, <1>4, <1>5, <1>6, <1>7, <1>8, <1>9, <1>10, <1>11, <1>12,
     <1>14
  DEF Next, Consola, LargoPlazo, CortoPlazo, Desalojo, ManejoInstrucciones, vars,
      CreaPCB, AgregaNew, LargoInicializar, PasoLargo, LargoTomaNew,
           LargoPideTabla, LargoRecibeTabla, DesalojoToma, DesalojoSinProceso,
           Exit, TerminaProceso, CambiaEstado, Fin, SegmentationFault, Devuelto,
           IO, Bloquea, FTruncate, FOpenOcupado, FOpen, SigueEjecutando, FSeek,
           FReadWrite, ArchivoNoAbierto, RecursoInexistente, WaitConcedido,
           WaitBloquea, PideSegmento, TomaMemoria, CreateSegmentOk, Responde,
           CreateSegmentCompacta, CreateSegmentSinMemoria, DeleteSegmentOk

(* The credits of sem_proceso_a_ready_terminado and the processes of READY *)
(* agree, whatever the threads, the programs and memory do.                *)
THEOREM Creditos == Spec => []CreditosDeListos
<1>1. Init => CreditosDeListos
  BY DEF Init, CreditosDeListos, Uno
<1>2. QED
  BY InicioIInv, PasoIInv, PasoCreditos, <1>1, PTL DEF Spec

-----------------------------------------------------------------------------
(* The counter of a resource, which the code uses, is never below what is  *)
(* really left of it, and is 0 when a process starts to wait.              *)
SaldoCubierto == \A r \in Recursos : saldo[r] <= instancias[r]

InvRecursos == SaldoCubierto /\ NadieEsperaUnidadLibre

(* Every step keeps it and keeps the waiters without a free unit.          *)
LEMMA PasoRecursos ==
  IInv /\ InvRecursos /\ [Next]_vars => InvRecursos'
<1> SUFFICES ASSUME IInv, InvRecursos, [Next]_vars PROVE InvRecursos'
  OBVIOUS
<1> USE DEF IInv, TypeOK, Forma, listas, semaforos, recursos, archivos, largo,
     corto, desalojo, programas
<1>1. ASSUME NEW r \in Recursos, WaitConcedido(r) PROVE InvRecursos'
  BY <1>1
  DEF InvRecursos, SaldoCubierto, NadieEsperaUnidadLibre, TipoRecursos,
       WaitConcedido, Devuelto, SigueEjecutando, CambiaEstado, Fin
<1>2. ASSUME NEW r \in Recursos, WaitBloquea(r) PROVE InvRecursos'
  BY <1>2
  DEF InvRecursos, SaldoCubierto, NadieEsperaUnidadLibre, TipoRecursos,
       WaitBloquea, Devuelto, Fin
<1>3. ASSUME NEW r \in Recursos, Signal(r) PROVE InvRecursos'
  <2>1. CASE Despierta(r)
    <3>1. saldo' = saldo /\ \A q \in Recursos : instancias[q] <= instancias'[q]
      BY <1>3, <2>1 DEF TipoRecursos, Signal
    <3>2. \A q \in Recursos : colaRecurso'[q] # <<>> => colaRecurso[q] # <<>>
      BY <1>3, <2>1 DEF TipoRecursos, Signal, Despierta
    <3>3. instancias' \in [Recursos -> Nat]
      BY <1>3 DEF TipoRecursos, Signal
    <3>4. QED
      BY <3>1, <3>2, <3>3 DEF InvRecursos, SaldoCubierto, NadieEsperaUnidadLibre,
           TipoRecursos
  <2>2. CASE ~Despierta(r)
    <3>1. colaRecurso' = colaRecurso /\ colaRecurso[r] = <<>>
      BY <1>3, <2>2 DEF Signal, Despierta
    <3>2. /\ instancias'[r] = instancias[r] + 1 /\ saldo'[r] = saldo[r] + 1
          /\ \A q \in Recursos \ {r} : instancias'[q] = instancias[q] /\ saldo'[q] = saldo[q]
      BY <1>3, <2>2 DEF TipoRecursos, Signal
    <3>3. ASSUME NEW q \in Recursos PROVE saldo'[q] <= instancias'[q]
      <4>1. saldo[q] <= instancias[q] /\ saldo[q] \in Int /\ instancias[q] \in Int
        BY DEF InvRecursos, SaldoCubierto, TipoRecursos
      <4>2. QED
        BY <3>2, <4>1
    <3>4. NadieEsperaUnidadLibre'
      BY <3>1, <3>2 DEF InvRecursos, NadieEsperaUnidadLibre
    <3>5. QED
      BY <3>3, <3>4 DEF InvRecursos, SaldoCubierto
  <2>3. QED
    BY <2>1, <2>2
<1>4. CASE UNCHANGED <<instancias, colaRecurso, saldo>>
  BY <1>4 DEF InvRecursos, SaldoCubierto, NadieEsperaUnidadLibre
<1>5. QED
  BY <1>1, <1>2, <1>3, <1>4
  DEF Next, Consola, LargoPlazo, CortoPlazo, Desalojo, ManejoInstrucciones, vars,
      CreaPCB, AgregaNew, LargoInicializar, PasoLargo, LargoTomaNew,
           LargoPideTabla, LargoRecibeTabla, LargoAdmite, CortoEsperaCpu,
           PasoCorto, CortoEsperaListo, CortoElige, CortoAgrega, CortoAvisa,
           DesalojoToma, DesalojoSinProceso, Exit, TerminaProceso, CambiaEstado,
           Fin, SegmentationFault, Devuelto, Yield, IO, Bloquea, FinIO,
           Desbloquea, FTruncate, FinFTruncate, FinFReadWrite, FOpenOcupado,
           FOpen, SigueEjecutando, FClose, FSeek, FReadWrite, ArchivoNoAbierto,
           RecursoInexistente, PideSegmento, TomaMemoria, CreateSegmentOk,
           Responde, CreateSegmentCompacta, CreateSegmentSinMemoria,
           DeleteSegmentOk

(* No lost wake-up on resources: whoever waits for one, no unit of it is   *)
(* free.                                                                   *)
THEOREM SinUnidadLibre == Spec => []NadieEsperaUnidadLibre
<1>1. Init => InvRecursos
  BY ConstantesOK DEF Init, InvRecursos, SaldoCubierto, NadieEsperaUnidadLibre
<1>2. InvRecursos => NadieEsperaUnidadLibre
  BY DEF InvRecursos
<1>3. QED
  BY InicioIInv, PasoIInv, PasoRecursos, <1>1, <1>2, PTL DEF Spec

-----------------------------------------------------------------------------
(* Programs without the instructions that post sem_cpu_disponible for a    *)
(* process that keeps the CPU, and a memory that after a compaction does   *)
(* not ask for another.                                                    *)
CpuBienRepuesta ==
  /\ Instrucciones \cap {"F_OPEN", "F_CLOSE", "F_SEEK"} = {}
  /\ "COMPACTACION" \notin RespuestasReintento

InvCpu == UnicaCpu /\ AvisoNoSePierde

(* With those, every step keeps the one credit of the CPU in one place.    *)
LEMMA PasoCpu ==
  ASSUME CpuBienRepuesta
  PROVE  IInv /\ InvCpu /\ [Next]_vars => InvCpu'
<1> SUFFICES ASSUME IInv, InvCpu, [Next]_vars PROVE InvCpu'
  OBVIOUS
<1> USE DEF IInv, TypeOK, Forma, listas, semaforos, recursos, archivos, largo,
     corto, desalojo, programas
<1>1. CASE CortoEsperaCpu
  BY <1>1, CpuBienRepuesta, ListaAgrega, ListaVacia, ListaQuita
  DEF CpuBienRepuesta, InvCpu, UnicaCpu, AvisoNoSePierde, ConCpu, Uno,
       TipoListas, TipoSemaforos, FormaDesalojo, CortoEsperaCpu, PasoCorto
<1>2. CASE CortoEsperaListo
  BY <1>2, CpuBienRepuesta, ListaAgrega, ListaVacia, ListaQuita
  DEF CpuBienRepuesta, InvCpu, UnicaCpu, AvisoNoSePierde, ConCpu, Uno,
       TipoListas, TipoSemaforos, FormaDesalojo, CortoEsperaListo, PasoCorto
<1>3. CASE CortoElige
  BY <1>3, CpuBienRepuesta, ListaAgrega, ListaVacia, ListaQuita
  DEF CpuBienRepuesta, InvCpu, UnicaCpu, AvisoNoSePierde, ConCpu, Uno,
       TipoListas, TipoSemaforos, FormaDesalojo, CortoElige, PasoCorto, Elegibles
<1>32. CASE CortoAgrega
  <2>1. pcbCorto \in Procesos
    BY <1>32 DEF FormaCorto, CortoAgrega, PasoCorto
  <2>2. Len(ejecutando') = Len(ejecutando) + 1
    BY <1>32, <2>1, ListaAgrega DEF TipoListas, CortoAgrega
  <2>3. QED
    BY <1>32, <2>2, ListaVacia DEF InvCpu, UnicaCpu, AvisoNoSePierde, ConCpu, Uno,
       TipoListas, TipoSemaforos, CortoAgrega, PasoCorto
<1>4. CASE CortoAvisa
  BY <1>4, CpuBienRepuesta, ListaAgrega, ListaVacia, ListaQuita
  DEF CpuBienRepuesta, InvCpu, UnicaCpu, AvisoNoSePierde, ConCpu, Uno,
       TipoListas, TipoSemaforos, FormaDesalojo, CortoAvisa, PasoCorto
<1>5. CASE DesalojoToma
  BY <1>5, CpuBienRepuesta, ListaAgrega, ListaVacia, ListaQuita
  DEF CpuBienRepuesta, InvCpu, UnicaCpu, AvisoNoSePierde, ConCpu, Uno,
       TipoListas, TipoSemaforos, FormaDesalojo, DesalojoToma
<1>6. CASE DesalojoSinProceso
  BY <1>6, CpuBienRepuesta, ListaAgrega, ListaVacia, ListaQuita
  DEF CpuBienRepuesta, InvCpu, UnicaCpu, AvisoNoSePierde, ConCpu, Uno,
       TipoListas, TipoSemaforos, FormaDesalojo, DesalojoSinProceso
<1>7. CASE Exit
  BY <1>7, CpuBienRepuesta, ListaAgrega, ListaVacia, ListaQuita
  DEF CpuBienRepuesta, InvCpu, UnicaCpu, AvisoNoSePierde, ConCpu, Uno,
       TipoListas, TipoSemaforos, FormaDesalojo, Exit, TerminaProceso,
       CambiaEstado, Fin
<1>8. CASE SegmentationFault
  BY <1>8, CpuBienRepuesta, ListaAgrega, ListaVacia, ListaQuita
  DEF CpuBienRepuesta, InvCpu, UnicaCpu, AvisoNoSePierde, ConCpu, Uno,
       TipoListas, TipoSemaforos, FormaDesalojo, SegmentationFault, Devuelto,
       TerminaProceso, CambiaEstado, Fin
<1>9. CASE Yield
  BY <1>9, CpuBienRepuesta, ListaAgrega, ListaVacia, ListaQuita
  DEF CpuBienRepuesta, InvCpu, UnicaCpu, AvisoNoSePierde, ConCpu, Uno,
       TipoListas, TipoSemaforos, FormaDesalojo, Yield, Devuelto, CambiaEstado,
       Fin
<1>10. CASE IO
  BY <1>10, CpuBienRepuesta, ListaAgrega, ListaVacia, ListaQuita
  DEF CpuBienRepuesta, InvCpu, UnicaCpu, AvisoNoSePierde, ConCpu, Uno,
       TipoListas, TipoSemaforos, FormaDesalojo, IO, Devuelto, Bloquea,
       CambiaEstado, Fin
<1>11. CASE FinIO
  BY <1>11, CpuBienRepuesta, ListaAgrega, ListaVacia, ListaQuita
  DEF CpuBienRepuesta, InvCpu, UnicaCpu, AvisoNoSePierde, ConCpu, Uno,
       TipoListas, TipoSemaforos, FormaDesalojo, FinIO, Desbloquea, CambiaEstado,
       Fin
<1>12. CASE FTruncate
  BY <1>12, CpuBienRepuesta, ListaAgrega, ListaVacia, ListaQuita
  DEF CpuBienRepuesta, InvCpu, UnicaCpu, AvisoNoSePierde, ConCpu, Uno,
       TipoListas, TipoSemaforos, FormaDesalojo, FTruncate, Devuelto, Bloquea,
       CambiaEstado, Fin
<1>13. CASE FinFTruncate
  BY <1>13, CpuBienRepuesta, ListaAgrega, ListaVacia, ListaQuita
  DEF CpuBienRepuesta, InvCpu, UnicaCpu, AvisoNoSePierde, ConCpu, Uno,
       TipoListas, TipoSemaforos, FormaDesalojo, FinFTruncate, Desbloquea,
       CambiaEstado, Fin
<1>14. CASE FinFReadWrite
  BY <1>14, CpuBienRepuesta, ListaAgrega, ListaVacia, ListaQuita
  DEF CpuBienRepuesta, InvCpu, UnicaCpu, AvisoNoSePierde, ConCpu, Uno,
       TipoListas, TipoSemaforos, FormaDesalojo, FinFReadWrite, Desbloquea,
       CambiaEstado, Fin
<1>15. ASSUME NEW f \in Archivos, FOpenOcupado(f) PROVE InvCpu'
  BY <1>15, CpuBienRepuesta, ListaAgrega, ListaVacia, ListaQuita
  DEF CpuBienRepuesta, InvCpu, UnicaCpu, AvisoNoSePierde, ConCpu, Uno,
       TipoListas, TipoSemaforos, FormaDesalojo, FOpenOcupado, Devuelto, Bloquea,
       CambiaEstado, Fin
<1>16. ASSUME NEW f \in Archivos, FOpen(f) PROVE InvCpu'
  BY <1>16, CpuBienRepuesta, ListaAgrega, ListaVacia, ListaQuita
  DEF CpuBienRepuesta, InvCpu, UnicaCpu, AvisoNoSePierde, ConCpu, Uno,
       TipoListas, TipoSemaforos, FormaDesalojo, FOpen, Devuelto,
       SigueEjecutando, CambiaEstado, Fin
<1>17. ASSUME NEW f \in Archivos, FClose(f) PROVE InvCpu'
  BY <1>17, CpuBienRepuesta, ListaAgrega, ListaVacia, ListaQuita
  DEF CpuBienRepuesta, InvCpu, UnicaCpu, AvisoNoSePierde, ConCpu, Uno,
       TipoListas, TipoSemaforos, FormaDesalojo, FClose, Devuelto, Fin
<1>18. ASSUME NEW f \in Archivos, FSeek(f) PROVE InvCpu'
  BY <1>18, CpuBienRepuesta, ListaAgrega, ListaVacia, ListaQuita
  DEF CpuBienRepuesta, InvCpu, UnicaCpu, AvisoNoSePierde, ConCpu, Uno,
       TipoListas, TipoSemaforos, FormaDesalojo, FSeek, Devuelto,
       SigueEjecutando, CambiaEstado, Fin
<1>19. ASSUME NEW f \in Archivos, FReadWrite(f) PROVE InvCpu'
  BY <1>19, CpuBienRepuesta, ListaAgrega, ListaVacia, ListaQuita
  DEF CpuBienRepuesta, InvCpu, UnicaCpu, AvisoNoSePierde, ConCpu, Uno,
       TipoListas, TipoSemaforos, FormaDesalojo, FReadWrite, Devuelto, Bloquea,
       CambiaEstado, Fin
<1>20. CASE RecursoInexistente
  <2>1. pcDesalojo = "cpu"
    BY <1>20 DEF RecursoInexistente, Devuelto
  <2>2. /\ semCpu' = semCpu + 1 /\ pcDesalojo' = "executing"
        /\ UNCHANGED <<ejecutando, pcCorto, executing>>
    BY <1>20 DEF RecursoInexistente, TerminaProceso, Fin
  <2>3. QED
    BY <2>1, <2>2, ListaVacia DEF InvCpu, UnicaCpu, AvisoNoSePierde, ConCpu, Uno,
                                  TipoListas, TipoSemaforos
<1>21. ASSUME NEW r \in Recursos, WaitConcedido(r) PROVE InvCpu'
  BY <1>21, CpuBienRepuesta, ListaAgrega, ListaVacia, ListaQuita
  DEF CpuBienRepuesta, InvCpu, UnicaCpu, AvisoNoSePierde, ConCpu, Uno,
       TipoListas, TipoSemaforos, FormaDesalojo, WaitConcedido, Devuelto,
       SigueEjecutando, CambiaEstado, Fin
<1>22. ASSUME NEW r \in Recursos, WaitBloquea(r) PROVE InvCpu'
  BY <1>22, CpuBienRepuesta, ListaAgrega, ListaVacia, ListaQuita
  DEF CpuBienRepuesta, InvCpu, UnicaCpu, AvisoNoSePierde, ConCpu, Uno,
       TipoListas, TipoSemaforos, FormaDesalojo, WaitBloquea, Devuelto, Fin
<1>23. ASSUME NEW r \in Recursos, Signal(r) PROVE InvCpu'
  BY <1>23, CpuBienRepuesta, ListaAgrega, ListaVacia, ListaQuita
  DEF CpuBienRepuesta, InvCpu, UnicaCpu, AvisoNoSePierde, ConCpu, Uno,
       TipoListas, TipoSemaforos, FormaDesalojo, Signal, Devuelto, Fin,
       CambiaEstado, Despierta
<1>24. CASE PideSegmento
  BY <1>24, CpuBienRepuesta, ListaAgrega, ListaVacia, ListaQuita
  DEF CpuBienRepuesta, InvCpu, UnicaCpu, AvisoNoSePierde, ConCpu, Uno,
       TipoListas, TipoSemaforos, FormaDesalojo, PideSegmento, Devuelto, Fin
<1>25. CASE TomaMemoria
  BY <1>25, CpuBienRepuesta, ListaAgrega, ListaVacia, ListaQuita
  DEF CpuBienRepuesta, InvCpu, UnicaCpu, AvisoNoSePierde, ConCpu, Uno,
       TipoListas, TipoSemaforos, FormaDesalojo, TomaMemoria
<1>26. CASE CreateSegmentOk
  BY <1>26, CpuBienRepuesta, ListaAgrega, ListaVacia, ListaQuita
  DEF CpuBienRepuesta, InvCpu, UnicaCpu, AvisoNoSePierde, ConCpu, Uno,
       TipoListas, TipoSemaforos, FormaDesalojo, CreateSegmentOk, Responde,
       SigueEjecutando, CambiaEstado, Fin
<1>27. CASE CreateSegmentCompacta
  BY <1>27, CpuBienRepuesta, ListaAgrega, ListaVacia, ListaQuita
  DEF CpuBienRepuesta, InvCpu, UnicaCpu, AvisoNoSePierde, ConCpu, Uno,
       TipoListas, TipoSemaforos, FormaDesalojo, CreateSegmentCompacta, Responde
<1>28. CASE CreateSegmentSinMemoria
  BY <1>28, CpuBienRepuesta, ListaAgrega, ListaVacia, ListaQuita
  DEF CpuBienRepuesta, InvCpu, UnicaCpu, AvisoNoSePierde, ConCpu, Uno,
       TipoListas, TipoSemaforos, FormaDesalojo, CreateSegmentSinMemoria,
       Responde, TerminaProceso, CambiaEstado, Fin
<1>29. CASE DeleteSegmentOk
  BY <1>29, CpuBienRepuesta, ListaAgrega, ListaVacia, ListaQuita
  DEF CpuBienRepuesta, InvCpu, UnicaCpu, AvisoNoSePierde, ConCpu, Uno,
       TipoListas, TipoSemaforos, FormaDesalojo, DeleteSegmentOk,
       SigueEjecutando, CambiaEstado, Fin
<1>30. CASE UNCHANGED <<semCpu, pcCorto, ejecutando, pcDesalojo, executing>>
  BY <1>30 DEF InvCpu, UnicaCpu, AvisoNoSePierde
<1>31. QED
  BY <1>1, <1>2, <1>3, <1>4, <1>5, <1>6, <1>7, <1>8, <1>9, <1>10, <1>11, <1>12,
       <1>13, <1>14, <1>15, <1>16, <1>17, <1>18, <1>19, <1>20, <1>21, <1>22,
       <1>23, <1>24, <1>25, <1>26, <1>27, <1>28, <1>29, <1>30, <1>32
  DEF Next, Consola, LargoPlazo, CortoPlazo, Desalojo, ManejoInstrucciones, vars,
      CreaPCB, AgregaNew, LargoInicializar, PasoLargo, LargoTomaNew,
           LargoPideTabla, LargoRecibeTabla, LargoAdmite, ArchivoNoAbierto,
           Devuelto

(* The credits of the CPU never add up to more than one for programs that  *)
(* do not use the calls that post one the process keeps, whatever memory   *)
(* answers: a second COMPACTACION in a row only loses one.                 *)
CpuNoSobra ==
  semCpu + Uno(pcCorto \in {"terminado", "elegir", "agregar"}) + Len(ejecutando)
    + Uno(pcDesalojo \in ConCpu) <= 1

(* No step posts a credit of the CPU while another is taken.               *)
LEMMA PasoCpuNoSobra ==
  ASSUME Instrucciones \cap {"F_OPEN", "F_CLOSE", "F_SEEK"} = {}
  PROVE  IInv /\ CpuNoSobra /\ [Next]_vars => CpuNoSobra'
<1> SUFFICES ASSUME IInv, CpuNoSobra, [Next]_vars PROVE CpuNoSobra'
  OBVIOUS
<1> USE DEF IInv, TypeOK, Forma, listas, semaforos, recursos, archivos, largo,
     corto, desalojo, programas
<1>1. CASE CortoEsperaCpu
  BY <1>1, ListaAgrega, ListaVacia, ListaQuita
  DEF CpuNoSobra, ConCpu, Uno,
       TipoListas, TipoSemaforos, FormaDesalojo, CortoEsperaCpu, PasoCorto
<1>2. CASE CortoEsperaListo
  BY <1>2, ListaAgrega, ListaVacia, ListaQuita
  DEF CpuNoSobra, ConCpu, Uno,
       TipoListas, TipoSemaforos, FormaDesalojo, CortoEsperaListo, PasoCorto
<1>3. CASE CortoElige
  BY <1>3, ListaAgrega, ListaVacia, ListaQuita
  DEF CpuNoSobra, ConCpu, Uno,
       TipoListas, TipoSemaforos, FormaDesalojo, CortoElige, PasoCorto, Elegibles
<1>32. CASE CortoAgrega
  <2>1. pcbCorto \in Procesos
    BY <1>32 DEF FormaCorto, CortoAgrega, PasoCorto
  <2>2. Len(ejecutando') = Len(ejecutando) + 1
    BY <1>32, <2>1, ListaAgrega DEF TipoListas, CortoAgrega
  <2>3. QED
    BY <1>32, <2>2, ListaVacia DEF CpuNoSobra, ConCpu, Uno,
       TipoListas, TipoSemaforos, CortoAgrega, PasoCorto
<1>4. CASE CortoAvisa
  BY <1>4, ListaAgrega, ListaVacia, ListaQuita
  DEF CpuNoSobra, ConCpu, Uno,
       TipoListas, TipoSemaforos, FormaDesalojo, CortoAvisa, PasoCorto
<1>5. CASE DesalojoToma
  BY <1>5, ListaAgrega, ListaVacia, ListaQuita
  DEF CpuNoSobra, ConCpu, Uno,
       TipoListas, TipoSemaforos, FormaDesalojo, DesalojoToma
<1>6. CASE DesalojoSinProceso
  BY <1>6, ListaAgrega, ListaVacia, ListaQuita
  DEF CpuNoSobra, ConCpu, Uno,
       TipoListas, TipoSemaforos, FormaDesalojo, DesalojoSinProceso
<1>7. CASE Exit
  BY <1>7, ListaAgrega, ListaVacia, ListaQuita
  DEF CpuNoSobra, ConCpu, Uno,
       TipoListas, TipoSemaforos, FormaDesalojo, Exit, TerminaProceso,
       CambiaEstado, Fin
<1>8. CASE SegmentationFault
  BY <1>8, ListaAgrega, ListaVacia, ListaQuita
  DEF CpuNoSobra, ConCpu, Uno,
       TipoListas, TipoSemaforos, FormaDesalojo, SegmentationFault, Devuelto,
       TerminaProceso, CambiaEstado, Fin
<1>9. CASE Yield
  BY <1>9, ListaAgrega, ListaVacia, ListaQuita
  DEF CpuNoSobra, ConCpu, Uno,
       TipoListas, TipoSemaforos, FormaDesalojo, Yield, Devuelto, CambiaEstado,
       Fin
<1>10. CASE IO
  BY <1>10, ListaAgrega, ListaVacia, ListaQuita
  DEF CpuNoSobra, ConCpu, Uno,
       TipoListas, TipoSemaforos, FormaDesalojo, IO, Devuelto, Bloquea,
       CambiaEstado, Fin
<1>11. CASE FinIO
  BY <1>11, ListaAgrega, ListaVacia, ListaQuita
  DEF CpuNoSobra, ConCpu, Uno,
       TipoListas, TipoSemaforos, FormaDesalojo, FinIO, Desbloquea, CambiaEstado,
       Fin
<1>12. CASE FTruncate
  BY <1>12, ListaAgrega, ListaVacia, ListaQuita
  DEF CpuNoSobra, ConCpu, Uno,
       TipoListas, TipoSemaforos, FormaDesalojo, FTruncate, Devuelto, Bloquea,
       CambiaEstado, Fin
<1>13. CASE FinFTruncate
  BY <1>13, ListaAgrega, ListaVacia, ListaQuita
  DEF CpuNoSobra, ConCpu, Uno,
       TipoListas, TipoSemaforos, FormaDesalojo, FinFTruncate, Desbloquea,
       CambiaEstado, Fin
<1>14. CASE FinFReadWrite
  BY <1>14, ListaAgrega, ListaVacia, ListaQuita
  DEF CpuNoSobra, ConCpu, Uno,
       TipoListas, TipoSemaforos, FormaDesalojo, FinFReadWrite, Desbloquea,
       CambiaEstado, Fin
<1>15. ASSUME NEW f \in Archivos, FOpenOcupado(f) PROVE CpuNoSobra'
  BY <1>15, ListaAgrega, ListaVacia, ListaQuita
  DEF CpuNoSobra, ConCpu, Uno,
       TipoListas, TipoSemaforos, FormaDesalojo, FOpenOcupado, Devuelto, Bloquea,
       CambiaEstado, Fin
<1>16. ASSUME NEW f \in Archivos, FOpen(f) PROVE CpuNoSobra'
  BY <1>16, ListaAgrega, ListaVacia, ListaQuita
  DEF CpuNoSobra, ConCpu, Uno,
       TipoListas, TipoSemaforos, FormaDesalojo, FOpen, Devuelto,
       SigueEjecutando, CambiaEstado, Fin
<1>17. ASSUME NEW f \in Archivos, FClose(f) PROVE CpuNoSobra'
  BY <1>17, ListaAgrega, ListaVacia, ListaQuita
  DEF CpuNoSobra, ConCpu, Uno,
       TipoListas, TipoSemaforos, FormaDesalojo, FClose, Devuelto, Fin
<1>18. ASSUME NEW f \in Archivos, FSeek(f) PROVE CpuNoSobra'
  BY <1>18, ListaAgrega, ListaVacia, ListaQuita
  DEF CpuNoSobra, ConCpu, Uno,
       TipoListas, TipoSemaforos, FormaDesalojo, FSeek, Devuelto,
       SigueEjecutando, CambiaEstado, Fin
<1>19. ASSUME NEW f \in Archivos, FReadWrite(f) PROVE CpuNoSobra'
  BY <1>19, ListaAgrega, ListaVacia, ListaQuita
  DEF CpuNoSobra, ConCpu, Uno,
       TipoListas, TipoSemaforos, FormaDesalojo, FReadWrite, Devuelto, Bloquea,
       CambiaEstado, Fin
<1>20. CASE RecursoInexistente
  <2>1. pcDesalojo = "cpu"
    BY <1>20 DEF RecursoInexistente, Devuelto
  <2>2. /\ semCpu' = semCpu + 1 /\ pcDesalojo' = "executing"
        /\ UNCHANGED <<ejecutando, pcCorto, executing>>
    BY <1>20 DEF RecursoInexistente, TerminaProceso, Fin
  <2>3. QED
    BY <2>1, <2>2, ListaVacia DEF CpuNoSobra, ConCpu, Uno,
                                  TipoListas, TipoSemaforos
<1>21. ASSUME NEW r \in Recursos, WaitConcedido(r) PROVE CpuNoSobra'
  BY <1>21, ListaAgrega, ListaVacia, ListaQuita
  DEF CpuNoSobra, ConCpu, Uno,
       TipoListas, TipoSemaforos, FormaDesalojo, WaitConcedido, Devuelto,
       SigueEjecutando, CambiaEstado, Fin
<1>22. ASSUME NEW r \in Recursos, WaitBloquea(r) PROVE CpuNoSobra'
  BY <1>22, ListaAgrega, ListaVacia, ListaQuita
  DEF CpuNoSobra, ConCpu, Uno,
       TipoListas, TipoSemaforos, FormaDesalojo, WaitBloquea, Devuelto, Fin
<1>23. ASSUME NEW r \in Recursos, Signal(r) PROVE CpuNoSobra'
  BY <1>23, ListaAgrega, ListaVacia, ListaQuita
  DEF CpuNoSobra, ConCpu, Uno,
       TipoListas, TipoSemaforos, FormaDesalojo, Signal, Devuelto, Fin,
       CambiaEstado, Despierta
<1>24. CASE PideSegmento
  BY <1>24, ListaAgrega, ListaVacia, ListaQuita
  DEF CpuNoSobra, ConCpu, Uno,
       TipoListas, TipoSemaforos, FormaDesalojo, PideSegmento, Devuelto, Fin
<1>25. CASE TomaMemoria
  BY <1>25, ListaAgrega, ListaVacia, ListaQuita
  DEF CpuNoSobra, ConCpu, Uno,
       TipoListas, TipoSemaforos, FormaDesalojo, TomaMemoria
<1>26. CASE CreateSegmentOk
  BY <1>26, ListaAgrega, ListaVacia, ListaQuita
  DEF CpuNoSobra, ConCpu, Uno,
       TipoListas, TipoSemaforos, FormaDesalojo, CreateSegmentOk, Responde,
       SigueEjecutando, CambiaEstado, Fin
<1>27. CASE CreateSegmentCompacta
  <2>1. /\ pcDesalojo = "create_segment"
        /\ UNCHANGED <<semCpu, pcCorto, ejecutando>>
    BY <1>27 DEF CreateSegmentCompacta, Responde
  <2>2. Uno(pcDesalojo' \in ConCpu) <= Uno(pcDesalojo \in ConCpu)
    BY <2>1 DEF Uno, ConCpu
  <2>3. Uno(pcDesalojo' \in ConCpu) \in Nat /\ Uno(pcDesalojo \in ConCpu) \in Nat
        /\ Uno(pcCorto \in {"terminado", "elegir", "agregar"}) \in Nat
        /\ Len(ejecutando) \in Nat /\ semCpu \in Nat
    BY ListaVacia DEF Uno, TipoListas, TipoSemaforos
  <2>4. QED
    BY <2>1, <2>2, <2>3 DEF CpuNoSobra
<1>28. CASE CreateSegmentSinMemoria
  BY <1>28, ListaAgrega, ListaVacia, ListaQuita
  DEF CpuNoSobra, ConCpu, Uno,
       TipoListas, TipoSemaforos, FormaDesalojo, CreateSegmentSinMemoria,
       Responde, TerminaProceso, CambiaEstado, Fin
<1>29. CASE DeleteSegmentOk
  BY <1>29, ListaAgrega, ListaVacia, ListaQuita
  DEF CpuNoSobra, ConCpu, Uno,
       TipoListas, TipoSemaforos, FormaDesalojo, DeleteSegmentOk,
       SigueEjecutando, CambiaEstado, Fin
<1>30. CASE UNCHANGED <<semCpu, pcCorto, ejecutando, pcDesalojo, executing>>
  BY <1>30 DEF CpuNoSobra
<1>31. QED
  BY <1>1, <1>2, <1>3, <1>4, <1>5, <1>6, <1>7, <1>8, <1>9, <1>10, <1>11, <1>12,
       <1>13, <1>14, <1>15, <1>16, <1>17, <1>18, <1>19, <1>20, <1>21, <1>22,
       <1>23, <1>24, <1>25, <1>26, <1>27, <1>28, <1>29, <1>30, <1>32
  DEF Next, Consola, LargoPlazo, CortoPlazo, Desalojo, ManejoInstrucciones, vars,
      CreaPCB, AgregaNew, LargoInicializar, PasoLargo, LargoTomaNew,
           LargoPideTabla, LargoRecibeTabla, LargoAdmite, ArchivoNoAbierto,
           Devuelto

(* Both at once, from the initial state on.                                *)
LEMMA CpuSiempre ==
  ASSUME CpuBienRepuesta
  PROVE  Spec => []InvCpu
<1>1. Init => InvCpu
  BY DEF Init, InvCpu, UnicaCpu, AvisoNoSePierde, Uno, ConCpu
<1>2. IInv /\ InvCpu /\ [Next]_vars => InvCpu'
  BY CpuBienRepuesta, PasoCpu
<1>3. QED
  BY InicioIInv, PasoIInv, <1>1, <1>2, PTL DEF Spec

(* At most one process is scheduled on the only CPU: the credit of         *)
(* sem_cpu_disponible is never in two places, whichever handler posts it.  *)
THEOREM CpuUnica ==
  ASSUME CpuBienRepuesta
  PROVE  Spec => []UnicaCpu
<1>1. InvCpu => UnicaCpu
  BY DEF InvCpu
<1>2. Spec => []InvCpu
  BY CpuSiempre, CpuBienRepuesta
<1>3. QED
  BY <1>1, <1>2, PTL

(* The turn of a process is never lost although its announcement is a      *)
(* mutex, where the second of two unlocks is lost: there are never two to  *)
(* make, because the CPU is one.                                           *)
THEOREM AvisoConservado ==
  ASSUME CpuBienRepuesta
  PROVE  Spec => []AvisoNoSePierde
<1>1. InvCpu => AvisoNoSePierde
  BY DEF InvCpu
<1>2. Spec => []InvCpu
  BY CpuSiempre, CpuBienRepuesta
<1>3. QED
  BY <1>1, <1>2, PTL

-----------------------------------------------------------------------------
(* Each pending announcement is a process of EXEC, except the one that the *)
(* handler of CREATE_SEGMENT made before the retry.                        *)
AvisosRespaldados ==
  /\ Uno(executing) + Uno(pcCorto = "avisar") <= Len(ejecutando) + Uno(reintento)
  /\ reintento => executing /\ pcDesalojo \in {"mutex_create", "create_segment"}

(* The step is not one after which memory refuses the retry.               *)
ReintentoConcedido == reintento => ~CreateSegmentCompacta /\ ~CreateSegmentSinMemoria

(* Every other step keeps them.                                            *)
LEMMA PasoAvisos ==
  ASSUME IInv, AvisosRespaldados, [Next]_vars, ReintentoConcedido
  PROVE  AvisosRespaldados'
<1> USE DEF IInv, TypeOK, Forma, listas, semaforos, recursos, archivos, largo,
     corto, desalojo, programas
<1>1. CASE CortoEsperaCpu
  BY <1>1, ListaAgrega, ListaVacia, ListaQuita
  DEF AvisosRespaldados, Uno, TipoListas, TipoHilos, FormaDesalojo,
       CortoEsperaCpu, PasoCorto
<1>2. CASE CortoEsperaListo
  BY <1>2, ListaAgrega, ListaVacia, ListaQuita
  DEF AvisosRespaldados, Uno, TipoListas, TipoHilos, FormaDesalojo,
       CortoEsperaListo, PasoCorto
<1>3. CASE CortoElige
  BY <1>3, ListaAgrega, ListaVacia, ListaQuita
  DEF AvisosRespaldados, Uno, TipoListas, TipoHilos, FormaDesalojo, CortoElige,
       PasoCorto, Elegibles
<1>32. CASE CortoAgrega
  <2>1. pcbCorto \in Procesos
    BY <1>32 DEF FormaCorto, CortoAgrega, PasoCorto
  <2>2. Len(ejecutando') = Len(ejecutando) + 1
    BY <1>32, <2>1, ListaAgrega DEF TipoListas, CortoAgrega
  <2>3. QED
    BY <1>32, <2>2, ListaVacia DEF AvisosRespaldados, Uno, TipoListas, TipoHilos,
       CortoAgrega, PasoCorto
<1>4. CASE CortoAvisa
  BY <1>4, ListaAgrega, ListaVacia, ListaQuita
  DEF AvisosRespaldados, Uno, TipoListas, TipoHilos, FormaDesalojo, CortoAvisa,
       PasoCorto
<1>5. CASE DesalojoToma
  BY <1>5, ListaAgrega, ListaVacia, ListaQuita
  DEF AvisosRespaldados, Uno, TipoListas, TipoHilos, FormaDesalojo, DesalojoToma
<1>6. CASE DesalojoSinProceso
  BY <1>6, ListaAgrega, ListaVacia, ListaQuita
  DEF AvisosRespaldados, Uno, TipoListas, TipoHilos, FormaDesalojo,
       DesalojoSinProceso
<1>7. CASE Exit
  BY <1>7, ListaAgrega, ListaVacia, ListaQuita
  DEF AvisosRespaldados, Uno, TipoListas, TipoHilos, FormaDesalojo, Exit,
       TerminaProceso, CambiaEstado, Fin
<1>8. CASE SegmentationFault
  BY <1>8, ListaAgrega, ListaVacia, ListaQuita
  DEF AvisosRespaldados, Uno, TipoListas, TipoHilos, FormaDesalojo,
       SegmentationFault, Devuelto, TerminaProceso, CambiaEstado, Fin
<1>9. CASE Yield
  BY <1>9, ListaAgrega, ListaVacia, ListaQuita
  DEF AvisosRespaldados, Uno, TipoListas, TipoHilos, FormaDesalojo, Yield,
       Devuelto, CambiaEstado, Fin
<1>10. CASE IO
  BY <1>10, ListaAgrega, ListaVacia, ListaQuita
  DEF AvisosRespaldados, Uno, TipoListas, TipoHilos, FormaDesalojo, IO, Devuelto,
       Bloquea, CambiaEstado, Fin
<1>11. CASE FinIO
  BY <1>11, ListaAgrega, ListaVacia, ListaQuita
  DEF AvisosRespaldados, Uno, TipoListas, TipoHilos, FormaDesalojo, FinIO,
       Desbloquea, CambiaEstado, Fin
<1>12. CASE FTruncate
  BY <1>12, ListaAgrega, ListaVacia, ListaQuita
  DEF AvisosRespaldados, Uno, TipoListas, TipoHilos, FormaDesalojo, FTruncate,
       Devuelto, Bloquea, CambiaEstado, Fin
<1>13. CASE FinFTruncate
  BY <1>13, ListaAgrega, ListaVacia, ListaQuita
  DEF AvisosRespaldados, Uno, TipoListas, TipoHilos, FormaDesalojo, FinFTruncate,
       Desbloquea, CambiaEstado, Fin
<1>14. CASE FinFReadWrite
  BY <1>14, ListaAgrega, ListaVacia, ListaQuita
  DEF AvisosRespaldados, Uno, TipoListas, TipoHilos, FormaDesalojo,
       FinFReadWrite, Desbloquea, CambiaEstado, Fin
<1>15. ASSUME NEW f \in Archivos, FOpenOcupado(f) PROVE AvisosRespaldados'
  BY <1>15, ListaAgrega, ListaVacia, ListaQuita
  DEF AvisosRespaldados, Uno, TipoListas, TipoHilos, FormaDesalojo, FOpenOcupado,
       Devuelto, Bloquea, CambiaEstado, Fin
<1>16. ASSUME NEW f \in Archivos, FOpen(f) PROVE AvisosRespaldados'
  BY <1>16, ListaAgrega, ListaVacia, ListaQuita
  DEF AvisosRespaldados, Uno, TipoListas, TipoHilos, FormaDesalojo, FOpen,
       Devuelto, SigueEjecutando, CambiaEstado, Fin
<1>17. ASSUME NEW f \in Archivos, FClose(f) PROVE AvisosRespaldados'
  BY <1>17, ListaAgrega, ListaVacia, ListaQuita
  DEF AvisosRespaldados, Uno, TipoListas, TipoHilos, FormaDesalojo, FClose,
       Devuelto, Fin
<1>18. ASSUME NEW f \in Archivos, FSeek(f) PROVE AvisosRespaldados'
  BY <1>18, ListaAgrega, ListaVacia, ListaQuita
  DEF AvisosRespaldados, Uno, TipoListas, TipoHilos, FormaDesalojo, FSeek,
       Devuelto, SigueEjecutando, CambiaEstado, Fin
<1>19. ASSUME NEW f \in Archivos, FReadWrite(f) PROVE AvisosRespaldados'
  BY <1>19, ListaAgrega, ListaVacia, ListaQuita
  DEF AvisosRespaldados, Uno, TipoListas, TipoHilos, FormaDesalojo, FReadWrite,
       Devuelto, Bloquea, CambiaEstado, Fin
<1>20. CASE RecursoInexistente
  BY <1>20, ListaAgrega, ListaVacia, ListaQuita
  DEF AvisosRespaldados, Uno, TipoListas, TipoHilos, FormaDesalojo,
       RecursoInexistente, Devuelto, TerminaProceso, CambiaEstado, Fin
<1>21. ASSUME NEW r \in Recursos, WaitConcedido(r) PROVE AvisosRespaldados'
  BY <1>21, ListaAgrega, ListaVacia, ListaQuita
  DEF AvisosRespaldados, Uno, TipoListas, TipoHilos, FormaDesalojo,
       WaitConcedido, Devuelto, SigueEjecutando, CambiaEstado, Fin
<1>22. ASSUME NEW r \in Recursos, WaitBloquea(r) PROVE AvisosRespaldados'
  BY <1>22, ListaAgrega, ListaVacia, ListaQuita
  DEF AvisosRespaldados, Uno, TipoListas, TipoHilos, FormaDesalojo, WaitBloquea,
       Devuelto, Fin
<1>23. ASSUME NEW r \in Recursos, Signal(r) PROVE AvisosRespaldados'
  BY <1>23, ListaAgrega, ListaVacia, ListaQuita
  DEF AvisosRespaldados, Uno, TipoListas, TipoHilos, FormaDesalojo, Signal,
       Devuelto, Fin, CambiaEstado, Despierta
<1>24. CASE PideSegmento
  BY <1>24, ListaAgrega, ListaVacia, ListaQuita
  DEF AvisosRespaldados, Uno, TipoListas, TipoHilos, FormaDesalojo, PideSegmento,
       Devuelto, Fin
<1>25. CASE TomaMemoria
  BY <1>25, ListaAgrega, ListaVacia, ListaQuita
  DEF AvisosRespaldados, Uno, TipoListas, TipoHilos, FormaDesalojo, TomaMemoria
<1>26. CASE CreateSegmentOk
  BY <1>26, ListaAgrega, ListaVacia, ListaQuita
  DEF AvisosRespaldados, Uno, TipoListas, TipoHilos, FormaDesalojo,
       CreateSegmentOk, Responde, SigueEjecutando, CambiaEstado, Fin
<1>27. CASE CreateSegmentCompacta
  <2>1. ~reintento /\ reintento' /\ executing' /\ pcDesalojo' = "mutex_create"
    BY <1>27 DEF TipoHilos, CreateSegmentCompacta, ReintentoConcedido
  <2>2. UNCHANGED <<ejecutando, pcCorto>>
    BY <1>27 DEF CreateSegmentCompacta
  <2>3. QED
    BY <2>1, <2>2, ListaVacia DEF AvisosRespaldados, Uno, TipoListas
<1>28. CASE CreateSegmentSinMemoria
  BY <1>28, ListaAgrega, ListaVacia, ListaQuita
  DEF AvisosRespaldados, Uno, TipoListas, TipoHilos, FormaDesalojo,
       CreateSegmentSinMemoria, Responde, ReintentoConcedido, TerminaProceso, CambiaEstado, Fin
<1>29. CASE DeleteSegmentOk
  BY <1>29, ListaAgrega, ListaVacia, ListaQuita
  DEF AvisosRespaldados, Uno, TipoListas, TipoHilos, FormaDesalojo,
       DeleteSegmentOk, SigueEjecutando, CambiaEstado, Fin
<1>30. CASE UNCHANGED <<pcCorto, ejecutando, pcDesalojo, executing, reintento>>
  BY <1>30 DEF AvisosRespaldados
<1>31. QED
  BY <1>1, <1>2, <1>3, <1>4, <1>5, <1>6, <1>7, <1>8, <1>9, <1>10, <1>11, <1>12,
       <1>13, <1>14, <1>15, <1>16, <1>17, <1>18, <1>19, <1>20, <1>21, <1>22,
       <1>23, <1>24, <1>25, <1>26, <1>27, <1>28, <1>29, <1>30, <1>32
  DEF Next, Consola, LargoPlazo, CortoPlazo, Desalojo, ManejoInstrucciones, vars,
      CreaPCB, AgregaNew, LargoInicializar, PasoLargo, LargoTomaNew,
           LargoPideTabla, LargoRecibeTabla, LargoAdmite, ArchivoNoAbierto,
           Devuelto

(* With them the eviction thread never waits in vain.                      *)
LEMMA AvisosBastan == IInv /\ AvisosRespaldados => ExecNuncaVacia
  BY DEF IInv, TypeOK, TipoHilos, AvisosRespaldados, ExecNuncaVacia, Uno

(* The eviction thread, once announced, finds a process in EXEC, provided  *)
(* that memory grants every CREATE_SEGMENT it is asked again after a       *)
(* compaction.                                                             *)
THEOREM ExecConProceso ==
  ASSUME RespuestasReintento \subseteq {"AUX_OK"}
  PROVE  Spec => []ExecNuncaVacia
<1>1. Init => AvisosRespaldados
  BY DEF Init, AvisosRespaldados, Uno
<1>2. ReintentoConcedido
  BY DEF ReintentoConcedido, CreateSegmentCompacta, CreateSegmentSinMemoria, Responde
<1>3. IInv /\ AvisosRespaldados /\ [Next]_vars => AvisosRespaldados'
  BY <1>2, PasoAvisos
<1>4. QED
  BY InicioIInv, PasoIInv, AvisosBastan, <1>1, <1>3, PTL DEF Spec

-----------------------------------------------------------------------------
(***************************************************************************)
(* No process of the kernel is duplicated, and none is lost: UnLugar and   *)
(* EstadoFiel of Planificador, for every value of the constants. The       *)
(* actions are grouped first by what they move (Movimiento), so that each  *)
(* invariant is looked at once per kind of movement and not per handler.   *)
(***************************************************************************)

(* The process that the handler of the eviction thread has in no list.     *)
PcConPcb == ConCpu \ {"io", "read_write"}
Mano == IF pcDesalojo \in PcConPcb THEN {pcbDesalojo} ELSE {}

EnCola(p, r) == p \in Range(colaRecurso[r])

SinRepetir ==
  /\ IsInjective(nuevos) /\ IsInjective(listos) /\ IsInjective(ejecutando)
  /\ \A r \in Recursos : IsInjective(colaRecurso[r])

(* pcb->estado says in which list a process is. EXEC is also the state of  *)
(* the process in the hands of the handler, of the one in those of the     *)
(* dispatcher and of those that wait for a resource.                       *)
EstadoDeLista ==
  \A p \in Procesos :
    /\ p \in Range(nuevos) <=> estado[p] = "NEW" /\ pcConsola[p] = "fin"
    /\ p \in Range(listos) <=> estado[p] = "READY"
    /\ p \in Range(bloqueados) <=> estado[p] = "BLOCKED"
    /\ p \in Range(ejecutando) \/ p \in Mano \/ p = pcbCorto => estado[p] = "EXEC"
    /\ \A r \in Recursos : EnCola(p, r) => estado[p] = "EXEC"

(* The places of the processes in EXEC exclude each other.                 *)
UnaSolaDeExec ==
  \A p \in Procesos :
    /\ ~(p \in Range(ejecutando) /\ p \in Mano)
    /\ p = pcbCorto => p \notin Range(ejecutando) /\ p \notin Mano
    /\ \A r \in Recursos : EnCola(p, r) =>
         /\ p \notin Range(ejecutando) /\ p \notin Mano /\ p # pcbCorto
         /\ \A q \in Recursos : EnCola(p, q) => q = r

ConsolaFiel ==
  \A p \in Procesos :
    /\ pcConsola[p] = "desconectada" <=> estado[p] = "INEXISTENTE"
    /\ pcConsola[p] = "agrega_new" => estado[p] = "NEW"

InvLugares == SinRepetir /\ EstadoDeLista /\ UnaSolaDeExec /\ ConsolaFiel

(* The converse for EXEC: the process is somewhere.                        *)
Perdido(p) ==
  /\ estado[p] = "EXEC" /\ p \notin Range(ejecutando) /\ p \notin Mano
  /\ p # pcbCorto
  /\ \A r \in Recursos : ~EnCola(p, r)

NadiePerdido == \A p \in Procesos : ~Perdido(p)

MismosPerdidos == \A p \in Procesos : Perdido(p)' <=> Perdido(p)

(* The long-term scheduler holds the head of NEW, of which it keeps the    *)
(* semaphore.                                                              *)
CabezaDeNew ==
  pcLargo \in {"mutex_memoria", "create_pcb", "grado"} => pcbLargo = Head(nuevos)

-----------------------------------------------------------------------------
(* What a step moves, p being the process that moves.                      *)
RestoQuieto == UNCHANGED <<pcConsola, pcbCorto>>
SinListas == UNCHANGED <<nuevos, listos, ejecutando, bloqueados, colaRecurso>>

Quieto == SinListas /\ RestoQuieto /\ UNCHANGED <<estado, semGrado>> /\ Mano' = Mano

Nace(p) ==
  /\ pcConsola[p] = "desconectada"
  /\ pcConsola' = [pcConsola EXCEPT ![p] = "agrega_new"]
  /\ estado' = [estado EXCEPT ![p] = "NEW"]
  /\ SinListas /\ Mano' = Mano /\ UNCHANGED <<semGrado, pcbCorto>>

LlegaANew(p) ==
  /\ pcConsola[p] = "agrega_new"
  /\ pcConsola' = [pcConsola EXCEPT ![p] = "fin"]
  /\ nuevos' = Append(nuevos, p)
  /\ UNCHANGED <<listos, ejecutando, bloqueados, colaRecurso, estado, semGrado, pcbCorto>>
  /\ Mano' = Mano

NewAReady ==
  /\ pcLargo = "grado" /\ nuevos # <<>> /\ semGrado > 0
  /\ semGrado' = semGrado - 1
  /\ nuevos' = Tail(nuevos)
  /\ listos' = Append(listos, Head(nuevos))
  /\ estado' = [estado EXCEPT ![Head(nuevos)] = "READY"]
  /\ UNCHANGED <<ejecutando, bloqueados, colaRecurso>> /\ RestoQuieto
  /\ Mano' = Mano

ReadyACorto(i) ==
  /\ pcbCorto = Ninguno /\ pcbCorto' = listos[i]
  /\ listos' = RemoveAt(listos, i)
  /\ estado' = [estado EXCEPT ![listos[i]] = "EXEC"]
  /\ UNCHANGED <<nuevos, ejecutando, bloqueados, colaRecurso, semGrado, pcConsola>>
  /\ Mano' = Mano

CortoAExec ==
  /\ pcbCorto \in Procesos /\ pcbCorto' = Ninguno
  /\ ejecutando' = Append(ejecutando, pcbCorto)
  /\ UNCHANGED <<nuevos, listos, bloqueados, colaRecurso, estado, semGrado, pcConsola>>
  /\ Mano' = Mano

ExecAMano ==
  /\ ejecutando # <<>>
  /\ ejecutando' = Tail(ejecutando)
  /\ Mano = {} /\ Mano' = {Head(ejecutando)}
  /\ UNCHANGED <<nuevos, listos, bloqueados, colaRecurso, estado, semGrado>>
  /\ RestoQuieto

(* The handler lets its process go.                                        *)
Suelta(p) == p \in Procesos /\ Mano = {p} /\ Mano' = {} /\ RestoQuieto

Libera(p) ==
  /\ Suelta(p)
  /\ estado' = [estado EXCEPT ![p] = "LIBERADO"]
  /\ SinListas /\ semGrado' = semGrado + 1

VuelveAExec(p) ==
  /\ Suelta(p)
  /\ ejecutando' = Append(ejecutando, p)
  /\ estado' = [estado EXCEPT ![p] = "EXEC"]
  /\ UNCHANGED <<nuevos, listos, bloqueados, colaRecurso, semGrado>>

VuelveAReady(p) ==
  /\ Suelta(p)
  /\ listos' = Append(listos, p)
  /\ estado' = [estado EXCEPT ![p] = "READY"]
  /\ UNCHANGED <<nuevos, ejecutando, bloqueados, colaRecurso, semGrado>>

SeBloquea(p) ==
  /\ Suelta(p)
  /\ bloqueados = <<>> /\ bloqueados' = <<p>>
  /\ estado' = [estado EXCEPT ![p] = "BLOCKED"]
  /\ UNCHANGED <<nuevos, listos, ejecutando, colaRecurso, semGrado>>

SeDesbloquea(p) ==
  /\ p \in Procesos /\ Mano = {} /\ Mano' = {} /\ RestoQuieto
  /\ bloqueados = <<p>> /\ bloqueados' = <<>>
  /\ listos' = Append(listos, p)
  /\ estado' = [estado EXCEPT ![p] = "READY"]
  /\ UNCHANGED <<nuevos, ejecutando, colaRecurso, semGrado>>

EsperaRecurso(p, r) ==
  /\ Suelta(p)
  /\ colaRecurso' = [colaRecurso EXCEPT ![r] = Append(@, p)]
  /\ UNCHANGED <<nuevos, listos, ejecutando, bloqueados, estado, semGrado>>

(* p goes on and the first of the queue of r is ready.                     *)
CedeRecurso(p, r) ==
  /\ Suelta(p)
  /\ colaRecurso[r] # <<>>
  /\ colaRecurso' = [colaRecurso EXCEPT ![r] = Tail(@)]
  /\ ejecutando' = Append(ejecutando, p)
  /\ listos' = Append(listos, Head(colaRecurso[r]))
  /\ estado' = [estado EXCEPT ![p] = "EXEC", ![Head(colaRecurso[r])] = "READY"]
  /\ UNCHANGED <<nuevos, bloqueados, semGrado>>

(* The second COMPACTACION in a row.                                       *)
SePierde(p) == Suelta(p) /\ SinListas /\ UNCHANGED <<estado, semGrado>>

MovimientoDe(p) ==
  \/ Nace(p) \/ LlegaANew(p) \/ Libera(p) \/ VuelveAExec(p) \/ VuelveAReady(p)
  \/ SeBloquea(p) \/ SeDesbloquea(p)
  \/ \E r \in Recursos : EsperaRecurso(p, r) \/ CedeRecurso(p, r)

Movimiento ==
  \/ Quieto \/ NewAReady \/ CortoAExec \/ ExecAMano
  \/ \E i \in 1..Len(listos) : ReadyACorto(i)
  \/ \E p \in Procesos : MovimientoDe(p)

Perdida == \E p \in Procesos : SePierde(p)

-----------------------------------------------------------------------------
(* The list and the process of the long-term scheduler.                    *)
LEMMA PasoCabeza == IInv /\ CabezaDeNew /\ [Next]_vars => CabezaDeNew'
<1> SUFFICES ASSUME IInv, CabezaDeNew, [Next]_vars PROVE CabezaDeNew'
  OBVIOUS
<1> USE DEF listas, semaforos, recursos, archivos, largo, corto, desalojo, programas
<1>1. ASSUME NEW p \in Procesos, AgregaNew(p) PROVE CabezaDeNew'
  <2>1. nuevos \in Seq(Procesos) /\ nuevos' = Append(nuevos, p)
        /\ UNCHANGED <<pcLargo, pcbLargo>>
    BY <1>1 DEF IInv, TypeOK, TipoListas, AgregaNew
  <2>2. nuevos # <<>> => Head(Append(nuevos, p)) = Head(nuevos)
    BY <2>1, AppendProperties, HeadTailProperties, EmptySeq, LenProperties
  <2>3. QED
    BY <2>1, <2>2 DEF CabezaDeNew, IInv, Forma, FormaLargo
<1>2. CASE LargoTomaNew
  BY <1>2 DEF LargoTomaNew, PasoLargo, CabezaDeNew
<1>3. CASE LargoAdmite
  BY <1>3 DEF LargoAdmite, PasoLargo, CabezaDeNew
<1>4. CASE LargoInicializar
  BY <1>4 DEF LargoInicializar, PasoLargo, CabezaDeNew
<1>5. CASE LargoPideTabla \/ LargoRecibeTabla
  BY <1>5 DEF LargoPideTabla, LargoRecibeTabla, PasoLargo, CabezaDeNew
<1>6. CASE UNCHANGED <<pcLargo, pcbLargo, nuevos>>
  BY <1>6 DEF CabezaDeNew
<1>7. QED
  BY <1>1, <1>2, <1>3, <1>4, <1>5, <1>6
  DEF Next, Consola, LargoPlazo, CortoPlazo, Desalojo, ManejoInstrucciones, vars,
      CreaPCB, CortoEsperaCpu, CortoEsperaListo, CortoElige, CortoAgrega, CortoAvisa,
      DesalojoToma, DesalojoSinProceso, Exit, SegmentationFault, Yield, IO, FinIO,
      FTruncate, FinFTruncate, FinFReadWrite, FOpenOcupado, FOpen, FClose, FSeek,
      FReadWrite, ArchivoNoAbierto, RecursoInexistente, WaitConcedido, WaitBloquea,
      Signal, PideSegmento, TomaMemoria, CreateSegmentOk, CreateSegmentCompacta,
      CreateSegmentSinMemoria, DeleteSegmentOk, TerminaProceso
-----------------------------------------------------------------------------
Objetivo == InvLugares' /\ MismosPerdidos

(* Each kind of movement leaves every process that exists in one place at  *)
(* most, the one its estado says, and loses none, nor finds one.           *)
LEMMA MovimientoGuarda ==
  ASSUME TipoListas, TipoRecursos, TipoProcesos, InvLugares, Movimiento
  PROVE  Objetivo
<1> USE DEF Objetivo, RestoQuieto, SinListas
<1>0. estado \in [Procesos -> Estados] /\ pcConsola \in [Procesos -> {"desconectada", "agrega_new", "fin"}]
  BY DEF TipoProcesos
<1>1. CASE Quieto
  BY <1>1 DEF Quieto, InvLugares, SinRepetir, EstadoDeLista, UnaSolaDeExec,
              ConsolaFiel, MismosPerdidos, Perdido, EnCola
<1>2. ASSUME NEW p \in Procesos, Nace(p) PROVE Objetivo
  <2>1. /\ pcConsola[p] = "desconectada" /\ estado[p] = "INEXISTENTE"
        /\ pcConsola' = [pcConsola EXCEPT ![p] = "agrega_new"]
        /\ estado' = [estado EXCEPT ![p] = "NEW"]
        /\ UNCHANGED <<nuevos, listos, ejecutando, bloqueados, colaRecurso, pcbCorto>> /\ Mano' = Mano
    BY <1>2 DEF Nace, InvLugares, ConsolaFiel
  <2>2. estado \in [Procesos -> Estados] /\ pcConsola \in [Procesos -> {"desconectada", "agrega_new", "fin"}]
    BY <1>2, <1>0
  <2>3. SinRepetir'
    BY <2>1, <2>2 DEF InvLugares, SinRepetir
  <2>4. EstadoDeLista'
    BY <2>1, <2>2 DEF InvLugares, EstadoDeLista, EnCola
  <2>5. UnaSolaDeExec'
    BY <2>1, <2>2 DEF InvLugares, UnaSolaDeExec, EstadoDeLista, EnCola
  <2>6. ConsolaFiel'
    BY <2>1, <2>2 DEF InvLugares, ConsolaFiel, EstadoDeLista
  <2>7. MismosPerdidos
    BY <2>1, <2>2 DEF InvLugares, MismosPerdidos, Perdido, EstadoDeLista, EnCola
  <2>8. QED
    BY <2>3, <2>4, <2>5, <2>6, <2>7 DEF InvLugares
<1>3. ASSUME NEW p \in Procesos, LlegaANew(p) PROVE Objetivo
  <2>1. /\ pcConsola[p] = "agrega_new" /\ estado[p] = "NEW"
        /\ pcConsola' = [pcConsola EXCEPT ![p] = "fin"]
        /\ UNCHANGED <<listos, ejecutando, bloqueados, colaRecurso, estado, pcbCorto>>
        /\ Mano' = Mano
    BY <1>3 DEF LlegaANew, InvLugares, ConsolaFiel
  <2>2. p \notin Range(nuevos)
    BY <1>3 DEF LlegaANew, InvLugares, EstadoDeLista
  <2>3. Range(nuevos') = Range(nuevos) \union {p} /\ (IsInjective(nuevos) => IsInjective(nuevos'))
    BY <1>3, <2>2, RangoAgrega DEF LlegaANew, TipoListas
  <2>4. estado \in [Procesos -> Estados] /\ pcConsola \in [Procesos -> {"desconectada", "agrega_new", "fin"}]
    BY <1>3, <1>0
  <2>5. SinRepetir'
    BY <2>1, <2>2, <2>3, <2>4 DEF InvLugares, SinRepetir
  <2>6. EstadoDeLista'
    BY <2>1, <2>2, <2>3, <2>4 DEF InvLugares, EstadoDeLista, EnCola
  <2>7. UnaSolaDeExec'
    BY <2>1, <2>2, <2>3, <2>4 DEF InvLugares, UnaSolaDeExec, EstadoDeLista, EnCola
  <2>8. ConsolaFiel'
    BY <2>1, <2>2, <2>3, <2>4 DEF InvLugares, ConsolaFiel, EstadoDeLista
  <2>9. MismosPerdidos
    BY <2>1, <2>2, <2>3, <2>4 DEF InvLugares, MismosPerdidos, Perdido, EstadoDeLista, EnCola
  <2>10. QED
    BY <2>5, <2>6, <2>7, <2>8, <2>9 DEF InvLugares
<1>4. CASE NewAReady
  <2>1. nuevos # <<>> /\ IsInjective(nuevos)
    BY <1>4 DEF NewAReady, InvLugares, SinRepetir
  <2>2. /\ Head(nuevos) \in Range(nuevos) /\ Head(nuevos) \in Procesos
        /\ Range(nuevos') = Range(nuevos) \ {Head(nuevos)} /\ IsInjective(nuevos')
    BY <1>4, <2>1, RangoCola, RangoDeLista DEF NewAReady, TipoListas
  <2>3. estado[Head(nuevos)] = "NEW" /\ pcConsola[Head(nuevos)] = "fin" /\ Head(nuevos) \notin Range(listos)
    BY <1>4, <2>2 DEF InvLugares, EstadoDeLista
  <2>4. Range(listos') = Range(listos) \union {Head(nuevos)} /\ (IsInjective(listos) => IsInjective(listos'))
    BY <1>4, <2>2, <2>3, RangoAgrega DEF NewAReady, TipoListas
  <2>5. /\ estado' = [estado EXCEPT ![Head(nuevos)] = "READY"] /\ pcConsola' = pcConsola /\ pcbCorto' = pcbCorto
        /\ UNCHANGED <<ejecutando, bloqueados, colaRecurso>> /\ Mano' = Mano
    BY <1>4 DEF NewAReady
  <2>6. estado \in [Procesos -> Estados] /\ pcConsola \in [Procesos -> {"desconectada", "agrega_new", "fin"}]
    BY <1>4, <1>0
  <2>7. SinRepetir'
    BY <2>1, <2>2, <2>3, <2>4, <2>5, <2>6 DEF InvLugares, SinRepetir
  <2>8. EstadoDeLista'
    BY <2>1, <2>2, <2>3, <2>4, <2>5, <2>6 DEF InvLugares, EstadoDeLista, EnCola
  <2>9. UnaSolaDeExec'
    BY <2>1, <2>2, <2>3, <2>4, <2>5, <2>6 DEF InvLugares, UnaSolaDeExec, EstadoDeLista, EnCola
  <2>10. ConsolaFiel'
    BY <2>1, <2>2, <2>3, <2>4, <2>5, <2>6 DEF InvLugares, ConsolaFiel, EstadoDeLista
  <2>11. MismosPerdidos
    BY <2>1, <2>2, <2>3, <2>4, <2>5, <2>6 DEF InvLugares, MismosPerdidos, Perdido, EstadoDeLista, EnCola
  <2>12. QED
    BY <2>7, <2>8, <2>9, <2>10, <2>11 DEF InvLugares
<1>5. CASE ExecAMano
  <2>1. ejecutando # <<>> /\ IsInjective(ejecutando)
    BY <1>5 DEF ExecAMano, InvLugares, SinRepetir
  <2>2. /\ Head(ejecutando) \in Range(ejecutando) /\ Head(ejecutando) \in Procesos
        /\ Range(ejecutando') = Range(ejecutando) \ {Head(ejecutando)} /\ IsInjective(ejecutando')
    BY <1>5, <2>1, RangoCola, RangoDeLista DEF ExecAMano, TipoListas
  <2>3. /\ UNCHANGED <<nuevos, listos, bloqueados, colaRecurso, estado, pcConsola, pcbCorto>>
        /\ Mano = {} /\ Mano' = {Head(ejecutando)}
    BY <1>5 DEF ExecAMano
  <2>4. estado \in [Procesos -> Estados] /\ pcConsola \in [Procesos -> {"desconectada", "agrega_new", "fin"}]
    BY <1>5, <1>0
  <2>5. SinRepetir'
    BY <2>1, <2>2, <2>3, <2>4 DEF InvLugares, SinRepetir
  <2>6. EstadoDeLista'
    BY <2>1, <2>2, <2>3, <2>4 DEF InvLugares, EstadoDeLista, EnCola
  <2>7. UnaSolaDeExec'
    BY <2>1, <2>2, <2>3, <2>4 DEF InvLugares, UnaSolaDeExec, EstadoDeLista, EnCola
  <2>8. ConsolaFiel'
    BY <2>1, <2>2, <2>3, <2>4 DEF InvLugares, ConsolaFiel, EstadoDeLista
  <2>9. MismosPerdidos
    BY <2>1, <2>2, <2>3, <2>4 DEF InvLugares, MismosPerdidos, Perdido, EstadoDeLista, EnCola
  <2>10. QED
    BY <2>5, <2>6, <2>7, <2>8, <2>9 DEF InvLugares
<1>6. ASSUME NEW i \in 1..Len(listos), ReadyACorto(i) PROVE Objetivo
  <2>1. /\ listos[i] \in Range(listos) /\ listos[i] \in Procesos
        /\ Range(listos') = Range(listos) \ {listos[i]} /\ IsInjective(listos')
    BY <1>6, RangoQuita, RangoDeLista DEF ReadyACorto, TipoListas, InvLugares, SinRepetir
  <2>2. /\ estado[listos[i]] = "READY" /\ listos[i] \notin Range(ejecutando)
        /\ listos[i] \notin Mano /\ \A r \in Recursos : ~EnCola(listos[i], r)
    BY <1>6, <2>1 DEF InvLugares, EstadoDeLista
  <2>3. /\ estado' = [estado EXCEPT ![listos[i]] = "EXEC"] /\ pcConsola' = pcConsola
        /\ UNCHANGED <<nuevos, ejecutando, bloqueados, colaRecurso>> /\ Mano' = Mano
        /\ pcbCorto = Ninguno /\ pcbCorto' = listos[i] /\ Ninguno \notin Procesos
    BY <1>6, ConstantesOK DEF ReadyACorto
  <2>4. estado \in [Procesos -> Estados] /\ pcConsola \in [Procesos -> {"desconectada", "agrega_new", "fin"}]
    BY <1>6, <1>0
  <2>5. SinRepetir'
    BY <2>1, <2>2, <2>3, <2>4 DEF InvLugares, SinRepetir
  <2>6. EstadoDeLista'
    BY <2>1, <2>2, <2>3, <2>4 DEF InvLugares, EstadoDeLista, EnCola
  <2>7. UnaSolaDeExec'
    BY <2>1, <2>2, <2>3, <2>4 DEF InvLugares, UnaSolaDeExec, EstadoDeLista, EnCola
  <2>8. ConsolaFiel'
    BY <2>1, <2>2, <2>3, <2>4 DEF InvLugares, ConsolaFiel, EstadoDeLista
  <2>9. MismosPerdidos
    BY <2>1, <2>2, <2>3, <2>4 DEF InvLugares, MismosPerdidos, Perdido, EstadoDeLista, EnCola
  <2>10. QED
    BY <2>5, <2>6, <2>7, <2>8, <2>9 DEF InvLugares
<1>14. CASE CortoAExec
  <2>1. /\ pcbCorto \in Procesos /\ estado[pcbCorto] = "EXEC"
        /\ pcbCorto \notin Range(ejecutando) /\ pcbCorto \notin Mano
        /\ \A r \in Recursos : ~EnCola(pcbCorto, r)
    BY <1>14 DEF CortoAExec, InvLugares, EstadoDeLista, UnaSolaDeExec
  <2>2. /\ Range(ejecutando') = Range(ejecutando) \union {pcbCorto}
        /\ (IsInjective(ejecutando) => IsInjective(ejecutando'))
    BY <1>14, <2>1, RangoAgrega DEF CortoAExec, TipoListas
  <2>3. /\ UNCHANGED <<nuevos, listos, bloqueados, colaRecurso, estado, pcConsola>>
        /\ Mano' = Mano /\ pcbCorto' = Ninguno /\ Ninguno \notin Procesos
    BY <1>14, ConstantesOK DEF CortoAExec
  <2>4. estado \in [Procesos -> Estados] /\ pcConsola \in [Procesos -> {"desconectada", "agrega_new", "fin"}]
    BY <1>14, <1>0
  <2>5. SinRepetir'
    BY <2>1, <2>2, <2>3, <2>4 DEF InvLugares, SinRepetir
  <2>6. EstadoDeLista'
    BY <2>1, <2>2, <2>3, <2>4 DEF InvLugares, EstadoDeLista, EnCola
  <2>7. UnaSolaDeExec'
    BY <2>1, <2>2, <2>3, <2>4 DEF InvLugares, UnaSolaDeExec, EstadoDeLista, EnCola
  <2>8. ConsolaFiel'
    BY <2>1, <2>2, <2>3, <2>4 DEF InvLugares, ConsolaFiel, EstadoDeLista
  <2>9. MismosPerdidos
    BY <2>1, <2>2, <2>3, <2>4 DEF InvLugares, MismosPerdidos, Perdido, EstadoDeLista, EnCola
  <2>10. QED
    BY <2>5, <2>6, <2>7, <2>8, <2>9 DEF InvLugares
<1>7. ASSUME NEW p \in Procesos, Libera(p) PROVE Objetivo
  <2>1. Mano = {p} /\ Mano' = {} /\ pcConsola' = pcConsola /\ pcbCorto' = pcbCorto
    BY <1>7 DEF Libera, Suelta
  <2>2. /\ estado[p] = "EXEC" /\ p \notin Range(ejecutando) /\ p # pcbCorto
        /\ p \notin Range(nuevos) /\ p \notin Range(listos) /\ p \notin Range(bloqueados)
        /\ \A r \in Recursos : p \notin Range(colaRecurso[r])
    BY <1>7, <2>1 DEF InvLugares, EstadoDeLista, UnaSolaDeExec, EnCola
  <2>3. /\ estado' = [estado EXCEPT ![p] = "LIBERADO"]
        /\ UNCHANGED <<nuevos, listos, ejecutando, bloqueados, colaRecurso>>
    BY <1>7 DEF Libera
  <2>4. estado \in [Procesos -> Estados] /\ pcConsola \in [Procesos -> {"desconectada", "agrega_new", "fin"}]
    BY <1>7, <1>0
  <2>5. SinRepetir'
    BY <2>1, <2>2, <2>3, <2>4 DEF InvLugares, SinRepetir
  <2>6. EstadoDeLista'
    BY <2>1, <2>2, <2>3, <2>4 DEF InvLugares, EstadoDeLista, EnCola
  <2>7. UnaSolaDeExec'
    BY <2>1, <2>2, <2>3, <2>4 DEF InvLugares, UnaSolaDeExec, EstadoDeLista, EnCola
  <2>8. ConsolaFiel'
    BY <2>1, <2>2, <2>3, <2>4 DEF InvLugares, ConsolaFiel, EstadoDeLista
  <2>9. MismosPerdidos
    BY <2>1, <2>2, <2>3, <2>4 DEF InvLugares, MismosPerdidos, Perdido, EstadoDeLista, EnCola
  <2>10. QED
    BY <2>5, <2>6, <2>7, <2>8, <2>9 DEF InvLugares
<1>8. ASSUME NEW p \in Procesos, VuelveAExec(p) PROVE Objetivo
  <2>1. Mano = {p} /\ Mano' = {} /\ pcConsola' = pcConsola /\ pcbCorto' = pcbCorto
    BY <1>8 DEF VuelveAExec, Suelta
  <2>2. /\ estado[p] = "EXEC" /\ p \notin Range(ejecutando) /\ p # pcbCorto
        /\ p \notin Range(nuevos) /\ p \notin Range(listos) /\ p \notin Range(bloqueados)
        /\ \A r \in Recursos : p \notin Range(colaRecurso[r])
    BY <1>8, <2>1 DEF InvLugares, EstadoDeLista, UnaSolaDeExec, EnCola
  <2>3. /\ estado' = [estado EXCEPT ![p] = "EXEC"]
        /\ UNCHANGED <<nuevos, listos, bloqueados, colaRecurso>>
    BY <1>8 DEF VuelveAExec
  <2>4. Range(ejecutando') = Range(ejecutando) \union {p} /\ (IsInjective(ejecutando) => IsInjective(ejecutando'))
    BY <1>8, <2>2, RangoAgrega DEF VuelveAExec, TipoListas
  <2>5. estado \in [Procesos -> Estados] /\ pcConsola \in [Procesos -> {"desconectada", "agrega_new", "fin"}]
    BY <1>8, <1>0
  <2>6. SinRepetir'
    BY <2>1, <2>2, <2>3, <2>4, <2>5 DEF InvLugares, SinRepetir
  <2>7. EstadoDeLista'
    BY <2>1, <2>2, <2>3, <2>4, <2>5 DEF InvLugares, EstadoDeLista, EnCola
  <2>8. UnaSolaDeExec'
    BY <2>1, <2>2, <2>3, <2>4, <2>5 DEF InvLugares, UnaSolaDeExec, EstadoDeLista, EnCola
  <2>9. ConsolaFiel'
    BY <2>1, <2>2, <2>3, <2>4, <2>5 DEF InvLugares, ConsolaFiel, EstadoDeLista
  <2>10. MismosPerdidos
    BY <2>1, <2>2, <2>3, <2>4, <2>5 DEF InvLugares, MismosPerdidos, Perdido, EstadoDeLista, EnCola
  <2>11. QED
    BY <2>6, <2>7, <2>8, <2>9, <2>10 DEF InvLugares
<1>9. ASSUME NEW p \in Procesos, VuelveAReady(p) PROVE Objetivo
  <2>1. Mano = {p} /\ Mano' = {} /\ pcConsola' = pcConsola /\ pcbCorto' = pcbCorto
    BY <1>9 DEF VuelveAReady, Suelta
  <2>2. /\ estado[p] = "EXEC" /\ p \notin Range(ejecutando) /\ p # pcbCorto
        /\ p \notin Range(nuevos) /\ p \notin Range(listos) /\ p \notin Range(bloqueados)
        /\ \A r \in Recursos : p \notin Range(colaRecurso[r])
    BY <1>9, <2>1 DEF InvLugares, EstadoDeLista, UnaSolaDeExec, EnCola
  <2>3. /\ estado' = [estado EXCEPT ![p] = "READY"]
        /\ UNCHANGED <<nuevos, ejecutando, bloqueados, colaRecurso>>
    BY <1>9 DEF VuelveAReady
  <2>4. Range(listos') = Range(listos) \union {p} /\ (IsInjective(listos) => IsInjective(listos'))
    BY <1>9, <2>2, RangoAgrega DEF VuelveAReady, TipoListas
  <2>5. estado \in [Procesos -> Estados] /\ pcConsola \in [Procesos -> {"desconectada", "agrega_new", "fin"}]
    BY <1>9, <1>0
  <2>6. SinRepetir'
    BY <2>1, <2>2, <2>3, <2>4, <2>5 DEF InvLugares, SinRepetir
  <2>7. EstadoDeLista'
    BY <2>1, <2>2, <2>3, <2>4, <2>5 DEF InvLugares, EstadoDeLista, EnCola
  <2>8. UnaSolaDeExec'
    BY <2>1, <2>2, <2>3, <2>4, <2>5 DEF InvLugares, UnaSolaDeExec, EstadoDeLista, EnCola
  <2>9. ConsolaFiel'
    BY <2>1, <2>2, <2>3, <2>4, <2>5 DEF InvLugares, ConsolaFiel, EstadoDeLista
  <2>10. MismosPerdidos
    BY <2>1, <2>2, <2>3, <2>4, <2>5 DEF InvLugares, MismosPerdidos, Perdido, EstadoDeLista, EnCola
  <2>11. QED
    BY <2>6, <2>7, <2>8, <2>9, <2>10 DEF InvLugares
<1>10. ASSUME NEW p \in Procesos, SeBloquea(p) PROVE Objetivo
  <2>1. Mano = {p} /\ Mano' = {} /\ pcConsola' = pcConsola /\ pcbCorto' = pcbCorto
    BY <1>10 DEF SeBloquea, Suelta
  <2>2. /\ estado[p] = "EXEC" /\ p \notin Range(ejecutando) /\ p # pcbCorto
        /\ p \notin Range(nuevos) /\ p \notin Range(listos) /\ p \notin Range(bloqueados)
        /\ \A r \in Recursos : p \notin Range(colaRecurso[r])
    BY <1>10, <2>1 DEF InvLugares, EstadoDeLista, UnaSolaDeExec, EnCola
  <2>3. /\ estado' = [estado EXCEPT ![p] = "BLOCKED"]
        /\ UNCHANGED <<nuevos, listos, ejecutando, colaRecurso>>
    BY <1>10 DEF SeBloquea
  <2>4. Range(bloqueados) = {} /\ Range(bloqueados') = {p}
    BY <1>10, RangoVacio DEF SeBloquea, Range
  <2>5. estado \in [Procesos -> Estados] /\ pcConsola \in [Procesos -> {"desconectada", "agrega_new", "fin"}]
    BY <1>10, <1>0
  <2>6. SinRepetir'
    BY <2>1, <2>2, <2>3, <2>4, <2>5 DEF InvLugares, SinRepetir
  <2>7. EstadoDeLista'
    BY <2>1, <2>2, <2>3, <2>4, <2>5 DEF InvLugares, EstadoDeLista, EnCola
  <2>8. UnaSolaDeExec'
    BY <2>1, <2>2, <2>3, <2>4, <2>5 DEF InvLugares, UnaSolaDeExec, EstadoDeLista, EnCola
  <2>9. ConsolaFiel'
    BY <2>1, <2>2, <2>3, <2>4, <2>5 DEF InvLugares, ConsolaFiel, EstadoDeLista
  <2>10. MismosPerdidos
    BY <2>1, <2>2, <2>3, <2>4, <2>5 DEF InvLugares, MismosPerdidos, Perdido, EstadoDeLista, EnCola
  <2>11. QED
    BY <2>6, <2>7, <2>8, <2>9, <2>10 DEF InvLugares
<1>11. ASSUME NEW p \in Procesos, SeDesbloquea(p) PROVE Objetivo
  <2>1. Mano = {} /\ Mano' = {} /\ pcConsola' = pcConsola /\ pcbCorto' = pcbCorto
    BY <1>11 DEF SeDesbloquea
  <2>2. Range(bloqueados) = {p} /\ Range(bloqueados') = {}
    BY <1>11, RangoVacio DEF SeDesbloquea, Range
  <2>3. estado[p] = "BLOCKED" /\ p \notin Range(listos)
    BY <1>11, <2>2 DEF InvLugares, EstadoDeLista
  <2>4. /\ estado' = [estado EXCEPT ![p] = "READY"]
        /\ UNCHANGED <<nuevos, ejecutando, colaRecurso>>
    BY <1>11 DEF SeDesbloquea
  <2>5. Range(listos') = Range(listos) \union {p} /\ (IsInjective(listos) => IsInjective(listos'))
    BY <1>11, <2>3, RangoAgrega DEF SeDesbloquea, TipoListas
  <2>6. estado \in [Procesos -> Estados] /\ pcConsola \in [Procesos -> {"desconectada", "agrega_new", "fin"}]
    BY <1>11, <1>0
  <2>7. SinRepetir'
    BY <2>1, <2>2, <2>3, <2>4, <2>5, <2>6 DEF InvLugares, SinRepetir
  <2>8. EstadoDeLista'
    BY <2>1, <2>2, <2>3, <2>4, <2>5, <2>6 DEF InvLugares, EstadoDeLista, EnCola
  <2>9. UnaSolaDeExec'
    BY <2>1, <2>2, <2>3, <2>4, <2>5, <2>6 DEF InvLugares, UnaSolaDeExec, EstadoDeLista, EnCola
  <2>10. ConsolaFiel'
    BY <2>1, <2>2, <2>3, <2>4, <2>5, <2>6 DEF InvLugares, ConsolaFiel, EstadoDeLista
  <2>11. MismosPerdidos
    BY <2>1, <2>2, <2>3, <2>4, <2>5, <2>6 DEF InvLugares, MismosPerdidos, Perdido, EstadoDeLista, EnCola
  <2>12. QED
    BY <2>7, <2>8, <2>9, <2>10, <2>11 DEF InvLugares
<1>12. ASSUME NEW p \in Procesos, NEW r \in Recursos, EsperaRecurso(p, r) PROVE Objetivo
  <2>1. Mano = {p} /\ Mano' = {} /\ pcConsola' = pcConsola /\ pcbCorto' = pcbCorto
    BY <1>12 DEF EsperaRecurso, Suelta
  <2>2. /\ estado[p] = "EXEC" /\ p \notin Range(ejecutando) /\ p # pcbCorto
        /\ p \notin Range(nuevos) /\ p \notin Range(listos) /\ p \notin Range(bloqueados)
        /\ \A q \in Recursos : p \notin Range(colaRecurso[q])
    BY <1>12, <2>1 DEF InvLugares, EstadoDeLista, UnaSolaDeExec, EnCola
  <2>3. UNCHANGED <<nuevos, listos, ejecutando, bloqueados, estado>>
    BY <1>12 DEF EsperaRecurso
  <2>4. /\ Range(colaRecurso'[r]) = Range(colaRecurso[r]) \union {p}
        /\ IsInjective(colaRecurso[r]) => IsInjective(colaRecurso'[r])
    BY <1>12, <2>2, RangoAgrega DEF EsperaRecurso, TipoRecursos
  <2>5. \A q \in Recursos \ {r} : colaRecurso'[q] = colaRecurso[q]
    BY <1>12 DEF EsperaRecurso, TipoRecursos
  <2>6. estado \in [Procesos -> Estados] /\ pcConsola \in [Procesos -> {"desconectada", "agrega_new", "fin"}]
    BY <1>12, <1>0
  <2>7. SinRepetir'
    BY <2>1, <2>2, <2>3, <2>4, <2>5, <2>6 DEF InvLugares, SinRepetir
  <2>8. EstadoDeLista'
    BY <2>1, <2>2, <2>3, <2>4, <2>5, <2>6 DEF InvLugares, EstadoDeLista, EnCola
  <2>9. UnaSolaDeExec'
    BY <2>1, <2>2, <2>3, <2>4, <2>5, <2>6 DEF InvLugares, UnaSolaDeExec, EstadoDeLista, EnCola
  <2>10. ConsolaFiel'
    BY <2>1, <2>2, <2>3, <2>4, <2>5, <2>6 DEF InvLugares, ConsolaFiel, EstadoDeLista
  <2>11. MismosPerdidos
    BY <2>1, <2>2, <2>3, <2>4, <2>5, <2>6 DEF InvLugares, MismosPerdidos, Perdido, EstadoDeLista, EnCola
  <2>12. QED
    BY <2>7, <2>8, <2>9, <2>10, <2>11 DEF InvLugares
<1>13. ASSUME NEW p \in Procesos, NEW r \in Recursos, CedeRecurso(p, r) PROVE Objetivo
  <2>1. Mano = {p} /\ Mano' = {} /\ pcConsola' = pcConsola /\ pcbCorto' = pcbCorto
    BY <1>13 DEF CedeRecurso, Suelta
  <2>2. /\ estado[p] = "EXEC" /\ p \notin Range(ejecutando) /\ p # pcbCorto
        /\ p \notin Range(nuevos) /\ p \notin Range(listos) /\ p \notin Range(bloqueados)
        /\ \A q \in Recursos : p \notin Range(colaRecurso[q])
    BY <1>13, <2>1 DEF InvLugares, EstadoDeLista, UnaSolaDeExec, EnCola
  <2>3. colaRecurso[r] \in Seq(Procesos) /\ colaRecurso[r] # <<>> /\ IsInjective(colaRecurso[r])
    BY <1>13 DEF CedeRecurso, TipoRecursos, InvLugares, SinRepetir
  <2>4. /\ Head(colaRecurso[r]) \in Range(colaRecurso[r]) /\ Head(colaRecurso[r]) \in Procesos
        /\ Range(colaRecurso'[r]) = Range(colaRecurso[r]) \ {Head(colaRecurso[r])}
        /\ IsInjective(colaRecurso'[r])
    BY <1>13, <2>3, RangoCola, RangoDeLista DEF CedeRecurso, TipoRecursos
  <2>5. \A q \in Recursos \ {r} : colaRecurso'[q] = colaRecurso[q]
    BY <1>13 DEF CedeRecurso, TipoRecursos
  <2>6. Range(ejecutando') = Range(ejecutando) \union {p} /\ (IsInjective(ejecutando) => IsInjective(ejecutando'))
    BY <1>13, <2>2, RangoAgrega DEF CedeRecurso, TipoListas
  <2>7. /\ estado[Head(colaRecurso[r])] = "EXEC" /\ Head(colaRecurso[r]) # p
        /\ Head(colaRecurso[r]) # pcbCorto
        /\ Head(colaRecurso[r]) \notin Range(listos) /\ Head(colaRecurso[r]) \notin Range(ejecutando)
        /\ \A q \in Recursos : Head(colaRecurso[r]) \in Range(colaRecurso[q]) => q = r
    BY <1>13, <2>2, <2>4 DEF InvLugares, EstadoDeLista, UnaSolaDeExec, EnCola
  <2>8. Range(listos') = Range(listos) \union {Head(colaRecurso[r])} /\ (IsInjective(listos) => IsInjective(listos'))
    BY <1>13, <2>4, <2>7, RangoAgrega DEF CedeRecurso, TipoListas
  <2>9. /\ estado' = [estado EXCEPT ![p] = "EXEC", ![Head(colaRecurso[r])] = "READY"]
        /\ UNCHANGED <<nuevos, bloqueados>>
    BY <1>13 DEF CedeRecurso
  <2>10. estado \in [Procesos -> Estados] /\ pcConsola \in [Procesos -> {"desconectada", "agrega_new", "fin"}]
    BY <1>13, <1>0
  <2>11. SinRepetir'
    BY <2>1, <2>2, <2>3, <2>4, <2>5, <2>6, <2>7, <2>8, <2>9, <2>10 DEF InvLugares, SinRepetir
  <2>12. EstadoDeLista'
    BY <2>1, <2>2, <2>3, <2>4, <2>5, <2>6, <2>7, <2>8, <2>9, <2>10 DEF InvLugares, EstadoDeLista, EnCola
  <2>13. UnaSolaDeExec'
    BY <2>1, <2>2, <2>3, <2>4, <2>5, <2>6, <2>7, <2>8, <2>9, <2>10 DEF InvLugares, UnaSolaDeExec, EstadoDeLista, EnCola
  <2>14. ConsolaFiel'
    BY <2>1, <2>2, <2>3, <2>4, <2>5, <2>6, <2>7, <2>8, <2>9, <2>10 DEF InvLugares, ConsolaFiel, EstadoDeLista
  <2>15. MismosPerdidos
    BY <2>1, <2>2, <2>3, <2>4, <2>5, <2>6, <2>7, <2>8, <2>9, <2>10 DEF InvLugares, MismosPerdidos, Perdido, EstadoDeLista, EnCola
  <2>16. QED
    BY <2>11, <2>12, <2>13, <2>14, <2>15 DEF InvLugares
<1>15. QED
  BY <1>1, <1>2, <1>3, <1>4, <1>5, <1>6, <1>7, <1>8, <1>9, <1>10, <1>11, <1>12, <1>13, <1>14
  DEF Movimiento, MovimientoDe
(* A process that is lost is in no place, and the others where they were.  *)
LEMMA PerdidaGuarda ==
  ASSUME InvLugares, Perdida
  PROVE  InvLugares'
<1>1. PICK p \in Procesos : SePierde(p)
  BY DEF Perdida
<1>2. /\ Mano = {p} /\ Mano' = {}
      /\ UNCHANGED <<nuevos, listos, ejecutando, bloqueados, colaRecurso, estado, pcConsola, pcbCorto>>
  BY <1>1 DEF SePierde, Suelta, SinListas, RestoQuieto
<1>3. QED
  BY <1>2 DEF InvLugares, SinRepetir, EstadoDeLista, UnaSolaDeExec, ConsolaFiel, EnCola

-----------------------------------------------------------------------------
(* The only step after which a process is in no place.                     *)
OtraCompactacion ==
  CreateSegmentCompacta /\ reintento /\ "COMPACTACION" \in RespuestasReintento

(* What each action moves.                                                 *)
LEMMA Clasifica ==
  ASSUME IInv, CabezaDeNew, [Next]_vars
  PROVE  Movimiento \/ (Perdida /\ OtraCompactacion)
<1> USE DEF listas, semaforos, recursos, archivos, largo, corto, desalojo, programas,
        Movimiento, MovimientoDe
<1> DEFINE Meta == Movimiento \/ (Perdida /\ OtraCompactacion)
<1>0. pcDesalojo # "executing" => pcbDesalojo \in Procesos
  BY DEF IInv, Forma, FormaDesalojo
<1>1. ASSUME NEW p \in Procesos, CreaPCB(p) PROVE Meta
  BY <1>1 DEF CreaPCB, Nace, SinListas, Mano
<1>2. ASSUME NEW p \in Procesos, AgregaNew(p) PROVE Meta
  BY <1>2 DEF AgregaNew, LlegaANew, Mano
<1>3. CASE LargoInicializar
  BY <1>3 DEF LargoInicializar, PasoLargo, Quieto, SinListas, RestoQuieto, Mano
<1>4. CASE LargoTomaNew
  BY <1>4 DEF LargoTomaNew, PasoLargo, Quieto, SinListas, RestoQuieto, Mano
<1>5. CASE LargoPideTabla
  BY <1>5 DEF LargoPideTabla, PasoLargo, Quieto, SinListas, RestoQuieto, Mano
<1>6. CASE LargoRecibeTabla
  BY <1>6 DEF LargoRecibeTabla, PasoLargo, Quieto, SinListas, RestoQuieto, Mano
<1>7. CASE CortoEsperaCpu
  BY <1>7 DEF CortoEsperaCpu, PasoCorto, Quieto, SinListas, RestoQuieto, Mano
<1>8. CASE CortoEsperaListo
  BY <1>8 DEF CortoEsperaListo, PasoCorto, Quieto, SinListas, RestoQuieto, Mano
<1>9. CASE CortoAvisa
  BY <1>9 DEF CortoAvisa, PasoCorto, Quieto, SinListas, RestoQuieto, Mano
<1>10. CASE LargoAdmite
  <2>1. pcbLargo = Head(nuevos) /\ nuevos # <<>>
    BY <1>10 DEF LargoAdmite, PasoLargo, CabezaDeNew, IInv, Forma, FormaLargo
  <2>2. QED
    BY <1>10, <2>1 DEF LargoAdmite, PasoLargo, NewAReady, RestoQuieto, Mano
<1>11. CASE CortoElige
  <2>1. PICK i \in Elegibles : /\ listos' = RemoveAt(listos, i)
                              /\ pcbCorto' = listos[i]
                              /\ estado' = [estado EXCEPT ![listos[i]] = "EXEC"]
    BY <1>11 DEF CortoElige
  <2>2. i \in 1..Len(listos)
    BY <1>11, ListaVacia, LenProperties DEF IInv, TypeOK, TipoListas, Elegibles, CortoElige
  <2>3. pcbCorto = Ninguno
    BY <1>11 DEF CortoElige, PasoCorto, IInv, FormaCorto
  <2>4. ReadyACorto(i)
    BY <1>11, <2>1, <2>3 DEF CortoElige, ReadyACorto, Mano
  <2>5. QED
    BY <2>2, <2>4
<1>40. CASE CortoAgrega
  <2>1. pcbCorto \in Procesos
    BY <1>40 DEF CortoAgrega, PasoCorto, IInv, FormaCorto
  <2>2. QED
    BY <1>40, <2>1 DEF CortoAgrega, CortoAExec, Mano
<1>12. CASE DesalojoToma
  BY <1>12 DEF DesalojoToma, ExecAMano, RestoQuieto, Mano, PcConPcb, ConCpu
<1>13. CASE DesalojoSinProceso
  BY <1>13 DEF DesalojoSinProceso, Quieto, SinListas, RestoQuieto, Mano
<1>14. CASE Exit
  <2>1. Libera(pcbDesalojo)
    BY <1>14, <1>0 DEF Exit, Devuelto, TerminaProceso, CambiaEstado, Fin, Libera,
         Suelta, SinListas, RestoQuieto, Mano, PcConPcb, ConCpu
  <2>2. QED
    BY <1>0, <1>14, <2>1 DEF Exit, Devuelto, Responde
<1>15. CASE SegmentationFault
  <2>1. Libera(pcbDesalojo)
    BY <1>15, <1>0 DEF SegmentationFault, Devuelto, TerminaProceso, CambiaEstado, Fin, Libera,
         Suelta, SinListas, RestoQuieto, Mano, PcConPcb, ConCpu
  <2>2. QED
    BY <1>0, <1>15, <2>1 DEF SegmentationFault, Devuelto, Responde
<1>16. CASE RecursoInexistente
  <2>1. Libera(pcbDesalojo)
    BY <1>16, <1>0 DEF RecursoInexistente, Devuelto, TerminaProceso, CambiaEstado, Fin, Libera,
         Suelta, SinListas, RestoQuieto, Mano, PcConPcb, ConCpu
  <2>2. QED
    BY <1>0, <1>16, <2>1 DEF RecursoInexistente, Devuelto, Responde
<1>17. CASE CreateSegmentSinMemoria
  <2>1. Libera(pcbDesalojo)
    BY <1>17, <1>0 DEF CreateSegmentSinMemoria, Responde, TerminaProceso, CambiaEstado, Fin, Libera,
         Suelta, SinListas, RestoQuieto, Mano, PcConPcb, ConCpu
  <2>2. QED
    BY <1>0, <1>17, <2>1 DEF CreateSegmentSinMemoria, Devuelto, Responde
<1>18. ASSUME NEW r \in Recursos, WaitConcedido(r) PROVE Meta
  <2>1. VuelveAExec(pcbDesalojo)
    BY <1>18, <1>0 DEF WaitConcedido, Devuelto, Responde, SigueEjecutando, CambiaEstado, Fin, VuelveAExec,
         Suelta, SinListas, RestoQuieto, Mano, PcConPcb, ConCpu
  <2>2. QED
    BY <1>0, <1>18, <2>1 DEF WaitConcedido, Devuelto, Responde
<1>19. ASSUME NEW f \in Archivos, FOpen(f) PROVE Meta
  <2>1. VuelveAExec(pcbDesalojo)
    BY <1>19, <1>0 DEF FOpen, Devuelto, Responde, SigueEjecutando, CambiaEstado, Fin, VuelveAExec,
         Suelta, SinListas, RestoQuieto, Mano, PcConPcb, ConCpu
  <2>2. QED
    BY <1>0, <1>19, <2>1 DEF FOpen, Devuelto, Responde
<1>20. ASSUME NEW f \in Archivos, FSeek(f) PROVE Meta
  <2>1. VuelveAExec(pcbDesalojo)
    BY <1>20, <1>0 DEF FSeek, Devuelto, Responde, SigueEjecutando, CambiaEstado, Fin, VuelveAExec,
         Suelta, SinListas, RestoQuieto, Mano, PcConPcb, ConCpu
  <2>2. QED
    BY <1>0, <1>20, <2>1 DEF FSeek, Devuelto, Responde
<1>21. CASE CreateSegmentOk
  <2>1. VuelveAExec(pcbDesalojo)
    BY <1>21, <1>0 DEF CreateSegmentOk, Devuelto, Responde, SigueEjecutando, CambiaEstado, Fin, VuelveAExec,
         Suelta, SinListas, RestoQuieto, Mano, PcConPcb, ConCpu
  <2>2. QED
    BY <1>0, <1>21, <2>1 DEF CreateSegmentOk, Devuelto, Responde
<1>22. CASE DeleteSegmentOk
  <2>1. VuelveAExec(pcbDesalojo)
    BY <1>22, <1>0 DEF DeleteSegmentOk, Devuelto, Responde, SigueEjecutando, CambiaEstado, Fin, VuelveAExec,
         Suelta, SinListas, RestoQuieto, Mano, PcConPcb, ConCpu
  <2>2. QED
    BY <1>0, <1>22, <2>1 DEF DeleteSegmentOk, Devuelto, Responde
<1>23. ASSUME NEW f \in Archivos, FClose(f) PROVE Meta
  <2>1. VuelveAExec(pcbDesalojo)
    BY <1>23, <1>0 DEF FClose, Devuelto, Fin, VuelveAExec, IInv, Forma, FormaArchivos, TypeOK, TipoProcesos, recursos,
         Suelta, SinListas, RestoQuieto, Mano, PcConPcb, ConCpu
  <2>2. QED
    BY <1>0, <1>23, <2>1 DEF FClose, Devuelto, Responde
<1>24. CASE Yield
  <2>1. VuelveAReady(pcbDesalojo)
    BY <1>24, <1>0 DEF Yield, Devuelto, CambiaEstado, Fin, VuelveAReady,
         Suelta, SinListas, RestoQuieto, Mano, PcConPcb, ConCpu
  <2>2. QED
    BY <1>0, <1>24, <2>1 DEF Yield, Devuelto, Responde
<1>25. CASE IO
  <2>1. SeBloquea(pcbDesalojo)
    BY <1>25, <1>0 DEF IO, Devuelto, Bloquea, CambiaEstado, Fin, SeBloquea, IInv, Forma, FormaBloqueados, Bloqueantes,
         Suelta, SinListas, RestoQuieto, Mano, PcConPcb, ConCpu
  <2>2. QED
    BY <1>0, <1>25, <2>1 DEF IO, Devuelto, Responde
<1>26. CASE FTruncate
  <2>1. SeBloquea(pcbDesalojo)
    BY <1>26, <1>0 DEF FTruncate, Devuelto, Bloquea, CambiaEstado, Fin, SeBloquea, IInv, Forma, FormaBloqueados, Bloqueantes,
         Suelta, SinListas, RestoQuieto, Mano, PcConPcb, ConCpu
  <2>2. QED
    BY <1>0, <1>26, <2>1 DEF FTruncate, Devuelto, Responde
<1>27. ASSUME NEW f \in Archivos, FOpenOcupado(f) PROVE Meta
  <2>1. SeBloquea(pcbDesalojo)
    BY <1>27, <1>0 DEF FOpenOcupado, Devuelto, Bloquea, CambiaEstado, Fin, SeBloquea, IInv, Forma, FormaBloqueados, Bloqueantes,
         Suelta, SinListas, RestoQuieto, Mano, PcConPcb, ConCpu
  <2>2. QED
    BY <1>0, <1>27, <2>1 DEF FOpenOcupado, Devuelto, Responde
<1>28. ASSUME NEW f \in Archivos, FReadWrite(f) PROVE Meta
  <2>1. /\ pcDesalojo = "cpu" /\ pcDesalojo' = "read_write"
        /\ bloqueados' = Append(bloqueados, pcbDesalojo)
        /\ estado' = [estado EXCEPT ![pcbDesalojo] = "BLOCKED"]
        /\ UNCHANGED <<nuevos, listos, ejecutando, colaRecurso, pcConsola, semGrado,
                       pcbCorto>>
    BY <1>28 DEF FReadWrite, Devuelto, Bloquea, CambiaEstado, Fin
  <2>2. bloqueados = <<>>
    BY <2>1 DEF IInv, Forma, FormaBloqueados, Bloqueantes
  <2>3. SeBloquea(pcbDesalojo)
    BY <1>0, <2>1, <2>2 DEF SeBloquea, Suelta, RestoQuieto, Mano, PcConPcb, ConCpu
  <2>4. QED
    BY <1>0, <2>1, <2>3
<1>29. CASE FinIO
  <2>1. SeDesbloquea(pcbDesalojo)
    BY <1>29, <1>0, RemoveAtUnico DEF FinIO, Desbloquea, CambiaEstado, Fin, SeDesbloquea, IInv, Forma, FormaBloqueados, Bloqueantes,
         Suelta, SinListas, RestoQuieto, Mano, PcConPcb, ConCpu
  <2>2. QED
    BY <1>0, <1>29, <2>1 DEF FinIO, Devuelto, Responde
<1>30. CASE FinFTruncate
  <2>1. SeDesbloquea(pcbDesalojo)
    BY <1>30, <1>0, RemoveAtUnico DEF FinFTruncate, Desbloquea, CambiaEstado, Fin, SeDesbloquea, IInv, Forma, FormaBloqueados, Bloqueantes,
         Suelta, SinListas, RestoQuieto, Mano, PcConPcb, ConCpu
  <2>2. QED
    BY <1>0, <1>30, <2>1 DEF FinFTruncate, Devuelto, Responde
<1>31. CASE FinFReadWrite
  <2>1. SeDesbloquea(pcbDesalojo)
    BY <1>31, <1>0, RemoveAtUnico DEF FinFReadWrite, Desbloquea, CambiaEstado, Fin, SeDesbloquea, IInv, Forma, FormaBloqueados, Bloqueantes,
         Suelta, SinListas, RestoQuieto, Mano, PcConPcb, ConCpu
  <2>2. QED
    BY <1>0, <1>31, <2>1 DEF FinFReadWrite, Devuelto, Responde
<1>32. ASSUME NEW r \in Recursos, WaitBloquea(r) PROVE Meta
  <2>1. EsperaRecurso(pcbDesalojo, r)
    BY <1>32, <1>0 DEF WaitBloquea, Devuelto, Fin, EsperaRecurso,
         Suelta, SinListas, RestoQuieto, Mano, PcConPcb, ConCpu
  <2>2. QED
    BY <1>0, <1>32, <2>1 DEF WaitBloquea, Devuelto, Responde
<1>33. ASSUME NEW r \in Recursos, Signal(r) PROVE Meta
  <2>1. CASE Despierta(r)
    <3>1. CedeRecurso(pcbDesalojo, r)
      BY <1>33, <2>1, <1>0 DEF Signal, Despierta, Devuelto, Fin, CedeRecurso, Suelta,
           RestoQuieto, Mano, PcConPcb, ConCpu
    <3>2. QED
      BY <1>0, <1>33, <3>1 DEF Signal, Devuelto
  <2>2. CASE ~Despierta(r)
    <3>1. VuelveAExec(pcbDesalojo)
      BY <1>33, <2>2, <1>0 DEF Signal, CambiaEstado, Devuelto, Fin, VuelveAExec, Suelta,
           RestoQuieto, Mano, PcConPcb, ConCpu
    <3>2. QED
      BY <1>0, <1>33, <3>1 DEF Signal, Devuelto
  <2>3. QED
    BY <2>1, <2>2
<1>34. CASE PideSegmento
  BY <1>34 DEF PideSegmento, Devuelto, Fin, Quieto, SinListas, RestoQuieto, Mano, PcConPcb, ConCpu
<1>35. CASE TomaMemoria
  BY <1>35 DEF TomaMemoria, Quieto, SinListas, RestoQuieto, Mano, PcConPcb, ConCpu
<1>36. ASSUME NEW f \in Archivos, ArchivoNoAbierto(f) PROVE Meta
  BY <1>36 DEF ArchivoNoAbierto, Devuelto, Quieto, SinListas, RestoQuieto, Mano, PcConPcb, ConCpu
<1>37. CASE CreateSegmentCompacta
  <2>1. CASE reintento
    <3>1. "COMPACTACION" \in RespuestasReintento
      BY <1>37, <2>1 DEF CreateSegmentCompacta, Responde
    <3>2. SePierde(pcbDesalojo)
      BY <1>37, <1>0, <2>1 DEF CreateSegmentCompacta, Responde, SePierde, Suelta, SinListas,
           RestoQuieto, Mano, PcConPcb, ConCpu
    <3>3. QED
      BY <1>0, <1>37, <2>1, <3>1, <3>2 DEF CreateSegmentCompacta, Responde, Perdida,
           OtraCompactacion
  <2>2. CASE ~reintento
    BY <1>37, <2>2 DEF CreateSegmentCompacta, Responde, Quieto, SinListas, RestoQuieto, Mano, PcConPcb, ConCpu
  <2>3. QED
    BY <2>1, <2>2
<1>38. CASE UNCHANGED vars
  BY <1>38 DEF vars, Quieto, SinListas, RestoQuieto, Mano, PcConPcb, ConCpu
<1>39. QED
  BY <1>1, <1>2, <1>3, <1>4, <1>5, <1>6, <1>7, <1>8, <1>9, <1>10, <1>11, <1>12, <1>13, <1>14, <1>15, <1>16, <1>17, <1>18, <1>19, <1>20, <1>21, <1>22, <1>23, <1>24, <1>25, <1>26, <1>27, <1>28, <1>29, <1>30, <1>31, <1>32, <1>33, <1>34, <1>35, <1>36, <1>37, <1>38, <1>40
  DEF Next, Consola, LargoPlazo, CortoPlazo, Desalojo, ManejoInstrucciones

-----------------------------------------------------------------------------
InvTodoLugar == IInv /\ CabezaDeNew /\ InvLugares

(* At the start there is no process anywhere.                              *)
LEMMA InicioLugares == Init => InvTodoLugar /\ NadiePerdido
<1> SUFFICES ASSUME Init PROVE InvTodoLugar /\ NadiePerdido
  OBVIOUS
<1>1. IInv
  BY InicioIInv
<1>2. CabezaDeNew
  BY DEF Init, CabezaDeNew
<1>3. Mano = {} /\ pcbCorto = Ninguno /\ Ninguno \notin Procesos
  BY ConstantesOK DEF Init, Mano, PcConPcb, ConCpu
<1>4. InvLugares /\ NadiePerdido
  BY <1>3, RangoVacio DEF Init, InvLugares, SinRepetir, EstadoDeLista, UnaSolaDeExec,
     ConsolaFiel, NadiePerdido, Perdido, EnCola
<1>5. QED
  BY <1>1, <1>2, <1>4 DEF InvTodoLugar

(* No step of the kernel repeats a process.                                *)
LEMMA PasoLugares == InvTodoLugar /\ [Next]_vars => InvTodoLugar'
<1> SUFFICES ASSUME InvTodoLugar, [Next]_vars PROVE InvTodoLugar'
  OBVIOUS
<1>1. IInv' /\ CabezaDeNew'
  BY PasoIInv, PasoCabeza DEF InvTodoLugar
<1>2. TipoListas /\ TipoRecursos /\ TipoProcesos /\ InvLugares
  BY DEF InvTodoLugar, IInv, TypeOK
<1>3. Movimiento \/ Perdida
  BY Clasifica DEF InvTodoLugar
<1>4. InvLugares'
  BY <1>2, <1>3, MovimientoGuarda, PerdidaGuarda DEF Objetivo
<1>5. QED
  BY <1>1, <1>4 DEF InvTodoLugar

(* mover_de_lista_con_sem always finds the process it looks for in the     *)
(* list that pcb->estado names, and never one that says to be elsewhere.   *)
THEOREM EstadoSiempreFiel == Spec => []EstadoFiel
<1>1. InvTodoLugar => EstadoFiel
  <2> SUFFICES ASSUME InvTodoLugar, NEW p \in Procesos
               PROVE  /\ estado[p] = "READY" <=> Contains(listos, p)
                      /\ estado[p] = "BLOCKED" <=> Contains(bloqueados, p)
                      /\ Contains(nuevos, p) => estado[p] = "NEW"
                      /\ Contains(ejecutando, p) => estado[p] = "EXEC"
    BY DEF EstadoFiel
  <2>1. /\ nuevos \in Seq(Procesos) /\ listos \in Seq(Procesos)
        /\ ejecutando \in Seq(Procesos) /\ bloqueados \in Seq(Procesos)
    BY DEF InvTodoLugar, IInv, TypeOK, TipoListas
  <2>2. /\ Contains(nuevos, p) <=> p \in Range(nuevos)
        /\ Contains(listos, p) <=> p \in Range(listos)
        /\ Contains(ejecutando, p) <=> p \in Range(ejecutando)
        /\ Contains(bloqueados, p) <=> p \in Range(bloqueados)
    BY <2>1, RangoDeLista
  <2>3. QED
    BY <2>2 DEF InvTodoLugar, InvLugares, EstadoDeLista
<1>2. QED
  BY InicioLugares, PasoLugares, <1>1, PTL DEF Spec

-----------------------------------------------------------------------------
(* A list without repetitions has a process at one position or at none.    *)
LEMMA PosicionUnica ==
  ASSUME NEW s \in Seq(Procesos), IsInjective(s), NEW p
  PROVE  /\ p \notin Range(s) => Posiciones(s, p) = {}
         /\ p \in Range(s) => \E i : Posiciones(s, p) = {i}
<1>1. ASSUME p \notin Range(s) PROVE Posiciones(s, p) = {}
  BY <1>1 DEF Posiciones, Range
<1>2. ASSUME p \in Range(s) PROVE \E i : Posiciones(s, p) = {i}
  <2>1. PICK i \in DOMAIN s : s[i] = p
    BY <1>2 DEF Range
  <2>2. Posiciones(s, p) = {i}
    BY <2>1 DEF Posiciones, IsInjective
  <2>3. QED
    BY <2>2
<1>3. QED
  BY <1>1, <1>2

(* The process that exists is in one place, when no process was lost.      *)
LEMMA LugaresDe == InvTodoLugar /\ NadiePerdido => UnLugar
<1> SUFFICES ASSUME InvTodoLugar, NadiePerdido, NEW p \in Procesos
             PROVE  Cardinality(Lugares(p)) + Cardinality(Esperas(p)) =
                      Uno(pcConsola[p] = "fin" /\ estado[p] # "LIBERADO")
  BY DEF UnLugar
<1> DEFINE EnMano == {x \in {<<"CPU", 0>>} : pcbDesalojo = p /\ pcDesalojo \in PcConPcb}
           EnCorto == {x \in {<<"READY-EXEC", 0>>} : pcbCorto = p}
           Todos == UNION {{r} \X Posiciones(colaRecurso[r], p) : r \in Recursos}
           Existe == pcConsola[p] = "fin" /\ estado[p] # "LIBERADO"
           N == p \in Range(nuevos)
           L == p \in Range(listos)
           E == p \in Range(ejecutando)
           B == p \in Range(bloqueados)
           M == p \in Mano
           D == p = pcbCorto
           C == \E r \in Recursos : EnCola(p, r)
           pN == Posiciones(nuevos, p)
           pL == Posiciones(listos, p)
           pE == Posiciones(ejecutando, p)
           pB == Posiciones(bloqueados, p)
<1>1. /\ nuevos \in Seq(Procesos) /\ listos \in Seq(Procesos)
      /\ ejecutando \in Seq(Procesos) /\ bloqueados \in Seq(Procesos)
      /\ \A r \in Recursos : colaRecurso[r] \in Seq(Procesos)
  BY DEF InvTodoLugar, IInv, TypeOK, TipoListas, TipoRecursos
<1>2. /\ IsInjective(nuevos) /\ IsInjective(listos) /\ IsInjective(ejecutando)
      /\ \A r \in Recursos : IsInjective(colaRecurso[r])
  BY DEF InvTodoLugar, InvLugares, SinRepetir
<1>3. IsInjective(bloqueados)
  BY DEF InvTodoLugar, IInv, Forma, FormaBloqueados, IsInjective
<1>4. /\ ~N => pN = {}
      /\ N => \E i : pN = {i}
      /\ ~L => pL = {}
      /\ L => \E i : pL = {i}
      /\ ~E => pE = {}
      /\ E => \E i : pE = {i}
      /\ ~B => pB = {}
      /\ B => \E i : pB = {i}
  BY <1>1, <1>2, <1>3, PosicionUnica
<1>5. /\ (~M => EnMano = {}) /\ (M => EnMano = {<<"CPU", 0>>})
      /\ (~D => EnCorto = {}) /\ (D => EnCorto = {<<"READY-EXEC", 0>>})
  BY DEF Mano
<1>6. ~C => Todos = {}
  <2> SUFFICES ASSUME ~C, NEW r \in Recursos PROVE Posiciones(colaRecurso[r], p) = {}
    OBVIOUS
  <2>1. QED
    BY <1>1, <1>2, PosicionUnica DEF EnCola
<1>7. ASSUME C PROVE \E x : Todos = {x}
  <2>1. PICK r \in Recursos : EnCola(p, r)
    BY <1>7
  <2>2. PICK i : Posiciones(colaRecurso[r], p) = {i}
    BY <1>1, <1>2, <2>1, PosicionUnica DEF EnCola
  <2>3. ASSUME NEW q \in Recursos, q # r PROVE Posiciones(colaRecurso[q], p) = {}
    <3>1. ~EnCola(p, q)
      BY <2>1, <2>3 DEF InvTodoLugar, InvLugares, UnaSolaDeExec
    <3>2. QED
      BY <1>1, <1>2, <3>1, PosicionUnica DEF EnCola
  <2>4. Todos = {<<r, i>>}
    BY <2>2, <2>3
  <2>5. QED
    BY <2>4
<1>8. /\ N <=> estado[p] = "NEW" /\ pcConsola[p] = "fin"
      /\ L <=> estado[p] = "READY"
      /\ B <=> estado[p] = "BLOCKED"
      /\ E \/ M \/ D \/ C <=> estado[p] = "EXEC"
      /\ ~(E /\ M) /\ ~(E /\ C) /\ ~(M /\ C)
      /\ ~(E /\ D) /\ ~(M /\ D) /\ ~(D /\ C)
      /\ pcConsola[p] = "desconectada" <=> estado[p] = "INEXISTENTE"
      /\ pcConsola[p] = "agrega_new" => estado[p] = "NEW"
  BY DEF InvTodoLugar, InvLugares, EstadoDeLista, UnaSolaDeExec, ConsolaFiel, NadiePerdido,
     Perdido
<1>9. estado[p] \in Estados /\ pcConsola[p] \in {"desconectada", "agrega_new", "fin"}
  BY DEF InvTodoLugar, IInv, TypeOK, TipoProcesos
<1>10. /\ Lugares(p) = ({"NEW"} \X pN) \union ({"READY"} \X pL) \union ({"EXEC"} \X pE)
                       \union ({"BLOCKED"} \X pB) \union EnCorto \union EnMano
       /\ Esperas(p) = Todos
  BY DEF Lugares, Esperas, PcConPcb
<1>11. /\ ~Existe => ~N /\ ~L /\ ~E /\ ~B /\ ~M /\ ~D /\ ~C
       /\ Existe => N \/ L \/ E \/ B \/ M \/ D \/ C
       /\ N => ~L /\ ~E /\ ~B /\ ~M /\ ~D /\ ~C
       /\ L => ~E /\ ~B /\ ~M /\ ~D /\ ~C
       /\ E => ~B /\ ~M /\ ~D /\ ~C
       /\ B => ~M /\ ~D /\ ~C
       /\ M => ~D /\ ~C
       /\ D => ~C
  BY <1>8, <1>9 DEF Estados
<1> HIDE DEF EnMano, EnCorto, Todos, N, L, E, B, M, D, C, pN, pL, pE, pB
<1>12. /\ ~Existe => Lugares(p) = {} /\ Esperas(p) = {}
       /\ N \/ L \/ E \/ B \/ M \/ D => (\E x : Lugares(p) = {x}) /\ Esperas(p) = {}
       /\ C => Lugares(p) = {} /\ \E x : Esperas(p) = {x}
  <2>1. ~Existe => Lugares(p) = {} /\ Esperas(p) = {}
    BY <1>4, <1>5, <1>6, <1>10, <1>11
  <2>2. N => Lugares(p) = {"NEW"} \X pN /\ Esperas(p) = {}
    BY <1>4, <1>5, <1>6, <1>10, <1>11
  <2>3. L => Lugares(p) = {"READY"} \X pL /\ Esperas(p) = {}
    BY <1>4, <1>5, <1>6, <1>10, <1>11
  <2>4. E => Lugares(p) = {"EXEC"} \X pE /\ Esperas(p) = {}
    BY <1>4, <1>5, <1>6, <1>10, <1>11
  <2>5. B => Lugares(p) = {"BLOCKED"} \X pB /\ Esperas(p) = {}
    BY <1>4, <1>5, <1>6, <1>10, <1>11
  <2>6. M => Lugares(p) = EnMano /\ Esperas(p) = {}
    BY <1>4, <1>5, <1>6, <1>10, <1>11
  <2>7. C => Lugares(p) = {} /\ \E x : Esperas(p) = {x}
    BY <1>4, <1>5, <1>7, <1>10, <1>11
  <2>8. ASSUME NEW e, NEW S, NEW i, S = {i} PROVE \E x : {e} \X S = {x}
    <3>1. {e} \X S = {<<e, i>>}
      BY <2>8
    <3>2. QED
      BY <3>1
  <2>9. /\ N => \E x : {"NEW"} \X pN = {x}
        /\ L => \E x : {"READY"} \X pL = {x}
        /\ E => \E x : {"EXEC"} \X pE = {x}
        /\ B => \E x : {"BLOCKED"} \X pB = {x}
    <3>1. ASSUME N PROVE \E x : {"NEW"} \X pN = {x}
      <4>1. PICK i : pN = {i}
        BY <1>4, <3>1
      <4>2. QED
        BY <2>8, <4>1
    <3>2. ASSUME L PROVE \E x : {"READY"} \X pL = {x}
      <4>1. PICK i : pL = {i}
        BY <1>4, <3>2
      <4>2. QED
        BY <2>8, <4>1
    <3>3. ASSUME E PROVE \E x : {"EXEC"} \X pE = {x}
      <4>1. PICK i : pE = {i}
        BY <1>4, <3>3
      <4>2. QED
        BY <2>8, <4>1
    <3>4. ASSUME B PROVE \E x : {"BLOCKED"} \X pB = {x}
      <4>1. PICK i : pB = {i}
        BY <1>4, <3>4
      <4>2. QED
        BY <2>8, <4>1
    <3>5. QED
      BY <3>1, <3>2, <3>3, <3>4
  <2>10. (M => \E x : EnMano = {x}) /\ (D => \E x : EnCorto = {x})
    BY <1>5
  <2>13. D => Lugares(p) = EnCorto /\ Esperas(p) = {}
    BY <1>4, <1>5, <1>6, <1>10, <1>11
  <2>11. N \/ L \/ E \/ B \/ M \/ D => (\E x : Lugares(p) = {x}) /\ Esperas(p) = {}
    BY <2>2, <2>3, <2>4, <2>5, <2>6, <2>9, <2>10, <2>13
  <2>12. QED
    BY <2>1, <2>7, <2>11
<1>13. Cardinality({}) = 0
  BY FS_EmptySet
<1>14. ASSUME NEW S, \E x : S = {x} PROVE Cardinality(S) = 1
  BY <1>14, FS_Singleton
<1>15. CASE C
  <2>1. Cardinality(Lugares(p)) = 0
    BY <1>12, <1>13, <1>15
  <2>2. Cardinality(Esperas(p)) = 1
    BY <1>12, <1>14, <1>15
  <2>3. QED
    BY <1>11, <1>15, <2>1, <2>2 DEF Uno
<1>16. CASE N \/ L \/ E \/ B \/ M \/ D
  <2>1. Cardinality(Lugares(p)) = 1
    BY <1>12, <1>14, <1>16
  <2>2. Cardinality(Esperas(p)) = 0
    BY <1>12, <1>13, <1>16
  <2>3. QED
    BY <1>11, <1>16, <2>1, <2>2 DEF Uno
<1>17. CASE ~Existe
  <2>1. Cardinality(Lugares(p)) = 0 /\ Cardinality(Esperas(p)) = 0
    BY <1>12, <1>13, <1>17
  <2>2. QED
    BY <1>17, <2>1 DEF Uno
<1>18. QED
  BY <1>11, <1>15, <1>16, <1>17

(* Nobody is lost by any step but a second compaction.                     *)
LEMMA PasoPerdidos ==
  ASSUME InvTodoLugar, NadiePerdido, [Next]_vars, ~OtraCompactacion
  PROVE  NadiePerdido'
<1>1. TipoListas /\ TipoRecursos /\ TipoProcesos /\ InvLugares
  BY DEF InvTodoLugar, IInv, TypeOK
<1>2. Movimiento
  BY Clasifica DEF InvTodoLugar
<1>3. QED
  BY <1>1, <1>2, MovimientoGuarda DEF Objetivo, MismosPerdidos, NadiePerdido

(* No process is lost or duplicated, whatever the programs do: one that    *)
(* exists is in exactly one list, resource queue or handler, and a freed   *)
(* PCB in none. It takes that memory never asks for a compaction twice in  *)
(* a row for the same segment: the handler of the second one keeps no      *)
(* reference to the process (kernel.c:575).                                *)
THEOREM NadiePerdidoNiRepetido ==
  ASSUME "COMPACTACION" \notin RespuestasReintento
  PROVE  Spec => []UnLugar
<1>1. InvTodoLugar /\ NadiePerdido /\ [Next]_vars => NadiePerdido'
  BY PasoPerdidos DEF OtraCompactacion
<1>2. QED
  BY InicioLugares, PasoLugares, <1>1, LugaresDe, PTL DEF Spec

-----------------------------------------------------------------------------
(* The units of sem_grado_multiprogamacion: each is free or belongs to a   *)
(* process that entered READY and has not ended.                           *)
GradoContado ==
  IsFiniteSet(Admitidos) /\ semGrado + Cardinality(Admitidos) = Grado

(* A movement takes a unit when a process enters READY from NEW, gives one *)
(* back when one ends, and moves none otherwise.                           *)
LEMMA MovimientoGrado ==
  ASSUME TypeOK, InvLugares, GradoContado, Movimiento \/ Perdida
  PROVE  GradoContado'
<1> USE DEF RestoQuieto, SinListas
<1> DEFINE Igual == Admitidos' = Admitidos /\ semGrado' = semGrado
<1>0. /\ estado \in [Procesos -> Estados] /\ semGrado \in Nat
      /\ nuevos \in Seq(Procesos) /\ listos \in Seq(Procesos)
      /\ ejecutando \in Seq(Procesos)
      /\ \A r \in Recursos : colaRecurso[r] \in Seq(Procesos)
  BY DEF TypeOK, TipoProcesos, TipoSemaforos, TipoListas, TipoRecursos
<1>1. ASSUME Igual PROVE GradoContado'
  BY <1>1 DEF GradoContado
<1>2. CASE Quieto \/ Perdida
  BY <1>1, <1>2 DEF Quieto, Perdida, SePierde, Admitidos
<1>3. CASE NewAReady
  <2> DEFINE h == Head(nuevos)
  <2>1. h \in Procesos /\ estado[h] = "NEW"
    <3>1. nuevos # <<>> /\ IsInjective(nuevos)
      BY <1>3 DEF NewAReady, InvLugares, SinRepetir
    <3>2. h \in Range(nuevos) /\ h \in Procesos
      BY <1>0, <3>1, RangoCola, RangoDeLista
    <3>3. QED
      BY <3>2 DEF InvLugares, EstadoDeLista
  <2>2. estado' = [estado EXCEPT ![h] = "READY"] /\ semGrado' = semGrado - 1
    BY <1>3 DEF NewAReady
  <2> HIDE DEF h
  <2>3. Admitidos' = Admitidos \union {h} /\ h \notin Admitidos
    BY <1>0, <2>1, <2>2 DEF Admitidos
  <2>4. IsFiniteSet(Admitidos') /\ Cardinality(Admitidos') = Cardinality(Admitidos) + 1
    BY <2>3, FS_AddElement DEF GradoContado
  <2>5. Cardinality(Admitidos) \in Nat
    BY FS_CardinalityType DEF GradoContado
  <2>6. QED
    BY <1>0, <2>2, <2>4, <2>5 DEF GradoContado
<1>4. ASSUME NEW p \in Procesos, Libera(p) PROVE GradoContado'
  <2>1. estado' = [estado EXCEPT ![p] = "LIBERADO"] /\ semGrado' = semGrado + 1
        /\ estado[p] = "EXEC"
    BY <1>4 DEF Libera, Suelta, InvLugares, EstadoDeLista
  <2>2. Admitidos' = Admitidos \ {p} /\ p \in Admitidos
    BY <1>0, <2>1 DEF Admitidos
  <2>3. IsFiniteSet(Admitidos') /\ Cardinality(Admitidos') = Cardinality(Admitidos) - 1
    BY <2>2, FS_RemoveElement DEF GradoContado
  <2>4. Cardinality(Admitidos) \in Nat
    BY FS_CardinalityType DEF GradoContado
  <2>5. QED
    BY <1>0, <2>1, <2>3, <2>4 DEF GradoContado
<1>5. CASE ExecAMano \/ CortoAExec
  BY <1>1, <1>5 DEF ExecAMano, CortoAExec, Admitidos
<1>6. ASSUME NEW i \in 1..Len(listos), ReadyACorto(i) PROVE GradoContado'
  <2>1. listos[i] \in Procesos /\ estado[listos[i]] = "READY"
    BY <1>0, <1>6, RangoDeLista DEF InvLugares, EstadoDeLista
  <2>2. Igual
    BY <1>0, <1>6, <2>1 DEF ReadyACorto, Admitidos
  <2>3. QED
    BY <1>1, <2>2
<1>7. ASSUME NEW p \in Procesos, Nace(p) \/ LlegaANew(p) PROVE GradoContado'
  <2>1. Igual
    BY <1>0, <1>7 DEF Nace, LlegaANew, Admitidos, InvLugares, ConsolaFiel
  <2>2. QED
    BY <1>1, <2>1
<1>8. ASSUME NEW p \in Procesos, VuelveAExec(p) \/ VuelveAReady(p) \/ SeBloquea(p)
      PROVE GradoContado'
  <2>1. estado[p] = "EXEC"
    BY <1>8 DEF VuelveAExec, VuelveAReady, SeBloquea, Suelta, InvLugares, EstadoDeLista
  <2>2. Igual
    BY <1>0, <1>8, <2>1 DEF VuelveAExec, VuelveAReady, SeBloquea, Admitidos
  <2>3. QED
    BY <1>1, <2>2
<1>9. ASSUME NEW p \in Procesos, SeDesbloquea(p) PROVE GradoContado'
  <2>1. p \in Range(bloqueados)
    BY <1>9 DEF SeDesbloquea, Range
  <2>2. estado[p] = "BLOCKED"
    BY <2>1 DEF InvLugares, EstadoDeLista
  <2>3. Igual
    BY <1>0, <1>9, <2>2 DEF SeDesbloquea, Admitidos
  <2>4. QED
    BY <1>1, <2>3
<1>10. ASSUME NEW p \in Procesos, NEW r \in Recursos, EsperaRecurso(p, r)
       PROVE GradoContado'
  BY <1>1, <1>10 DEF EsperaRecurso, Admitidos
<1>11. ASSUME NEW p \in Procesos, NEW r \in Recursos, CedeRecurso(p, r)
       PROVE GradoContado'
  <2> DEFINE q == Head(colaRecurso[r])
  <2>1. IsInjective(colaRecurso[r]) /\ colaRecurso[r] # <<>>
    BY <1>11 DEF CedeRecurso, InvLugares, SinRepetir
  <2>2. q \in Range(colaRecurso[r]) /\ q \in Procesos
    BY <1>0, <2>1, RangoCola, RangoDeLista
  <2>3. estado[p] = "EXEC" /\ estado[q] = "EXEC"
    BY <1>11, <2>2 DEF CedeRecurso, Suelta, InvLugares, EstadoDeLista, EnCola
  <2>4. estado' = [estado EXCEPT ![p] = "EXEC", ![q] = "READY"] /\ semGrado' = semGrado
    BY <1>11 DEF CedeRecurso
  <2> HIDE DEF q
  <2>5. Igual
    BY <1>0, <2>2, <2>3, <2>4 DEF Admitidos
  <2>6. QED
    BY <1>1, <2>5
<1>12. QED
  BY <1>2, <1>3, <1>4, <1>5, <1>6, <1>7, <1>8, <1>9, <1>10, <1>11
  DEF Movimiento, MovimientoDe

(* Every step keeps the count of the degree.                               *)
LEMMA PasoGrado == InvTodoLugar /\ GradoContado /\ [Next]_vars => GradoContado'
  BY Clasifica, MovimientoGrado DEF InvTodoLugar, IInv

(* GRADO_MAX_MULTIPROGRAMACION is respected: the units of the semaphore    *)
(* and the processes in READY, EXEC and BLOCKED (or that wait for a        *)
(* resource) are always as many as it says, whatever the programs do. No   *)
(* handler forgets to give a unit back nor gives it twice.                 *)
THEOREM GradoRespetado == Spec => []GradoContado
<1>1. Init => GradoContado
  <2> SUFFICES ASSUME Init PROVE GradoContado
    OBVIOUS
  <2>1. Admitidos = {} /\ semGrado = Grado /\ Grado \in Nat
    BY ConstantesOK DEF Init, Admitidos
  <2>2. QED
    BY <2>1, FS_EmptySet DEF GradoContado
<1>2. QED
  BY InicioLugares, PasoLugares, PasoGrado, <1>1, PTL DEF Spec

-----------------------------------------------------------------------------
(***************************************************************************)
(* Planificador implements Multiprogramacion, for every value of the       *)
(* constants. A step of a thread is first reduced to its effect on NEW,    *)
(* READY, pcb->estado and the process that has the CPU (Efecto); each      *)
(* effect is then a step of the abstract specification.                    *)
(***************************************************************************)

InvAbstracto ==
  InvTodoLugar /\ NadiePerdido /\ InvCpu /\ GradoContado

Inquietos == {"EXEC", "BLOCKED"}

(* What EnCpu and EnEspera are when those invariants hold.                 *)
CpuDefinida ==
  /\ pcDesalojo \in ConCpu => /\ ejecutando = <<>> /\ EnCpu = pcbDesalojo
                              /\ pcbCorto = Ninguno /\ pcbDesalojo \in Procesos
                              /\ estado[pcbDesalojo] \in Inquietos
  /\ ejecutando # <<>> => /\ EnCpu = ejecutando[1] /\ EnCpu \in Procesos
                          /\ estado[EnCpu] = "EXEC"
                          /\ Len(ejecutando) = 1 /\ pcDesalojo \notin ConCpu
                          /\ pcbCorto = Ninguno
  /\ ejecutando = <<>> /\ pcDesalojo \notin ConCpu =>
       EnCpu = pcbCorto /\ (pcbCorto = Ninguno \/ estado[pcbCorto] = "EXEC")

EsperaDefinida ==
  EnEspera = {p \in Procesos : estado[p] \in Inquietos /\ p # EnCpu}

AdentroDefinido == Abstracto!Adentro = Admitidos

Imagen == CpuDefinida /\ EsperaDefinida /\ AdentroDefinido

(* Of four counters that add up to one, only one is not zero.              *)
LEMMA SumaUno ==
  ASSUME NEW a \in Nat, NEW b \in Nat, NEW c \in Nat, NEW d \in Nat,
         a + b + c + d = 1, c >= 1
  PROVE  c = 1 /\ d = 0 /\ b = 0
  OBVIOUS

(* The invariants give the image of a state.                               *)
LEMMA ImagenDeInv == InvAbstracto => Imagen
<1> SUFFICES ASSUME InvAbstracto PROVE Imagen
  OBVIOUS
<1>1. /\ IInv /\ InvLugares /\ NadiePerdido /\ UnicaCpu
      /\ listos \in Seq(Procesos) /\ ejecutando \in Seq(Procesos)
      /\ semCpu \in Nat /\ Ninguno \notin Procesos
  BY ConstantesOK DEF InvAbstracto, InvTodoLugar, InvCpu, IInv, TypeOK, TipoListas, TipoSemaforos
<1>2. Len(ejecutando) \in Nat /\ (Len(ejecutando) = 0 <=> ejecutando = <<>>)
  BY <1>1, ListaVacia
<1>3. CpuDefinida
  <2>1. ASSUME pcDesalojo \in ConCpu
        PROVE  /\ ejecutando = <<>> /\ EnCpu = pcbDesalojo
               /\ pcbCorto = Ninguno /\ pcbDesalojo \in Procesos /\ estado[pcbDesalojo] \in Inquietos
    <3>1. ejecutando = <<>> /\ pcCorto # "agregar"
      BY <1>1, <1>2, <2>1 DEF UnicaCpu, Uno
    <3>6. pcbCorto = Ninguno
      BY <1>1, <3>1 DEF IInv, FormaCorto
    <3>2. pcbDesalojo \in Procesos
      BY <1>1, <2>1 DEF IInv, Forma, FormaDesalojo, ConCpu
    <3>3. ASSUME pcDesalojo \in PcConPcb PROVE estado[pcbDesalojo] \in Inquietos
      BY <1>1, <3>2, <3>3 DEF InvLugares, EstadoDeLista, Mano, Inquietos
    <3>4. ASSUME pcDesalojo \in {"io", "read_write"}
          PROVE  estado[pcbDesalojo] \in Inquietos
      <4>1. bloqueados = <<pcbDesalojo>>
        BY <1>1, <3>4 DEF IInv, Forma, FormaBloqueados, Bloqueantes
      <4>2. pcbDesalojo \in Range(bloqueados)
        BY <4>1 DEF Range
      <4>3. QED
        BY <1>1, <3>2, <4>2 DEF InvLugares, EstadoDeLista, Inquietos
    <3>5. QED
      BY <2>1, <3>1, <3>2, <3>3, <3>4, <3>6 DEF PcConPcb, EnCpu
  <2>2. ASSUME ejecutando # <<>>
        PROVE  /\ EnCpu = ejecutando[1] /\ EnCpu \in Procesos /\ estado[EnCpu] = "EXEC"
               /\ Len(ejecutando) = 1 /\ pcDesalojo \notin ConCpu
               /\ pcbCorto = Ninguno
    <3>1. Len(ejecutando) = 1 /\ pcDesalojo \notin ConCpu /\ pcCorto # "agregar"
      <4> DEFINE enCorto == Uno(pcCorto \in {"terminado", "elegir", "agregar"})
                 enDesalojo == Uno(pcDesalojo \in ConCpu)
      <4>1. semCpu + enCorto + Len(ejecutando) + enDesalojo = 1
        BY <1>1 DEF UnicaCpu
      <4>2. enCorto \in Nat /\ enDesalojo \in Nat
            /\ (pcDesalojo \in ConCpu => enDesalojo = 1)
            /\ (pcCorto = "agregar" => enCorto = 1)
        BY DEF Uno
      <4> HIDE DEF enCorto, enDesalojo
      <4>3. Len(ejecutando) >= 1 /\ semCpu \in Nat /\ Len(ejecutando) \in Nat
        BY <1>1, <1>2, <2>2
      <4>4. Len(ejecutando) = 1 /\ enDesalojo = 0 /\ enCorto = 0
        BY <4>1, <4>2, <4>3, SumaUno
      <4>5. QED
        BY <4>2, <4>4
    <3>2. Range(ejecutando) \subseteq Procesos /\ DOMAIN ejecutando = 1..Len(ejecutando)
      BY <1>1, RangoDeLista
    <3>3. ejecutando[1] \in Range(ejecutando) /\ ejecutando[1] \in Procesos
      BY <3>1, <3>2 DEF Range
    <3>4. estado[ejecutando[1]] = "EXEC"
      BY <1>1, <3>3 DEF InvLugares, EstadoDeLista
    <3>6. pcbCorto = Ninguno
      BY <1>1, <3>1 DEF IInv, FormaCorto
    <3>5. QED
      BY <2>2, <3>1, <3>3, <3>4, <3>6 DEF EnCpu
  <2>3. ejecutando = <<>> /\ pcDesalojo \notin ConCpu =>
          EnCpu = pcbCorto /\ (pcbCorto = Ninguno \/ estado[pcbCorto] = "EXEC")
    BY <1>1 DEF EnCpu, IInv, FormaCorto, InvLugares, EstadoDeLista
  <2>4. QED
    BY <2>1, <2>2, <2>3 DEF CpuDefinida
<1>4. \A p \in Procesos : Contains(listos, p) <=> estado[p] = "READY"
  BY <1>1, RangoDeLista DEF InvLugares, EstadoDeLista
<1>5. EsperaDefinida
  BY <1>4 DEF EsperaDefinida, EnEspera, Admitidos, Inquietos
<1>6. AdentroDefinido
  <2>1. Abstracto!Adentro = Range(listos) \union EnEspera \union ({EnCpu} \ {Ninguno})
    BY DEF Abstracto!Adentro, Abstracto!Range, Range
  <2>2. \A p \in Procesos : p \in Range(listos) <=> estado[p] = "READY"
    BY <1>1 DEF InvLugares, EstadoDeLista
  <2>3. Range(listos) \subseteq Procesos
    BY <1>1, RangoDeLista
  <2>4. EnCpu = Ninguno \/ (EnCpu \in Procesos /\ estado[EnCpu] \in Inquietos)
    BY <1>1, <1>3 DEF CpuDefinida, Inquietos, IInv, FormaCorto
  <2>5. QED
    BY <1>1, <1>5, <2>1, <2>2, <2>3, <2>4
    DEF AdentroDefinido, EsperaDefinida, Admitidos, Inquietos
<1>7. QED
  BY <1>3, <1>5, <1>6 DEF Imagen

(* And the image of the state after a step.                                *)
LEMMA ImagenSiguiente == InvAbstracto' => Imagen'
  BY ImagenDeInv, PTL

-----------------------------------------------------------------------------
(* The effects of a step.                                                  *)
Grupos == {{"INEXISTENTE", "NEW"}, {"READY"}, Inquietos, {"LIBERADO"}}

(* Nothing that the abstract specification sees.                           *)
Sigue ==
  /\ UNCHANGED <<nuevos, listos>> /\ EnCpu' = EnCpu
  /\ \A p \in Procesos : \A g \in Grupos : estado'[p] \in g <=> estado[p] \in g

(* Only the state of p changes, to one of g.                               *)
SoloCambia(p, g) ==
  p \in Procesos /\ estado'[p] \in g
  /\ \A q \in Procesos \ {p} : estado'[q] = estado[q]

EfLlega(p) ==
  /\ estado[p] = "NEW" /\ p \notin Range(nuevos)
  /\ nuevos' = Append(nuevos, p)
  /\ UNCHANGED <<listos, estado>> /\ EnCpu' = EnCpu

EfEntra ==
  /\ nuevos # <<>> /\ semGrado > 0
  /\ nuevos' = Tail(nuevos) /\ listos' = Append(listos, Head(nuevos))
  /\ estado[Head(nuevos)] = "NEW" /\ SoloCambia(Head(nuevos), {"READY"})
  /\ EnCpu' = EnCpu

EfDespacha(i) ==
  /\ EnCpu = Ninguno /\ i \in DOMAIN listos /\ (Algoritmo = "FIFO" => i = 1)
  /\ listos' = RemoveAt(listos, i) /\ nuevos' = nuevos
  /\ EnCpu' = listos[i] /\ listos[i] \in Procesos
  /\ estado[listos[i]] = "READY" /\ SoloCambia(listos[i], {"EXEC"})

EfDeja(l, g) ==
  /\ EnCpu \in Procesos /\ estado[EnCpu] \in Inquietos /\ EnCpu' = Ninguno
  /\ listos' = l /\ nuevos' = nuevos
  /\ SoloCambia(EnCpu, g)

EfVuelve(p) ==
  /\ p # EnCpu /\ EnCpu' = EnCpu
  /\ p \in Procesos /\ estado[p] \in Inquietos
  /\ listos' = Append(listos, p) /\ nuevos' = nuevos
  /\ SoloCambia(p, {"READY"})

Efecto ==
  \/ Sigue \/ EfEntra
  \/ \E p \in Procesos : EfLlega(p) \/ EfVuelve(p)
  \/ \E i \in DOMAIN listos : EfDespacha(i)
  \/ EfDeja(Append(listos, EnCpu), {"READY"})
  \/ EfDeja(listos, Inquietos)
  \/ EfDeja(listos, {"LIBERADO"})

(* Each effect is a step of the abstract specification, or none.           *)
LEMMA EfectoAbstracto ==
  ASSUME InvAbstracto, InvAbstracto', Efecto
  PROVE  [Abstracto!Next]_Abstracto!vars
<1>1. /\ EnEspera = {p \in Procesos : estado[p] \in Inquietos /\ p # EnCpu}
      /\ EnEspera' = {p \in Procesos : estado'[p] \in Inquietos /\ p # EnCpu'}
      /\ Abstracto!Adentro = Admitidos
      /\ Ninguno \notin Procesos
      /\ nuevos \in Seq(Procesos)
  BY ConstantesOK, ImagenDeInv, ImagenSiguiente
  DEF Imagen, EsperaDefinida, AdentroDefinido, InvAbstracto, InvTodoLugar, IInv, TypeOK, TipoListas
<1> DEFINE Fin1 == {p \in Procesos : estado[p] = "LIBERADO"}
           Fin2 == {p \in Procesos : estado'[p] = "LIBERADO"}
<1>2. CASE Sigue
  <2>1. EnEspera' = EnEspera
    BY <1>1, <1>2 DEF Sigue, Grupos
  <2>2. Fin2 = Fin1
    <3>1. \A p \in Procesos : estado'[p] \in {"LIBERADO"} <=> estado[p] \in {"LIBERADO"}
      BY <1>2 DEF Sigue, Grupos
    <3>2. QED
      BY <3>1
  <2>3. QED
    BY <1>2, <2>1, <2>2 DEF Sigue, Abstracto!vars
<1>3. ASSUME NEW p \in Procesos, EfLlega(p) PROVE Abstracto!Next
  <2>1. EnEspera' = EnEspera /\ Fin2 = Fin1
    BY <1>1, <1>3 DEF EfLlega
  <2>2. p \notin Range(nuevos) \union Abstracto!Adentro \union Fin1
    BY <1>1, <1>3 DEF EfLlega, Admitidos
  <2>3. Abstracto!Llega(p)
    BY <1>3, <2>1, <2>2 DEF EfLlega, Abstracto!Llega, Abstracto!Range, Range
  <2>4. QED
    BY <2>3 DEF Abstracto!Next
<1>4. CASE EfEntra
  <2>1. EnEspera' = EnEspera /\ Fin2 = Fin1
    BY <1>1, <1>4 DEF EfEntra, SoloCambia, Inquietos
  <2>2. Cardinality(Admitidos) < Grado
    <3>1. Cardinality(Admitidos) \in Nat /\ semGrado \in Nat /\ Grado \in Nat
          /\ semGrado + Cardinality(Admitidos) = Grado
      BY ConstantesOK, FS_CardinalityType
      DEF InvAbstracto, GradoContado, InvTodoLugar, IInv, TypeOK, TipoSemaforos
    <3>2. QED
      BY <1>4, <3>1 DEF EfEntra
  <2>3. Abstracto!Cardinality(Abstracto!Adentro) < Grado
    <3>1. Abstracto!Cardinality(Admitidos) = Cardinality(Admitidos)
      BY DEF Abstracto!Cardinality, Cardinality
    <3>2. QED
      BY <1>1, <2>2, <3>1
  <2>4. Abstracto!Entra
    BY <1>4, <2>1, <2>3 DEF EfEntra, Abstracto!Entra
  <2>5. QED
    BY <2>4 DEF Abstracto!Next
<1>5. ASSUME NEW i \in DOMAIN listos, EfDespacha(i) PROVE Abstracto!Next
  <2>1. EnEspera' = EnEspera /\ Fin2 = Fin1
    BY <1>1, <1>5 DEF EfDespacha, SoloCambia, Inquietos
  <2>2. Abstracto!RemoveAt(listos, i) = RemoveAt(listos, i)
    BY DEF Abstracto!RemoveAt, RemoveAt
  <2>3. Abstracto!Despacha(i)
    BY <1>5, <2>1, <2>2 DEF EfDespacha, Abstracto!Despacha
  <2>4. QED
    BY <2>3 DEF Abstracto!Next
<1>6. ASSUME NEW p \in Procesos, EfVuelve(p) PROVE Abstracto!Next
  <2>1. EnEspera' = EnEspera \ {p} /\ p \in EnEspera /\ Fin2 = Fin1
    BY <1>1, <1>6 DEF EfVuelve, SoloCambia, Inquietos
  <2>2. Abstracto!Vuelve(p)
    BY <1>6, <2>1 DEF EfVuelve, Abstracto!Vuelve
  <2>3. QED
    BY <2>2 DEF Abstracto!Next
<1>7. CASE EfDeja(Append(listos, EnCpu), {"READY"})
  <2>1. EnEspera' = EnEspera /\ Fin2 = Fin1
    BY <1>1, <1>7 DEF EfDeja, SoloCambia, Inquietos
  <2>2. EnCpu # Ninguno /\ EnCpu' = Ninguno
    BY <1>1, <1>7 DEF EfDeja
  <2>3. Abstracto!Deja
    BY <1>7, <2>1, <2>2 DEF EfDeja, Abstracto!Deja
  <2>4. QED
    BY <2>3 DEF Abstracto!Next
<1>8. CASE EfDeja(listos, Inquietos)
  <2>1. EnEspera' = EnEspera \union {EnCpu} /\ Fin2 = Fin1
    BY <1>1, <1>8 DEF EfDeja, SoloCambia, Inquietos
  <2>2. EnCpu # Ninguno /\ EnCpu' = Ninguno
    BY <1>1, <1>8 DEF EfDeja
  <2>3. Abstracto!Deja
    BY <1>8, <2>1, <2>2 DEF EfDeja, Abstracto!Deja
  <2>4. QED
    BY <2>3 DEF Abstracto!Next
<1>9. CASE EfDeja(listos, {"LIBERADO"})
  <2>1. EnEspera' = EnEspera /\ Fin2 = Fin1 \union {EnCpu}
    BY <1>1, <1>9 DEF EfDeja, SoloCambia, Inquietos
  <2>2. EnCpu # Ninguno /\ EnCpu' = Ninguno
    BY <1>1, <1>9 DEF EfDeja
  <2>3. Abstracto!Deja
    BY <1>9, <2>1, <2>2 DEF EfDeja, Abstracto!Deja
  <2>4. QED
    BY <2>3 DEF Abstracto!Next
<1>10. QED
  BY <1>2, <1>3, <1>4, <1>5, <1>6, <1>7, <1>8, <1>9 DEF Efecto
-----------------------------------------------------------------------------
(* No process has the CPU when EXEC is empty and neither a handler nor the *)
(* dispatcher keeps it.                                                    *)
LEMMA CpuLibre ==
  ASSUME ejecutando' = <<>>, pcDesalojo' \notin ConCpu, pcbCorto' = Ninguno
  PROVE  EnCpu' = Ninguno
  BY DEF EnCpu, ConCpu

(* The process in the hands of a handler has the CPU.                      *)
LEMMA CpuConservada ==
  ASSUME ejecutando' = <<>>, pcDesalojo' \in ConCpu
  PROVE  EnCpu' = pcbDesalojo'
  BY DEF EnCpu, ConCpu

(* And the only process of EXEC.                                           *)
LEMMA CpuEnExec ==
  ASSUME NEW p, ejecutando = <<>>, ejecutando' = Append(ejecutando, p)
  PROVE  EnCpu' = p
<1>1. ejecutando' # <<>> /\ ejecutando'[1] = p
  OBVIOUS
<1>2. QED
  BY <1>1 DEF EnCpu

(* The effect of each step of a thread.                                    *)
LEMMA Efectos ==
  ASSUME CpuBienRepuesta, InvAbstracto, [Next]_vars
  PROVE  Efecto
<1> USE DEF listas, semaforos, recursos, archivos, largo, corto, desalojo, programas
<1> DEFINE b == pcbDesalojo
<1>0. /\ nuevos \in Seq(Procesos) /\ listos \in Seq(Procesos)
      /\ ejecutando \in Seq(Procesos)
      /\ estado \in [Procesos -> Estados] /\ Ninguno \notin Procesos
      /\ CpuDefinida
  BY ConstantesOK, ImagenDeInv DEF Imagen, InvAbstracto, InvTodoLugar, IInv, TypeOK,
     TipoListas, TipoProcesos
(* With the process in the hands of the handler.                           *)
<1>1. ASSUME pcDesalojo \in PcConPcb
      PROVE  /\ ejecutando = <<>> /\ EnCpu = b /\ b \in Procesos /\ estado[b] = "EXEC"
             /\ pcbCorto = Ninguno /\ \A r \in Recursos : ~EnCola(b, r)
  <2>1. pcDesalojo \in ConCpu /\ b \in Mano
    BY <1>1 DEF PcConPcb, Mano
  <2>2. ejecutando = <<>> /\ EnCpu = b /\ b \in Procesos /\ pcbCorto = Ninguno
    BY <1>0, <2>1 DEF CpuDefinida
  <2>3. QED
    BY <2>1, <2>2 DEF InvAbstracto, InvTodoLugar, InvLugares, EstadoDeLista, UnaSolaDeExec
(* With it in BLOCKED and the CPU taken.                                   *)
<1>2. ASSUME pcDesalojo \in {"io", "read_write"}
      PROVE  /\ ejecutando = <<>> /\ EnCpu = b /\ b \in Procesos
             /\ estado[b] \in Inquietos /\ pcbCorto = Ninguno
  BY <1>0, <1>2 DEF CpuDefinida, ConCpu
(* What the handlers have in common.                                       *)
<1>3. ASSUME pcDesalojo \in PcConPcb, SigueEjecutando, UNCHANGED <<nuevos, listos>>
      PROVE  Efecto
  <2>1. EnCpu' = b
    BY <1>1, <1>3, CpuEnExec DEF SigueEjecutando
  <2>2. Sigue
    BY <1>0, <1>1, <1>3, <2>1 DEF SigueEjecutando, CambiaEstado, Sigue, Grupos, Inquietos
  <2>3. QED
    BY <2>2 DEF Efecto
<1>4. ASSUME pcDesalojo \in PcConPcb, TerminaProceso, UNCHANGED pcbCorto
      PROVE  Efecto
  <2>1. EnCpu' = Ninguno
    BY <1>1, <1>4, CpuLibre DEF TerminaProceso, Fin, ConCpu
  <2>2. EfDeja(listos, {"LIBERADO"})
    BY <1>0, <1>1, <1>4, <2>1 DEF TerminaProceso, CambiaEstado, EfDeja, SoloCambia, Inquietos
  <2>3. QED
    BY <2>2 DEF Efecto
<1>5. ASSUME pcDesalojo \in PcConPcb, Bloquea, pcDesalojo' \in {"io", "read_write"},
             UNCHANGED <<nuevos, listos, ejecutando, pcbDesalojo>>
      PROVE  Efecto
  <2>1. EnCpu' = b
    BY <1>1, <1>5, CpuConservada DEF ConCpu
  <2>2. Sigue
    BY <1>0, <1>1, <1>5, <2>1 DEF Bloquea, CambiaEstado, Sigue, Grupos, Inquietos
  <2>3. QED
    BY <2>2 DEF Efecto
<1>6. ASSUME pcDesalojo \in {"io", "read_write"}, NEW i, Desbloquea(i),
             UNCHANGED <<nuevos, ejecutando, pcbCorto>>
      PROVE  Efecto
  <2>1. EnCpu' = Ninguno
    BY <1>2, <1>6, CpuLibre DEF Desbloquea, Fin, ConCpu
  <2>2. EfDeja(Append(listos, EnCpu), {"READY"})
    BY <1>0, <1>2, <1>6, <2>1 DEF Desbloquea, CambiaEstado, EfDeja, SoloCambia, Inquietos
  <2>3. QED
    BY <2>2 DEF Efecto
<1>7. ASSUME UNCHANGED <<nuevos, listos, ejecutando, estado, pcbDesalojo, pcbCorto>>,
             pcDesalojo \in ConCpu <=> pcDesalojo' \in ConCpu
      PROVE  Efecto
  BY <1>7 DEF EnCpu, Sigue, Efecto

<1>10. ASSUME NEW p \in Procesos, CreaPCB(p) PROVE Efecto
  <2>1. estado[p] = "INEXISTENTE"
    BY <1>10 DEF CreaPCB, InvAbstracto, InvTodoLugar, InvLugares, ConsolaFiel
  <2>2. EnCpu' = EnCpu
    BY <1>10 DEF CreaPCB, EnCpu
  <2>3. Sigue
    BY <1>0, <1>10, <2>1, <2>2 DEF CreaPCB, Sigue, Grupos, Inquietos
  <2>4. QED
    BY <2>3 DEF Efecto
<1>11. ASSUME NEW p \in Procesos, AgregaNew(p) PROVE Efecto
  <2>1. estado[p] = "NEW" /\ p \notin Range(nuevos)
    BY <1>11 DEF AgregaNew, InvAbstracto, InvTodoLugar, InvLugares, ConsolaFiel, EstadoDeLista
  <2>2. EnCpu' = EnCpu
    BY <1>11 DEF AgregaNew, EnCpu
  <2>3. EfLlega(p)
    BY <1>11, <2>1, <2>2 DEF AgregaNew, EfLlega
  <2>4. QED
    BY <2>3 DEF Efecto
<1>12. CASE LargoInicializar \/ LargoTomaNew \/ LargoPideTabla \/ LargoRecibeTabla
  BY <1>7, <1>12 DEF LargoInicializar, LargoTomaNew, LargoPideTabla, LargoRecibeTabla
<1>13. CASE LargoAdmite
  <2>1. nuevos # <<>> /\ pcbLargo = Head(nuevos) /\ IsInjective(nuevos)
    BY <1>13 DEF LargoAdmite, PasoLargo, InvAbstracto, InvTodoLugar, CabezaDeNew, IInv,
       Forma, FormaLargo, InvLugares, SinRepetir
  <2>2. pcbLargo \in Range(nuevos) /\ pcbLargo \in Procesos
    BY <1>0, <2>1, RangoCola, RangoDeLista
  <2>3. estado[pcbLargo] = "NEW"
    BY <2>2 DEF InvAbstracto, InvTodoLugar, InvLugares, EstadoDeLista
  <2>4. EnCpu' = EnCpu
    BY <1>13 DEF LargoAdmite, EnCpu
  <2>5. EfEntra
    BY <1>0, <1>13, <2>1, <2>2, <2>3, <2>4 DEF LargoAdmite, EfEntra, SoloCambia
  <2>6. QED
    BY <2>5 DEF Efecto
<1>14. CASE CortoEsperaCpu \/ CortoEsperaListo \/ CortoAvisa
  BY <1>7, <1>14 DEF CortoEsperaCpu, CortoEsperaListo, CortoAvisa
<1>15. CASE CortoElige
  <2>1. PICK i \in Elegibles : /\ listos' = RemoveAt(listos, i)
                               /\ pcbCorto' = listos[i]
                               /\ estado' = [estado EXCEPT ![listos[i]] = "EXEC"]
    BY <1>15 DEF CortoElige
  <2>2. /\ pcCorto = "elegir" /\ listos # <<>> /\ pcbCorto = Ninguno
        /\ UNCHANGED <<nuevos, ejecutando, pcDesalojo>>
    BY <1>15 DEF CortoElige, PasoCorto, InvAbstracto, InvTodoLugar, IInv, FormaCorto
  <2>3. ejecutando = <<>> /\ pcDesalojo \notin ConCpu
    <3> DEFINE enDesalojo == Uno(pcDesalojo \in ConCpu)
    <3>1. semCpu + 1 + Len(ejecutando) + enDesalojo = 1
      BY <2>2 DEF InvAbstracto, InvCpu, UnicaCpu, Uno
    <3>2. enDesalojo \in Nat /\ (pcDesalojo \in ConCpu => enDesalojo = 1)
      BY DEF Uno
    <3> HIDE DEF enDesalojo
    <3>3. semCpu \in Nat /\ Len(ejecutando) \in Nat /\ (Len(ejecutando) = 0 => ejecutando = <<>>)
      BY <1>0, ListaVacia DEF InvAbstracto, InvTodoLugar, IInv, TypeOK, TipoSemaforos
    <3>4. Len(ejecutando) = 0 /\ enDesalojo = 0
      BY <3>1, <3>2, <3>3
    <3>5. QED
      BY <3>2, <3>3, <3>4
  <2>4. i \in DOMAIN listos /\ i \in 1..Len(listos) /\ (Algoritmo = "FIFO" => i = 1)
    BY <1>0, <2>2, ListaVacia, LenProperties DEF Elegibles
  <2>5. listos[i] \in Range(listos) /\ listos[i] \in Procesos
    BY <1>0, <2>4, ElementOfSeq DEF Range
  <2>6. estado[listos[i]] = "READY"
    BY <2>5 DEF InvAbstracto, InvTodoLugar, InvLugares, EstadoDeLista
  <2>7. EnCpu = Ninguno /\ EnCpu' = listos[i]
    BY <1>0, <2>1, <2>2, <2>3 DEF CpuDefinida, EnCpu
  <2>8. EfDespacha(i)
    BY <1>0, <2>1, <2>2, <2>4, <2>5, <2>6, <2>7 DEF EfDespacha, SoloCambia
  <2>9. QED
    BY <2>4, <2>8 DEF Efecto
<1>40. CASE CortoAgrega
  <2>1. /\ pcCorto = "agregar" /\ ejecutando' = Append(ejecutando, pcbCorto)
        /\ UNCHANGED <<nuevos, listos, estado>>
    BY <1>40 DEF CortoAgrega, PasoCorto
  <2>2. pcbCorto \in Procesos
    BY <2>1 DEF InvAbstracto, InvTodoLugar, IInv, FormaCorto
  <2>3. ejecutando = <<>> /\ EnCpu = pcbCorto
    BY <1>0, <2>2 DEF CpuDefinida
  <2>4. EnCpu' = EnCpu
    BY <2>1, <2>3, CpuEnExec
  <2>5. QED
    BY <2>1, <2>4 DEF Sigue, Efecto
<1>16. CASE DesalojoToma
  <2>1. /\ ejecutando # <<>> /\ ejecutando' = Tail(ejecutando)
        /\ pcbDesalojo' = Head(ejecutando) /\ pcDesalojo' = "cpu"
        /\ UNCHANGED <<nuevos, listos, estado>>
    BY <1>16 DEF DesalojoToma
  <2>2. EnCpu = Head(ejecutando) /\ Len(ejecutando) = 1
    BY <1>0, <2>1, HeadTailProperties DEF CpuDefinida
  <2>3. ejecutando' = <<>>
    <3>1. Len(Tail(ejecutando)) = 0 /\ Tail(ejecutando) \in Seq(Procesos)
      BY <1>0, <2>1, <2>2, HeadTailProperties
    <3>2. QED
      BY <2>1, <3>1, EmptySeq
  <2>4. EnCpu' = EnCpu
    BY <2>1, <2>2, <2>3, CpuConservada DEF ConCpu
  <2>5. QED
    BY <2>1, <2>4 DEF Sigue, Efecto
<1>17. CASE DesalojoSinProceso
  BY <1>7, <1>17 DEF DesalojoSinProceso
<1>18. CASE Exit
  BY <1>4, <1>18 DEF Exit, PcConPcb, ConCpu
<1>19. CASE SegmentationFault
  BY <1>4, <1>19 DEF SegmentationFault, Devuelto, PcConPcb, ConCpu
<1>20. CASE RecursoInexistente
  BY <1>4, <1>20 DEF RecursoInexistente, Devuelto, PcConPcb, ConCpu
<1>21. CASE CreateSegmentSinMemoria
  BY <1>4, <1>21 DEF CreateSegmentSinMemoria, Responde, PcConPcb, ConCpu
<1>22. ASSUME NEW r \in Recursos, WaitConcedido(r) PROVE Efecto
  BY <1>3, <1>22 DEF WaitConcedido, Devuelto, PcConPcb, ConCpu
<1>23. CASE CreateSegmentOk
  BY <1>3, <1>23 DEF CreateSegmentOk, Responde, PcConPcb, ConCpu
<1>24. CASE DeleteSegmentOk
  BY <1>3, <1>24 DEF DeleteSegmentOk, PcConPcb, ConCpu
<1>25. CASE Yield
  <2>1. EnCpu' = Ninguno /\ pcDesalojo \in PcConPcb
    BY <1>1, <1>25, CpuLibre DEF Yield, Devuelto, Fin, PcConPcb, ConCpu
  <2>2. EfDeja(Append(listos, EnCpu), {"READY"})
    BY <1>0, <1>1, <1>25, <2>1 DEF Yield, CambiaEstado, EfDeja, SoloCambia, Inquietos
  <2>3. QED
    BY <2>2 DEF Efecto
<1>26. CASE IO
  BY <1>5, <1>26 DEF IO, Devuelto, Fin, PcConPcb, ConCpu
<1>27. ASSUME NEW f \in Archivos, FReadWrite(f) PROVE Efecto
  <2>1. /\ pcDesalojo = "cpu" /\ pcDesalojo' = "read_write" /\ Bloquea
        /\ UNCHANGED <<nuevos, listos, ejecutando, pcbDesalojo>>
    BY <1>27 DEF FReadWrite, Devuelto, Fin
  <2>2. QED
    BY <1>5, <2>1 DEF PcConPcb, ConCpu
<1>28. CASE FinIO
  BY <1>6, <1>28 DEF FinIO
<1>29. CASE FinFReadWrite
  BY <1>6, <1>29 DEF FinFReadWrite
<1>30. CASE FTruncate
  <2>1. EnCpu' = Ninguno /\ pcDesalojo \in PcConPcb
    BY <1>1, <1>30, CpuLibre DEF FTruncate, Devuelto, Fin, PcConPcb, ConCpu
  <2>2. EfDeja(listos, Inquietos)
    BY <1>0, <1>1, <1>30, <2>1
    DEF FTruncate, Bloquea, CambiaEstado, EfDeja, SoloCambia, Inquietos
  <2>3. QED
    BY <2>2 DEF Efecto
<1>31. CASE FinFTruncate
  <2>1. /\ pcDesalojo = "truncate" /\ pcDesalojo' = "executing"
        /\ UNCHANGED <<nuevos, ejecutando, pcbCorto>>
        /\ listos' = Append(listos, b) /\ estado' = [estado EXCEPT ![b] = "READY"]
    BY <1>31 DEF FinFTruncate, Desbloquea, CambiaEstado, Fin
  <2>2. b \in Procesos /\ bloqueados = <<b>>
    BY <2>1 DEF InvAbstracto, InvTodoLugar, IInv, Forma, FormaDesalojo, FormaBloqueados,
       Bloqueantes
  <2>3. b \in Range(bloqueados)
    BY <2>2 DEF Range
  <2>4. estado[b] = "BLOCKED"
    BY <2>2, <2>3 DEF InvAbstracto, InvTodoLugar, InvLugares, EstadoDeLista
  <2>5. EnCpu' = EnCpu /\ b # EnCpu
    <3>1. EnCpu' = EnCpu
      BY <2>1 DEF EnCpu, ConCpu
    <3>2. EnCpu = Ninguno \/ estado[EnCpu] = "EXEC"
      BY <1>0, <2>1 DEF CpuDefinida, ConCpu
    <3>3. QED
      BY <1>0, <2>2, <2>4, <3>1, <3>2
  <2>6. EfVuelve(b)
    BY <1>0, <2>1, <2>2, <2>4, <2>5 DEF EfVuelve, SoloCambia, Inquietos
  <2>7. QED
    BY <2>2, <2>6 DEF Efecto
<1>32. ASSUME NEW r \in Recursos, WaitBloquea(r) PROVE Efecto
  <2>1. EnCpu' = Ninguno /\ pcDesalojo \in PcConPcb
    BY <1>1, <1>32, CpuLibre DEF WaitBloquea, Devuelto, Fin, PcConPcb, ConCpu
  <2>2. EfDeja(listos, Inquietos)
    BY <1>0, <1>1, <1>32, <2>1 DEF WaitBloquea, EfDeja, SoloCambia, Inquietos
  <2>3. QED
    BY <2>2 DEF Efecto
<1>33. ASSUME NEW r \in Recursos, Signal(r) PROVE Efecto
  <2>1. /\ pcDesalojo \in PcConPcb /\ ejecutando' = Append(ejecutando, b)
        /\ nuevos' = nuevos
    BY <1>33 DEF Signal, Devuelto, PcConPcb, ConCpu
  <2>2. EnCpu' = EnCpu /\ EnCpu = b
    BY <1>1, <2>1, CpuEnExec
  <2>3. CASE ~Despierta(r)
    <3>1. Sigue
      BY <1>0, <1>1, <1>33, <2>1, <2>2, <2>3 DEF Signal, CambiaEstado, Sigue, Grupos, Inquietos
    <3>2. QED
      BY <3>1 DEF Efecto
  <2>4. CASE Despierta(r)
    <3> DEFINE q == Head(colaRecurso[r])
    <3>1. /\ listos' = Append(listos, q)
          /\ estado' = [estado EXCEPT ![b] = "EXEC", ![q] = "READY"]
      BY <1>33, <2>4 DEF Signal
    <3>2. /\ colaRecurso[r] # <<>> /\ colaRecurso[r] \in Seq(Procesos)
          /\ IsInjective(colaRecurso[r])
      BY <2>4 DEF Despierta, InvAbstracto, InvTodoLugar, IInv, TypeOK, TipoRecursos,
         InvLugares, SinRepetir
    <3>3. q \in Range(colaRecurso[r]) /\ q \in Procesos
      BY <3>2, RangoCola, RangoDeLista
    <3>4. estado[q] = "EXEC" /\ q # b
      BY <1>1, <2>1, <3>3 DEF InvAbstracto, InvTodoLugar, InvLugares, EstadoDeLista, EnCola
    <3> HIDE DEF q
    <3>5. EfVuelve(q)
      BY <1>0, <1>1, <2>1, <2>2, <3>1, <3>3, <3>4 DEF EfVuelve, SoloCambia, Inquietos
    <3>6. QED
      BY <3>3, <3>5 DEF Efecto
  <2>5. QED
    BY <2>3, <2>4
<1>34. CASE PideSegmento
  BY <1>7, <1>34 DEF PideSegmento, Devuelto, Fin, ConCpu
<1>35. CASE TomaMemoria
  BY <1>7, <1>35 DEF TomaMemoria, ConCpu
<1>36. CASE CreateSegmentCompacta
  <2>1. ~reintento
    BY <1>36 DEF CreateSegmentCompacta, Responde, CpuBienRepuesta
  <2>2. QED
    BY <1>7, <1>36, <2>1 DEF CreateSegmentCompacta, Responde, ConCpu
<1>37. ASSUME NEW f \in Archivos, FOpenOcupado(f) \/ FOpen(f) \/ FClose(f) \/ FSeek(f)
                           \/ ArchivoNoAbierto(f) PROVE Efecto
  BY <1>37 DEF FOpenOcupado, FOpen, FClose, FSeek, ArchivoNoAbierto, Devuelto,
     CpuBienRepuesta
<1>38. CASE UNCHANGED vars
  BY <1>7, <1>38 DEF vars
<1>39. QED
  BY <1>10, <1>11, <1>12, <1>13, <1>14, <1>15, <1>16, <1>17, <1>18, <1>19,
     <1>20, <1>21, <1>22, <1>23, <1>24, <1>25, <1>26, <1>27, <1>28, <1>29,
     <1>30, <1>31, <1>32, <1>33, <1>34, <1>35, <1>36, <1>37, <1>38, <1>40
  DEF Next, Consola, LargoPlazo, CortoPlazo, Desalojo, ManejoInstrucciones

-----------------------------------------------------------------------------
(* The invariants hold from the initial state on.                          *)
LEMMA AbstractoSiempre ==
  ASSUME CpuBienRepuesta
  PROVE  Spec => []InvAbstracto
<1>1. Init => InvAbstracto
  <2> SUFFICES ASSUME Init PROVE InvAbstracto
    OBVIOUS
  <2>1. InvCpu
    BY DEF Init, InvCpu, UnicaCpu, AvisoNoSePierde, Uno, ConCpu
  <2>2. Admitidos = {} /\ semGrado = Grado /\ Grado \in Nat
    BY ConstantesOK DEF Init, Admitidos
  <2>3. GradoContado
    BY <2>2, FS_EmptySet DEF GradoContado
  <2>4. QED
    BY <2>1, <2>3, InicioLugares DEF InvAbstracto
<1>2. InvAbstracto /\ [Next]_vars => InvAbstracto'
  <2> SUFFICES ASSUME InvAbstracto, [Next]_vars PROVE InvAbstracto'
    OBVIOUS
  <2>1. InvTodoLugar' /\ GradoContado'
    BY PasoLugares, PasoGrado DEF InvAbstracto
  <2>2. NadiePerdido'
    BY CpuBienRepuesta, Clasifica, MovimientoGuarda
    DEF InvAbstracto, InvTodoLugar, IInv, TypeOK, Objetivo, CpuBienRepuesta,
        OtraCompactacion, MismosPerdidos, NadiePerdido
  <2>3. InvCpu'
    BY CpuBienRepuesta, PasoCpu DEF InvAbstracto, InvTodoLugar
  <2>4. QED
    BY <2>1, <2>2, <2>3 DEF InvAbstracto
<1>3. QED
  BY <1>1, <1>2, PTL DEF Spec

(* The kernel does what Multiprogramacion says: its three threads, six     *)
(* lists and seven semaphores admit in order and up to the degree, give    *)
(* the CPU to one process at a time in the order of READY and let none     *)
(* leave a queue without entering the next place.                          *)
THEOREM KernelImplementaMultiprogramacion ==
  ASSUME CpuBienRepuesta
  PROVE  Spec => ImplementaMultiprogramacion
<1>1. Init => Abstracto!Init
  <2> SUFFICES ASSUME Init PROVE Abstracto!Init
    OBVIOUS
  <2>1. EnCpu = Ninguno /\ Admitidos = {}
    BY DEF Init, EnCpu, ConCpu, Admitidos
  <2>2. EnEspera = {} /\ {p \in Procesos : estado[p] = "LIBERADO"} = {}
    BY <2>1 DEF Init, EnEspera
  <2>3. QED
    BY <2>1, <2>2 DEF Init, Abstracto!Init
<1>2. InvAbstracto /\ InvAbstracto' /\ [Next]_vars => [Abstracto!Next]_Abstracto!vars
  BY CpuBienRepuesta, Efectos, EfectoAbstracto
<1>3. Spec => []InvAbstracto
  BY CpuBienRepuesta, AbstractoSiempre
<1>4. QED
  BY <1>1, <1>2, <1>3, PTL DEF Spec, Abstracto!Spec, ImplementaMultiprogramacion
=============================================================================
