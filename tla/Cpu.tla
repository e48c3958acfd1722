-------------------------------- MODULE Cpu --------------------------------
(***************************************************************************)
(* The CPU module (src/modules/cpu/src/cpu.c), the thread of memory that   *)
(* serves it (ejecutar_cpu_pedido of memoria.c) and the loop of the kernel *)
(* that sends it a PCB and waits for it (manejo_desalojo_pcb).             *)
(*                                                                         *)
(* The unit is a word of 4 bytes: registros_cpu is an array of words in    *)
(* which a register takes 1, 2 or 4, one after the other. A word is full   *)
(* (four characters) or it ends the string it is in: a short one, Vacio    *)
(* (its first byte is 0) or Basura (bytes nobody wrote). Everything is     *)
(* copied with strcpy, so that a value that fills its register ends in the *)
(* first byte of the next one.                                             *)
(***************************************************************************)
EXTENDS Integers, Sequences, FiniteSets, FiniteSetsExt

CONSTANTS
  Procesos,
  Registros,           (* the registers of registros_cpu                   *)
  Tamanio, Base,       (* register -> its words, and the first of them     *)
  Palabras,            (* the words of registros_cpu                       *)
  Llenas,              (* the full words                                   *)
  Programas,           (* lists of instructions a process may have         *)
  Segmentos,           (* the segment table of a process: id -> size       *)
  TAM_MAX_SEGMENTO,
  TAM_MEMORIA

Mov == {"MOV_IN", "MOV_OUT"}
DeArchivo == {"F_READ", "F_WRITE"}

(* The parameters an instruction is read with.                             *)
Parametros(i) ==
  /\ i.op \in Mov \union {"SET"} => i.registro \in Registros
  /\ i.op \in Mov => i.dir \in Nat
  /\ i.op = "SET" => Len(i.valor) \in Nat
  /\ i.op = "CREATE_SEGMENT" => i.n \in Nat

EnRegistro(i, r) == i \in Base[r] .. Base[r] + Tamanio[r] - 1

Vacio == "vacio"
Basura == "basura"
Ninguna == "ninguna"   (* ultimaOperacion = -1                             *)

(* Each word of registros_cpu belongs to one register. Every program ends  *)
(* with EXIT, and only there.                                              *)
ASSUME CpuOK ==
  /\ TAM_MAX_SEGMENTO \in Nat \ {0} /\ TAM_MEMORIA \in Nat \ {0}
  /\ \A i \in DOMAIN Segmentos : Segmentos[i] \in 0 .. TAM_MEMORIA
  /\ Palabras \in Nat /\ {Vacio, Basura} \cap Llenas = {}
  /\ \A r \in Registros : Tamanio[r] \in {1, 2, 4} /\ Base[r] \in 1 .. Palabras
  /\ \A i \in 1 .. Palabras :
       \E r \in Registros : \A q \in Registros : EnRegistro(i, q) <=> q = r
  /\ \A p \in Programas :
       /\ Len(p) \in Nat \ {0} /\ DOMAIN p = 1 .. Len(p)
       /\ \A i \in DOMAIN p : (p[i].op = "EXIT" <=> i = Len(p)) /\ Parametros(p[i])

-----------------------------------------------------------------------------
(* registros_cpu and strcpy.                                               *)

Contexto == 1 .. Palabras + 1      (* one more word follows the struct      *)
Inicios == {Base[r] : r \in Registros}

(* Where the register that has the word i starts.                          *)
Inicio(i) == Max({b \in Inicios : b <= i})

Termina(palabra) == palabra \notin Llenas

(* A string goes on to the word i if no word before it ended it.           *)
Sigue(palabras, desde, i) == \A j \in desde .. i - 1 : ~ Termina(palabras[j])

Valor(contexto, r) == [i \in 1 .. Tamanio[r] |-> contexto[Base[r] + i - 1]]

(* What a program sees in its registers: the words of each string.         *)
Visible(contexto) ==
  {<<i, contexto[i]>> : i \in {j \in 1 .. Palabras : Sigue(contexto, Inicio(j), j)}}

(* strcpy of a value to a register. If the value fills its buffer it goes  *)
(* on with the byte that follows the buffer.                               *)
Copia(contexto, r, valor, sigue) ==
  [i \in Contexto |->
     LET n == i - Base[r] + 1
     IN  IF n < 1 \/ n > Len(valor) + 1 THEN contexto[i]
         ELSE IF ~ Sigue(valor, 1, n) THEN contexto[i]
         ELSE IF n > Len(valor) THEN sigue ELSE valor[n]]

(* strcpy of every register, from the first to the last: each string goes  *)
(* on until it ends, and every one of them writes in a word what the       *)
(* source has in it, so that only the words after an end are left alone.   *)
CopiaContexto(de, a) ==
  [i \in Contexto |-> IF Sigue(de, Inicio(i), i) THEN de[i] ELSE a[i]]

SinEscribir == [i \in Contexto |-> Basura]

(* Faulty variant: the registers are copied from the last to the first.    *)
RecibeRegistrosAlReves(contexto) ==
  LET copia == CopiaContexto(contexto, SinEscribir)
  IN  [i \in Contexto |->
         IF i \in Inicios \ {1} /\ Sigue(contexto, Inicio(i - 1), i) THEN Basura
         ELSE copia[i]]

(* recibir_pcb: leer_texto copies each register to a buffer of its size,   *)
(* with no room for the end. What follows a value that fills its buffer    *)
(* is written in the next register, which is copied afterwards.            *)
RecibeRegistros(contexto) == CopiaContexto(contexto, SinEscribir)

-----------------------------------------------------------------------------
VARIABLES
  programa,   \* the instructions of each process
  pcbs,       \* the kernel's PCBs
  vivos,      \* the processes that have not ended
  kernel,     \* what the eviction thread waits for
  aCpu, aKernel, aMemoria, deMemoria,  \* messages in the sockets
  registros,  \* registrosCpu
  cpu,        \* where the CPU is and the PCB it has
  memoria,    \* memoria_principal
  propio      \* ghost: the registers of each process as if it were alone

vars == <<programa, pcbs, vivos, kernel, aCpu, aKernel, aMemoria, deMemoria,
          registros, cpu, memoria, propio>>
vKernel == <<programa, pcbs, vivos, kernel, aCpu>>
vMemoria == <<aMemoria, deMemoria, memoria>>

SinPcb == [pid |-> Ninguna]

(* nuevo_proceso and inicializar_registros: each register has its name.    *)
ContextoInicial ==
  [i \in Contexto |-> IF i \in Inicios THEN CHOOSE r \in Registros : Base[r] = i ELSE Basura]

Init ==
  /\ programa \in [Procesos -> Programas]
  /\ pcbs = [p \in Procesos |-> [pid |-> p, contador |-> 1, segmentos |-> Segmentos,
                                 registros |-> ContextoInicial]]
  /\ vivos = Procesos
  /\ kernel = [paso |-> "libre", pid |-> Ninguna]
  /\ aCpu = <<>> /\ aKernel = <<>> /\ aMemoria = <<>> /\ deMemoria = <<>>
  /\ registros = ContextoInicial
  /\ cpu = [paso |-> "libre", pcb |-> SinPcb, op |-> Ninguna]
  /\ memoria = [i \in 0 .. TAM_MEMORIA - 1 |-> Basura]
  /\ propio = [p \in Procesos |-> ContextoInicial]

-----------------------------------------------------------------------------
(* The kernel. Any process that has not ended may be the next one.         *)

EnviaPcb(p) ==
  /\ kernel.paso = "libre" /\ p \in vivos
  /\ aCpu' = Append(aCpu, pcbs[p])
  /\ kernel' = [paso |-> "espera", pid |-> p]
  /\ UNCHANGED <<programa, pcbs, vivos, aKernel, vMemoria, registros, cpu, propio>>

(* What the handlers do to the segment table.                              *)
TrasInstruccion(segmentos, i) ==
  CASE i.op = "CREATE_SEGMENT" ->
         [s \in DOMAIN segmentos \union {i.id} |-> IF s = i.id THEN i.n ELSE segmentos[s]]
    [] i.op = "DELETE_SEGMENT" -> [s \in DOMAIN segmentos \ {i.id} |-> segmentos[s]]
    [] OTHER -> segmentos

(* recibir_proceso_desajolado; the handler looks at the instruction of the *)
(* counter, and for F_READ and F_WRITE it receives another message.        *)
RecibeDesalojo ==
  /\ kernel.paso = "espera" /\ aKernel # <<>> /\ Head(aKernel).tipo = "pcb"
  /\ LET m == Head(aKernel)
         p == m.pcb.pid
     IN  /\ p = kernel.pid
         /\ pcbs' = [pcbs EXCEPT ![p] =
              [m.pcb EXCEPT !.contador = @ + 1,
                            !.registros = RecibeRegistros(@),
                            !.segmentos = TrasInstruccion(@, programa[p][m.pcb.contador])]]
         /\ vivos' = IF m.op \in {"EXIT", "SEGMENTATION_FAULT"} THEN vivos \ {p} ELSE vivos
         /\ kernel' = IF m.op \in DeArchivo THEN [kernel EXCEPT !.paso = "direccion"]
                      ELSE [paso |-> "libre", pid |-> Ninguna]
  /\ aKernel' = Tail(aKernel)
  /\ UNCHANGED <<programa, aCpu, vMemoria, registros, cpu, propio>>

RecibeDireccion ==
  /\ kernel.paso = "direccion" /\ aKernel # <<>> /\ Head(aKernel).tipo = "direccion"
  /\ kernel' = [paso |-> "libre", pid |-> Ninguna]
  /\ aKernel' = Tail(aKernel)
  /\ UNCHANGED <<programa, pcbs, vivos, aCpu, vMemoria, registros, cpu, propio>>

-----------------------------------------------------------------------------
(* The CPU.                                                                *)

(* atender_kernel, recibir_pcb, cargar_registros.                          *)
RecibePcb ==
  /\ cpu.paso = "libre" /\ aCpu # <<>>
  /\ LET pcb == [Head(aCpu) EXCEPT !.registros = RecibeRegistros(@)]
     IN  /\ cpu' = [paso |-> "ejecuta", pcb |-> pcb, op |-> Ninguna]
         /\ registros' = CopiaContexto(pcb.registros, registros)
  /\ aCpu' = Tail(aCpu)
  /\ UNCHANGED <<programa, pcbs, vivos, kernel, aKernel, vMemoria, propio>>

Instruccion == programa[cpu.pcb.pid][cpu.pcb.contador]

Ejecuta(ops) == cpu.paso = "ejecuta" /\ Instruccion.op \in ops

Avanza(op) == cpu' = [cpu EXCEPT !.paso = "ejecuta", !.op = op, !.pcb.contador = @ + 1]

(* instruccion_set, in the CPU and in the registers the process would have *)
(* if it were alone.                                                       *)
InstruccionSet(r, valor, sigue) ==
  /\ registros' = Copia(registros, r, valor, sigue)
  /\ propio' = [propio EXCEPT ![cpu.pcb.pid] = Copia(@, r, valor, sigue)]

Set ==
  /\ Ejecuta({"SET"})
  /\ InstruccionSet(Instruccion.registro, Instruccion.valor, Vacio)
  /\ Avanza("SET")
  /\ UNCHANGED <<vKernel, aKernel, vMemoria>>

TamanioSegmento(segmentos, id) == IF id \in DOMAIN segmentos THEN segmentos[id] ELSE -1

(* Faulty variant: the last word of the segment is not counted.            *)
DireccionFisicaDeMas(pcb, dir, tam) ==
  LET desplazamiento == dir % TAM_MAX_SEGMENTO
  IN  IF desplazamiento + tam - 1 > TamanioSegmento(pcb.segmentos, dir \div TAM_MAX_SEGMENTO)
      THEN -1 ELSE desplazamiento

(* obtener_direcc_fisica: the address is the offset, without the base.     *)
DireccionFisica(pcb, dir, tam) ==
  LET desplazamiento == dir % TAM_MAX_SEGMENTO
  IN  IF desplazamiento + tam > TamanioSegmento(pcb.segmentos, dir \div TAM_MAX_SEGMENTO)
      THEN -1 ELSE desplazamiento

DireccionMov == DireccionFisica(cpu.pcb, Instruccion.dir, Tamanio[Instruccion.registro])

FallaDeSegmento ==
  /\ Ejecuta(Mov) /\ DireccionMov = -1
  /\ cpu' = [cpu EXCEPT !.paso = "desaloja", !.op = "SEGMENTATION_FAULT"]
  /\ UNCHANGED <<vKernel, aKernel, vMemoria, registros, propio>>

PideMov(op, valor, paso) ==
  /\ Ejecuta({op}) /\ DireccionMov # -1
  /\ aMemoria' = Append(aMemoria, [op |-> op, pid |-> cpu.pcb.pid, dir |-> DireccionMov,
                                   tam |-> Tamanio[Instruccion.registro],
                                   valor |-> valor])
  /\ cpu' = [cpu EXCEPT !.paso = paso]
  /\ UNCHANGED <<vKernel, aKernel, deMemoria, memoria, registros, propio>>

MovIn == PideMov("MOV_IN", <<>>, "lectura")

(* obtener_valor_registro reads the global registers, all their words.     *)
MovOut == PideMov("MOV_OUT", Valor(registros, Instruccion.registro), "escritura")

(* Faulty variant: the counter stays.                                      *)
RecibeValorSinAvanzar ==
  /\ cpu.paso = "lectura" /\ deMemoria # <<>>
  /\ \E sigue \in {Vacio, Basura} :
       InstruccionSet(Instruccion.registro, Head(deMemoria), sigue)
  /\ deMemoria' = Tail(deMemoria)
  /\ cpu' = [cpu EXCEPT !.paso = "ejecuta", !.op = "MOV_IN"]
  /\ UNCHANGED <<vKernel, aKernel, aMemoria, memoria>>

(* recibir_valor_a_escribir: the buffer has no room for the end either.    *)
RecibeValor ==
  /\ cpu.paso = "lectura" /\ deMemoria # <<>>
  /\ \E sigue \in {Vacio, Basura} :
       InstruccionSet(Instruccion.registro, Head(deMemoria), sigue)
  /\ deMemoria' = Tail(deMemoria)
  /\ Avanza("MOV_IN")
  /\ UNCHANGED <<vKernel, aKernel, aMemoria, memoria>>

RecibeConfirmacion ==
  /\ cpu.paso = "escritura" /\ deMemoria # <<>>
  /\ deMemoria' = Tail(deMemoria)
  /\ Avanza("MOV_OUT")
  /\ UNCHANGED <<vKernel, aKernel, aMemoria, memoria, registros, propio>>

(* Faulty variant: the counter goes on.                                    *)
InterrumpeYAvanza ==
  /\ cpu.paso = "ejecuta" /\ Instruccion.op \notin Mov \union {"SET"}
  /\ cpu' = [cpu EXCEPT !.paso = "desaloja", !.op = Instruccion.op, !.pcb.contador = @ + 1]
  /\ UNCHANGED <<vKernel, aKernel, vMemoria, registros, propio>>

(* hubo_interrupcion: every other instruction is the kernel's.             *)
Interrumpe ==
  /\ cpu.paso = "ejecuta" /\ Instruccion.op \notin Mov \union {"SET"}
  /\ cpu' = [cpu EXCEPT !.paso = "desaloja", !.op = Instruccion.op]
  /\ UNCHANGED <<vKernel, aKernel, vMemoria, registros, propio>>

(* Faulty variant: an address follows every instruction that has one.      *)
DesalojaConDireccion ==
  /\ cpu.paso = "desaloja"
  /\ LET pcb == [cpu.pcb EXCEPT !.registros = CopiaContexto(registros, @)]
     IN  /\ aKernel' = Append(aKernel, [tipo |-> "pcb", op |-> cpu.op, pcb |-> pcb])
         /\ cpu' = [cpu EXCEPT
              !.pcb = pcb,
              !.paso = IF "dir" \in DOMAIN Instruccion THEN "direccion" ELSE "libre"]
  /\ UNCHANGED <<vKernel, vMemoria, registros, propio>>

(* guardar_contexto_de_ejecucion and enviar_pcb.                           *)
Desaloja ==
  /\ cpu.paso = "desaloja"
  /\ LET pcb == [cpu.pcb EXCEPT !.registros = CopiaContexto(registros, @)]
     IN  /\ aKernel' = Append(aKernel, [tipo |-> "pcb", op |-> cpu.op, pcb |-> pcb])
         /\ cpu' = [cpu EXCEPT
              !.pcb = pcb,
              !.paso = IF cpu.op \in DeArchivo THEN "direccion" ELSE "libre"]
  /\ UNCHANGED <<vKernel, vMemoria, registros, propio>>

(* The address may be -1: it is not looked at.                             *)
EnviaDireccion ==
  /\ cpu.paso = "direccion"
  /\ aKernel' = Append(aKernel, [tipo |-> "direccion",
                 dir |-> DireccionFisica(cpu.pcb, Instruccion.dir, Instruccion.n)])
  /\ cpu' = [cpu EXCEPT !.paso = "libre"]
  /\ UNCHANGED <<vKernel, vMemoria, registros, propio>>

-----------------------------------------------------------------------------
(* Memory: ejecutar_cpu_pedido.                                            *)

AtiendeMovIn ==
  /\ aMemoria # <<>> /\ Head(aMemoria).op = "MOV_IN"
  /\ LET m == Head(aMemoria)
     IN  deMemoria' = Append(deMemoria, [i \in 1 .. m.tam |-> memoria[m.dir + i - 1]])
  /\ aMemoria' = Tail(aMemoria)
  /\ UNCHANGED <<vKernel, aKernel, memoria, registros, cpu, propio>>

AtiendeMovOut ==
  /\ aMemoria # <<>> /\ Head(aMemoria).op = "MOV_OUT"
  /\ LET m == Head(aMemoria)
     IN  memoria' = [i \in DOMAIN memoria |->
           IF i >= m.dir /\ i < m.dir + m.tam THEN m.valor[i - m.dir + 1] ELSE memoria[i]]
  /\ deMemoria' = Append(deMemoria, <<>>)
  /\ aMemoria' = Tail(aMemoria)
  /\ UNCHANGED <<vKernel, aKernel, registros, cpu, propio>>

PasoKernel == RecibeDesalojo \/ RecibeDireccion
PasoCpu ==
  \/ RecibePcb \/ Set \/ FallaDeSegmento \/ MovIn \/ MovOut
  \/ RecibeValor \/ RecibeConfirmacion \/ Interrumpe \/ Desaloja \/ EnviaDireccion
PasoMemoria == AtiendeMovIn \/ AtiendeMovOut

Next == (\E p \in Procesos : EnviaPcb(p)) \/ PasoKernel \/ PasoCpu \/ PasoMemoria

(* Three threads that run whenever they are not waiting; the kernel need   *)
(* not send another process.                                               *)
Spec ==
  /\ Init /\ [][Next]_vars
  /\ WF_vars(PasoKernel) /\ WF_vars(PasoCpu) /\ WF_vars(PasoMemoria)

-----------------------------------------------------------------------------
(* Properties.                                                             *)

(* A process finds in its registers what it left there, whatever the       *)
(* others did on the same CPU in between: copied five times with strcpy    *)
(* on every turn (kernel, message, PCB, CPU, PCB, message), overlapping    *)
(* values included, they read as if the process were alone.                *)
ContextoPropio ==
  /\ \A p \in Procesos :
       p # kernel.pid => Visible(pcbs[p].registros) = Visible(propio[p])
  /\ cpu.paso \notin {"libre", "direccion"} =>
       Visible(registros) = Visible(propio[cpu.pcb.pid])

(* The instruction at the counter of the PCB that the CPU returns, which   *)
(* the kernel decodes again, is the one whose code comes with it; or it is *)
(* a MOV and the code is SEGMENTATION_FAULT.                               *)
DesalojoEsDelContador ==
  aKernel # <<>> /\ Head(aKernel).tipo = "pcb" =>
    LET m == Head(aKernel)
        op == programa[m.pcb.pid][m.pcb.contador].op
    IN  m.op = op \/ (m.op = "SEGMENTATION_FAULT" /\ op \in Mov)

(* Kernel and CPU agree on how many messages an eviction has: when the     *)
(* kernel is free to send a process there is nothing left in the sockets   *)
(* and the CPU is waiting for it, and the kernel never finds an address    *)
(* where it expects a PCB, nor the other way round.                        *)
MensajesAparejados ==
  /\ kernel.paso = "libre" =>
       cpu.paso = "libre" /\ aCpu = <<>> /\ aKernel = <<>> /\ aMemoria = <<>> /\ deMemoria = <<>>
  /\ kernel.paso = "espera" /\ aKernel # <<>> => Head(aKernel).tipo = "pcb"
  /\ kernel.paso = "direccion" /\ aKernel # <<>> => Head(aKernel).tipo = "direccion"
  /\ Len(aCpu) <= 1 /\ Len(aKernel) <= 2 /\ Len(aMemoria) + Len(deMemoria) <= 1

(* An access that reached memory is inside the segment the kernel has in   *)
(* its table for the process, to the last word.                            *)
AccesoEnSegmento ==
  aMemoria # <<>> =>
    LET m == Head(aMemoria)
        dir == programa[m.pid][cpu.pcb.contador].dir
    IN  (dir % TAM_MAX_SEGMENTO) + m.tam
          <= TamanioSegmento(pcbs[m.pid].segmentos, dir \div TAM_MAX_SEGMENTO)

(* A process that is sent to the CPU comes back.                           *)
VuelveAlKernel == kernel.paso # "libre" ~> kernel.paso = "libre"
=============================================================================
