# TUKI: verification project

TUKI is a teaching operating system in C, five programs that talk over TCP:
a **kernel** that schedules processes, a **CPU** that runs their instructions, a
**memory** with segments, a **file system** over a file of blocks, and a **console**
that submits a program. This directory holds TLA+ modules that model them, the TLC
configurations that check the models on small instances, two refinements, and TLAPS
proofs about the kernel, the identifiers, the HRRN choice, the CPU, the memory, the file
system, and the kernel and the memory together. `PROJECT.json` lists every run, every
mutant, the lines of code behind each definition, the hazards and the findings.

    tlc -workers 2 -config planificador_base.cfg MCPlanificador
    tlapm PlanificadorProofs.tla

## 1. The system

| Part | State | Operations | Talks to |
|---|---|---|---|
| Kernel, console threads (`kernel.c:75-166`) | `contadorProcesoId`, list NEW | one thread per console: create the PCB, queue it | console |
| Kernel, long-term scheduler (`kernel.c:87-140`) | NEW, degree of multiprogramming | ask memory for the segment table, admit into READY | memory, under `mutex_memoria` |
| Kernel, dispatcher (`kernel.c:221-253`) | READY, EXEC, `sem_cpu_disponible`, estimates and marks of the processes | FIFO or HRRN choice, announcement to the eviction thread | eviction thread |
| Kernel, eviction thread (`kernel.c:255-630`) | EXEC, BLOCKED, resources, open files, segment tables of the PCBs | send the PCB to the CPU, wait for it, run the handler of the instruction it stopped at | CPU, memory, file system |
| Memory (`memoria.c`) | `lista_huecos`, `tabla_segmentos_global`, `memoria_principal` | one thread per client: kernel (tables, create, delete, compact), CPU (MOV_IN, MOV_OUT), file system | the three |
| CPU (`cpu.c`) | global registers, `hubo_interrupcion` | fetch loop, SET, MOV_IN, MOV_OUT, MMU; any other instruction goes back to the kernel | kernel, memory |
| File system (`fileSystem/src`) | FCBs in memory and on disk, bitmap (mmap), file of blocks | F_OPEN, create, F_TRUNCATE, F_READ, F_WRITE, one request at a time | kernel, memory |
| Utils (`utils/src/shared`) | none | packets, PCB serialization, sockets | all |
| Console (`consola.c`) | none | reads a text, sends its lines | kernel |

The hard behaviour and what correctness means in each part:

* **Kernel.** Three long-lived threads and one per console share five lists with a
  mutex each, four counting semaphores and a mutex used as a binary semaphore across
  threads. A handler keeps a process in a local variable while it waits for a sleep, a
  reply or a mutex. Correct means: no process lost, duplicated or used after it is
  freed; credits of semaphores equal to what they count; one process on the CPU; the
  degree respected; resources never granted beyond their instances; every process ends.
* **HRRN.** The dispatcher compares marks and estimates that the eviction thread writes
  without READY's semaphore, some of them after the process is already in the list, and
  removes the process it chose by an identifier. Correct means: what is compared is of
  this stay in READY, nobody is overtaken without reason, and the chosen one is removed.
* **Memory.** Splitting, merging and compaction of an ordered list searched by base, and
  two copies (memory's and the kernel's) of every segment table. Correct means: holes
  tile the memory, segments never overlap, an occupied hole has an owner, the copies agree.
* **CPU.** Registers without room for the end of a string, copied with `strcpy` through
  five places per turn; an eviction of one or two messages. Correct means: a process
  finds its registers as it left them, both sides agree on the messages, no access
  leaves its segment, the process comes back.
* **File system.** A truncation is a sequence of changes of three persistent structures
  with pauses in between, and the process may be stopped at any of them. Correct means:
  no block comes to be in two files, the FCB on disk right between requests, data where it
  should be.
* **The connections.** Both ends of the sockets count words of the messages; two threads of
  the kernel share the one to memory. A PCB travels as bytes that both sides lay out by
  hand. Correct means: the next word a thread reads is of the answer to its own request,
  and what is read is what was written.

## 2. Plan

The modules in the order they were written.

| Module | Models | Composed of | State |
|---|---|---|---|
| `Planificador` | kernel threads and all handlers | – | done, proofs in `PlanificadorProofs` |
| `Huecos` | the list of holes, as operators | – | done |
| `Memoria` | memory serving the kernel, both table copies | extends `Huecos` | done, proofs in `MemoriaProofs` |
| `FileSystem` | every request of the file system, stops of the process | – | done, proofs in `FileSystemProofs` |
| `Cpu` | CPU, memory's thread for it, the kernel loop that feeds it | – | done, proofs in `CpuProofs` |
| `EnlaceMemoria` | words on the file system – memory socket | – | done |
| `Sistema` | kernel and memory over the words of their socket: the answers are what memory computes, not a constant set | extends `Planificador`, `Huecos`; implements `Memoria` | done, proofs in `SistemaProofs` |
| `Multiprogramacion` | what the kernel promises, without threads or semaphores | – | done |
| `PlanificadorAbstracto` | the mapping under which `Planificador` implements it | extends `Planificador`, `INSTANCE Multiprogramacion` | done, proofs in `PlanificadorProofs` |
| `Hrrn` | marks, estimates and the choice, call by call | – | done, proofs in `HrrnProofs` |
| `Identificadores` | consoles, their counter, removal by number | – | done, proofs in `IdentificadoresProofs` |
| `Paquetes` | the bytes of PCBs and tables | – | done |

`LemasListas` has the lemmas about lists (ranges, positions, the first and the last element
with a property) that the proofs share.

What would come next: the invariants of `Paquetes`, whose proofs need induction over the
bytes of a buffer; what still holds of memory after a compaction of three or more free
holes, which takes a description of the list that it leaves; and a composition of the CPU
with `Sistema`.

## 3. The modules and the code

**A step** is what a thread does between two places where it can wait: a semaphore, a
mutex, a reply, a sleep. The lists are changed under their own semaphores, which are taken
and released inside a step (`agregar_a_lista_con_sem`, `mover_de_lista_con_sem`) and need no
variable, but for that of NEW, which the long-term scheduler keeps from `list_get`
to the admission, across the request to memory and the wait for the degree: `semNew`. A
handler that moves the process it has in its hands from one list to another is one step
although it takes two semaphores: no other thread looks for that process. Not every
reader takes them: `buscar_proceso` (`kernel.c:685-699`), with which the eviction thread updates
the tables after a compaction, walks all the lists with none. It may run when
the dispatcher has removed a process from READY (`kernel.c:1025`, `1058`) and not yet added it to
EXEC (`kernel.c:245`), and misses it. So these are two steps, `CortoElige` and `CortoAgrega`.

**Planificador.** `nuevos`, `listos`, `ejecutando` and `bloqueados` are
`lista_estados`; `estado` is `pcb->estado`; `pcLargo`, `pcCorto`, `pcDesalojo` say where
each thread is; `semInicializar`, `semTerminado`, `semCpu`, `semGrado`, `executing` and
`mutexMemoria` are the semaphores of the same names. Each action is one step of
`enviar_proceso_a_ready` (`Largo*`), `_planificador_corto_plazo` (`Corto*`) or
`manejo_desalojo_pcb` and one case of `manejo_instrucciones` (`Yield`, `IO` and `FinIO`,
`WaitConcedido`, `WaitBloquea`, `Signal`, `FOpen`, `FClose`, ...). Programs are
arbitrary: each PCB comes back with any instruction of `Instrucciones`, at most
`MaxInstrucciones` of them, then EXIT. HRRN may choose any position of READY. `saldo`
is a history variable: instances plus signals minus grants. `caido` says that the
kernel dereferenced a NULL PCB.

**Multiprogramacion and PlanificadorAbstracto.** The abstract state is a queue of
processes that wait to enter, the ready ones in order, the one with the CPU, those that
wait for something else and those that ended. The mapping: the CPU is the process of
EXEC, the one that the dispatcher has chosen and not yet put there, or the one in the hands of
the eviction thread while it keeps the CPU's credit (`ConCpu`), and whoever is admitted and
neither ready nor there waits. A step of the kernel is one abstract step or none; the
semaphores, the announcement and the order of the posts disappear.

**Huecos and Memoria.** A hole is a record; `Candidatos`, `Ocupar`, `Consolidar`,
`Liberar`, `Vuelta` and `Compactar` are the functions of `memoria.c` one to one, the
leftover hole of size 0 of `modificar_lista_huecos` and the index that skips a hole
in `compactar` included. `Memoria` has the requests of the kernel, whose PCB carries its
table and replaces memory's; `atrasados` and `averias` are history variables. `averias`
records the four things the code lets happen after which its bookkeeping is wrong (section
5), so that each property says exactly which of them it does not survive: with any one of
its exclusions removed TLC finds it violated, except that `OcupadoTieneDuenio` would hold
without the exclusion of "restos".

**Sistema.** Every action of `Planificador` is taken with what the same step of the thread does
to the socket. A request is one element of `aMemoria`; an answer is its words in `aKernel`,
one per `recibir_operacion`, because the handlers read different numbers of them: of
COMPACTACION and OUT_OF_MEMORY only the code, so that the size 0 stays. `PideTabla` to
`BorrarSinRespuesta` are the kernel's ends of the exchanges, `Atiende*` the thread of
memory. `indefinido` says that the kernel deserialized a word as a table; nothing is
modelled after that. `TablaVista`, `Activos` and `EnReintento` are the refinement mapping
to `Memoria`: memory's half of an exchange takes effect on the kernel's copy when the
answer that carries it is on its way. `RecibeTablas` updates the processes that are in a list
(`EnLista`), so it misses the one between `CortoElige` and `CortoAgrega`, and those that wait
for a resource. The long-term scheduler may likewise be moving a process from NEW to READY,
which is one step here: that one has only segment 0, which a compaction does not move,
so that to miss it changes nothing. That `buscar_proceso` reads a list while another thread
changes it is a data race, and what it then reads is not modelled.

**Hrrn.** `pasos` has the calls that the handler of the eviction thread has still to
make, in the order of the code: the `list_add` to READY, the write of the mark, the posts of
the two semaphores, a sleep or an answer. With `HRRN_ALFA` 0.5 estimates are
multiples of a power of two and are kept exactly; ratios are compared without division.
The clock advances at any moment.

**Identificadores.** The load of the counter for the number, the load and the store of
`contadorProcesoId++` are steps of their own; `previos` is a history variable, who had
finished with the counter when each console began.

**Paquetes.** `EscribePcb`, `LeePcb`, `EscribeTablas` and `LeeTablas` lay out and read a
buffer byte by byte as `shared.c` does. The block a text is read into has no room for its
end: `Restos` is what may follow it in the heap.

**FileSystem.** Units are 4 bytes, the size of a pointer. `disco` has the FCB files (an
FCB, or `Vacio` between `fopen("w")` and `fclose`), `fcbs` the dictionary, `bitmap` what
`msync` has written, `bloques` the file of blocks. `op` is the request in hand: its
`paso` follows the calls of `actualizar_tamanio_bloques`. `Caida` stops the process at any
step and `Arranca` is `inicializar_estructuras`, which believes whatever disk it finds:
`Discos` may be any disks, and `Init` is the program before its first start. Two history
variables say what can be asked of a disk. `compartidos` are the blocks that were in two
places at the last start, and `danio` that the disk is not in order: that the start found it so
(`EnOrden`: a block that an FCB reaches is not marked, a block of pointers is also something
else, or a file has more blocks than one block of pointers can name), that a truncation of
`Danina` was asked for (section 5), or that the process was stopped while a file was giving
blocks back. Each start sets both anew from the disk: a file that the program made with a damaging
growth may be in order after a restart, because the count of its blocks is computed
from its size again (`cargar_fcb`). The text that memory gives for F_WRITE is
taken for granted here: `EnlaceMemoria` has the exchange, which at this commit does not
complete.

**Cpu.** Units are words of 4 bytes. A word is full (four characters) or ends the string
it is in. `CopiaContexto` is the twelve `strcpy` of `cargar_registros` and of
`guardar_contexto_de_ejecucion`; `RecibeRegistros` the same in `recibir_pcb`, where each
source is a buffer with no room for the end of the string; `Copia` is `instruccion_set`.
The kernel appears only as the loop that sends a PCB and receives it, with any process as
the next one; each process has one of the programs of `MCCpu`. `propio` is a history
variable: the registers of each process if nobody else used the CPU.

**EnlaceMemoria.** The two directions of the socket are sequences of words; a buffer that
is read as bytes is one element. Each `recibir_operacion` takes a word, whatever it is.

## 4. Runs

| Run | Question | Bounds, and why they are enough |
|---|---|---|
| `planificador_base` | Are semaphore credits, CPU and resources conserved, and do the threads implement `Multiprogramacion`? | 3 processes, degree 2 (one always waits for the degree), 2 resources of one instance, 3 instructions each out of 8: a process can take a resource, block on the other and release. All answers of memory, OUT_OF_MEMORY after a compaction too. |
| `planificador_archivos` | Is a process ever lost, duplicated or in a list it does not name? Is EXEC ever empty when announced? | 3 processes, an open file all want, HRRN. F_OPEN, F_CLOSE and F_SEEK give the extra CPU posts; retries succeed. |
| `sistema_memoria` | Do the two threads of the kernel and the one of memory understand each other, are no process and no update of a table lost, does every exchange implement `Memoria`, and does every process end? | 2 processes of 4 instructions, memory of 6 units with best fit and 2 ids of sizes 2 and 3: a compaction that moves the segment of a process in READY, one that waits for the resource during it and runs afterwards, a retry, memory that runs out, and admissions in between. The resource begins with no instance, as in `Configs/memoria.config`. `MaxPedidos` and `MaxCompactaciones` are out of reach. |
| `memoria_segmentos` | Do holes tile memory, segments never overlap, holes and segments correspond, the two copies of a table agree? | Best fit, 2 processes, 2 ids, memory of 7 units, 7 requests in any order, re-creations included, and 2 compactions with retries: four free holes, empty ones, both merges, stale tables. |
| `archivos_bloques` | Is the disk consistent, and the data right, with a stop at any step, on the disks that the program finds? | 11 blocks of 4 units, two names, 4 requests, one stop and a restart. Four disks: new; as this program leaves it after two growths (`DiscoDelPrograma`); the FCBs of the repository (`fcbs/Consoles`, `fcbs/Videogames`); every file with blocks of its own. Sizes below and on block boundaries, pointers below, on and above one; the disk can fill. |
| `cpu_contexto` | Are registers private, messages paired, accesses inside their segment, and does the process come back? | Two processes, each with any of five programs over registers of 1, 2 and 4 words, whose values fill them and overlap; a segment created, deleted and missed by one word. |
| `hrrn_listos` | Is what the dispatcher compares of this stay in READY, and is nobody overtaken without reason? | 3 processes of two returns and an EXIT, every way back to READY, clocks of 3 seconds: ties, waits of zero, estimates that differ. The first estimate is 2 seconds or 0 (`kernel.c:1158` divides integers), with which the ratio is a division by zero: 0/0 is never greater than another, anything else over 0 is greater than any finite one, and `Supera` compares just so. |
| `identificadores` | When do numbers repeat, and does a process with a number of its own survive the others? | 4 consoles: two that race, a third whose late store takes the counter back, a fourth that gets a used number. |
| `paquetes_viaje` | Is what is read what was written? | Programs of 0 to 2 texts, tables of 0 to 2 segments, 3 messages; heaps with nothing, a character or a newline after a text. |
| `planificador_recursos_viol` | Is a unit granted twice? | 3 processes, one resource: blocked, signalled, granted again. |
| `planificador_archivo_viol` | Does waiting for a file end? | 2 processes and a file. |
| `enlace_memoria_viol` | Is an F_READ confirmed only when memory wrote it? | 3 requests. |

Every property of a passing run has a mutant, a plausible bug in one definition that TLC
refutes under the same configuration. `CHECK_DEADLOCK FALSE` is set everywhere because
the models stop when programs end or the bounds are reached, and a console need not come.
Symmetry (`Permutations`) is used only in runs whose properties are invariants or
say what a step may do, never with liveness; no action distinguishes processes.

**Fairness.** `SpecEquitativa` of `Planificador` and `Spec` of `Cpu` assume weak fairness of
each thread as a whole: the operating system schedules a thread that can run, sleeps
end and the other modules answer. It is not assumed that a console comes
(`CreaPCB`) nor, in `Cpu`, that the kernel sends another process. `Planificador` states
`WF(AgregaNew(p))` per console because each is a thread. A
`SpecSistemaEquitativa` is the same of the threads of the kernel as `Sistema` has them,
and says of memory's thread `[]<>(aMemoria = <<>>)`: it attends every request. A step of
memory is enabled whenever there is a request, so this is what weak fairness of the
thread gives; TLC would evaluate the folds of the compaction in every state to find out
whether it is enabled. A
semaphore is modelled as fair only in that a thread that can always take it eventually
does; no strong fairness is used.

## 5. What the runs found

Three runs show the code doing something other than what a line of the repository says
(`findings` in `PROJECT.json` quotes each):

1. **Resources** (`planificador_recursos_viol`): WAIT resets the counter to 0 when it blocks
   and SIGNAL increments it and also hands the unit to a waiter; the next WAIT is
   granted the same unit.
2. **Files** (`planificador_archivo_viol`): the wait for an open file is in the eviction thread, the
   only one that can close it. Nothing is attended from then on.
3. **File system and memory** (`enlace_memoria_viol`): the second F_READ is confirmed with a word
   left from the first answer; memory then reads a size as an operation, says
   "Operacion desconocida" and its thread ends. The model also reaches the end of the
   first F_WRITE: the file system takes four characters of the text for a size and waits
   for ever (`fs = "buffer"`), while the kernel holds `permiso_compactacion`.

Behaviour the models have because the code has it, and that the properties of the passing
runs leave out by name:

* **Holes of size 0** ("vacio"): a segment that fits exactly leaves an empty hole with the
  base of the next (`memoria.c:906-908`); the search by base (`memoria.c:459`, "buscar
  hueco que tenga la misma base que el segmento y marcarlo como libre") frees that one and
  the other stays occupied with no owner (`OcupadoTieneDuenio`).
* **Segments created twice** ("recreado"): the first stays occupied with no owner.
* **Tables from before a compaction** ("tabla"): the requester, which is retried with its old
  table (`kernel.c:304-306`), and the processes that wait for a resource, which are in no
  list that `buscar_proceso` looks in (`kernel.c:685-699`), bring it back with their next
  request and memory puts it in the place of the compacted one (`memoria.c:870-876`),
  although `memoria.c:530-531` moves the segments in all the tables: segments point at
  their old addresses and overlap others. In `Sistema`, the waiting process also runs with
  it, which `kernel.c:731` ("cada vez que se modifique hay que recibir la lista
  actualizada") would not want: `CpuConTablaVigente` excludes exactly those.
* **Compactions of three or more free holes, or with an empty one** ("restos"): `compactar`
  leaves every other hole behind (`memoria.c:500-504`), and takes the occupied hole with the base
  of an empty one for the end of its first loop (`memoria.c:496`), so that the gathered bytes
  get lost or stay in pieces. The retry may then be answered COMPACTION again, which
  loses the process. `CompactarDosLibres`, `NoSePierdeNadie` and `TerminanSiHayMemoria` say
  what holds without them.
* **Answers of OUT_OF_MEMORY**: the size 0 that follows stays in the socket
  (`kernel.c:580-585`) and is taken for the code of the next answer; from then on
  the kernel blocks with `mutex_memoria` taken or deserializes a word as a table. The properties of
  `Sistema` are for as long as memory has not run out (`agotada`).
* **Marks** (`Hrrn`): `shared.h:85` says of `ready_timestamp` "por última vez", and F_READ,
  F_WRITE, F_TRUNCATE and SIGNAL put a process in READY without writing it (the line is
  commented out, `kernel.c:1263-1265`). `sinMarca` are those processes, and
  `MarcaDeEstaVez` holds for the others.
* **Identifiers**: `shared.h:77` says "unico en todo el sistema". Two consoles that coincide
  may get the same, and so may two that do not: the late store of a third takes the
  counter back. With repeated numbers HRRN removes the wrong process of READY.
* **Texts**: `shared.c:371` says that the `\n` "se reemplaza por \0". The packet carries
  neither, and what the heap holds after the block becomes part of the last argument:
  `TextosConservanPrincipio` is what holds.

* F_OPEN, F_CLOSE and F_SEEK post `sem_cpu_disponible` although the process keeps the CPU
  (`kernel.c:383`): two processes can be in EXEC. `UnicaCpu` is for programs without them.
* An OUT_OF_MEMORY after a compaction leaves the announcement unlocked, and the eviction
  thread then takes a NULL PCB (`DesalojoSinProceso`); a second COMPACTACION leaves the
  process in no list.
* No segment is released when a process ends (`kernel.c:1074`).
* The CPU returns the offset as physical address, without the base (`cpu.c:425`): all
  segments of all processes start at 0 of `memoria_principal`. F_READ and F_WRITE send -1
  when the address is outside the segment.
* MOV_OUT writes the whole register, with the bytes after the end of the string, which
  may be another process's ("Acumula basura").
* `asignar_puntero_directo` keeps the block in `cantidad_bloques_asignados`
  (`administrarEstructuras.c:97`) and `puntero_directo` is never written, although line 35
  says that a file of one block has only that; the growth from one block starts at the second
  pointer; `cantidad_bloques_asignados` is not updated by a growth; the block of pointers
  and a full bitmap are not checked. `DaninaAlCrecer` names these growths. Every file that grows
  from empty is one of them, and keeps as direct block what `malloc` left, so that the
  files of this program share blocks with one another: the program has the right count of
  blocks again after a restart, and with these files (`DiscoDelPrograma`, or those made in the
  run and found by `Arranca`) the properties of `FileSystem` are about what it does from
  there. They say that nothing else comes to be shared, and that what is not shared is kept.
* A reduction frees the blocks it gives up without asking who else has them.
  `DaninaAlReducir` names those that free a block that another place keeps, for instance the
  direct block 0 that two files have.
* The two files of the repository (`fcbs/Consoles`, `fcbs/Videogames`) both have block 0, and
  block 7, the block of pointers of the first, holds text: its pointers are characters. A
  start on that disk finds it not in order, and only `TypeOK`, `FcbPersistido` and `LecturaFiel`
  are said of it; `Fcb3(16, 0, 7)` in `MCFileSystem` is that file.
* While the count is late, a truncation that gives blocks back leaves some of them marked, and
  one that the code takes for a growth writes its pointers over those of the file's data,
  which is lost (`administrarEstructuras.c:192`). `Conservado` leaves this case out of
  `TruncarConserva`; `SinCompartir` and `AjenosIntactos` hold in it.
* `persistir_fcb` empties the file first: a stop then leaves an FCB with which the file
  system cannot start. A stop while a file shrinks leaves it with blocks that are free.
* `leer_archivo` closes the file inside its loop (`administrarInstrucciones.c:207`): only
  reads inside a block are faithful.

## 6. Proofs

Every theorem is for every value of the constants that satisfies the assumptions of its
module: any number of processes, resources, files, blocks and consoles, any degree, both
algorithms of the kernel and the three of memory, any size of memory, of segments and of
blocks, any programs (in `SistemaProofs`, without F_OPEN, F_CLOSE and F_SEEK), any layout of
the registers, and any disk and number of stops of the file system. Many of the properties
name in their own text the cases for which they say nothing (`danio`, `averias`, `agotada`);
section 5 lists what these are. The last column is what a theorem assumes besides; `–` in the third is an
inductive invariant on which the theorems under it rest.

| Module | Theorem | Statement | Assumption |
|---|---|---|---|
| `PlanificadorProofs` | `Tipos` | `Spec => []TypeOK` | – |
| | `Creditos` | `Spec => []CreditosDeListos` | – |
| | `IOBien` | `Spec => []IOSacaAlPropio` | – |
| | `SinUnidadLibre` | `Spec => []NadieEsperaUnidadLibre` | – |
| | `CpuUnica` | `Spec => []UnicaCpu` | `CpuBienRepuesta` |
| | `AvisoConservado` | `Spec => []AvisoNoSePierde` | `CpuBienRepuesta` |
| | `ExecConProceso` | `Spec => []ExecNuncaVacia` | `RespuestasReintento \subseteq {"AUX_OK"}` |
| | `EstadoSiempreFiel` | `Spec => []EstadoFiel` | – |
| | `NadiePerdidoNiRepetido` | `Spec => []UnLugar` | `"COMPACTACION" \notin RespuestasReintento` |
| | `GradoRespetado` | `Spec => []GradoContado` | – |
| | `KernelImplementaMultiprogramacion` | `Spec => ImplementaMultiprogramacion` | `CpuBienRepuesta` |
| `IdentificadoresProofs` | `NumerosPropios` | `Spec => []RepetidosSoloConCarrera` | – |
| | `UnLugar` | `Spec => []UnLugarSiEsUnico` | – |
| `HrrnProofs` | `MarcasAlDia` | `Spec => []MarcaDeEstaVez` | – |
| | `NadieEsAdelantado` | `Spec => NadieAdelanta` | – |
| `CpuProofs` | `TurnoAcordado` | `Spec => []InvTurno` (–) | – |
| | `SocketsAparejados` | `Spec => []MensajesAparejados` | – |
| | `DesalojoCoincide` | `Spec => []DesalojoEsDelContador` | – |
| | `AccesoAcotado` | `Spec => []AccesoEnSegmento` | – |
| | `ContextoConservado` | `Spec => []ContextoPropio` | – |
| `MemoriaProofs` | `CopiasIguales` | `Spec => []TablasCoinciden` | – |
| | `CompactarBien` | `Spec => []CompactarDosLibres` | `0 \notin Ids` |
| | `MemoriaTeselada` | `Spec => []Teselado` | `0 \notin Ids` |
| | `CadaSegmentoTieneHueco` | `Spec => []SegmentosOcupados` | `0 \notin Ids` |
| | `SegmentosSeparados` | `Spec => []SinSolapamiento` | `0 \notin Ids` |
| | `NadaOcupadoDeMas` | `Spec => []OcupadoTieneDuenio` | `0 \notin Ids` |
| `FileSystemProofs` | `FcbsSiempre` | `Spec => []InvFcbs` (–) | – |
| | `TiposCorrectos` | `Spec => []TypeOK` | – |
| | `FcbSiemprePersistido` | `Spec => []FcbPersistido` | – |
| | `LecturaSiempreFiel` | `Spec => []LecturaFiel` | – |
| | `BloquesSiempreBien` | `Spec => []InvBloques` (–), until `danio` | – |
| | `NadieComparte` | `Spec => []SinCompartir`, until `danio` | – |
| | `SiempreOcupados` | `Spec => []BloquesOcupados`, until `danio` | – |
| | `EscrituraSiempreFiel` | `Spec => []EscrituraFiel`, until `danio` | – |
| | `AjenosSiempreIntactos` | `Spec => AjenosIntactos`, until `danio` | – |
| | `TruncarSiempreConserva` | `Spec => []TruncarConserva`, until `danio` | – |
| `SistemaProofs` | `SocketOrdenado` | `SpecSistema => []SocketEnOrden` | `SistemaOK` |
| | `SistemaImplementaMemoria` | `SpecSistema => ImplementaMemoria` | `SistemaOK` |
| | `TablaDeLaCpu` | `SpecSistema => []CpuConTablaVigente` | `SistemaOK` |
| | `MemoriaDelSistema` | until `agotada`, the four invariants of `Memoria` | `SistemaOK`, `0 \notin Ids` |
| | `NadieSePierde` | `SpecSistema => []NoSePierdeNadie` | `SistemaOK`, `0 \notin Ids` |

What the theorems assume, and why:

* `CpuBienRepuesta`: no program uses F_OPEN, F_CLOSE or F_SEEK, which post the CPU while the
  process keeps it (`kernel.c:383`), and memory does not answer a retry by asking for
  another compaction. Without either the statements are false (section 5).
* `RespuestasReintento`, in `ExecConProceso` and `NadiePerdidoNiRepetido`: the handler of a
  second COMPACTION in a row keeps no reference to the process (`kernel.c:575`), which is
  then in no list, and its announcement is nobody's. Of the constants this is only what memory
  may answer; every program is allowed. `NadieSePierde` proves both facts without it,
  from what memory does.
* `0 \notin Ids`: no program creates or deletes segment 0. The code does not refuse it:
  `eliminar_segmento` frees the first hole like any other, two free holes may then be
  together, one of them empty and with the base of the other, and the search by base finds
  the wrong one. With 0 in `Ids`, TLC finds `Teselado` violated after seven steps. Entry 0
  is the segment that all processes share (`agregar_segmento_0`); theirs are the others.

And the assumptions of the modules, evaluated by TLC in every run:

* `ConstantesOK`, `IdentificadoresOK`, `HrrnOK`, `HuecosOK`, `MemoriaOK`: types, and that the
  values that stand for "none" are not of the others. `CpuOK` says also that each word of
  the registers belongs to exactly one of them and that the parameters of an instruction are of
  their types.
* `FileSystemOK`, `MarcasOK` and `DiscosOK` are of the same kind: the disk that the process
  finds has FCBs, a file of blocks and a bitmap, and nothing says that the three agree.
* `SistemaOK`: programs do not use F_OPEN, F_CLOSE and F_SEEK. With their extra credit the
  dispatcher may take a process out of READY while the eviction thread, whose process keeps
  the CPU, compacts; `buscar_proceso` misses it and it runs with its old table. Without
  the assumption and with F_OPEN, YIELD, CREATE_SEGMENT and DELETE_SEGMENT, five instructions
  a process, TLC finds `CpuConTablaVigente` violated so, after 60 steps. The theorems of
  `SistemaProofs` are for programs without those three; their lemma `CortoVacio` is that
  the dispatcher then has nothing in its hands while a handler is at work. And
  `MaxPedidos` and `MaxCompactaciones` are bounds of `Memoria` that must not hide
  a step of `Sistema`. An instruction is one request at most, and a request at most two
  compactions, so that with `Cardinality(Procesos) * MaxInstrucciones <= MaxPedidos` and
  `2 * MaxPedidos <= MaxCompactaciones` they never do; the refinement would be false otherwise,
  and its proof counts the instructions made. All the answers of memory are allowed.

The arguments:

**The kernel.** `TypeOK` is not inductive: a handler that returns a process to READY removes
it from BLOCKED, and its counters stay natural only if it is there. `IInv` adds `Forma`:
which thread holds a process and where, that BLOCKED has at most the process being
handled, in its only position, exactly while the handler waits for an I/O, a truncation, a
read or a write, or for an open file; and that no file has a waiter but the one that
stopped the eviction thread for good. `InicioIInv` and `PasoIInv` (one step per action of
`Next`) make it inductive; `Tipos` and `IOBien` follow at once. `FormaCorto` is the part about
the dispatcher: it has a process in its hands just between `CortoElige` and `CortoAgrega`.

* `Creditos` is inductive over `IInv`: F_CLOSE would move a waiter to READY without a
  credit, and `CierraSinEspera` shows that there is none to move.
* `SinUnidadLibre` needs `InvRecursos`, that adds how the counter and the balance are
  related (`SaldoCubierto`): the counter is never below what is really left of the
  resource, and it is 0 when a process starts to wait.
* `CpuUnica` and `AvisoConservado` need each other (`InvCpu`): where the credit of the CPU
  is decides where the announcement is.
* `ExecConProceso` counts: there are at most as many announcements pending as processes in
  EXEC, and one more while the handler of CREATE_SEGMENT retries (`AvisosRespaldados`).
* `EstadoSiempreFiel` rests on `InvLugares`: no list repeats a process, the state is exactly
  the list for NEW, READY and BLOCKED, and the places that share the state EXEC (the
  list, the hands of the dispatcher and of the eviction thread, the queues of the resources)
  exclude each other.
  The actions are first classified by what they move: `Movimiento` is one of thirteen
  changes (`NewAReady`, `SeBloquea`, `CedeRecurso`, ...), and the invariant is shown
  for each of those. `CabezaDeNew` is needed because the admission looks at the head
  of NEW, waits, and then moves the head: it is the same one as it keeps the semaphore.
* `NadiePerdidoNiRepetido` adds `NadiePerdido`, that a process in state EXEC is in one of
  those places, which a movement keeps and only `SePierde`, the second COMPACTION,
  breaks; counting the places of a process then gives 1.
* `GradoRespetado`: the value of `sem_grado_multiprogramacion` and the processes admitted
  and not ended add up to the degree. No run checks it on its own (`UnLugar` and the
  refinement do in part); the refinement needs it for the guard of the abstract admission.
* `KernelImplementaMultiprogramacion`: the invariants above turn the mapping of
  `PlanificadorAbstracto` into plain facts (`Imagen`: who has the CPU, who waits, who is
  admitted); each step of a thread has one of a few effects on them (`Efecto`); each effect
  is a step of `Multiprogramacion` or a stutter.

**Identifiers.** `InvNumeros` says, while no two consoles that have their number coincided,
that they are all different and below the counter (`NumerosDados`), and that what a
console has read is still the counter if nobody has finished with it since it began
(`LecturaVigente`). Without the second the first is not preserved by `Escribe`: a late
store is what gives away numbers already used. `UnLugar` needs neither: a removal by
number finds a process with that number, which is another only for who shares it
(`IndiceDelNumero`).

**HRRN.** The mark of a process is written by a later call than the one that puts it in
READY, so what holds depends on the calls that the handler has still to make.
`CadaUnoEnSuLugar` and `Marcados` are stated by sets of values of `pasos` (`PorMarcar`,
`PorAgregar`, `EnMano`, ...), of which `Conocidos` says that there are no others.
`UnaCpu` counts the credit of the CPU: the handler posts it after the mark, so that while
the dispatcher has it no mark is to come; `ListosAvisados` counts the announcements against
READY. For
`NadieAdelanta`, `EnOrdenDeLlegada` says that those already settled when a process came
are before it in the list and marked no later; `MaximoBien` unrolls the fold that
chooses: a process that comes later has to exceed the ratio of the earlier ones strictly.

**The CPU.** `InvTurno` says that kernel, CPU and memory are always in one of six joint
phases (in the kernel, on the way, in the CPU, in memory, on the way back, with the address
still to come), with at most one message under way and with the contents of that message.
The messages, the eviction's instruction and the bounds of an access follow from the
phase. The registers need more: `strcpy` does not copy what is after the end of a string,
and may copy a word beyond its register, so no two copies are equal. `IgualVisible` is the
equality that survives: the same words can be read, and they hold the same.
`CopiaContextoFiel` shows that the twelve copies in a row give an `IgualVisible` context, and
`CopiaFiel` that a SET or a MOV_IN, which may end its string in the next register, leaves
two `IgualVisible` contexts so; `InvContexto` follows the valid copy round its five places.

**Memory.** `CopiasIguales` is inductive almost as it stands. `Teselado` is not: `Sana` adds
that the first hole is occupied, that no occupied hole is empty, and that no two free ones
are together. The last two are what makes the search by base find the right hole (an empty
free hole has the base of the next one) and merging with both neighbours enough. For
`SegmentosOcupados` and `SinSolapamiento`, `InvSegmentos` says that the living segments
have distinct bases and that each has an occupied hole beyond segment 0's; for
`OcupadoTieneDuenio`, `InvDuenios` is the converse. The proofs go through what `Ocupar`
(`PartirHueco`, `HuecosNuevos`) and `Liberar` do to the positions of the list, by lemmas of
`LemasListas` about insertion and removal.

*The compaction* (`CompactarBien`) is two folds over a list that the turns change.
`Turnos` unrolls a fold into the sequence of its turns, and `Induccion` is induction over
them (from the least element of a set of naturals: the library's takes an operator). With
one or two free holes (`UnoODos`) the first loop ends with them at the end of the list as
one that has their bytes (`JuntarUno`, `JuntarDos`); `Acomodo` says
where each hole of the old list is in the new one. In the second loop `Colocados` says after
each turn which holes have their new base, and `Movidos` which segments followed them. No
segment is mistaken for another half way: a hole moves to a base not above its own, so
the new base of one is never the old base of a hole still to come; and none is at base
0 (`SinCero`). `ReintentoCabe` follows, the fact that the kernel counts on: after a
compaction with at most two non-empty free holes the retry finds its hole.

**File system.** Three invariants, each over the one before.

* `InvFcbs`, without conditions: outside the file of a truncation the FCB on disk is the one
  in memory (`Persistencia`); during it each pause of the request says what disk and
  memory have, `Vacio` while the file is open, and after a stop there is no dictionary. Types,
  `FcbPersistido` and `LecturaFiel` come from it.
* `InvBloques`, until `danio`: the places of each FCB on disk are blocks, that appear twice in the
  file (`Sanos`) or in another (`Separados`) only if the last start found them so (`compartidos`);
  the block of pointers never does; they are marked (`Ocupados`, but for
  the file that is giving blocks back), and `cantidad_bloques_asignados` may be behind only in
  files of two blocks or more (`Cuentas`). Each pause of a truncation has its own part:
  `EnAsigna` counts the pointers written against those to come, `EnDesasigna` those still
  to free, `EnVacia` and `EnAbre` say that what the new FCB will reach is already in order.
  `EnEscribe` relates the block, the position and the room left of `escribir_archivo` to the
  offset in the file, across the border of two blocks.
* `InvConserva`: the units that a truncation keeps are still under the pointers that will be
  left, at each of its pauses.

`danio` is set when a request begins one of the truncations of `Danina` (section 5), when a stop
leaves a file that had given back some of its blocks, and when a start finds the disk not
in order (`InicioBien`, and `Arranca` within `PasoBloques`, prove that it is enough for `InvBloques`
that it is in order). None of the theorems under `BloquesSiempreBien` says anything from there
to the next start that finds the disk in order. No assumption of the constants stands for
any of this: `Discos` is any set of disks. A file of this program meets the
conditions from the start after it was made, `compartidos` being the direct blocks that
it has in common with others. `EscrituraFiel` is besides only for files with no block twice: the
search for the next block (`BuscarSiguienteBloque`) finds the first place of two.

**Kernel and memory.** `SistemaProofs` extends the kernel's proofs and uses memory's
through the mapping of `Mem`.

* `InvSocket` says, by who holds `mutex_memoria` and where it is, which words are in
  each direction (`Canje`): one request, or one answer, behind the size 0 that an
  OUT_OF_MEMORY left (`Sobra`). From it, `SocketOrdenado`.
* `InvNucleo` carries the kernel's invariants over to `Sistema`, whose steps are steps of
  `Planificador` or leave it alone. `InvVigente` says what the mapping depends on: who has been
  given a table, what the answer on its way has, that the hole was missing when the
  compaction was asked for, and the counts of requests and compactions.
* `SistemaImplementaMemoria`: a step that does not touch memory is a stutter or the end of a
  process (`PasoAjeno`); sending a request and reading an answer are stutters, since
  `TablaVista` already has the table of the answer; the four services of memory are
  the steps of `Memoria`, the retry included.
* `CpuNoSobra` is why no process is missed by the update of a compaction: with no instruction that
  posts a CPU still in use, `sem_cpu_disponible`, EXEC, the hands of the dispatcher and the
  handler have one credit between them. So while the handler of CREATE_SEGMENT has it, nobody
  is on the way from READY to EXEC (`CortoVacio`), and a process with a table is in a list,
  in the queue of a resource or with the handler.
* With the refinement the invariants of `Memoria` are inductive here (`MP!Coinciden`,
  `MP!InvMemoria`, `MP!ReintentoCabe`), and give `TablaDeLaCpu` and `MemoriaDelSistema`.
* `NadieSePierde` closes a loop: the kernel's theorems about the places of processes assume
  what memory answers to a retry. Here a second COMPACTION, or an OUT_OF_MEMORY after the
  first, contradicts `ReintentoCabe` (`OtraVezLlena`, `NegadoPorRestos`), and `NadiePerdido` and
  `AvisosRespaldados` are kept with nothing assumed about the answers.

This last proof did not go through at first, because the property was false: `NoSePierdeNadie`
had no exclusion of "restos", and neither had `TerminanSiHayMemoria`. They held in the
run because a memory of 6 units is too small for what breaks them. With 12 units and five
identifiers TLC's simulation of `Memoria` finds in 13 steps a compaction with an empty free
hole after which the retry is answered COMPACTION again.

In the same way, for the proofs of `Memoria`, `Tesela` was made to say that the list is not
empty, and `CompactarDosLibres` everything that the invariants need after a compaction (sizes,
distinct bases, owners, the first hole, the domains of the tables): what TLC
checks became stronger. `EnReintento` of `Sistema` was written as disjuncts, with the same
meaning.

Only model-checked:

* Liveness (`TerminanSiHayMemoria`, `VuelveAlKernel`), which TLAPS does not reach.
* `CamposIntactos` and `TextosConservanPrincipio` of `Paquetes`: what is read of a buffer is a
  fold within a fold over bytes that another fold wrote. It is not out of reach as such
  (the compaction is done so), but it is not proved.
* What the theorems exclude: memory after a compaction that leaves holes behind, or with
  segment 0 in the programs, and the kernel under the conditions of `CpuBienRepuesta`
  where programs open files. TLC checks `UnLugar` and `ExecNuncaVacia` there on its instance.
* The findings of section 5, which are counterexamples.

No module declares a RECURSIVE operator.

## 7. Not modelled

* The rounding of doubles in `Hrrn`: ratios are compared exactly. The calls that post the
  CPU without leaving it (F_OPEN, F_CLOSE, F_SEEK) are in `Planificador` and not in `Hrrn`.
* What happens after a process whose number is another's is freed while READY has it
  (`Identificadores`), or after the kernel takes a word for a table (`Sistema`): memory
  that was freed or never written is read.
* The composition of three or more programs: `Sistema` has the kernel and memory, `Cpu`
  the CPU with a kernel reduced to its loop. `Planificador` takes distinct identifiers for
  granted.
* In `Paquetes`: the registers, which `Cpu` has, and messages of other kinds.
* `pids_on_list`, which walks READY without its semaphore for a log line, and the race of
  `buscar_proceso` with whoever changes the list that it walks (`kernel.c:690`): what it reads then
  is undefined. What it misses is modelled (`RecibeTablas`).
* Disconnections and failures of sockets, `malloc`, files: the code mostly ends the
  program. Of the stops, only those of the file system leave state behind.
* In `Cpu`: instructions that do not parse, programs without EXIT (the kernel then reads
  beyond the list), and values longer than their register by more than a word.
* In `FileSystem`: accesses outside the file of blocks, and F_READ or F_WRITE beyond the
  size of the file, which the code does not check.
* Console, configuration, logs, and code without callers.
