------------------------------ MODULE CpuProofs ------------------------------
(***************************************************************************)
(* Theorems about Cpu, for every set of processes, registers and programs. *)
(* The kernel and the CPU take turns: InvTurno says which of them has the  *)
(* process and what is in the sockets at each point of an eviction.        *)
(***************************************************************************)
EXTENDS Cpu, LemasListas

-----------------------------------------------------------------------------
(* The shapes of the records, and the sockets with one message.            *)
EsPcb(x) == x = [pid |-> x.pid, contador |-> x.contador,
                 segmentos |-> x.segmentos, registros |-> x.registros]

EsTabla(t) == \A i \in DOMAIN t : t[i] \in Nat

Unico(s) == \E m : s = <<m>>

(* The kernel's PCBs: a process that has not ended has an instruction to   *)
(* execute.                                                                *)
PcbsBien ==
  /\ programa \in [Procesos -> Programas]
  /\ DOMAIN pcbs = Procesos /\ vivos \subseteq Procesos
  /\ \A p \in Procesos :
       /\ EsPcb(pcbs[p]) /\ pcbs[p].pid = p /\ EsTabla(pcbs[p].segmentos)
       /\ p \in vivos => pcbs[p].contador \in DOMAIN programa[p]
  /\ kernel = [paso |-> kernel.paso, pid |-> kernel.pid]
  /\ cpu = [paso |-> cpu.paso, pcb |-> cpu.pcb, op |-> cpu.op]

(* The copy of the PCB of the process of the turn, in the CPU or on its    *)
(* way back: the CPU changes its counter and its registers only.           *)
CopiaDelTurno(x) ==
  /\ EsPcb(x) /\ kernel.pid \in vivos
  /\ x.pid = kernel.pid /\ x.segmentos = pcbs[kernel.pid].segmentos
  /\ x.contador \in DOMAIN programa[kernel.pid]

(* The code op is the one that belongs to the instruction at the counter.  *)
CodigoDe(op, x) ==
  LET i == programa[x.pid][x.contador]
  IN  op = i.op \/ (op = "SEGMENTATION_FAULT" /\ i.op \in Mov)

Silencio == aMemoria = <<>> /\ deMemoria = <<>>

EnElKernel ==
  /\ kernel.paso = "libre" /\ cpu.paso = "libre"
  /\ aCpu = <<>> /\ aKernel = <<>> /\ Silencio

DeIda ==
  /\ kernel.paso = "espera" /\ cpu.paso = "libre" /\ kernel.pid \in vivos
  /\ aCpu = <<pcbs[kernel.pid]>> /\ aKernel = <<>> /\ Silencio

EnLaCpu ==
  /\ kernel.paso = "espera" /\ cpu.paso \in {"ejecuta", "desaloja"}
  /\ aCpu = <<>> /\ aKernel = <<>> /\ Silencio
  /\ CopiaDelTurno(cpu.pcb)
  /\ cpu.paso = "desaloja" => CodigoDe(cpu.op, cpu.pcb)

Pedido(m) ==
  /\ m.pid = cpu.pcb.pid /\ m.tam = Tamanio[Instruccion.registro]
  /\ DireccionMov # -1

EnMemoria ==
  /\ kernel.paso = "espera" /\ cpu.paso \in {"lectura", "escritura"}
  /\ aCpu = <<>> /\ aKernel = <<>>
  /\ \/ Unico(aMemoria) /\ Pedido(Head(aMemoria)) /\ deMemoria = <<>>
     \/ aMemoria = <<>> /\ Unico(deMemoria)
  /\ CopiaDelTurno(cpu.pcb) /\ Instruccion.op \in Mov

MensajePcb(m) ==
  /\ m = [tipo |-> "pcb", op |-> m.op, pcb |-> m.pcb]
  /\ CopiaDelTurno(m.pcb) /\ CodigoDe(m.op, m.pcb)

(* After an F_READ or an F_WRITE the address follows the PCB.              *)
DeVuelta ==
  /\ kernel.paso = "espera" /\ aCpu = <<>> /\ Silencio
  /\ aKernel # <<>> /\ MensajePcb(Head(aKernel))
  /\ \/ /\ aKernel = <<Head(aKernel)>>
        /\ cpu.paso = IF Head(aKernel).op \in DeArchivo THEN "direccion" ELSE "libre"
     \/ /\ Len(aKernel) = 2 /\ aKernel = <<Head(aKernel), aKernel[2]>>
        /\ Head(aKernel).op \in DeArchivo /\ aKernel[2].tipo = "direccion"
        /\ cpu.paso = "libre"

ConDireccion ==
  /\ kernel.paso = "direccion" /\ aCpu = <<>> /\ Silencio
  /\ \/ cpu.paso = "direccion" /\ aKernel = <<>>
     \/ cpu.paso = "libre" /\ Unico(aKernel) /\ Head(aKernel).tipo = "direccion"

Turno == EnElKernel \/ DeIda \/ EnLaCpu \/ EnMemoria \/ DeVuelta \/ ConDireccion

InvTurno == PcbsBien /\ Turno

-----------------------------------------------------------------------------
(* What changing a field does to a PCB.                                    *)
LEMMA CambiaRegistros ==
  ASSUME NEW x, EsPcb(x), NEW v
  PROVE  LET y == [x EXCEPT !.registros = v] IN
         /\ EsPcb(y) /\ y.registros = v
         /\ y.pid = x.pid /\ y.contador = x.contador /\ y.segmentos = x.segmentos
  BY DEF EsPcb

(* The same for the counter.                                               *)
LEMMA CambiaContador ==
  ASSUME NEW x, EsPcb(x), NEW v
  PROVE  LET y == [x EXCEPT !.contador = v] IN
         /\ EsPcb(y) /\ y.contador = v
         /\ y.pid = x.pid /\ y.registros = x.registros /\ y.segmentos = x.segmentos
  BY DEF EsPcb

(* A second message is put behind the first.                               *)
LEMMA SegundoMensaje ==
  ASSUME NEW m, NEW d
  PROVE  Append(<<m>>, d) = <<m, d>>
<1>1. PICK S : S = {m, d}
  OBVIOUS
<1>2. m \in S /\ d \in S
  BY <1>1
<1>3. <<m>> \in Seq(S) /\ Len(<<m>>) = 1 /\ <<m>>[1] = m
  BY <1>2
<1>4. <<m, d>> \in Seq(S) /\ Len(<<m, d>>) = 2
  BY <1>2
<1>5. PICK s : s = <<m>>
  OBVIOUS
<1>6. s \in Seq(S) /\ Len(s) = 1 /\ s[1] = m
  BY <1>3, <1>5
<1>7. PICK t : t = Append(s, d)
  OBVIOUS
<1>8. /\ t \in Seq(S) /\ Len(t) = Len(s) + 1
      /\ \A i \in 1 .. Len(s) : t[i] = s[i]
      /\ t[Len(s) + 1] = d
  <2>1. /\ Append(s, d) \in Seq(S) /\ Len(Append(s, d)) = Len(s) + 1
        /\ \A i \in 1 .. Len(s) : Append(s, d)[i] = s[i]
        /\ Append(s, d)[Len(s) + 1] = d
    <3>1. s \in Seq(S) /\ d \in S
      BY <1>2, <1>6
    <3>2. QED
      BY <3>1, AppendProperties
  <2>2. QED
    BY <1>7, <2>1
<1>9. t \in Seq(S) /\ Len(t) = 2 /\ t[1] = m /\ t[2] = d
  BY <1>3, <1>5, <1>6, <1>8
<1>10. t = <<m, d>>
  BY <1>4, <1>9, SeqEqual
<1>11. QED
  BY <1>5, <1>7, <1>10

(* CREATE_SEGMENT and DELETE_SEGMENT leave a segment table.                *)
LEMMA TablaTrasInstruccion ==
  ASSUME NEW t, EsTabla(t), NEW i, Parametros(i)
  PROVE  EsTabla(TrasInstruccion(t, i))
<1>1. CASE i.op = "CREATE_SEGMENT"
  BY <1>1 DEF TrasInstruccion, EsTabla, Parametros
<1>2. CASE i.op = "DELETE_SEGMENT"
  BY <1>2 DEF TrasInstruccion, EsTabla
<1>3. CASE i.op \notin {"CREATE_SEGMENT", "DELETE_SEGMENT"}
  BY <1>3 DEF TrasInstruccion
<1>4. QED
  BY <1>1, <1>2, <1>3

(* The instruction at a counter, and the one after it.                     *)
LEMMA InstruccionBien ==
  ASSUME NEW q \in Programas, NEW c \in DOMAIN q
  PROVE  /\ Parametros(q[c]) /\ c \in Nat
         /\ q[c].op # "EXIT" => c + 1 \in DOMAIN q
  BY CpuOK DEF CpuOK

-----------------------------------------------------------------------------
(* The phases exclude each other by where the kernel and the CPU are.      *)
LEMMA Fases ==
  ASSUME Turno
  PROVE  /\ kernel.paso = "libre" => EnElKernel
         /\ kernel.paso = "direccion" => ConDireccion
         /\ kernel.paso = "espera" => DeIda \/ EnLaCpu \/ EnMemoria \/ DeVuelta
         /\ cpu.paso \in {"ejecuta", "desaloja"} => EnLaCpu
         /\ cpu.paso \in {"lectura", "escritura"} => EnMemoria
         /\ aCpu # <<>> => DeIda
         /\ aMemoria # <<>> \/ deMemoria # <<>> => EnMemoria
  BY DEF Turno, EnElKernel, DeIda, EnLaCpu, EnMemoria, DeVuelta, ConDireccion, Silencio

(* Every step keeps InvTurno.                                              *)
LEMMA PasoTurno == InvTurno /\ [Next]_vars => InvTurno'
<1> SUFFICES ASSUME InvTurno, [Next]_vars PROVE InvTurno'
  OBVIOUS
<1> USE DEF InvTurno, vKernel, vMemoria
<1>0. /\ kernel.paso = "libre" => EnElKernel
      /\ kernel.paso = "direccion" => ConDireccion
      /\ kernel.paso = "espera" => DeIda \/ EnLaCpu \/ EnMemoria \/ DeVuelta
      /\ cpu.paso \in {"ejecuta", "desaloja"} => EnLaCpu
      /\ cpu.paso \in {"lectura", "escritura"} => EnMemoria
      /\ aCpu # <<>> => DeIda
      /\ aMemoria # <<>> \/ deMemoria # <<>> => EnMemoria
  BY Fases
<1>1. ASSUME NEW p \in Procesos, EnviaPcb(p) PROVE InvTurno'
  <2>1. /\ EnElKernel /\ p \in vivos
        /\ aCpu' = Append(aCpu, pcbs[p]) /\ kernel' = [paso |-> "espera", pid |-> p]
        /\ UNCHANGED <<programa, pcbs, vivos, aKernel, aMemoria, deMemoria, cpu>>
    BY <1>0, <1>1 DEF EnviaPcb
  <2>2. PcbsBien'
    BY <2>1 DEF PcbsBien
  <2>3. DeIda'
    BY <2>1 DEF EnElKernel, DeIda, Silencio
  <2>4. QED
    BY <2>2, <2>3 DEF Turno
<1>2. CASE RecibeDesalojo
  <2> DEFINE m == Head(aKernel)
             p == m.pcb.pid
             i == programa[p][m.pcb.contador]
             c == m.pcb.contador
  <2>1. DeVuelta
    BY <1>0, <1>2 DEF RecibeDesalojo, DeIda, EnLaCpu, EnMemoria
  <2>2. /\ MensajePcb(m) /\ p = kernel.pid /\ p \in vivos /\ p \in Procesos
        /\ EsPcb(m.pcb) /\ m.pcb.segmentos = pcbs[p].segmentos
        /\ c \in DOMAIN programa[p] /\ programa[p] \in Programas
        /\ m.op = i.op \/ (m.op = "SEGMENTATION_FAULT" /\ i.op \in Mov)
    BY <2>1 DEF DeVuelta, MensajePcb, CopiaDelTurno, CodigoDe, PcbsBien
  <2>3. PICK x : /\ x = [m.pcb EXCEPT !.contador = @ + 1,
                                      !.registros = RecibeRegistros(@),
                                      !.segmentos = TrasInstruccion(@, i)]
                 /\ pcbs' = [pcbs EXCEPT ![p] = x]
    BY <1>2 DEF RecibeDesalojo
  <2>4. /\ EsPcb(x) /\ x.pid = p /\ x.contador = c + 1
        /\ x.segmentos = TrasInstruccion(m.pcb.segmentos, i)
    BY <2>2, <2>3 DEF EsPcb
  <2>5. /\ vivos' = IF m.op \in {"EXIT", "SEGMENTATION_FAULT"} THEN vivos \ {p} ELSE vivos
        /\ kernel' = IF m.op \in DeArchivo THEN [kernel EXCEPT !.paso = "direccion"]
                     ELSE [paso |-> "libre", pid |-> Ninguna]
        /\ aKernel' = Tail(aKernel)
        /\ UNCHANGED <<programa, aCpu, aMemoria, deMemoria, cpu>>
    BY <1>2 DEF RecibeDesalojo
  <2>6. Parametros(i) /\ (i.op # "EXIT" => c + 1 \in DOMAIN programa[p])
    BY <2>2, InstruccionBien
  <2>7. EsTabla(x.segmentos)
    <3>1. EsTabla(m.pcb.segmentos)
      BY <2>2 DEF PcbsBien
    <3>2. EsTabla(TrasInstruccion(m.pcb.segmentos, i))
      BY <2>6, <3>1, TablaTrasInstruccion
    <3>3. QED
      BY <2>4, <3>2
  <2>8. p \in vivos' => x.contador \in DOMAIN programa[p]
    BY <2>2, <2>4, <2>5, <2>6
  <2> HIDE DEF m, p, c, i
  <2>9. PcbsBien'
    <3>1. DOMAIN pcbs' = Procesos /\ vivos' \subseteq Procesos
          /\ programa' \in [Procesos -> Programas]
      BY <2>3, <2>5 DEF PcbsBien
    <3>2. \A q \in Procesos : pcbs'[q] = IF q = p THEN x ELSE pcbs[q]
      BY <2>3 DEF PcbsBien
    <3>3. ASSUME NEW q \in Procesos
          PROVE  /\ EsPcb(pcbs'[q]) /\ pcbs'[q].pid = q /\ EsTabla(pcbs'[q].segmentos)
                 /\ q \in vivos' => pcbs'[q].contador \in DOMAIN programa'[q]
      <4>1. CASE q = p
        BY <2>4, <2>5, <2>7, <2>8, <3>2, <4>1
      <4>2. CASE q # p
        BY <2>5, <3>2, <4>2 DEF PcbsBien
      <4>3. QED
        BY <4>1, <4>2
    <3>4. /\ kernel' = [paso |-> kernel'.paso, pid |-> kernel'.pid]
          /\ cpu' = [paso |-> cpu'.paso, pcb |-> cpu'.pcb, op |-> cpu'.op]
      BY <2>5 DEF PcbsBien
    <3>5. QED
      BY <3>1, <3>3, <3>4 DEF PcbsBien
  <2>10. CASE m.op \in DeArchivo
    <3>1. kernel'.paso = "direccion"
      BY <2>5, <2>10 DEF PcbsBien
    <3>2. CASE aKernel = <<m>>
      <4>1. aKernel' = <<>>
        BY <2>5, <3>2
      <4>2. cpu.paso = "direccion"
        BY <2>1, <2>10, <3>2 DEF DeVuelta, m
      <4>3. ConDireccion'
        BY <2>1, <2>5, <3>1, <4>1, <4>2 DEF DeVuelta, ConDireccion, Silencio
      <4>4. QED
        BY <2>9, <4>3 DEF Turno
    <3>3. CASE aKernel # <<m>>
      <4>1. PICK d : aKernel = <<m, d>> /\ d.tipo = "direccion" /\ cpu.paso = "libre"
        BY <2>1, <3>3 DEF DeVuelta, m
      <4>2. aKernel' = <<d>>
        BY <2>5, <4>1
      <4>3. Unico(aKernel') /\ Head(aKernel').tipo = "direccion"
        BY <4>1, <4>2 DEF Unico
      <4>4. ConDireccion'
        BY <2>1, <2>5, <3>1, <4>1, <4>3 DEF DeVuelta, ConDireccion, Silencio
      <4>5. QED
        BY <2>9, <4>4 DEF Turno
    <3>4. QED
      BY <3>2, <3>3
  <2>11. CASE m.op \notin DeArchivo
    <3>1. kernel'.paso = "libre" /\ aKernel = <<m>> /\ cpu.paso = "libre"
      BY <2>1, <2>5, <2>11 DEF DeVuelta, m
    <3>2. EnElKernel'
      BY <2>1, <2>5, <3>1 DEF EnElKernel, DeVuelta, Silencio
    <3>3. QED
      BY <2>9, <3>2 DEF Turno
  <2>12. QED
    BY <2>10, <2>11
<1>3. CASE RecibeDireccion
  <2>1. /\ ConDireccion /\ aKernel # <<>> /\ aKernel' = Tail(aKernel)
        /\ kernel' = [paso |-> "libre", pid |-> Ninguna]
        /\ UNCHANGED <<programa, pcbs, vivos, aCpu, aMemoria, deMemoria, cpu>>
    BY <1>0, <1>3 DEF RecibeDireccion
  <2>2. PcbsBien'
    BY <2>1 DEF PcbsBien
  <2>3. aKernel' = <<>> /\ cpu.paso = "libre"
    <3>1. cpu.paso = "libre" /\ Unico(aKernel)
      BY <2>1 DEF ConDireccion
    <3>2. PICK d : aKernel = <<d>>
      BY <3>1 DEF Unico
    <3>3. QED
      BY <2>1, <3>1, <3>2
  <2>4. EnElKernel'
    BY <2>1, <2>3 DEF ConDireccion, EnElKernel, Silencio
  <2>5. QED
    BY <2>2, <2>4 DEF Turno
<1>4. CASE RecibePcb
  <2>1. /\ DeIda /\ aCpu' = Tail(aCpu)
        /\ cpu' = [paso |-> "ejecuta",
                   pcb |-> [Head(aCpu) EXCEPT !.registros = RecibeRegistros(@)],
                   op |-> Ninguna]
        /\ UNCHANGED <<programa, pcbs, vivos, kernel, aKernel, aMemoria, deMemoria>>
    BY <1>0, <1>4 DEF RecibePcb
  <2>2. PcbsBien'
    BY <2>1 DEF PcbsBien
  <2>3. aCpu' = <<>> /\ Head(aCpu) = pcbs[kernel.pid] /\ kernel.pid \in vivos
    BY <2>1 DEF DeIda
  <2>4. CopiaDelTurno(cpu.pcb)'
    <3>1. EsPcb(Head(aCpu)) /\ Head(aCpu).segmentos = pcbs[kernel.pid].segmentos /\ Head(aCpu).pid = kernel.pid
          /\ Head(aCpu).contador \in DOMAIN programa[kernel.pid]
      BY <2>3 DEF PcbsBien
    <3>2. cpu'.pcb = [Head(aCpu) EXCEPT !.registros = RecibeRegistros(Head(aCpu).registros)]
      BY <2>1
    <3>3. /\ EsPcb(cpu'.pcb) /\ cpu'.pcb.pid = kernel.pid
          /\ cpu'.pcb.segmentos = pcbs[kernel.pid].segmentos
          /\ cpu'.pcb.contador \in DOMAIN programa[kernel.pid]
      BY <3>1, <3>2, CambiaRegistros
    <3>4. QED
      BY <2>1, <2>3, <3>3 DEF CopiaDelTurno, EsPcb
  <2>5. EnLaCpu'
    <3>1. cpu'.paso = "ejecuta"
      BY <2>1
    <3>2. QED
      BY <2>1, <2>3, <2>4, <3>1 DEF DeIda, EnLaCpu, Silencio
  <2>6. QED
    BY <2>2, <2>5 DEF Turno
(* The CPU goes on to the next instruction.                                *)
<1>5. ASSUME CopiaDelTurno(cpu.pcb), Instruccion.op # "EXIT", NEW op, Avanza(op),
             UNCHANGED <<programa, pcbs, vivos, kernel, aCpu, aKernel>>,
             aCpu = <<>>, aKernel = <<>>, kernel.paso = "espera", Silencio'
      PROVE  InvTurno'
  <2>1. cpu' = [paso |-> "ejecuta", pcb |-> [cpu.pcb EXCEPT !.contador = @ + 1], op |-> op]
    BY <1>5 DEF Avanza, PcbsBien
  <2>2. PcbsBien'
    BY <1>5, <2>1 DEF PcbsBien
  <2>3. /\ cpu.pcb.contador \in DOMAIN programa[kernel.pid]
        /\ programa[kernel.pid] \in Programas /\ cpu.pcb.pid = kernel.pid
    BY <1>5 DEF CopiaDelTurno, PcbsBien
  <2>4. cpu.pcb.contador + 1 \in DOMAIN programa[kernel.pid]
    BY <1>5, <2>3, InstruccionBien DEF Instruccion
  <2>5. CopiaDelTurno(cpu.pcb)'
    <3>1. cpu'.pcb = [cpu.pcb EXCEPT !.contador = cpu.pcb.contador + 1]
      BY <2>1
    <3>2. EsPcb(cpu.pcb) /\ cpu.pcb.segmentos = pcbs[kernel.pid].segmentos
      BY <1>5 DEF CopiaDelTurno
    <3>3. /\ EsPcb(cpu'.pcb) /\ cpu'.pcb.pid = kernel.pid
          /\ cpu'.pcb.segmentos = pcbs[kernel.pid].segmentos
          /\ cpu'.pcb.contador = cpu.pcb.contador + 1
      BY <2>3, <3>1, <3>2, CambiaContador
    <3>4. QED
      BY <1>5, <2>4, <3>3 DEF CopiaDelTurno, EsPcb
  <2>6. EnLaCpu'
    <3>1. cpu'.paso = "ejecuta"
      BY <2>1
    <3>2. QED
      BY <1>5, <2>5, <3>1 DEF EnLaCpu
  <2>7. QED
    BY <2>2, <2>6 DEF Turno
<1>6. CASE Set
  BY <1>0, <1>5, <1>6 DEF Set, Ejecuta, EnLaCpu, Silencio
<1>7. CASE FallaDeSegmento
  <2>1. /\ EnLaCpu /\ Instruccion.op \in Mov
        /\ cpu' = [cpu EXCEPT !.paso = "desaloja", !.op = "SEGMENTATION_FAULT"]
        /\ UNCHANGED <<programa, pcbs, vivos, kernel, aCpu, aKernel, aMemoria, deMemoria>>
    BY <1>0, <1>7 DEF FallaDeSegmento, Ejecuta
  <2>2. cpu' = [paso |-> "desaloja", pcb |-> cpu.pcb, op |-> "SEGMENTATION_FAULT"]
    BY <2>1 DEF PcbsBien
  <2>3. PcbsBien' /\ EnLaCpu'
    BY <2>1, <2>2 DEF PcbsBien, EnLaCpu, CopiaDelTurno, CodigoDe, Instruccion, Silencio
  <2>4. QED
    BY <2>3 DEF Turno
<1>8. CASE Interrumpe
  <2>1. /\ EnLaCpu
        /\ cpu' = [cpu EXCEPT !.paso = "desaloja", !.op = Instruccion.op]
        /\ UNCHANGED <<programa, pcbs, vivos, kernel, aCpu, aKernel, aMemoria, deMemoria>>
    BY <1>0, <1>8 DEF Interrumpe
  <2>2. cpu' = [paso |-> "desaloja", pcb |-> cpu.pcb, op |-> Instruccion.op]
    BY <2>1 DEF PcbsBien
  <2>3. PcbsBien' /\ EnLaCpu'
    BY <2>1, <2>2 DEF PcbsBien, EnLaCpu, CopiaDelTurno, CodigoDe, Instruccion, Silencio
  <2>4. QED
    BY <2>3 DEF Turno
<1>9. ASSUME NEW op \in Mov, NEW v, NEW paso \in {"lectura", "escritura"},
             PideMov(op, v, paso)
      PROVE  InvTurno'
  <2> DEFINE m == [op |-> op, pid |-> cpu.pcb.pid, dir |-> DireccionMov,
                   tam |-> Tamanio[Instruccion.registro], valor |-> v]
  <2>1. /\ EnLaCpu /\ Instruccion.op \in Mov /\ DireccionMov # -1
        /\ aMemoria' = Append(aMemoria, m)
        /\ cpu' = [cpu EXCEPT !.paso = paso]
        /\ UNCHANGED <<programa, pcbs, vivos, kernel, aCpu, aKernel, deMemoria>>
    BY <1>0, <1>9 DEF PideMov, Ejecuta
  <2>2. cpu' = [paso |-> paso, pcb |-> cpu.pcb, op |-> cpu.op]
    BY <2>1 DEF PcbsBien
  <2>3. PcbsBien'
    BY <2>1, <2>2 DEF PcbsBien
  <2>4. aMemoria' = <<m>> /\ Unico(aMemoria') /\ deMemoria' = <<>>
    BY <2>1 DEF EnLaCpu, Silencio, Unico
  <2>10. Head(aMemoria') = m /\ m.pid = cpu.pcb.pid /\ m.tam = Tamanio[Instruccion.registro]
    BY <2>4
  <2> HIDE DEF m
  <2>5. Instruccion' = Instruccion /\ DireccionMov' = DireccionMov
    BY <2>1, <2>2 DEF Instruccion, DireccionMov
  <2>6. Pedido(Head(aMemoria))'
    BY <2>1, <2>2, <2>10, <2>5 DEF Pedido
  <2>7. CopiaDelTurno(cpu.pcb)'
    BY <2>1, <2>2 DEF EnLaCpu, CopiaDelTurno
  <2>8. EnMemoria'
    BY <2>1, <2>2, <2>4, <2>5, <2>6, <2>7 DEF EnLaCpu, EnMemoria
  <2>9. QED
    BY <2>3, <2>8 DEF Turno
<1>10. CASE RecibeValor \/ RecibeConfirmacion
  <2>1. /\ EnMemoria /\ deMemoria # <<>> /\ deMemoria' = Tail(deMemoria)
        /\ \E op : Avanza(op)
        /\ UNCHANGED <<programa, pcbs, vivos, kernel, aCpu, aKernel, aMemoria>>
    BY <1>0, <1>10 DEF RecibeValor, RecibeConfirmacion
  <2>2. Silencio'
    BY <2>1 DEF EnMemoria, Unico, Silencio
  <2>3. CopiaDelTurno(cpu.pcb) /\ Instruccion.op # "EXIT"
    BY <2>1 DEF EnMemoria, Mov
  <2>4. QED
    BY <1>5, <2>1, <2>2, <2>3 DEF EnMemoria
<1>11. CASE Desaloja
  <2> DEFINE x == [cpu.pcb EXCEPT !.registros = CopiaContexto(registros, @)]
             m == [tipo |-> "pcb", op |-> cpu.op, pcb |-> x]
  <2>1. /\ EnLaCpu /\ CodigoDe(cpu.op, cpu.pcb)
        /\ aKernel' = Append(aKernel, m)
        /\ cpu' = [cpu EXCEPT !.pcb = x,
                              !.paso = IF cpu.op \in DeArchivo THEN "direccion" ELSE "libre"]
        /\ UNCHANGED <<programa, pcbs, vivos, kernel, aCpu, aMemoria, deMemoria>>
    BY <1>0, <1>11 DEF Desaloja, EnLaCpu
  <2>2. cpu' = [paso |-> IF cpu.op \in DeArchivo THEN "direccion" ELSE "libre",
                pcb |-> x, op |-> cpu.op]
    BY <2>1 DEF PcbsBien
  <2>3. PcbsBien'
    BY <2>1, <2>2 DEF PcbsBien
  <2>4. EsPcb(cpu.pcb) /\ CopiaDelTurno(cpu.pcb)
    BY <2>1 DEF EnLaCpu, CopiaDelTurno
  <2>5. /\ EsPcb(x) /\ x.pid = cpu.pcb.pid /\ x.contador = cpu.pcb.contador
        /\ x.segmentos = cpu.pcb.segmentos
    BY <2>4, CambiaRegistros
  <2> HIDE DEF x
  <2>6. aKernel' = <<m>> /\ Head(aKernel') = m
    BY <2>1 DEF EnLaCpu
  <2>7. m.op = cpu.op /\ m.pcb = x /\ m = [tipo |-> "pcb", op |-> m.op, pcb |-> m.pcb]
    OBVIOUS
  <2> HIDE DEF m
  <2>8. MensajePcb(Head(aKernel))'
    <3>1. CodigoDe(cpu.op, x) /\ x.pid = kernel.pid
      BY <2>1, <2>4, <2>5 DEF CodigoDe, CopiaDelTurno
    <3>2. programa' = programa /\ pcbs' = pcbs /\ vivos' = vivos /\ kernel' = kernel
      BY <2>1
    <3>3. CopiaDelTurno(Head(aKernel).pcb)'
      BY <2>4, <2>5, <2>6, <2>7, <3>1, <3>2 DEF CopiaDelTurno, EsPcb
    <3>4. CodigoDe(Head(aKernel).op, Head(aKernel).pcb)'
      BY <2>6, <2>7, <3>1, <3>2 DEF CodigoDe
    <3>5. QED
      BY <2>6, <2>7, <3>3, <3>4 DEF MensajePcb
  <2>9. DeVuelta'
    <3>1. cpu'.paso = IF m.op \in DeArchivo THEN "direccion" ELSE "libre"
      BY <2>2, <2>7
    <3>2. aKernel' = <<Head(aKernel')>> /\ aKernel' # <<>>
      BY <2>6
    <3>3. QED
      BY <2>1, <2>6, <2>8, <3>1, <3>2 DEF EnLaCpu, DeVuelta, Silencio
  <2>10. QED
    BY <2>3, <2>9 DEF Turno
<1>12. CASE EnviaDireccion
  <2>1. PICK d : /\ d.tipo = "direccion" /\ aKernel' = Append(aKernel, d)
                 /\ cpu.paso = "direccion" /\ cpu' = [cpu EXCEPT !.paso = "libre"]
                 /\ UNCHANGED <<programa, pcbs, vivos, kernel, aCpu, aMemoria, deMemoria>>
    BY <1>12 DEF EnviaDireccion
  <2>2. cpu' = [paso |-> "libre", pcb |-> cpu.pcb, op |-> cpu.op]
    BY <2>1 DEF PcbsBien
  <2>3. PcbsBien'
    BY <2>1, <2>2 DEF PcbsBien
  <2>4. CASE ConDireccion
    BY <2>1, <2>2, <2>3, <2>4 DEF ConDireccion, Turno, Silencio, Unico
  <2>5. CASE DeVuelta
    <3> DEFINE m == Head(aKernel)
    <3>1. aKernel = <<m>> /\ m.op \in DeArchivo /\ MensajePcb(m)
      BY <2>1, <2>5 DEF DeVuelta
    <3> HIDE DEF m
    <3>2. aKernel' = <<m, d>>
      <4>1. aKernel' = Append(<<m>>, d)
        BY <2>1, <3>1
      <4>2. QED
        BY <4>1, SegundoMensaje
    <3>3. /\ aKernel' # <<>> /\ Head(aKernel') = m /\ Len(aKernel') = 2 /\ aKernel'[2] = d
      BY <3>2
    <3>4. MensajePcb(Head(aKernel))'
      BY <2>1, <3>1, <3>3 DEF MensajePcb, CopiaDelTurno, CodigoDe
    <3>5. DeVuelta'
      BY <2>1, <2>2, <2>5, <3>1, <3>2, <3>3, <3>4 DEF DeVuelta, Silencio
    <3>6. QED
      BY <2>3, <3>5 DEF Turno
  <2>6. QED
    BY <2>1, <2>4, <2>5 DEF Turno, EnElKernel, DeIda, EnLaCpu, EnMemoria
<1>13. CASE AtiendeMovIn \/ AtiendeMovOut
  <2>1. PICK v : /\ aMemoria # <<>> /\ aMemoria' = Tail(aMemoria)
                 /\ deMemoria' = Append(deMemoria, v)
                 /\ UNCHANGED <<programa, pcbs, vivos, kernel, aCpu, aKernel, cpu>>
    BY <1>13 DEF AtiendeMovIn, AtiendeMovOut
  <2>2. EnMemoria
    BY <1>0, <2>1
  <2>3. PcbsBien'
    BY <2>1 DEF PcbsBien
  <2>4. aMemoria' = <<>> /\ Unico(deMemoria')
    BY <2>1, <2>2 DEF EnMemoria, Unico
  <2>5. Instruccion' = Instruccion /\ CopiaDelTurno(cpu.pcb)'
    BY <2>1, <2>2 DEF Instruccion, EnMemoria, CopiaDelTurno
  <2>6. EnMemoria'
    BY <2>1, <2>2, <2>4, <2>5 DEF EnMemoria
  <2>7. QED
    BY <2>3, <2>6 DEF Turno
<1>14. CASE UNCHANGED vars
  BY <1>14 DEF vars, PcbsBien, Turno, EnElKernel, DeIda, EnLaCpu, EnMemoria, DeVuelta,
     ConDireccion, Silencio, Unico, CopiaDelTurno, CodigoDe, MensajePcb, Pedido, Instruccion,
     DireccionMov
<1>15. QED
  BY <1>1, <1>2, <1>3, <1>4, <1>6, <1>7, <1>8, <1>9, <1>10, <1>11, <1>12, <1>13, <1>14
  DEF Next, PasoKernel, PasoCpu, PasoMemoria, MovIn, MovOut, Mov

(* The kernel starts with every process in its table and nobody sent.      *)
LEMMA InicioTurno == Init => InvTurno
<1> SUFFICES ASSUME Init PROVE InvTurno
  OBVIOUS
<1>1. EnElKernel
  BY DEF Init, EnElKernel, Silencio
<1>2. EsTabla(Segmentos)
  BY CpuOK DEF CpuOK, EsTabla
<1>3. ASSUME NEW p \in Procesos
      PROVE  /\ EsPcb(pcbs[p]) /\ pcbs[p].pid = p /\ EsTabla(pcbs[p].segmentos)
             /\ pcbs[p].contador \in DOMAIN programa[p]
  <2>1. pcbs[p] = [pid |-> p, contador |-> 1, segmentos |-> Segmentos,
                   registros |-> ContextoInicial]
    BY DEF Init
  <2>2. programa[p] \in Programas
    BY DEF Init
  <2>3. 1 \in DOMAIN programa[p]
    BY <2>2, CpuOK DEF CpuOK
  <2>4. QED
    BY <1>2, <2>1, <2>3 DEF EsPcb
<1>4. PcbsBien
  BY <1>3 DEF Init, PcbsBien
<1>5. QED
  BY <1>1, <1>4 DEF InvTurno, Turno

(* In every state the kernel and the CPU agree on whose turn it is.        *)
THEOREM TurnoAcordado == Spec => []InvTurno
<1>1. QED
  BY InicioTurno, PasoTurno, PTL DEF Spec

(* Kernel and CPU agree on how many messages an eviction has (enviar_pcb   *)
(* and, for F_READ and F_WRITE, the address; manejo_desalojo_pcb receives  *)
(* as many), so that none is left in a socket for the next process.        *)
THEOREM SocketsAparejados == Spec => []MensajesAparejados
<1>1. ASSUME InvTurno PROVE MensajesAparejados
  <2> USE <1>1 DEF InvTurno
  <2>1. ASSUME NEW s, Unico(s) PROVE Len(s) = 1 /\ s # <<>>
    <3>1. PICK m : s = <<m>>
      BY <2>1 DEF Unico
    <3>2. Len(<<m>>) = 1
      OBVIOUS
    <3>3. QED
      BY <3>1, <3>2
  <2>2. CASE EnElKernel
    BY <2>2 DEF EnElKernel, Silencio, MensajesAparejados
  <2>3. CASE DeIda
    BY <2>3 DEF DeIda, Silencio, MensajesAparejados
  <2>4. CASE EnLaCpu
    BY <2>4 DEF EnLaCpu, Silencio, MensajesAparejados
  <2>5. CASE EnMemoria
    <3>1. Len(aMemoria) + Len(deMemoria) = 1 /\ kernel.paso = "espera"
      <4>1. CASE Unico(aMemoria) /\ deMemoria = <<>>
        BY <2>1, <2>5, <4>1 DEF EnMemoria
      <4>2. CASE aMemoria = <<>> /\ Unico(deMemoria)
        BY <2>1, <2>5, <4>2 DEF EnMemoria
      <4>3. QED
        BY <2>5, <4>1, <4>2 DEF EnMemoria
    <3>2. QED
      BY <2>5, <3>1 DEF EnMemoria, MensajesAparejados
  <2>6. CASE DeVuelta
    <3>1. Head(aKernel).tipo = "pcb"
      BY <2>6 DEF DeVuelta, MensajePcb
    <3>2. Len(aKernel) <= 2
      <4>1. CASE aKernel = <<Head(aKernel)>>
        <5>1. Unico(aKernel)
          BY <4>1 DEF Unico
        <5>2. QED
          BY <2>1, <5>1
      <4>2. Len(aKernel) = 2 \/ aKernel = <<Head(aKernel)>>
        BY <2>6 DEF DeVuelta
      <4>3. QED
        BY <4>1, <4>2
    <3>3. QED
      BY <2>6, <3>1, <3>2 DEF DeVuelta, Silencio, MensajesAparejados
  <2>7. CASE ConDireccion
    <3>1. Len(aKernel) <= 2
      <4>1. aKernel = <<>> \/ Unico(aKernel)
        BY <2>7 DEF ConDireccion
      <4>2. QED
        BY <2>1, <4>1
    <3>2. QED
      BY <2>7, <3>1 DEF ConDireccion, Silencio, MensajesAparejados
  <2>8. QED
    BY <2>2, <2>3, <2>4, <2>5, <2>6, <2>7 DEF Turno
<1>2. QED
  BY <1>1, TurnoAcordado, PTL

(* The instruction the kernel decodes again, at the counter of the PCB it  *)
(* gets back (manejo_instrucciones), is the one whose code the CPU sent.   *)
THEOREM DesalojoCoincide == Spec => []DesalojoEsDelContador
<1>1. ASSUME InvTurno, aKernel # <<>>, Head(aKernel).tipo = "pcb"
      PROVE  CodigoDe(Head(aKernel).op, Head(aKernel).pcb)
  <2>1. DeVuelta
    BY <1>1 DEF InvTurno, Turno, EnElKernel, DeIda, EnLaCpu, EnMemoria, ConDireccion
  <2>2. QED
    BY <2>1 DEF DeVuelta, MensajePcb
<1>2. ASSUME InvTurno PROVE DesalojoEsDelContador
  BY <1>1, <1>2 DEF DesalojoEsDelContador, CodigoDe
<1>3. QED
  BY <1>2, TurnoAcordado, PTL

(* The size of a segment is a number, -1 if the process does not have it.  *)
LEMMA TamanioEntero ==
  ASSUME NEW t, EsTabla(t), NEW id
  PROVE  TamanioSegmento(t, id) \in Int
<1>1. CASE id \in DOMAIN t
  BY <1>1 DEF TamanioSegmento, EsTabla
<1>2. CASE id \notin DOMAIN t
  BY <1>2 DEF TamanioSegmento
<1>3. QED
  BY <1>1, <1>2

(* An access that memory is asked for (ejecutar_mov_in, ejecutar_mov_out)  *)
(* is inside the segment that the kernel has for the process: the table in *)
(* the CPU is still the kernel's, and obtener_direcc_fisica counts the     *)
(* last byte.                                                              *)
THEOREM AccesoAcotado == Spec => []AccesoEnSegmento
<1>1. ASSUME InvTurno, aMemoria # <<>>
      PROVE  LET m == Head(aMemoria)
                 dir == programa[m.pid][cpu.pcb.contador].dir
             IN  (dir % TAM_MAX_SEGMENTO) + m.tam
                   <= TamanioSegmento(pcbs[m.pid].segmentos, dir \div TAM_MAX_SEGMENTO)
  <2> DEFINE i == programa[cpu.pcb.pid][cpu.pcb.contador]
             t == cpu.pcb.segmentos
             s == i.dir \div TAM_MAX_SEGMENTO
  <2>1. EnMemoria /\ Pedido(Head(aMemoria))
    BY <1>1 DEF InvTurno, Turno, EnElKernel, DeIda, EnLaCpu, EnMemoria, DeVuelta,
       ConDireccion, Silencio
  <2>2. /\ Head(aMemoria).pid = cpu.pcb.pid /\ Head(aMemoria).tam = Tamanio[i.registro]
        /\ DireccionFisica(cpu.pcb, i.dir, Tamanio[i.registro]) # -1
    BY <2>1 DEF Pedido, Instruccion, DireccionMov
  <2>3. /\ i.op \in Mov /\ cpu.pcb.contador \in DOMAIN programa[cpu.pcb.pid]
        /\ cpu.pcb.pid = kernel.pid /\ t = pcbs[cpu.pcb.pid].segmentos
        /\ cpu.pcb.pid \in Procesos
    BY <1>1, <2>1 DEF EnMemoria, CopiaDelTurno, Instruccion, InvTurno, PcbsBien
  <2>4. Parametros(i) /\ EsTabla(t)
    BY <1>1, <2>3, InstruccionBien DEF InvTurno, PcbsBien
  <2>5. i.dir \in Nat /\ Tamanio[i.registro] \in {1, 2, 4} /\ TAM_MAX_SEGMENTO \in Nat \ {0}
    BY <2>3, <2>4, CpuOK DEF CpuOK, Parametros
  <2>6. TamanioSegmento(t, s) \in Int
    BY <2>4, TamanioEntero
  <2>7. ~ ((i.dir % TAM_MAX_SEGMENTO) + Tamanio[i.registro] > TamanioSegmento(t, s))
    BY <2>2 DEF DireccionFisica
  <2> HIDE DEF i, t, s
  <2>8. (i.dir % TAM_MAX_SEGMENTO) + Tamanio[i.registro] <= TamanioSegmento(t, s)
    BY <2>5, <2>6, <2>7
  <2>9. QED
    BY <2>2, <2>3, <2>8 DEF i, t, s
<1>2. ASSUME InvTurno PROVE AccesoEnSegmento
  BY <1>1, <1>2 DEF AccesoEnSegmento
<1>3. QED
  BY <1>2, TurnoAcordado, PTL

-----------------------------------------------------------------------------
(* The registers. What a context lets read, and how strcpy copies it.      *)

(* The word i can be read: no word of its register before it ends the      *)
(* string.                                                                 *)
Legible(c, i) == Sigue(c, Inicio(i), i)

(* Two contexts let read the same words, and find the same in them.        *)
IgualVisible(a, b) ==
  \A i \in 1 .. Palabras : /\ Legible(a, i) <=> Legible(b, i)
                           /\ Legible(a, i) => a[i] = b[i]

(* Then a program finds the same in both.                                  *)
LEMMA MismoVisible ==
  ASSUME NEW a, NEW b, IgualVisible(a, b)
  PROVE  Visible(a) = Visible(b)
<1>1. ASSUME NEW c
      PROVE  Visible(c) = {<<i, c[i]>> : i \in {j \in 1 .. Palabras : Legible(c, j)}}
  BY DEF Visible, Legible
<1>2. {j \in 1 .. Palabras : Legible(a, j)} = {j \in 1 .. Palabras : Legible(b, j)}
  BY DEF IgualVisible
<1>3. \A j \in {k \in 1 .. Palabras : Legible(a, k)} : a[j] = b[j]
  BY DEF IgualVisible
<1>4. QED
  BY <1>1, <1>2, <1>3

(* Where a register starts.                                                *)
LEMMA InicioDeRegistro ==
  ASSUME NEW i \in 1 .. Palabras
  PROVE  /\ Inicio(i) \in 1 .. i
         /\ \A k \in Inicio(i) .. i : k \in 1 .. Palabras /\ Inicio(k) = Inicio(i)
<1>1. ASSUME NEW k \in 1 .. Palabras, NEW r \in Registros, EnRegistro(k, r)
      PROVE  Inicio(k) = Base[r]
  <2> DEFINE S == {b \in Inicios : b <= k}
  <2>1. Base[r] \in S /\ Base[r] \in Int
    BY <1>1, CpuOK DEF CpuOK, EnRegistro, Inicios
  <2>2. ASSUME NEW b \in S PROVE b \in Int /\ Base[r] >= b
    <3>1. PICK q \in Registros : b = Base[q]
      BY DEF Inicios
    <3>2. b \in 1 .. Palabras /\ b <= k /\ Tamanio[q] \in {1, 2, 4}
      BY <3>1, CpuOK DEF CpuOK
    <3>3. EnRegistro(b, q)
      BY <3>1, <3>2 DEF EnRegistro
    <3>4. b > Base[r] => EnRegistro(b, r)
      BY <1>1, <2>1, <3>2, CpuOK, SMTT(30) DEF CpuOK, EnRegistro
    <3>5. PICK w \in Registros : \A v \in Registros : EnRegistro(b, v) <=> v = w
      BY <3>2, CpuOK DEF CpuOK
    <3>6. b > Base[r] => q = r
      BY <3>3, <3>4, <3>5
    <3>7. QED
      BY <2>1, <3>1, <3>2, <3>6
  <2>3. Inicio(k) = CHOOSE x \in S : \A y \in S : x >= y
    BY DEF Inicio, Max
  <2> HIDE DEF S
  <2>4. \A x \in S : (\A y \in S : x >= y) => x = Base[r]
    BY <2>1, <2>2
  <2>5. QED
    BY <2>1, <2>2, <2>3, <2>4
<1>2. PICK r \in Registros : EnRegistro(i, r)
  BY CpuOK DEF CpuOK
<1>3. Inicio(i) = Base[r] /\ Base[r] \in 1 .. i
  BY <1>1, <1>2, CpuOK DEF CpuOK, EnRegistro
<1>4. ASSUME NEW k \in Base[r] .. i
      PROVE  k \in 1 .. Palabras /\ Inicio(k) = Base[r]
  <2>1. k \in 1 .. Palabras /\ EnRegistro(k, r)
    BY <1>2, <1>3, CpuOK DEF CpuOK, EnRegistro
  <2>2. QED
    BY <1>1, <2>1
<1>5. QED
  BY <1>3, <1>4

(* What can be read of a register is a prefix of it.                       *)
LEMMA LegibleAntes ==
  ASSUME NEW c, NEW i \in 1 .. Palabras, NEW k \in Inicio(i) .. i, Legible(c, i)
  PROVE  Legible(c, k)
<1>1. Inicio(k) = Inicio(i) /\ Inicio(i) \in Int
  BY InicioDeRegistro
<1>2. \A j \in Inicio(i) .. k - 1 : j \in Inicio(i) .. i - 1
  BY <1>1
<1>3. QED
  BY <1>1, <1>2 DEF Legible, Sigue

(* Two contexts that agree on what both let read, let read the same.       *)
LEMMA IgualSiCoinciden ==
  ASSUME NEW a, NEW b,
         \A i \in 1 .. Palabras : Legible(a, i) /\ Legible(b, i) => a[i] = b[i]
  PROVE  IgualVisible(a, b)
<1>1. ASSUME NEW c, NEW d,
             \A i \in 1 .. Palabras : Legible(c, i) /\ Legible(d, i) => c[i] = d[i],
             NEW i \in 1 .. Palabras, Legible(c, i), ~ Legible(d, i)
      PROVE  FALSE
  <2> DEFINE T == {j \in Inicio(i) .. i - 1 : Termina(d[j])}
  <2>1. T # {} /\ T \subseteq Nat
    BY <1>1, InicioDeRegistro DEF Legible, Sigue
  <2>2. PICK j \in T : \A k \in T : j <= k
    BY <2>1, Primero
  <2>3. /\ j \in Inicio(i) .. i - 1 /\ Termina(d[j]) /\ j \in 1 .. Palabras
        /\ Inicio(j) = Inicio(i) /\ Inicio(i) \in Nat
    BY InicioDeRegistro
  <2>4. \A k \in Inicio(i) .. j - 1 : k \in Inicio(i) .. i - 1 /\ k \notin T
    BY <2>2, <2>3
  <2>5. Legible(d, j)
    BY <2>3, <2>4 DEF Legible, Sigue
  <2>6. Legible(c, j)
    BY <1>1, <2>3, LegibleAntes
  <2>7. ~ Termina(c[j])
    BY <1>1, <2>3 DEF Legible, Sigue
  <2>8. QED
    BY <1>1, <2>3, <2>5, <2>6, <2>7 DEF Termina
<1>2. ASSUME NEW i \in 1 .. Palabras
      PROVE  Legible(a, i) <=> Legible(b, i)
  BY <1>1
<1>3. QED
  BY <1>2 DEF IgualVisible

(* Copying every register, from the first to the last, keeps what can be   *)
(* read.                                                                   *)
LEMMA CopiaContextoFiel ==
  ASSUME NEW de, NEW a
  PROVE  IgualVisible(CopiaContexto(de, a), de)
<1> DEFINE c == CopiaContexto(de, a)
<1>1. ASSUME NEW i \in 1 .. Palabras, Legible(de, i) PROVE c[i] = de[i]
  <2>1. i \in Contexto
    BY CpuOK DEF Contexto, CpuOK
  <2>2. QED
    BY <1>1, <2>1 DEF CopiaContexto, Legible
<1> HIDE DEF c
<1>2. IgualVisible(c, de)
  BY <1>1, IgualSiCoinciden
<1>3. QED
  BY <1>2 DEF c

(* strcpy of the same value to the same register of two contexts that read *)
(* the same leaves two that read the same: the last word it writes ends    *)
(* the string, in the register or in the next one.                         *)
LEMMA CopiaFiel ==
  ASSUME NEW a, NEW b, IgualVisible(a, b), NEW r \in Registros,
         NEW valor, Len(valor) \in Nat, NEW sigue \in {Vacio, Basura}
  PROVE  IgualVisible(Copia(a, r, valor, sigue), Copia(b, r, valor, sigue))
<1> DEFINE N(i) == i - Base[r] + 1
           W == {i \in Contexto : /\ ~ (N(i) < 1 \/ N(i) > Len(valor) + 1)
                                  /\ Sigue(valor, 1, N(i))}
           Palabra(i) == IF N(i) > Len(valor) THEN sigue ELSE valor[N(i)]
<1>1. ASSUME NEW c, NEW i \in Contexto
      PROVE  Copia(c, r, valor, sigue)[i] = IF i \in W THEN Palabra(i) ELSE c[i]
  BY DEF Copia
<1>2. Base[r] \in Nat /\ Palabras \in Nat /\ Contexto = 1 .. Palabras + 1 /\ Termina(sigue)
  BY CpuOK DEF CpuOK, Contexto, Termina
<1>3. ASSUME NEW i \in Contexto, i \notin W, NEW j \in W, j < i
      PROVE  \E e \in j .. i - 1 : e \in W /\ Termina(Palabra(e))
  <2> DEFINE T == {k \in 1 .. Len(valor) : Termina(valor[k])} \union {Len(valor) + 1}
  <2>1. T # {} /\ T \subseteq Nat
    OBVIOUS
  <2>2. PICK k \in T : \A x \in T : k <= x
    BY <2>1, Primero
  <2>3. /\ k \in 1 .. Len(valor) + 1
        /\ k <= Len(valor) => Termina(valor[k])
        /\ Sigue(valor, 1, k)
    BY <2>2 DEF Sigue
  <2>4. N(j) \in 1 .. Len(valor) + 1 /\ Sigue(valor, 1, N(j)) /\ j \in Nat /\ i \in Nat
    BY <1>2, <1>3
  <2>5. N(j) <= k
    <3>1. SUFFICES ASSUME k < N(j) PROVE FALSE
      BY <2>3, <2>4
    <3>2. k <= Len(valor) /\ k \in 1 .. N(j) - 1
      BY <2>3, <2>4, <3>1
    <3>3. QED
      BY <2>3, <2>4, <3>2 DEF Sigue
  <2>6. k < N(i)
    <3>1. N(i) \in Int /\ N(i) > N(j)
      BY <1>2, <1>3, <2>4
    <3>2. N(i) > Len(valor) + 1 \/ ~ Sigue(valor, 1, N(i))
      BY <1>3, <2>4, <3>1
    <3>3. CASE N(i) > Len(valor) + 1
      BY <2>3, <3>1, <3>3
    <3>4. CASE N(i) <= Len(valor) + 1 /\ ~ Sigue(valor, 1, N(i))
      <4>1. PICK x \in 1 .. N(i) - 1 : Termina(valor[x])
        BY <3>4 DEF Sigue
      <4>2. x \in T
        BY <3>1, <3>4, <4>1
      <4>3. QED
        BY <2>2, <2>3, <3>1, <4>1, <4>2
    <3>5. QED
      BY <3>1, <3>2, <3>3, <3>4
  <2>7. PICK e : e = Base[r] + k - 1
    OBVIOUS
  <2>8. N(e) = k /\ e \in j .. i - 1 /\ e \in Contexto
    <3>1. k \in Nat /\ e \in Int /\ N(e) = k /\ N(j) = j - Base[r] + 1 /\ N(i) = i - Base[r] + 1
      BY <1>2, <2>3, <2>7
    <3>2. e >= j /\ e < i
      <4>1. \A x, y, z, w \in Int : y - x + 1 <= w /\ w < z - x + 1
                                       => x + w - 1 >= y /\ x + w - 1 < z
        OBVIOUS
      <4>2. j - Base[r] + 1 <= k /\ k < i - Base[r] + 1
        BY <2>5, <2>6
      <4>3. Base[r] \in Int /\ j \in Int /\ i \in Int /\ k \in Int
        BY <1>2, <2>4, <3>1
      <4>4. QED
        BY <2>7, <4>1, <4>2, <4>3
    <3>3. j >= 1 /\ i <= Palabras + 1
      BY <1>2, <1>3
    <3>4. QED
      BY <1>2, <2>4, <3>1, <3>2, <3>3
  <2>9. e \in W
    BY <2>3, <2>8
  <2>10. Termina(Palabra(e))
    BY <1>2, <2>3, <2>8
  <2>11. QED
    BY <2>8, <2>9, <2>10
<1> DEFINE ca == Copia(a, r, valor, sigue)
           cb == Copia(b, r, valor, sigue)
<1> HIDE DEF W, Palabra, N
<1>4. ASSUME NEW c, NEW i \in 1 .. Palabras, i \notin W,
             Legible(Copia(c, r, valor, sigue), i)
      PROVE  Legible(c, i)
  <2>1. ASSUME NEW j \in Inicio(i) .. i - 1 PROVE ~ Termina(c[j])
    <3>1. j \in Contexto /\ i \in Contexto /\ j < i /\ j \in Nat /\ i \in Nat
      BY <1>2, InicioDeRegistro
    <3>2. ~ Termina(Copia(c, r, valor, sigue)[j])
      BY <1>4 DEF Legible, Sigue
    <3>3. ASSUME j \in W PROVE FALSE
      <4>1. PICK e \in j .. i - 1 : e \in W /\ Termina(Palabra(e))
        BY <1>3, <1>4, <3>1, <3>3
      <4>2. e \in Inicio(i) .. i - 1 /\ e \in Contexto
        BY <1>2, <3>1, InicioDeRegistro
      <4>3. Termina(Copia(c, r, valor, sigue)[e])
        BY <1>1, <4>1, <4>2
      <4>4. QED
        BY <1>4, <4>2, <4>3 DEF Legible, Sigue
    <3>4. QED
      BY <1>1, <3>1, <3>2, <3>3
  <2>2. QED
    BY <2>1 DEF Legible, Sigue
<1>5. ASSUME NEW i \in 1 .. Palabras, Legible(ca, i), Legible(cb, i)
      PROVE  ca[i] = cb[i]
  <2>1. i \in Contexto
    BY <1>2
  <2>2. CASE i \in W
    BY <1>1, <2>1, <2>2
  <2>3. CASE i \notin W
    <3>1. Legible(a, i)
      BY <1>4, <1>5, <2>3
    <3>2. a[i] = b[i]
      BY <3>1 DEF IgualVisible
    <3>3. QED
      BY <1>1, <2>1, <2>3, <3>2
  <2>4. QED
    BY <2>2, <2>3
<1> HIDE DEF ca, cb
<1>6. IgualVisible(ca, cb)
  BY <1>5, IgualSiCoinciden
<1>7. QED
  BY <1>6 DEF ca, cb

(* What each copy of the registers of a process lets read is what the      *)
(* process left in them: the kernel's, unless the process is in the CPU;   *)
(* registrosCpu, while it executes; the message that brings it back.       *)
InvContexto ==
  /\ DOMAIN propio = Procesos
  /\ \A p \in Procesos : p # kernel.pid \/ kernel.paso # "espera" \/ aCpu # <<>>
       => IgualVisible(pcbs[p].registros, propio[p])
  /\ cpu.paso \in {"ejecuta", "desaloja", "lectura", "escritura"}
       => IgualVisible(registros, propio[cpu.pcb.pid])
  /\ aKernel # <<>> /\ Head(aKernel).tipo = "pcb"
       => IgualVisible(Head(aKernel).pcb.registros, propio[kernel.pid])
  /\ deMemoria # <<>> => Len(Head(deMemoria)) \in Nat

(* To let read the same is an equivalence.                                 *)
LEMMA IgualVisibleEquivale ==
  ASSUME NEW a, NEW b, NEW c
  PROVE  /\ IgualVisible(a, a)
         /\ IgualVisible(a, b) /\ IgualVisible(b, c) => IgualVisible(a, c)
  BY DEF IgualVisible

(* instruccion_set keeps InvContexto: what it does to registrosCpu is what *)
(* the process sees done to its registers.                                 *)
LEMMA InstruccionSetPropia ==
  ASSUME InvTurno, InvContexto, EnLaCpu \/ EnMemoria,
         NEW valor, Len(valor) \in Nat, NEW sigue \in {Vacio, Basura},
         NEW r \in Registros, InstruccionSet(r, valor, sigue),
         NEW op, Avanza(op), UNCHANGED <<pcbs, kernel, aCpu, aKernel>>, deMemoria' = <<>>
  PROVE  InvContexto'
<1> DEFINE p == cpu.pcb.pid
<1>1. /\ p = kernel.pid /\ p \in Procesos /\ kernel.paso = "espera"
      /\ aCpu = <<>> /\ aKernel = <<>>
      /\ cpu.paso \in {"ejecuta", "desaloja", "lectura", "escritura"}
  BY DEF EnLaCpu, EnMemoria, CopiaDelTurno, InvTurno, PcbsBien
<1>2. cpu' = [paso |-> "ejecuta", pcb |-> [cpu.pcb EXCEPT !.contador = cpu.pcb.contador + 1],
              op |-> op]
  BY DEF Avanza, InvTurno, PcbsBien
<1>3. cpu'.pcb.pid = p
  <2>1. EsPcb(cpu.pcb)
    BY DEF EnLaCpu, EnMemoria, CopiaDelTurno
  <2>2. cpu'.pcb = [cpu.pcb EXCEPT !.contador = cpu.pcb.contador + 1]
    BY <1>2
  <2>3. QED
    BY <2>1, <2>2, CambiaContador
<1>4. /\ registros' = Copia(registros, r, valor, sigue)
      /\ propio' = [propio EXCEPT ![p] = Copia(propio[p], r, valor, sigue)]
  BY DEF InstruccionSet
<1>5. IgualVisible(registros, propio[p]) /\ DOMAIN propio = Procesos
  BY <1>1 DEF InvContexto
<1>6. IgualVisible(Copia(registros, r, valor, sigue), Copia(propio[p], r, valor, sigue))
  BY <1>5, CopiaFiel
<1> HIDE DEF p
<1>7. IgualVisible(registros', propio'[p]) /\ DOMAIN propio' = Procesos
  BY <1>1, <1>4, <1>5, <1>6
<1>8. ASSUME NEW q \in Procesos, q # kernel.pid
      PROVE  IgualVisible(pcbs[q].registros, propio'[q])
  <2>1. propio'[q] = propio[q]
    BY <1>1, <1>4, <1>5, <1>8
  <2>2. QED
    BY <1>8, <2>1 DEF InvContexto
<1>9. QED
  BY <1>1, <1>3, <1>7, <1>8 DEF InvContexto

(* Every step keeps InvContexto.                                           *)
LEMMA PasoContexto == InvTurno /\ InvTurno' /\ InvContexto /\ [Next]_vars => InvContexto'
<1> SUFFICES ASSUME InvTurno, InvTurno', InvContexto, [Next]_vars PROVE InvContexto'
  OBVIOUS
<1> USE DEF vKernel, vMemoria
<1>0. /\ kernel.paso = "libre" => EnElKernel
      /\ kernel.paso = "direccion" => ConDireccion
      /\ kernel.paso = "espera" => DeIda \/ EnLaCpu \/ EnMemoria \/ DeVuelta
      /\ cpu.paso \in {"ejecuta", "desaloja"} => EnLaCpu
      /\ cpu.paso \in {"lectura", "escritura"} => EnMemoria
      /\ aCpu # <<>> => DeIda
      /\ aMemoria # <<>> \/ deMemoria # <<>> => EnMemoria
  BY Fases DEF InvTurno
<1>1. ASSUME NEW p \in Procesos, EnviaPcb(p) PROVE InvContexto'
  <2>1. /\ EnElKernel /\ kernel'.paso = "espera" /\ aCpu' = Append(aCpu, pcbs[p])
        /\ UNCHANGED <<pcbs, aKernel, deMemoria, registros, cpu, propio>>
    BY <1>0, <1>1 DEF EnviaPcb
  <2>2. QED
    BY <2>1 DEF EnElKernel, Silencio, InvContexto
<1>2. CASE RecibeDesalojo
  <2> DEFINE m == Head(aKernel)
             p == m.pcb.pid
  <2>1. DeVuelta
    BY <1>0, <1>2 DEF RecibeDesalojo, DeIda, EnLaCpu, EnMemoria
  <2>2. /\ m.tipo = "pcb" /\ p = kernel.pid /\ p \in Procesos /\ EsPcb(m.pcb) /\ DOMAIN pcbs = Procesos
    BY <2>1 DEF DeVuelta, MensajePcb, CopiaDelTurno, InvTurno, PcbsBien
  <2>3. PICK i, x :
           /\ x = [m.pcb EXCEPT !.contador = @ + 1, !.registros = RecibeRegistros(@),
                                !.segmentos = TrasInstruccion(@, i)]
           /\ pcbs' = [pcbs EXCEPT ![p] = x]
    BY <1>2 DEF RecibeDesalojo
  <2>4. x.registros = CopiaContexto(m.pcb.registros, SinEscribir)
    BY <2>2, <2>3 DEF EsPcb, RecibeRegistros
  <2>5. /\ kernel'.paso # "espera"
        /\ UNCHANGED <<deMemoria, registros, cpu, propio>>
    BY <1>2 DEF RecibeDesalojo, InvTurno, PcbsBien
  <2>6. IgualVisible(m.pcb.registros, propio[p])
    BY <2>1, <2>2 DEF InvContexto, DeVuelta
  <2> HIDE DEF m, p
  <2>7. IgualVisible(x.registros, propio[p])
    BY <2>4, <2>6, CopiaContextoFiel, IgualVisibleEquivale
  <2>8. ASSUME NEW q \in Procesos
        PROVE  IgualVisible(pcbs'[q].registros, propio'[q])
    <3>1. CASE q = p
      BY <2>2, <2>3, <2>5, <2>7, <3>1
    <3>2. CASE q # p
      <4>1. pcbs'[q] = pcbs[q] /\ q # kernel.pid
        BY <2>2, <2>3, <3>2
      <4>2. QED
        BY <2>5, <4>1 DEF InvContexto
    <3>3. QED
      BY <3>1, <3>2
  <2>9. aKernel' # <<>> => Head(aKernel').tipo = "direccion"
    BY <2>5 DEF InvTurno, Turno, EnElKernel, DeIda, EnLaCpu, EnMemoria, DeVuelta, ConDireccion
  <2>10. cpu.paso \in {"libre", "direccion"} /\ deMemoria = <<>>
    BY <2>1 DEF DeVuelta, Silencio
  <2>11. QED
    BY <2>5, <2>8, <2>9, <2>10 DEF InvContexto
<1>3. CASE RecibeDireccion
  <2>1. /\ ConDireccion /\ kernel'.paso = "libre"
        /\ UNCHANGED <<pcbs, deMemoria, registros, cpu, propio>>
    BY <1>0, <1>3 DEF RecibeDireccion
  <2>2. aKernel' = <<>>
    BY <2>1 DEF InvTurno, Turno, EnElKernel, DeIda, EnLaCpu, EnMemoria, DeVuelta, ConDireccion
  <2>3. QED
    BY <2>1, <2>2 DEF ConDireccion, Silencio, InvContexto
<1>4. CASE RecibePcb
  <2> DEFINE p == kernel.pid
             c == CopiaContexto(pcbs[p].registros, SinEscribir)
  <2>1. /\ DeIda /\ aCpu' = Tail(aCpu)
        /\ cpu' = [paso |-> "ejecuta",
                   pcb |-> [Head(aCpu) EXCEPT !.registros = RecibeRegistros(@)],
                   op |-> Ninguna]
        /\ registros' = CopiaContexto([Head(aCpu) EXCEPT
                          !.registros = RecibeRegistros(@)].registros, registros)
        /\ UNCHANGED <<pcbs, kernel, aKernel, deMemoria, propio>>
    BY <1>0, <1>4 DEF RecibePcb
  <2>2. /\ aCpu' = <<>> /\ aCpu # <<>> /\ aKernel = <<>> /\ deMemoria = <<>>
        /\ Head(aCpu) = pcbs[p] /\ p \in Procesos /\ EsPcb(pcbs[p]) /\ pcbs[p].pid = p
    BY <2>1 DEF DeIda, Silencio, InvTurno, PcbsBien
  <2>3. cpu'.pcb.pid = p /\ registros' = CopiaContexto(c, registros)
    <3>1. PICK y : y = [pcbs[p] EXCEPT !.registros = c]
      OBVIOUS
    <3>2. y.pid = p /\ y.registros = c
      BY <2>2, <3>1, CambiaRegistros
    <3>3. cpu'.pcb = y /\ registros' = CopiaContexto(y.registros, registros)
      BY <2>1, <2>2, <3>1 DEF RecibeRegistros
    <3>4. QED
      BY <3>2, <3>3
  <2>4. IgualVisible(pcbs[p].registros, propio[p])
    BY <2>2 DEF InvContexto
  <2>5. IgualVisible(c, pcbs[p].registros)
    BY CopiaContextoFiel
  <2> HIDE DEF c
  <2>6. IgualVisible(registros', c)
    BY <2>3, CopiaContextoFiel
  <2>7. IgualVisible(registros', propio[p])
    BY <2>4, <2>5, <2>6, IgualVisibleEquivale
  <2>8. QED
    BY <2>1, <2>2, <2>3, <2>7 DEF InvContexto
<1>5. CASE Set
  <2>1. /\ EnLaCpu /\ Instruccion.op = "SET"
        /\ InstruccionSet(Instruccion.registro, Instruccion.valor, Vacio) /\ Avanza("SET")
        /\ UNCHANGED <<pcbs, kernel, aCpu, aKernel, deMemoria>>
    BY <1>0, <1>5 DEF Set, Ejecuta
  <2>2. Parametros(Instruccion) /\ deMemoria = <<>>
    BY <2>1, InstruccionBien DEF EnLaCpu, CopiaDelTurno, Instruccion, InvTurno, PcbsBien, Silencio
  <2>3. Instruccion.registro \in Registros /\ Len(Instruccion.valor) \in Nat
    BY <2>1, <2>2 DEF Parametros
  <2>4. QED
    BY <2>1, <2>2, <2>3, InstruccionSetPropia
<1>6. CASE RecibeValor
  <2>1. /\ EnMemoria /\ deMemoria # <<>> /\ deMemoria' = Tail(deMemoria) /\ Avanza("MOV_IN")
        /\ \E sigue \in {Vacio, Basura} :
             InstruccionSet(Instruccion.registro, Head(deMemoria), sigue)
        /\ UNCHANGED <<pcbs, kernel, aCpu, aKernel>>
    BY <1>0, <1>6 DEF RecibeValor
  <2>2. PICK sigue \in {Vacio, Basura} :
          InstruccionSet(Instruccion.registro, Head(deMemoria), sigue)
    BY <2>1
  <2>3. Parametros(Instruccion) /\ Instruccion.op \in Mov
    BY <2>1, InstruccionBien DEF EnMemoria, CopiaDelTurno, Instruccion, InvTurno, PcbsBien
  <2>4. Instruccion.registro \in Registros /\ Len(Head(deMemoria)) \in Nat
    BY <2>1, <2>3 DEF Parametros, InvContexto
  <2>5. deMemoria' = <<>>
    BY <2>1 DEF EnMemoria, Unico
  <2>6. QED
    BY <2>1, <2>2, <2>4, <2>5, InstruccionSetPropia
<1>7. CASE RecibeConfirmacion
  <2>1. /\ EnMemoria /\ deMemoria # <<>> /\ deMemoria' = Tail(deMemoria)
        /\ cpu' = [cpu EXCEPT !.paso = "ejecuta", !.op = "MOV_OUT", !.pcb.contador = @ + 1]
        /\ UNCHANGED <<pcbs, kernel, aCpu, aKernel, registros, propio>>
    BY <1>0, <1>7 DEF RecibeConfirmacion, Avanza
  <2>2. deMemoria' = <<>>
    BY <2>1 DEF EnMemoria, Unico
  <2>3. cpu'.pcb = [cpu.pcb EXCEPT !.contador = cpu.pcb.contador + 1]
    <3>1. cpu = [paso |-> cpu.paso, pcb |-> cpu.pcb, op |-> cpu.op]
      BY DEF InvTurno, PcbsBien
    <3>2. QED
      BY <2>1, <3>1
  <2>4. cpu'.pcb.pid = cpu.pcb.pid
    <3>1. EsPcb(cpu.pcb)
      BY <2>1 DEF EnMemoria, CopiaDelTurno
    <3>2. QED
      BY <2>3, <3>1, CambiaContador
  <2>5. QED
    BY <2>1, <2>2, <2>4 DEF EnMemoria, InvContexto
<1>8. CASE FallaDeSegmento \/ Interrumpe \/ MovIn \/ MovOut
  <2>1. /\ EnLaCpu /\ cpu'.pcb = cpu.pcb
        /\ UNCHANGED <<pcbs, kernel, aCpu, aKernel, deMemoria, registros, propio>>
    BY <1>0, <1>8 DEF FallaDeSegmento, Interrumpe, MovIn, MovOut, PideMov, Ejecuta, InvTurno,
       PcbsBien
  <2>2. QED
    BY <2>1 DEF EnLaCpu, InvContexto
<1>9. CASE Desaloja
  <2> DEFINE x == [cpu.pcb EXCEPT !.registros = CopiaContexto(registros, @)]
             m == [tipo |-> "pcb", op |-> cpu.op, pcb |-> x]
  <2>1. /\ EnLaCpu /\ aKernel' = Append(aKernel, m)
        /\ cpu' = [cpu EXCEPT !.pcb = x,
                              !.paso = IF cpu.op \in DeArchivo THEN "direccion" ELSE "libre"]
        /\ UNCHANGED <<pcbs, kernel, aCpu, deMemoria, registros, propio>>
    BY <1>0, <1>9 DEF Desaloja
  <2>2. cpu'.paso \in {"direccion", "libre"}
    BY <2>1 DEF InvTurno, PcbsBien
  <2>3. x.registros = CopiaContexto(registros, cpu.pcb.registros) /\ cpu.pcb.pid = kernel.pid
    BY <2>1, CambiaRegistros DEF EnLaCpu, CopiaDelTurno
  <2> HIDE DEF x
  <2>4. aKernel' = <<m>> /\ Head(aKernel').pcb = x
    BY <2>1 DEF EnLaCpu
  <2>5. IgualVisible(registros, propio[kernel.pid])
    BY <2>1, <2>3 DEF EnLaCpu, InvContexto
  <2>6. IgualVisible(x.registros, propio[kernel.pid])
    BY <2>3, <2>5, CopiaContextoFiel, IgualVisibleEquivale
  <2>7. QED
    BY <2>1, <2>2, <2>4, <2>6 DEF EnLaCpu, Silencio, InvContexto
<1>10. CASE EnviaDireccion
  <2>1. PICK d : /\ d.tipo = "direccion" /\ aKernel' = Append(aKernel, d)
                 /\ cpu.paso = "direccion" /\ cpu' = [cpu EXCEPT !.paso = "libre"]
                 /\ UNCHANGED <<pcbs, kernel, aCpu, deMemoria, registros, propio>>
    BY <1>10 DEF EnviaDireccion
  <2>2. cpu'.paso = "libre"
    BY <2>1 DEF InvTurno, PcbsBien
  <2>3. CASE ConDireccion
    <3>1. aKernel' = <<d>> /\ Head(aKernel').tipo = "direccion"
      BY <2>1, <2>3 DEF ConDireccion
    <3>2. QED
      BY <2>1, <2>2, <2>3, <3>1 DEF ConDireccion, Silencio, InvContexto
  <2>4. CASE DeVuelta
    <3> DEFINE m == Head(aKernel)
    <3>1. aKernel = <<m>> /\ m.tipo = "pcb" /\ aKernel # <<>>
      BY <2>1, <2>4 DEF DeVuelta, MensajePcb
    <3> HIDE DEF m
    <3>2. aKernel' = <<m, d>>
      <4>1. aKernel' = Append(<<m>>, d)
        BY <2>1, <3>1
      <4>2. QED
        BY <4>1, SegundoMensaje
    <3>3. Head(aKernel') = Head(aKernel)
      BY <3>1, <3>2
    <3>4. QED
      BY <2>1, <2>2, <2>4, <3>1, <3>3 DEF DeVuelta, Silencio, InvContexto
  <2>5. QED
    BY <2>1, <2>3, <2>4 DEF InvTurno, Turno, EnElKernel, DeIda, EnLaCpu, EnMemoria
<1>11. CASE AtiendeMovIn \/ AtiendeMovOut
  <2>1. /\ EnMemoria /\ aMemoria # <<>>
        /\ UNCHANGED <<pcbs, kernel, aCpu, aKernel, registros, cpu, propio>>
    BY <1>0, <1>11 DEF AtiendeMovIn, AtiendeMovOut
  <2>2. PICK v : deMemoria' = Append(deMemoria, v) /\ Len(v) \in Nat
    <3>1. CASE AtiendeMovOut
      BY <3>1 DEF AtiendeMovOut
    <3>2. CASE AtiendeMovIn
      <4> DEFINE m == Head(aMemoria)
                 v == [i \in 1 .. m.tam |-> memoria[m.dir + i - 1]]
      <4>1. Parametros(Instruccion) /\ Instruccion.op \in Mov
        BY <2>1, InstruccionBien DEF EnMemoria, CopiaDelTurno, Instruccion, InvTurno, PcbsBien
      <4>2. m.tam = Tamanio[Instruccion.registro]
        BY <2>1 DEF EnMemoria, Pedido
      <4>3. m.tam \in Nat
        BY <4>1, <4>2, CpuOK DEF CpuOK, Parametros
      <4>4. deMemoria' = Append(deMemoria, v)
        BY <3>2 DEF AtiendeMovIn
      <4>5. Len(v) \in Nat
        BY <4>3
      <4>6. QED
        BY <4>4, <4>5
    <3>3. QED
      BY <1>11, <3>1, <3>2
  <2>3. deMemoria = <<>>
    BY <2>1 DEF EnMemoria
  <2>4. Len(Head(deMemoria')) \in Nat
    BY <2>2, <2>3
  <2>5. QED
    BY <2>1, <2>4 DEF EnMemoria, InvContexto
<1>12. CASE UNCHANGED vars
  BY <1>12 DEF vars, InvContexto
<1>13. QED
  BY <1>1, <1>2, <1>3, <1>4, <1>5, <1>6, <1>7, <1>8, <1>9, <1>10, <1>11, <1>12
  DEF Next, PasoKernel, PasoCpu, PasoMemoria

(* A process finds in its registers what it left there, whatever the       *)
(* others did on the same CPU in between (cargar_registros, recibir_pcb,   *)
(* guardar_contexto_de_ejecucion and enviar_pcb, all of them with strcpy). *)
THEOREM ContextoConservado == Spec => []ContextoPropio
<1>1. Init => InvContexto
  BY IgualVisibleEquivale DEF Init, InvContexto
<1>2. InvTurno /\ InvContexto => ContextoPropio
  <2> SUFFICES ASSUME InvTurno, InvContexto PROVE ContextoPropio
    OBVIOUS
  <2>1. ASSUME NEW p \in Procesos, p # kernel.pid
        PROVE  Visible(pcbs[p].registros) = Visible(propio[p])
    BY <2>1, MismoVisible DEF InvContexto
  <2>2. ASSUME cpu.paso \notin {"libre", "direccion"}
        PROVE  Visible(registros) = Visible(propio[cpu.pcb.pid])
    <3>1. cpu.paso \in {"ejecuta", "desaloja", "lectura", "escritura"}
      BY <2>2 DEF InvTurno, Turno, EnElKernel, DeIda, EnLaCpu, EnMemoria, DeVuelta, ConDireccion
    <3>2. QED
      BY <3>1, MismoVisible DEF InvContexto
  <2>3. QED
    BY <2>1, <2>2 DEF ContextoPropio
<1>3. QED
  BY <1>1, <1>2, PasoContexto, TurnoAcordado, PTL DEF Spec
=============================================================================
