----------------------------- MODULE BootProofs -----------------------------
(***************************************************************************)
(* The theorems about Boot, for every set of devices, masks, faults and    *)
(* addresses of the APIC, and any number of requests.                      *)
(***************************************************************************)
EXTENDS BootInv, SequenceTheorems, TLAPS

(* Where the program is decides which tables are there, and when the       *)
(* interrupt flag may be on.                                               *)
TablesOK ==
  /\ pc \in 1 .. Len(Program) /\ hasAPIC \in BOOLEAN /\ enabled \in BOOLEAN
  /\ pc >= 3 => segments = gdt
  /\ pc >= 4 => filled
  /\ loaded <=> pc >= 5
  /\ pc \in 2 .. 5 => ~enabled

(* What TableFirst says of a frame.                                        *)
Found(frame) ==
  frame.stub = {frame.vector} \/ pc = 1 \/ (frame.exception /\ ~loaded)

(* A running handler has the flag off, and a second one is an NMI's.       *)
FramesOK ==
  /\ \E S : frames \in Seq(S)
  /\ nmi \in BOOLEAN
  /\ frames # <<>> => ~enabled
  /\ Len(frames) <= 2 /\ (Len(frames) = 2 => nmi)
  /\ \A f \in DOMAIN frames : Found(frames[f])

(* What initAPIC() has done so far.                                        *)
ApicOK ==
  hasAPIC =>
    /\ apic \in [base : Nat, enabled : BOOLEAN, spurious : SUBSET Nat] /\ p \in Nat
    /\ pc <= 6 => apic.base \in Bases
    /\ pc >= 7 => p \in Bases
    /\ pc >= 8 /\ p % 16 = 0 => apic.base = p /\ apic.enabled
    /\ pc = 9 /\ p % 16 = 0 => apic.spurious = {39}

BootIInv == TablesOK /\ FramesOK /\ ApicOK

----------------------------------------------------------------------------
(* The first five steps are the same with and without an APIC; then come   *)
(* three for the APIC, or the rounds of the controllers, and the last one. *)
LEMMA ProgramParts ==
  /\ Len(Program) \in Nat /\ Len(Program) >= 6
  /\ Program[1] = Do("cli") /\ Program[2] = Do("lgdt") /\ Program[3] = Do("fill")
  /\ Program[4] = Do("lidt") /\ Program[5] = Do("sti")
  /\ hasAPIC => /\ Len(Program) = 9 /\ Program[6] = Do("rdmsr")
                /\ Program[7] = Do("wrmsr") /\ Program[8] = Do("spurious")
  /\ ~hasAPIC => Len(Program) = 94 /\ \A i \in 6 .. 93 : Program[i] = Rounds[i - 5]
<1> DEFINE Names == {"cli", "lgdt", "fill", "lidt", "sti", "rdmsr", "wrmsr", "spurious", "hlt"}
           Steps == {Do(op) : op \in Names} \cup {Rounds[k] : k \in 1 .. 8 * 11}
           back  == IF hasAPIC THEN initAPIC ELSE Rounds
           first == <<Do("cli")>>
           two   == first \o setupGDT
           front == two \o initIDT
<1>1. /\ first \in Seq(Steps) /\ Len(first) = 1 /\ first[1] = Do("cli")
      /\ setupGDT \in Seq(Steps) /\ Len(setupGDT) = 1 /\ setupGDT[1] = Do("lgdt")
  BY DEF setupGDT
<1>2. /\ initIDT \in Seq(Steps) /\ Len(initIDT) = 3
      /\ initIDT[1] = Do("fill") /\ initIDT[2] = Do("lidt") /\ initIDT[3] = Do("sti")
  BY DEF initIDT
<1>3. /\ initAPIC \in Seq(Steps) /\ Len(initAPIC) = 3
      /\ initAPIC[1] = Do("rdmsr") /\ initAPIC[2] = Do("wrmsr") /\ initAPIC[3] = Do("spurious")
  BY DEF initAPIC
<1>4. Rounds \in Seq(Steps)
  <2>1. Rounds \in [1 .. 8 * 11 -> Steps]  BY DEF Rounds, InTurn
  <2>2. 8 * 11 = 88  OBVIOUS
  <2> HIDE DEF Steps
  <2>3. Rounds \in [1 .. 88 -> Steps]  BY <2>1, <2>2
  <2>4. [1 .. 88 -> Steps] \in {[1 .. n -> Steps] : n \in Nat}
    <3>1. 88 \in Nat  OBVIOUS
    <3> QED  BY <3>1, Zenon
  <2>5. Rounds \in Seq(Steps)  BY <2>3, <2>4, SeqDef, Zenon
  <2> QED  BY <2>5
<1>15. ~hasAPIC => back = Rounds /\ Len(back) = 88
  <2>1. 8 * 11 = 88  OBVIOUS
  <2>2. DOMAIN Rounds = 1 .. 88  BY <2>1 DEF Rounds, InTurn
  <2>3. Rounds \in Seq(Steps)  BY <1>4
  <2> HIDE DEF Steps
  <2>4. Len(Rounds) \in Nat /\ DOMAIN Rounds = 1 .. Len(Rounds)  BY <2>3, LenProperties
  <2>5. Len(Rounds) = 88  BY <2>2, <2>4
  <2> QED  BY <2>5
<1>5. back \in Seq(Steps) /\ Len(back) \in Nat  BY <1>3, <1>4, LenProperties
<1>6. <<Do("hlt")>> \in Seq(Steps) /\ Len(<<Do("hlt")>>) = 1  OBVIOUS
<1>7. Program = (front \o back) \o <<Do("hlt")>>  BY DEF Program, initHAL
<1> HIDE DEF Steps, back, first
<1>8. two \in Seq(Steps) /\ Len(two) = 2 /\ two[1] = Do("cli") /\ two[2] = Do("lgdt")
  BY <1>1, ConcatProperties
<1> HIDE DEF two
<1>9. /\ front \in Seq(Steps) /\ Len(front) = 5
      /\ front[1] = Do("cli") /\ front[2] = Do("lgdt") /\ front[3] = Do("fill")
      /\ front[4] = Do("lidt") /\ front[5] = Do("sti")
  <2>1. /\ front \in Seq(Steps) /\ Len(front) = Len(two) + Len(initIDT)
        /\ \A i \in 1 .. Len(two) + Len(initIDT) :
             front[i] = IF i <= Len(two) THEN two[i] ELSE initIDT[i - Len(two)]
    BY <1>8, <1>2, ConcatProperties
  <2> HIDE DEF front
  <2>2. /\ Len(front) = 5
        /\ \A i \in 1 .. 5 : front[i] = IF i <= 2 THEN two[i] ELSE initIDT[i - 2]
    BY <2>1, <1>8, <1>2
  <2> QED  BY <2>1, <2>2, <1>8, <1>2
<1> HIDE DEF front
<1>10. /\ front \o back \in Seq(Steps) /\ Len(front \o back) = 5 + Len(back)
       /\ \A i \in 1 .. 5 + Len(back) :
            (front \o back)[i] = IF i <= 5 THEN front[i] ELSE back[i - 5]
  <2>1. /\ front \o back \in Seq(Steps) /\ Len(front \o back) = Len(front) + Len(back)
        /\ \A i \in 1 .. Len(front) + Len(back) :
             (front \o back)[i] = IF i <= Len(front) THEN front[i] ELSE back[i - Len(front)]
    BY <1>5, <1>9, ConcatProperties
  <2> QED  BY <2>1, <1>9
<1>11. /\ Len(Program) = 6 + Len(back)
       /\ \A i \in 1 .. 5 + Len(back) : Program[i] = IF i <= 5 THEN front[i] ELSE back[i - 5]
  <2> DEFINE body == front \o back
             last == <<Do("hlt")>>
  <2> HIDE DEF body, last
  <2>0. body \in Seq(Steps) /\ last \in Seq(Steps)
    BY <1>6, <1>10 DEF body, last
  <2>1. Len(last) = 1 /\ Len(body) = 5 + Len(back)
    BY <1>6, <1>10 DEF body, last
  <2>2. Program = body \o last  BY <1>7 DEF body, last
  <2>3. /\ Len(body \o last) = Len(body) + Len(last)
        /\ \A i \in 1 .. Len(body) + Len(last) :
             (body \o last)[i] = IF i <= Len(body) THEN body[i] ELSE last[i - Len(body)]
    BY <2>0, ConcatProperties
  <2>4. \A i \in 1 .. 5 + Len(back) : Program[i] = body[i]  BY <2>1, <2>2, <2>3, <1>5
  <2> QED  BY <2>1, <2>2, <2>3, <2>4, <1>5, <1>10 DEF body
<1>12. hasAPIC => Len(back) = 3 /\ back = initAPIC  BY <1>3 DEF back
<1>joined. /\ Len(Program) \in Nat /\ Len(Program) >= 6
       /\ Program[1] = front[1] /\ Program[2] = front[2] /\ Program[3] = front[3]
       /\ Program[4] = front[4] /\ Program[5] = front[5]
  BY <1>5, <1>11
<1>14. hasAPIC => /\ Len(Program) = 9 /\ Program[6] = initAPIC[1]
                  /\ Program[7] = initAPIC[2] /\ Program[8] = initAPIC[3]
  <2>1. SUFFICES ASSUME hasAPIC
                 PROVE  /\ Len(Program) = 9 /\ Program[6] = initAPIC[1]
                        /\ Program[7] = initAPIC[2] /\ Program[8] = initAPIC[3]
    OBVIOUS
  <2>2. back = initAPIC  BY <2>1, <1>12
  <2>0. Len(back) = 3  BY <2>1, <1>12
  <2>3. /\ Len(Program) = 9 /\ Program[6] = back[1]
        /\ Program[7] = back[2] /\ Program[8] = back[3]
    BY <2>0, <1>11
  <2> QED  BY <2>2, <2>3
<1>16. ~hasAPIC => Len(Program) = 94 /\ \A i \in 6 .. 93 : Program[i] = Rounds[i - 5]
  <2> SUFFICES ASSUME ~hasAPIC
               PROVE  Len(Program) = 94 /\ \A i \in 6 .. 93 : Program[i] = Rounds[i - 5]
    OBVIOUS
  <2>1. back = Rounds /\ Len(back) = 88  BY <1>15
  <2>2. Len(Program) = 94 /\ \A i \in 6 .. 93 : Program[i] = back[i - 5]  BY <2>1, <1>11
  <2> QED  BY <2>1, <2>2
<1> QED  BY <1>3, <1>9, <1>joined, <1>14, <1>16

LEMMA ProgramSteps ==
  /\ Len(Program) \in Nat /\ Len(Program) >= 6
  /\ Program[1] = Do("cli") /\ Program[2] = Do("lgdt") /\ Program[3] = Do("fill")
  /\ Program[4] = Do("lidt") /\ Program[5] = Do("sti")
  /\ hasAPIC => /\ Len(Program) = 9 /\ Program[6] = Do("rdmsr")
                /\ Program[7] = Do("wrmsr") /\ Program[8] = Do("spurious")
BY ProgramParts, Zenon

----------------------------------------------------------------------------
(* The gates lead to their stubs once the tables are in use, and a handler *)
(* has the flag off whichever table it came through.                       *)
LEMMA StubFound ==
  ASSUME segments = gdt, filled, loaded, NEW v  PROVE Stub(v) = {v}
<1>1. Gate(v).selector = 8 /\ Gate(v).isr = v  BY DEF Gate, setIDTdescriptor
<1>2. gdt[2].access = 155 /\ gdt[2].flags = 10 /\ Len(gdt) = 5  BY DEF gdt, Segment
<1>3. RunsCode(gdt, 8)  BY <1>2 DEF RunsCode, HasBit
<1> QED  BY <1>1, <1>3 DEF Stub

LEMMA FlagOff == \A v : FlagInHandler(v) = FALSE
BY DEF FlagInHandler, ClearsFlag, Gate, setIDTdescriptor, IDTint

(* Taking an interrupt, with the flag on, or an exception at any step.     *)
LEMMA TakeKeeps ==
  ASSUME TablesOK, FramesOK, NEW v, NEW exception, NEW line, Take(v, exception, line),
         pc' = pc, hasAPIC' = hasAPIC, UNCHANGED tables, nmi' \in BOOLEAN,
         enabled \/ exception = TRUE,
         \/ frames = <<>>
         \/ nmi' /\ ~nmi
  PROVE  TablesOK' /\ FramesOK'
<1> DEFINE frame == [vector |-> v, exception |-> exception, line |-> line,
                     stub |-> Stub(v), stack |-> IF Stub(v) = {} THEN <<>> ELSE Stack(v, exception)]
<1>1. frames' = Append(frames, frame) /\ enabled' = FALSE  BY FlagOff DEF Take
<1>2. frame.stub = Stub(v) /\ frame.vector = v /\ frame.exception = exception  OBVIOUS
<1> HIDE DEF frame
<1>3. TablesOK'
  <2>1. Program' = Program
        BY DEF Program, initHAL
  <2> QED  BY <1>1, <2>1 DEF TablesOK, tables
<1>4. Found(frame)
  <2>0. pc \in Nat  BY ProgramSteps DEF TablesOK
  <2>1. CASE pc >= 5
    <3>1. segments = gdt /\ filled /\ loaded  BY <2>1, ProgramSteps DEF TablesOK
    <3> QED  BY <3>1, <1>2, StubFound DEF Found
  <2>2. CASE ~(pc >= 5)
    <3>1. ~loaded  BY <2>2 DEF TablesOK
    <3>2. enabled => pc = 1  BY <2>0, <2>2 DEF TablesOK
    <3> QED  BY <1>2, <3>1, <3>2 DEF Found
  <2> QED  BY <2>1, <2>2
<1>5. PICK S : frames \in Seq(S)  BY DEF FramesOK
<1>6. /\ frames' \in Seq(S \cup {frame}) /\ Len(frames') = Len(frames) + 1
      /\ Len(frames) \in Nat
      /\ \A f \in DOMAIN frames' :
           \/ f \in DOMAIN frames /\ frames'[f] = frames[f]
           \/ frames'[f] = frame
  <2>1. frames \in Seq(S \cup {frame})  BY <1>5
  <2> QED  BY <1>1, <2>1
<1>7. Len(frames') <= 2 /\ (Len(frames') = 2 => nmi')
  <2>1. CASE frames = <<>>  BY <2>1, <1>6
  <2>2. CASE nmi' /\ ~nmi
    <3>1. Len(frames) <= 2 /\ Len(frames) # 2  BY <2>2 DEF FramesOK
    <3>2. Len(frames) \in Nat /\ Len(frames') = Len(frames) + 1  BY <1>6
    <3> DEFINE old == Len(frames)
               new == Len(frames')
    <3>3. old \in Nat /\ new = old + 1 /\ old <= 2 /\ old # 2  BY <3>1, <3>2
    <3> HIDE DEF old, new
    <3>4. new <= 2  BY <3>3
    <3> QED  BY <3>4, <2>2 DEF new
  <2> QED  BY <2>1, <2>2
<1>8. (\A f \in DOMAIN frames : Found(frames[f]))'
  <2>1. \A f \in DOMAIN frames' : Found(frames'[f])  BY <1>4, <1>6 DEF FramesOK
  <2>2. pc' = pc /\ loaded' = loaded  BY DEF tables
  <2> QED  BY <2>1, <2>2 DEF Found
<1> QED  BY <1>1, <1>3, <1>6, <1>7, <1>8 DEF FramesOK
----------------------------------------------------------------------------
(* An address below 4 GB is read as it is.                                 *)
LEMMA BasesRead == \A b \in Bases : b \in Nat /\ b % Low4GB = b
<1>1. Low4GB \in Nat  BY DEF Low4GB
<1>2. \A b \in 0 .. Low4GB - 1 : b \in Nat /\ b % Low4GB = b  BY <1>1
<1> QED  BY <1>2, BootConstants DEF BootConstants

LEMMA InitBoot == Init => BootIInv
<1> SUFFICES ASSUME Init PROVE BootIInv  OBVIOUS
<1>1. TablesOK
  <2>1. pc = 1 /\ hasAPIC \in BOOLEAN /\ ~loaded /\ enabled \in BOOLEAN  BY DEF Init
  <2>2. pc \in 1 .. Len(Program)  BY <2>1, ProgramSteps
  <2> QED  BY <2>1, <2>2 DEF TablesOK
<1>2. FramesOK
  <2>1. frames \in Seq({}) /\ frames = <<>> /\ Len(frames) = 0 /\ DOMAIN frames = {}
    BY DEF Init
  <2>2. nmi = FALSE  BY DEF Init
  <2>3. \E S : frames \in Seq(S)  BY <2>1
  <2>4. Len(frames) <= 2 /\ (Len(frames) = 2 => nmi)  BY <2>1
  <2>5. \A f \in DOMAIN frames : Found(frames[f])  BY <2>1
  <2> QED  BY <2>1, <2>2, <2>3, <2>4, <2>5, Zenon DEF FramesOK
<1>3. ApicOK
  <2> SUFFICES ASSUME hasAPIC PROVE ApicOK  BY DEF ApicOK
  <2>1. apic \in [base : Bases, enabled : BOOLEAN, spurious : {{}}]  BY DEF Init
  <2>2. pc = 1 /\ p = 0  BY DEF Init
  <2>3. /\ apic \in [base : Nat, enabled : BOOLEAN, spurious : SUBSET Nat]
        /\ apic.base \in Bases
    <3>1. {} \in SUBSET Nat /\ Bases \subseteq Nat  BY BasesRead
    <3> QED  BY <2>1, <3>1
  <2> QED  BY <2>2, <2>3 DEF ApicOK
<1> QED  BY <1>1, <1>2, <1>3 DEF BootIInv

(* A step of the kernel.                                                   *)
LEMMA RunTables ==
  ASSUME BootIInv, Run  PROVE TablesOK' /\ FramesOK'
<1>1. Program' = Program  BY DEF Run, Program, initHAL
<1>2. TablesOK  BY DEF BootIInv
<1>3. pc \in Nat /\ pc >= 1 /\ pc < Len(Program) /\ pc' = pc + 1 /\ hasAPIC' = hasAPIC
  BY <1>2, ProgramSteps DEF TablesOK, Run
<1> DEFINE op == Program[pc].op
<1>4. /\ enabled' = CASE op = "cli" -> FALSE [] op = "sti" -> TRUE [] OTHER -> enabled
      /\ segments' = IF op = "lgdt" THEN gdt ELSE segments
      /\ filled' <=> (filled \/ op = "fill")
      /\ loaded' <=> (loaded \/ op = "lidt")
  BY Zenon DEF Run, Step
<1>5. /\ pc = 1 => op = "cli"
      /\ pc = 2 => op = "lgdt"
      /\ pc = 3 => op = "fill"
      /\ pc = 4 => op = "lidt"
      /\ pc = 5 => op = "sti"
  BY ProgramSteps DEF Do
<1> HIDE DEF op
<1>6. TablesOK'
  <2>1. pc' \in 1 .. Len(Program') /\ hasAPIC' \in BOOLEAN
    <3>1. Len(Program) \in Nat  BY ProgramSteps, Zenon
    <3>2. hasAPIC \in BOOLEAN  BY <1>2 DEF TablesOK
    <3> QED  BY <1>1, <1>3, <3>1, <3>2
  <2>2. /\ pc >= 3 => segments = gdt
        /\ pc >= 4 => filled
        /\ loaded <=> pc >= 5
        /\ pc \in 2 .. 5 => ~enabled
        /\ enabled \in BOOLEAN
    BY <1>2, Zenon DEF TablesOK
  <2>3. enabled' \in BOOLEAN  BY <1>4, <2>2
  <2>4. pc' >= 3 => segments' = gdt  BY <1>3, <1>4, <1>5, <2>2
  <2>5. pc' >= 4 => filled'  BY <1>3, <1>4, <1>5, <2>2
  <2>6. loaded' <=> pc' >= 5  BY <1>3, <1>4, <1>5, <2>2
  <2>7. pc' \in 2 .. 5 => ~enabled'  BY <1>3, <1>4, <1>5, <2>2
  <2> QED  BY <2>1, <2>3, <2>4, <2>5, <2>6, <2>7 DEF TablesOK
<1>7. FramesOK'
  <2>1. frames' = <<>> /\ nmi' = nmi /\ frames' = frames  BY DEF Run
  <2>2. FramesOK  BY DEF BootIInv
  <2> QED  BY <2>1, <2>2 DEF FramesOK
<1> QED  BY <1>6, <1>7

LEMMA RunApic ==
  ASSUME BootIInv, Run  PROVE ApicOK'
<1> SUFFICES ASSUME hasAPIC PROVE ApicOK'  BY DEF ApicOK, Run
<1>1. ApicOK /\ hasAPIC' /\ pc' = pc + 1  BY DEF BootIInv, Run
<1>2. Len(Program) = 9 /\ pc \in 1 .. 8
  <2>1. pc \in 1 .. Len(Program) /\ pc < Len(Program)  BY DEF BootIInv, TablesOK, Run
  <2>2. Len(Program) = 9  BY ProgramSteps, Zenon
  <2> QED  BY <2>1, <2>2
<1>3. /\ p' = IF Program[pc].op = "rdmsr" THEN getAPICbase ELSE p
      /\ apic' = CASE Program[pc].op = "wrmsr"    -> setAPICbase(p)
                   [] Program[pc].op = "spurious" -> setSpurious(p)
                   [] OTHER                       -> apic
  BY DEF Run, Step
<1>4. CASE pc \in 1 .. 5
  <2>1. Program[pc].op \in {"cli", "lgdt", "fill", "lidt", "sti"}  BY <1>4, ProgramSteps DEF Do
  <2>2. p' = p /\ apic' = apic  BY <2>1, <1>3
  <2> QED  BY <2>2, <1>1, <1>4 DEF ApicOK
<1>5. CASE pc = 6
  <2>1. Program[pc].op = "rdmsr"  BY <1>5, ProgramSteps DEF Do
  <2>2. p' = getAPICbase /\ apic' = apic  BY <2>1, <1>3
  <2>3. apic.base \in Bases  BY <1>1, <1>5 DEF ApicOK
  <2>4. getAPICbase = apic.base /\ apic.base \in Nat  BY <2>3, BasesRead DEF getAPICbase
  <2> QED  BY <2>2, <2>3, <2>4, <1>1, <1>5 DEF ApicOK
<1>6. CASE pc = 7
  <2>1. Program[pc].op = "wrmsr"  BY <1>6, ProgramSteps DEF Do
  <2>2. p' = p /\ apic' = [apic EXCEPT !.base = p - (p % 16), !.enabled = TRUE]
    BY <2>1, <1>3 DEF setAPICbase
  <2>3. apic \in [base : Nat, enabled : BOOLEAN, spurious : SUBSET Nat] /\ p \in Nat /\ p \in Bases
    BY <1>1, <1>6 DEF ApicOK
  <2>4. p - (p % 16) \in Nat /\ (p % 16 = 0 => p - (p % 16) = p)
    <3>1. p \in Nat  BY <2>3
    <3> QED  BY <3>1
  <2>5. /\ apic' \in [base : Nat, enabled : BOOLEAN, spurious : SUBSET Nat]
        /\ apic'.base = p - (p % 16) /\ apic'.enabled
    BY <2>2, <2>3, <2>4
  <2> QED  BY <2>2, <2>3, <2>4, <2>5, <1>1, <1>6 DEF ApicOK
<1>7. CASE pc = 8
  <2>1. Program[pc].op = "spurious"  BY <1>7, ProgramSteps DEF Do
  <2>2. p' = p /\ apic' = setSpurious(p)  BY <2>1, <1>3
  <2>3. /\ apic \in [base : Nat, enabled : BOOLEAN, spurious : SUBSET Nat] /\ p \in Nat /\ p \in Bases
        /\ p % 16 = 0 => apic.base = p /\ apic.enabled
    BY <1>1, <1>7 DEF ApicOK
  <2>4. /\ apic' \in [base : Nat, enabled : BOOLEAN, spurious : SUBSET Nat]
        /\ p % 16 = 0 => apic'.base = p /\ apic'.enabled /\ apic'.spurious = {39}
    BY <2>2, <2>3 DEF setSpurious
  <2> QED  BY <2>2, <2>3, <2>4, <1>1, <1>7 DEF ApicOK
<1> QED  BY <1>2, <1>4, <1>5, <1>6, <1>7

(* What leaves the program and the APIC alone.                             *)
LEMMA Apart ==
  ASSUME ApicOK, pc' = pc, hasAPIC' = hasAPIC, UNCHANGED local  PROVE ApicOK'
BY DEF ApicOK, local

LEMMA NextKeeps == BootIInv /\ [Next]_vars => BootIInv'
<1> SUFFICES ASSUME BootIInv, [Next]_vars PROVE BootIInv'  OBVIOUS
<1>1. TablesOK /\ FramesOK /\ ApicOK  BY DEF BootIInv
<1>2. CASE Run  BY <1>2, RunTables, RunApic DEF BootIInv
<1>3. ASSUME UNCHANGED <<pc, hasAPIC, tables, enabled, nmi, frames, local>>  PROVE BootIInv'
  <2>1. Program' = Program  BY <1>3 DEF Program, initHAL
  <2>2. TablesOK'  BY <1>1, <1>3, <2>1 DEF TablesOK, tables
  <2>3. FramesOK'  BY <1>1, <1>3 DEF FramesOK, Found, tables
  <2> QED  BY <1>1, <1>3, <2>2, <2>3, Apart DEF BootIInv
<1>4. CASE \E l \in Devices : Request(l)  BY <1>3, <1>4 DEF Request
<1>5. CASE Interrupt
  <2>1. PICK k \in {1, 2} : \E l \in LinesOf(k) : enabled /\ Take(VectorOf(k, l), FALSE, {l})
    BY <1>5 DEF Interrupt
  <2>2. UNCHANGED <<pc, hasAPIC, tables, nmi, local>>  BY <1>5 DEF Interrupt
  <2>3. frames = <<>> /\ nmi' \in BOOLEAN  BY <1>1, <2>1, <2>2 DEF FramesOK
  <2> QED  BY <1>1, <2>1, <2>2, <2>3, TakeKeeps, Apart DEF BootIInv
<1>6. CASE Spurious
  <2>1. PICK v \in apic.spurious : Take(v, FALSE, {})  BY <1>6 DEF Spurious
  <2>2. enabled /\ UNCHANGED <<pc, hasAPIC, tables, nmi, local>>  BY <1>6 DEF Spurious
  <2>3. frames = <<>> /\ nmi' \in BOOLEAN  BY <1>1, <2>2 DEF FramesOK
  <2> QED  BY <1>1, <2>1, <2>2, <2>3, TakeKeeps, Apart DEF BootIInv
<1>7. CASE NMI
  <2>1. /\ ~nmi /\ nmi' = TRUE /\ Take(2, TRUE, {})
        /\ UNCHANGED <<pc, hasAPIC, tables, local>>
    BY <1>7 DEF NMI
  <2> QED  BY <1>1, <2>1, TakeKeeps, Apart DEF BootIInv
<1>8. CASE Fault
  <2>1. PICK v \in Faults : Take(v, TRUE, {})  BY <1>8 DEF Fault
  <2>2. frames = <<>> /\ UNCHANGED <<pc, hasAPIC, tables, nmi, local>>  BY <1>8 DEF Fault
  <2>3. nmi' \in BOOLEAN  BY <1>1, <2>2 DEF FramesOK
  <2> QED  BY <1>1, <2>1, <2>2, <2>3, TakeKeeps, Apart DEF BootIInv
<1>9. CASE UNCHANGED vars  BY <1>3, <1>9 DEF vars
<1> QED  BY <1>2, <1>4, <1>5, <1>6, <1>7, <1>8, <1>9 DEF Next

(* The inductive invariant: which tables are loaded at each step of the    *)
(* program, who interrupted whom, and what is in the APIC.                 *)
THEOREM BootInvariant == Spec => []BootIInv
BY InitBoot, NextKeeps, PTL DEF Spec

(* hal.c:16-21: from cli on no device meets the loader's table, and from   *)
(* lidt on nothing does: vector v leads to the stub of v.  Between them an *)
(* NMI or an exception comes through the loader's.                         *)
THEOREM TablesFirst == Spec => []TableFirst
<1>1. BootIInv => TableFirst  BY DEF BootIInv, FramesOK, Found, TableFirst
<1> QED  BY <1>1, BootInvariant, PTL

(* Handlers do not return, and there are never more than two of them.      *)
THEOREM HandlersBounded == Spec => []StackBounded
<1>1. BootIInv => StackBounded  BY DEF BootIInv, FramesOK, StackBounded
<1> QED  BY <1>1, BootInvariant, PTL

(* apic.c:41-47: wherever the firmware put the APIC below 4 GB, on a       *)
(* boundary of 64 KB: in the end it is there, enabled, and has its vector. *)
THEOREM ApicEnabled == Spec => []ApicAnswers
<1>1. BootIInv => ApicAnswers
  <2> SUFFICES ASSUME BootIInv, hasAPIC, pc = Len(Program), p % 16 = 0
               PROVE  p \in Bases /\ apic = [base |-> p, enabled |-> TRUE, spurious |-> {39}]
    BY DEF ApicAnswers
  <2>1. pc = 9  BY ProgramSteps
  <2>2. /\ apic \in [base : Nat, enabled : BOOLEAN, spurious : SUBSET Nat] /\ p \in Bases
        /\ apic.base = p /\ apic.enabled /\ apic.spurious = {39}
    BY <2>1 DEF BootIInv, ApicOK
  <2> QED  BY <2>2
<1> QED  BY <1>1, BootInvariant, PTL

----------------------------------------------------------------------------
(* The controllers.  The lines the loader had masked, of controller k, and *)
(* the step of initPIC() that is next: 0 outside of its rounds.            *)
Had(k) == masked \cap LinesOf(k)

Phase == IF hasAPIC \/ pc <= 5 THEN 0 ELSE (pc - 6) % 11

(* The masks are lost with the commands and come back one after the other; *)
(* meanwhile they are in saved.  A controller takes a word for its vectors *)
(* only between its command and the word meant to give them.               *)
PicOK ==
  /\ chip \in [{1, 2} -> [awaits : 0 .. 4, base : Nat, mask : SUBSET (0 .. 15),
                          requested : SUBSET (0 .. 15)]]
  /\ saved \in [{1, 2} -> SUBSET (0 .. 15)] /\ masked \subseteq 0 .. 15
  /\ chip[1].base = 8 /\ chip[2].base = 112
  /\ Phase \in {0, 1, 10} => chip[1].mask = Had(1)
  /\ Phase \in {0, 1, 2}  => chip[2].mask = Had(2)
  /\ Phase # 0 => saved[1] = Had(1) /\ saved[2] = Had(2)
  /\ chip[1].awaits = 2 => Phase \in {2, 3}
  /\ chip[2].awaits = 2 => Phase \in {3, 4}

(* The step of a round that is next.                                       *)
RoundStep(j, k) ==
  CASE j = 0  -> Do("save")
    [] j = 1  -> Out("command", 1, 17)
    [] j = 2  -> Out("command", 2, 17)
    [] j = 3  -> Out("data", 1, 8 + k)
    [] j = 4  -> Out("data", 2, 112 + k)
    [] j = 5  -> Out("data", 1, 4)
    [] j = 6  -> Out("data", 2, 2)
    [] j = 7  -> Out("data", 1, 1)
    [] j = 8  -> Out("data", 2, 1)
    [] j = 9  -> Out("restore", 1, 1)
    [] j = 10 -> Out("restore", 2, 2)

LEMMA StepsOfRound ==
  ASSUME NEW a, NEW b
  PROVE  /\ initPIC(a, b)[1] = Do("save")
         /\ initPIC(a, b)[2] = Out("command", 1, 17) /\ initPIC(a, b)[3] = Out("command", 2, 17)
         /\ initPIC(a, b)[4] = Out("data", 1, a) /\ initPIC(a, b)[5] = Out("data", 2, b)
         /\ initPIC(a, b)[6] = Out("data", 1, 4) /\ initPIC(a, b)[7] = Out("data", 2, 2)
         /\ initPIC(a, b)[8] = Out("data", 1, 1) /\ initPIC(a, b)[9] = Out("data", 2, 1)
         /\ initPIC(a, b)[10] = Out("restore", 1, 1) /\ initPIC(a, b)[11] = Out("restore", 2, 2)
<1> DEFINE head == <<Do("save"),
                     Out("command", 1, 17), Out("command", 2, 17),
                     Out("data", 1, a), Out("data", 2, b),
                     Out("data", 1, 4), Out("data", 2, 2),
                     Out("data", 1, 1), Out("data", 2, 1)>>
           S == {head[i] : i \in 1 .. 9} \cup {Restore[i] : i \in 1 .. 2}
           whole == head \o Restore
<1>1. initPIC(a, b) = whole  BY DEF initPIC
<1>2. head \in Seq(S) /\ Len(head) = 9  OBVIOUS
<1>3. Restore \in Seq(S) /\ Len(Restore) = 2  BY DEF Restore
<1>4. /\ head[1] = Do("save")
      /\ head[2] = Out("command", 1, 17) /\ head[3] = Out("command", 2, 17)
      /\ head[4] = Out("data", 1, a) /\ head[5] = Out("data", 2, b)
      /\ head[6] = Out("data", 1, 4) /\ head[7] = Out("data", 2, 2)
      /\ head[8] = Out("data", 1, 1) /\ head[9] = Out("data", 2, 1)
  OBVIOUS
<1>5. Restore[1] = Out("restore", 1, 1) /\ Restore[2] = Out("restore", 2, 2)  BY DEF Restore
<1> HIDE DEF head, S
<1>6. \A i \in 1 .. Len(head) + Len(Restore) :
        whole[i] = IF i <= Len(head) THEN head[i] ELSE Restore[i - Len(head)]
  BY <1>2, <1>3, ConcatProperties
<1>7. \A i \in 1 .. 11 : initPIC(a, b)[i] = IF i <= 9 THEN head[i] ELSE Restore[i - 9]
  <2>1. Len(head) = 9 /\ Len(Restore) = 2  BY <1>2, <1>3
  <2>2. Len(head) + Len(Restore) = 11  BY <2>1
  <2> HIDE DEF whole
  <2>3. \A i \in 1 .. 11 : whole[i] = IF i <= 9 THEN head[i] ELSE Restore[i - 9]
    BY <2>1, <2>2, <1>6
  <2> QED  BY <1>1, <2>3
<1>8. /\ \A i \in 1 .. 9 : initPIC(a, b)[i] = head[i]
      /\ initPIC(a, b)[10] = Restore[1] /\ initPIC(a, b)[11] = Restore[2]
  BY <1>7
<1> QED  BY <1>4, <1>5, <1>8

LEMMA StepInRound ==
  ASSUME ~hasAPIC, pc \in 6 .. 93
  PROVE  \E k \in 0 .. 7 : Program[pc] = RoundStep(Phase, k)
<1> DEFINE n == pc - 5
           k == (n - 1) \div 11
           j == (n - 1) % 11
<1>1. n \in 1 .. 88 /\ k \in 0 .. 7 /\ j \in 0 .. 10 /\ Phase = j  BY DEF Phase
<1>2. Program[pc] = Rounds[n]  BY ProgramParts
<1>3. Rounds[n] = initPIC(8 + k, 112 + k)[j + 1]
  <2> DEFINE round == [i \in 0 .. 7 |-> initPIC(8 + i, 112 + i)]
  <2>1. round[k] = initPIC(8 + k, 112 + k)  BY <1>1
  <2> HIDE DEF round
  <2>2. 8 * 11 = 88  OBVIOUS
  <2>3. InTurn(round)[n] = round[k][j + 1]  BY <1>1, <2>2 DEF InTurn
  <2> QED  BY <2>1, <2>3 DEF Rounds, round
<1> HIDE DEF n, k, j
<1>4. initPIC(8 + k, 112 + k)[j + 1] = RoundStep(j, k)
  BY <1>1, StepsOfRound DEF RoundStep
<1> QED  BY <1>1, <1>2, <1>3, <1>4

(* A word that is taken for the vectors leaves them as they are.           *)
LEMMA DataKeeps ==
  ASSUME PicOK, NEW k \in {1, 2}, NEW n \in Nat, chip[k].awaits = 2 => n - (n % 8) = chip[k].base
  PROVE  \E w \in {0, 3, 4} : Data(k, n) = [chip EXCEPT ![k].awaits = w]
<1>1. chip[k] \in [awaits : 0 .. 4, base : Nat, mask : SUBSET (0 .. 15), requested : SUBSET (0 .. 15)]
  BY DEF PicOK
<1>2. CASE chip[k].awaits = 2
  <2>1. Data(k, n) = [chip EXCEPT ![k].awaits = 3, ![k].base = chip[k].base]  BY <1>2 DEF Data
  <2>2. [chip EXCEPT ![k].awaits = 3, ![k].base = chip[k].base] = [chip EXCEPT ![k].awaits = 3]
    BY <1>1 DEF PicOK
  <2> QED  BY <2>1, <2>2
<1>3. CASE chip[k].awaits # 2  BY <1>3 DEF Data
<1> QED  BY <1>2, <1>3

(* One step of initPIC().                                                  *)
LEMMA RoundKeeps ==
  ASSUME PicOK, NEW j \in 0 .. 10, Phase = j, Phase' = (j + 1) % 11, NEW k \in 0 .. 7,
         Step(RoundStep(j, k)), masked' = masked
  PROVE  PicOK'
<1> DEFINE s == RoundStep(j, k)
<1>1. /\ saved' = IF s.op = "save" THEN MasksNow ELSE saved
      /\ chip' = CASE s.op = "command" -> Command(s.to)
                   [] s.op = "data"    -> Data(s.to, s.value)
                   [] s.op = "restore" -> SetMask(s.to, saved[s.value])
                   [] OTHER            -> chip
  BY DEF Step
<1>2. Had(1)' = Had(1) /\ Had(2)' = Had(2)  BY DEF Had, LinesOf
<1>3. CASE j = 0
  <2>1. s = [op |-> "save", to |-> 0, value |-> 0]  BY <1>3 DEF RoundStep, Do
  <2>2. saved' = MasksNow /\ chip' = chip  BY <1>1, <2>1
  <2>3. Phase' = 1  BY <1>3
  <2> QED  BY <1>2, <1>3, <2>2, <2>3 DEF PicOK, MasksNow
<1>4. CASE j = 1
  <2>1. s = [op |-> "command", to |-> 1, value |-> 17]  BY <1>4 DEF RoundStep, Out
  <2>2. saved' = saved /\ chip' = Command(1)  BY <1>1, <2>1
  <2>3. Phase' = 2  BY <1>4
  <2> QED  BY <1>2, <1>4, <2>2, <2>3 DEF PicOK, Command
<1>5. CASE j = 2
  <2>1. s = [op |-> "command", to |-> 2, value |-> 17]  BY <1>5 DEF RoundStep, Out
  <2>2. saved' = saved /\ chip' = Command(2)  BY <1>1, <2>1
  <2>3. Phase' = 3  BY <1>5
  <2> QED  BY <1>2, <1>5, <2>2, <2>3 DEF PicOK, Command
<1>6. CASE j = 3
  <2>1. s = [op |-> "data", to |-> 1, value |-> 8 + k]  BY <1>6 DEF RoundStep, Out
  <2>2. saved' = saved /\ chip' = Data(1, 8 + k)  BY <1>1, <2>1
  <2>3. Phase' = 4 /\ (8 + k) - ((8 + k) % 8) = 8 /\ 8 + k \in Nat  BY <1>6
  <2>4. PICK w \in {0, 3, 4} : chip' = [chip EXCEPT ![1].awaits = w]
    BY <2>2, <2>3, DataKeeps DEF PicOK
  <2>5. Phase' = 4 /\ saved' = saved  BY <2>2, <2>3
  <2> HIDE DEF s
  <2> QED  BY <1>2, <1>6, <2>4, <2>5 DEF PicOK
<1>7. CASE j = 4
  <2>1. s = [op |-> "data", to |-> 2, value |-> 112 + k]  BY <1>7 DEF RoundStep, Out
  <2>2. saved' = saved /\ chip' = Data(2, 112 + k)  BY <1>1, <2>1
  <2>3. Phase' = 5 /\ (112 + k) - ((112 + k) % 8) = 112 /\ 112 + k \in Nat  BY <1>7
  <2>4. PICK w \in {0, 3, 4} : chip' = [chip EXCEPT ![2].awaits = w]
    BY <2>2, <2>3, DataKeeps, Zenon DEF PicOK
  <2>5. Phase' = 5 /\ saved' = saved  BY <2>2, <2>3
  <2> HIDE DEF s
  <2> QED  BY <1>2, <1>7, <2>4, <2>5 DEF PicOK
<1>8. CASE j \in {5, 7}
  <2>0. RoundStep(5, k) = Out("data", 1, 4) /\ RoundStep(7, k) = Out("data", 1, 1)
    BY DEF RoundStep
  <2>1. s.op = "data" /\ s.to = 1 /\ s.value \in {1, 4}  BY <1>8, <2>0 DEF Out
  <2>2. saved' = saved /\ chip' = Data(1, s.value)  BY <1>1, <2>1
  <2>3. Phase' \in {6, 8}  BY <1>8
  <2>4. chip[1].awaits # 2 /\ chip[2].awaits # 2  BY <1>8 DEF PicOK
  <2> HIDE DEF s
  <2>5. s.value \in Nat  BY <2>1
  <2>6. PICK w \in {0, 3, 4} : chip' = [chip EXCEPT ![1].awaits = w]
    BY <2>2, <2>4, <2>5, DataKeeps
  <2> QED  BY <1>2, <1>8, <2>2, <2>3, <2>4, <2>6 DEF PicOK
<1>9. CASE j \in {6, 8}
  <2>0. RoundStep(6, k) = Out("data", 2, 2) /\ RoundStep(8, k) = Out("data", 2, 1)
    BY DEF RoundStep
  <2>1. s.op = "data" /\ s.to = 2 /\ s.value \in {1, 2}  BY <1>9, <2>0 DEF Out
  <2>2. saved' = saved /\ chip' = Data(2, s.value)  BY <1>1, <2>1
  <2>3. Phase' \in {7, 9}  BY <1>9
  <2>4. chip[1].awaits # 2 /\ chip[2].awaits # 2  BY <1>9 DEF PicOK
  <2> HIDE DEF s
  <2>5. s.value \in Nat  BY <2>1
  <2>6. PICK w \in {0, 3, 4} : chip' = [chip EXCEPT ![2].awaits = w]
    BY <2>2, <2>4, <2>5, DataKeeps
  <2> QED  BY <1>2, <1>9, <2>2, <2>3, <2>4, <2>6 DEF PicOK
<1>10. \A i \in {1, 2} : {l \in LinesOf(i) : \E m \in Had(i) : l % 8 = m % 8} = Had(i)
  BY DEF PicOK, Had, LinesOf
<1>11. CASE j = 9
  <2>1. s = [op |-> "restore", to |-> 1, value |-> 1]  BY <1>11 DEF RoundStep, Out
  <2>2. saved' = saved /\ chip' = SetMask(1, saved[1])  BY <1>1, <2>1
  <2>3. Phase' = 10 /\ saved[1] = Had(1)  BY <1>11 DEF PicOK
  <2> DEFINE M == {l \in LinesOf(1) : \E m \in saved[1] : l % 8 = m % 8}
  <2>6. chip' = [chip EXCEPT ![1].mask = M]  BY <2>2, Zenon DEF SetMask
  <2>7. M = Had(1)  BY <1>10, <2>3
  <2> HIDE DEF M
  <2>4. chip' = [chip EXCEPT ![1].mask = Had(1)]  BY <2>6, <2>7
  <2>5. Had(1) \subseteq 0 .. 15  BY DEF PicOK, Had
  <2> QED  BY <1>2, <1>11, <2>2, <2>3, <2>4, <2>5 DEF PicOK
<1>12. CASE j = 10
  <2>1. s = [op |-> "restore", to |-> 2, value |-> 2]  BY <1>12 DEF RoundStep, Out
  <2>2. saved' = saved /\ chip' = SetMask(2, saved[2])  BY <1>1, <2>1
  <2>3. Phase' = 0 /\ saved[2] = Had(2)  BY <1>12 DEF PicOK
  <2> DEFINE M == {l \in LinesOf(2) : \E m \in saved[2] : l % 8 = m % 8}
  <2>6. chip' = [chip EXCEPT ![2].mask = M]  BY <2>2, Zenon DEF SetMask
  <2>7. M = Had(2)  BY <1>10, <2>3
  <2> HIDE DEF M
  <2>4. chip' = [chip EXCEPT ![2].mask = Had(2)]  BY <2>6, <2>7
  <2>5. Had(2) \subseteq 0 .. 15  BY DEF PicOK, Had
  <2> QED  BY <1>2, <1>12, <2>2, <2>3, <2>4, <2>5 DEF PicOK
<1> QED  BY <1>3, <1>4, <1>5, <1>6, <1>7, <1>8, <1>9, <1>11, <1>12

(* Anything else leaves masks, vectors and the program alone.              *)
LEMMA RequestsOnly ==
  ASSUME PicOK, pc' = pc, hasAPIC' = hasAPIC, saved' = saved, masked' = masked,
         \/ chip' = chip
         \/ \E k \in {1, 2}, R \in SUBSET (0 .. 15) : chip' = [chip EXCEPT ![k].requested = R]
  PROVE  PicOK'
<1>1. Phase' = Phase /\ Had(1)' = Had(1) /\ Had(2)' = Had(2)  BY DEF Phase, Had, LinesOf
<1>2. CASE chip' = chip  BY <1>1, <1>2 DEF PicOK
<1>3. CASE \E k \in {1, 2}, R \in SUBSET (0 .. 15) : chip' = [chip EXCEPT ![k].requested = R]
  <2>1. PICK k \in {1, 2}, R \in SUBSET (0 .. 15) : chip' = [chip EXCEPT ![k].requested = R]
    BY <1>3
  <2>2. /\ chip' \in [{1, 2} -> [awaits : 0 .. 4, base : Nat, mask : SUBSET (0 .. 15),
                                requested : SUBSET (0 .. 15)]]
        /\ \A i \in {1, 2} : /\ chip'[i].awaits = chip[i].awaits
                             /\ chip'[i].base = chip[i].base
                             /\ chip'[i].mask = chip[i].mask
    BY <2>1 DEF PicOK
  <2> QED  BY <1>1, <2>2 DEF PicOK
<1> QED  BY <1>2, <1>3

LEMMA InitPic == Init => PicOK
<1> SUFFICES ASSUME Init PROVE PicOK  OBVIOUS
<1>1. pc = 1 /\ masked \subseteq 0 .. 15  BY BootConstants DEF Init
<1>2. chip = [k \in {1, 2} |-> [awaits |-> 0, base |-> IF k = 1 THEN 8 ELSE 112,
                               mask |-> Had(k), requested |-> {}]]
  BY DEF Init, Had
<1>3. saved = [k \in {1, 2} |-> {}]  BY DEF Init
<1>4. Phase = 0  BY <1>1 DEF Phase
<1>5. Had(1) \subseteq 0 .. 15 /\ Had(2) \subseteq 0 .. 15  BY <1>1 DEF Had
<1> QED  BY <1>1, <1>2, <1>3, <1>4, <1>5 DEF PicOK

LEMMA PicKeeps == BootIInv /\ PicOK /\ [Next]_vars => PicOK'
<1> SUFFICES ASSUME BootIInv, PicOK, [Next]_vars PROVE PicOK'  OBVIOUS
<1>1. CASE Run
  <2>1. /\ Step(Program[pc]) /\ pc' = pc + 1 /\ hasAPIC' = hasAPIC /\ masked' = masked
        /\ pc \in Nat /\ pc >= 1 /\ pc < Len(Program) /\ hasAPIC \in BOOLEAN
    BY <1>1, ProgramSteps DEF Run, BootIInv, TablesOK
  <2>2. CASE hasAPIC \/ pc <= 5
    <3>1. Program[pc].op \in {"cli", "lgdt", "fill", "lidt", "sti", "rdmsr", "wrmsr", "spurious"}
      <4>1. pc \in 1 .. 8
        <5>1. CASE hasAPIC
          <6>1. Len(Program) = 9  BY <5>1, ProgramSteps, Zenon
          <6>2. pc \in Nat /\ pc >= 1 /\ pc < 9  BY <2>1, <6>1
          <6> QED  BY <6>2
        <5>2. CASE pc <= 5  BY <2>1, <5>2
        <5> QED  BY <2>2, <5>1, <5>2
      <4> QED  BY <2>2, <4>1, ProgramSteps DEF Do
    <3>2. chip' = chip /\ saved' = saved  BY <2>1, <3>1 DEF Step
    <3>3. Phase = 0 /\ Phase' = 0
      <4>1. Phase = 0  BY <2>2 DEF Phase
      <4>2. hasAPIC \/ pc' <= 5 \/ pc' = 6  BY <2>1, <2>2
      <4> QED  BY <2>1, <4>1, <4>2 DEF Phase
    <3>4. Had(1)' = Had(1) /\ Had(2)' = Had(2)  BY <2>1 DEF Had, LinesOf
    <3> QED  BY <3>2, <3>3, <3>4, <2>1 DEF PicOK
  <2>3. CASE ~hasAPIC /\ pc > 5
    <3>1. Len(Program) = 94  BY <2>3, ProgramParts, Zenon
    <3>2. pc \in 6 .. 93  BY <2>1, <2>3, <3>1
    <3>3. PICK k \in 0 .. 7 : Program[pc] = RoundStep(Phase, k)  BY <2>3, <3>2, StepInRound
    <3>4. Phase \in 0 .. 10 /\ Phase' = (Phase + 1) % 11
      BY <2>1, <2>3, <3>2 DEF Phase
    <3> QED  BY <2>1, <3>3, <3>4, RoundKeeps
  <2> QED  BY <2>1, <2>2, <2>3
<1>2. ASSUME NEW l \in Devices, Request(l)  PROVE PicOK'
  <2>1. PICK k \in {1, 2} : chip' = [chip EXCEPT ![k].requested = @ \cup {l}]  BY <1>2 DEF Request
  <2>2. chip[k].requested \cup {l} \in SUBSET (0 .. 15)  BY BootConstants DEF PicOK
  <2>3. UNCHANGED <<pc, hasAPIC, saved, masked>>  BY <1>2 DEF Request
  <2>4. \E i \in {1, 2}, R \in SUBSET (0 .. 15) : chip' = [chip EXCEPT ![i].requested = R]
    BY <2>1, <2>2
  <2> QED  BY <2>3, <2>4, RequestsOnly
<1>3. CASE Interrupt
  <2>1. PICK k \in {1, 2} : \E l : chip' = [chip EXCEPT ![k].requested = @ \ {l}]
    BY <1>3 DEF Interrupt
  <2>2. PICK l : chip' = [chip EXCEPT ![k].requested = @ \ {l}]  BY <2>1
  <2>3. chip[k].requested \ {l} \in SUBSET (0 .. 15)  BY DEF PicOK
  <2>4. UNCHANGED <<pc, hasAPIC, saved, masked>>  BY <1>3 DEF Interrupt
  <2>5. \E i \in {1, 2}, R \in SUBSET (0 .. 15) : chip' = [chip EXCEPT ![i].requested = R]
    BY <2>2, <2>3
  <2> QED  BY <2>4, <2>5, RequestsOnly
<1>4. CASE Spurious  BY <1>4, RequestsOnly DEF Spurious
<1>5. CASE NMI  BY <1>5, RequestsOnly DEF NMI
<1>6. CASE Fault  BY <1>6, RequestsOnly DEF Fault
<1>7. CASE UNCHANGED vars  BY <1>7, RequestsOnly DEF vars
<1> QED  BY <1>1, <1>2, <1>3, <1>4, <1>5, <1>6, <1>7 DEF Next

LEMMA PicInvariant == Spec => []PicOK
BY InitPic, PicKeeps, BootInvariant, PTL DEF Spec

(* pic.c:43: whenever a round of initPIC() is over the lines are masked    *)
(* that the loader had masked, whichever those are.                        *)
THEOREM LoaderMasksKept == Spec => []MasksRestored
<1>1. BootIInv /\ PicOK => MasksRestored
  <2> SUFFICES ASSUME BootIInv, PicOK, AtRest
               PROVE  chip[1].mask \cup chip[2].mask = masked
    BY DEF MasksRestored
  <2>1. Phase = 0
    <3>1. CASE hasAPIC \/ pc <= 5  BY <3>1 DEF Phase
    <3>2. CASE ~hasAPIC /\ ~(pc <= 5)
      <4>1. Len(Program) = 94  BY <3>2, ProgramParts, Zenon
      <4>2. pc \in 6 .. 94  BY <3>2, <4>1 DEF BootIInv, TablesOK
      <4>3. CASE pc = 94  BY <3>2, <4>3 DEF Phase
      <4>4. CASE pc # 94
        <5>1. PICK k \in 0 .. 7 : Program[pc] = RoundStep(Phase, k)
          BY <3>2, <4>2, <4>4, StepInRound
        <5>2. Phase \in 0 .. 10  BY <3>2, <4>2 DEF Phase
        <5>3. Phase # 0 => RoundStep(Phase, k).op \in {"command", "data", "restore"}
          BY <5>2 DEF RoundStep, Out
        <5> QED  BY <5>1, <5>3 DEF AtRest
      <4> QED  BY <4>3, <4>4
    <3> QED  BY <3>1, <3>2
  <2>2. chip[1].mask = Had(1) /\ chip[2].mask = Had(2) /\ masked \subseteq 0 .. 15
    BY <2>1 DEF PicOK
  <2>3. \A l \in 0 .. 15 : l \in LinesOf(1) \/ l \in LinesOf(2)  BY DEF LinesOf
  <2> QED  BY <2>2, <2>3 DEF Had
<1> QED  BY <1>1, PicInvariant, BootInvariant, PTL

(* pic.c: after the last round no two lines have the same vector, and none *)
(* that of the spurious interrupt: the vectors end where they began.       *)
THEOREM VectorsOwn == Spec => []OwnVectors
<1>1. PicOK => OwnVectors
  <2> SUFFICES ASSUME PicOK, NEW l \in 0 .. 15, NEW m \in 0 .. 15, l # m
               PROVE  LET v(n) == VectorOf(IF n < 8 THEN 1 ELSE 2, n)
                      IN  v(l) # v(m) /\ v(l) # 39
    BY DEF OwnVectors
  <2>1. chip[1].base = 8 /\ chip[2].base = 112  BY DEF PicOK
  <2>2. \A n \in 0 .. 15 : VectorOf(IF n < 8 THEN 1 ELSE 2, n)
                             = IF n < 8 THEN 8 + n ELSE 112 + (n - 8)
    BY <2>1 DEF VectorOf
  <2> QED  BY <2>2
<1> QED  BY <1>1, PicInvariant, PTL

----------------------------------------------------------------------------
(* The frame handleException() reads.  Every name in struct Registers      *)
(* stands there once.                                                      *)
LEMMA OffsetOf ==
  ASSUME NEW k \in 1 .. 22  PROVE Registers[k] \in ToSet(Registers) /\ Offset[Registers[k]] = k
<1>1. DOMAIN Registers = 1 .. 22  BY DEF Registers
<1>2. \A i, j \in 1 .. 22 : Registers[i] = Registers[j] => i = j  BY DEF Registers
<1>3. Registers[k] \in ToSet(Registers)  BY <1>1 DEF ToSet
<1>4. Offset[Registers[k]] = CHOOSE i \in DOMAIN Registers : Registers[i] = Registers[k]
  BY <1>3 DEF Offset
<1> QED  BY <1>1, <1>2, <1>3, <1>4

(* Two sequences in a row.                                                 *)
LEMMA Joined ==
  ASSUME NEW S, NEW s \in Seq(S), NEW t \in Seq(S)
  PROVE  /\ s \o t \in Seq(S) /\ Len(s \o t) = Len(s) + Len(t)
         /\ \A i \in 1 .. Len(s) : (s \o t)[i] = s[i]
         /\ \A i \in 1 .. Len(t) : (s \o t)[Len(s) + i] = t[i]
<1> DEFINE u == s \o t
           m == Len(s)
           n == Len(t)
<1>1. /\ u \in Seq(S) /\ Len(u) = m + n
      /\ \A i \in 1 .. m + n : u[i] = IF i <= m THEN s[i] ELSE t[i - m]
  BY ConcatProperties
<1>0. m \in Nat /\ n \in Nat  BY LenProperties
<1> HIDE DEF u, m, n
<1>2. \A i \in 1 .. m : u[i] = s[i]  BY <1>0, <1>1
<1>3. \A i \in 1 .. n : u[m + i] = t[i]
  <2> TAKE i \in 1 .. n
  <2>1. m + i \in 1 .. m + n /\ ~(m + i <= m) /\ (m + i) - m = i  BY <1>0
  <2>2. u[m + i] = t[(m + i) - m]  BY <1>1, <2>1
  <2> QED  BY <2>1, <2>2
<1> QED  BY <1>1, <1>2, <1>3 DEF u, m, n

(* What is pushed, one after the other.                                    *)
LEMMA Pushed ==
  ASSUME NEW v \in (0 .. 31) \ {29, 30}
  PROVE  LET code == IF v \in HasErrorCode THEN "code" ELSE 0
         IN  /\ Len(Stack(v, TRUE)) = 22
             /\ \A k \in 1 .. 15 : Stack(v, TRUE)[k] = pushaq[16 - k]
             /\ Stack(v, TRUE)[16] = v /\ Stack(v, TRUE)[17] = code
             /\ Stack(v, TRUE)[18] = "rip" /\ Stack(v, TRUE)[19] = "cs"
             /\ Stack(v, TRUE)[20] = "rflags" /\ Stack(v, TRUE)[21] = "rsp"
             /\ Stack(v, TRUE)[22] = "ss"
<1> DEFINE code == IF v \in HasErrorCode THEN "code" ELSE 0
           words == <<"ss", "rsp", "rflags", "cs", "rip">>
           more == IF v \in HasErrorCode THEN <<"code">> ELSE <<>>
           stub == IF v \in ErrStubs THEN <<v>> ELSE <<0, v>>
           S == {words[i] : i \in 1 .. 5} \cup {v, 0, "code"} \cup {pushaq[i] : i \in 1 .. 15}
           a == words \o more
           b == a \o stub
           t == b \o pushaq
<1>1. words \in Seq(S) /\ Len(words) = 5  OBVIOUS
<1>joined. \A q, r \in Seq(S) :
         /\ q \o r \in Seq(S) /\ Len(q \o r) = Len(q) + Len(r)
         /\ \A i \in 1 .. Len(q) : (q \o r)[i] = q[i]
         /\ \A i \in 1 .. Len(r) : (q \o r)[Len(q) + i] = r[i]
  <2> HIDE DEF S
  <2> QED  BY Joined
<1>2. pushaq \in Seq(S) /\ Len(pushaq) = 15  BY DEF pushaq
<1>3. v \in HasErrorCode <=> v \in ErrStubs  BY DEF HasErrorCode, ErrStubs
<1>4. v \in S /\ 0 \in S /\ "code" \in S  OBVIOUS
<1>5. words[1] = "ss" /\ words[2] = "rsp" /\ words[3] = "rflags" /\ words[4] = "cs" /\ words[5] = "rip"
  OBVIOUS
<1>6. Stack(v, TRUE) = Reverse(t)
  BY DEF Stack, Hardware, PushedByStub
<1> HIDE DEF S, words
<1>7. /\ b \in Seq(S) /\ Len(b) = 7 /\ b[6] = code /\ b[7] = v
      /\ \A i \in 1 .. 5 : b[i] = words[i]
  <2>1. CASE v \in HasErrorCode
    <3>1. more = <<"code">> /\ stub = <<v>> /\ code = "code"  BY <1>3, <2>1
    <3>2. more \in Seq(S) /\ Len(more) = 1 /\ more[1] = "code"  BY <3>1, <1>4
    <3>3. stub \in Seq(S) /\ Len(stub) = 1 /\ stub[1] = v  BY <3>1, <1>4
    <3> HIDE DEF more, stub, code
    <3>4. /\ a \in Seq(S) /\ Len(a) = Len(words) + Len(more)
          /\ \A i \in 1 .. Len(words) : a[i] = words[i]
          /\ \A i \in 1 .. Len(more) : a[Len(words) + i] = more[i]
      BY <1>1, <1>joined, <3>2, Zenon
    <3> HIDE DEF a
    <3>5. Len(a) = 6 /\ a[6] = more[1] /\ \A i \in 1 .. 5 : a[i] = words[i]
      BY <1>1, <3>2, <3>4
    <3>6. /\ b \in Seq(S) /\ Len(b) = Len(a) + Len(stub)
          /\ \A i \in 1 .. Len(a) : b[i] = a[i]
          /\ \A i \in 1 .. Len(stub) : b[Len(a) + i] = stub[i]
      BY <1>joined, <3>3, <3>4, Zenon
    <3> HIDE DEF b
    <3>7. Len(b) = 7 /\ b[7] = stub[1] /\ b[6] = a[6] /\ \A i \in 1 .. 5 : b[i] = words[i]
      BY <3>3, <3>5, <3>6
    <3> QED  BY <3>1, <3>2, <3>3, <3>5, <3>6, <3>7
  <2>2. CASE v \notin HasErrorCode
    <3>1. more = <<>> /\ stub = <<0, v>> /\ code = 0  BY <1>3, <2>2
    <3>2. a = words
      <4>1. words \o <<>> = words  BY <1>1, ConcatEmptySeq
      <4> QED  BY <3>1, <4>1
    <3>3. stub \in Seq(S) /\ Len(stub) = 2 /\ stub[1] = 0 /\ stub[2] = v  BY <3>1, <1>4
    <3> HIDE DEF more, stub, code, a
    <3>4. a \in Seq(S) /\ Len(a) = 5  BY <1>1, <3>2
    <3>5. /\ b \in Seq(S) /\ Len(b) = Len(a) + Len(stub)
          /\ \A i \in 1 .. Len(a) : b[i] = a[i]
          /\ \A i \in 1 .. Len(stub) : b[Len(a) + i] = stub[i]
      BY <1>joined, <3>3, <3>4, Zenon
    <3> HIDE DEF b
    <3>6. Len(b) = 7 /\ b[6] = stub[1] /\ b[7] = stub[2] /\ \A i \in 1 .. 5 : b[i] = words[i]
      BY <3>2, <3>3, <3>4, <3>5
    <3> QED  BY <3>1, <3>3, <3>5, <3>6
  <2> QED  BY <2>1, <2>2
<1> HIDE DEF b, code
<1>8. /\ t \in Seq(S) /\ Len(t) = 22
      /\ \A i \in 1 .. 7 : t[i] = b[i]
      /\ \A i \in 1 .. 15 : t[7 + i] = pushaq[i]
  <2>1. /\ t \in Seq(S) /\ Len(t) = Len(b) + Len(pushaq)
        /\ \A i \in 1 .. Len(b) : t[i] = b[i]
        /\ \A i \in 1 .. Len(pushaq) : t[Len(b) + i] = pushaq[i]
    BY <1>2, <1>7, <1>joined, ZenonT(60)
  <2> HIDE DEF t
  <2> QED  BY <1>2, <1>7, <2>1
<1> HIDE DEF t
<1>9. /\ Len(Stack(v, TRUE)) = 22 /\ \A k \in 1 .. 22 : Stack(v, TRUE)[k] = t[23 - k]
  <2> DEFINE r == Reverse(t)
  <2>1. Len(t) = 22  BY <1>8
  <2>2. r = [i \in 1 .. 22 |-> t[(22 - i) + 1]]  BY <2>1 DEF Reverse
  <2>3. \A i \in 1 .. 22 : (22 - i) + 1 \in 1 .. 22 /\ (22 - i) + 1 = 23 - i  OBVIOUS
  <2>4. \A i \in 1 .. 22 : t[i] \in S  BY <1>8, <2>1, ElementOfSeq
  <2> HIDE DEF r
  <2>5. r \in [1 .. 22 -> S] /\ \A k \in 1 .. 22 : r[k] = t[23 - k]  BY <2>2, <2>3, <2>4
  <2>6. r \in Seq(S)
    <3>1. [1 .. 22 -> S] \in {[1 .. n -> S] : n \in Nat}  OBVIOUS
    <3> QED  BY <2>5, <3>1, SeqDef, Zenon
  <2>7. Len(r) = 22
    <3>1. DOMAIN r = 1 .. 22  BY <2>5
    <3>2. Len(r) \in Nat /\ DOMAIN r = 1 .. Len(r)  BY <2>6, LenProperties
    <3> QED  BY <3>1, <3>2
  <2> QED  BY <1>6, <2>5, <2>7 DEF r
<1>10. \A k \in 1 .. 15 : Stack(v, TRUE)[k] = pushaq[16 - k]
  <2> TAKE k \in 1 .. 15
  <2>1. 16 - k \in 1 .. 15 /\ 7 + (16 - k) = 23 - k /\ k \in 1 .. 22  OBVIOUS
  <2>2. t[7 + (16 - k)] = pushaq[16 - k]  BY <1>8, <2>1
  <2> QED  BY <1>9, <2>1, <2>2
<1>11. /\ Stack(v, TRUE)[16] = b[7] /\ Stack(v, TRUE)[17] = b[6]
       /\ Stack(v, TRUE)[18] = b[5] /\ Stack(v, TRUE)[19] = b[4] /\ Stack(v, TRUE)[20] = b[3]
       /\ Stack(v, TRUE)[21] = b[2] /\ Stack(v, TRUE)[22] = b[1]
  <2> DEFINE w == Stack(v, TRUE)
  <2> HIDE DEF w
  <2>1. \A k \in 16 .. 22 : w[k] = b[23 - k]
    <3> TAKE k \in 16 .. 22
    <3>1. k \in 1 .. 22 /\ 23 - k \in 1 .. 7  OBVIOUS
    <3> QED  BY <1>8, <1>9, <3>1 DEF w
  <2>2. /\ w[16] = b[7] /\ w[17] = b[6] /\ w[18] = b[5] /\ w[19] = b[4]
        /\ w[20] = b[3] /\ w[21] = b[2] /\ w[22] = b[1]
    BY <2>1
  <2> QED  BY <2>2 DEF w
<1>12. b[1] = "ss" /\ b[2] = "rsp" /\ b[3] = "rflags" /\ b[4] = "cs" /\ b[5] = "rip"
  BY <1>5, <1>7
<1> QED  BY <1>7, <1>9, <1>10, <1>11, <1>12, ZenonT(40) DEF code

LEMMA FrameRead ==
  ASSUME NEW v \in (0 .. 31) \ {29, 30}, NEW field \in ToSet(Registers)
  PROVE  Seen(Stack(v, TRUE), field) = Expected(v, TRUE, field)
<1> DEFINE w == Stack(v, TRUE)
<1>1. DOMAIN Registers = 1 .. 22  BY DEF Registers
<1>2. PICK k \in 1 .. 22 : field = Registers[k]  BY <1>1 DEF ToSet
<1>3. Seen(w, field) = w[k]  BY <1>2, OffsetOf DEF Seen
<1>4. CASE k = 16 \/ k = 17
  <2>1. Registers[16] = "intn" /\ Registers[17] = "err"  BY DEF Registers
  <2>2. w[16] = v /\ w[17] = IF v \in HasErrorCode THEN "code" ELSE 0  BY Pushed
  <2> QED  BY <1>2, <1>3, <1>4, <2>1, <2>2 DEF Expected
<1>5. CASE k \in 1 .. 15
  <2>1. w[k] = pushaq[16 - k]  BY <1>5, Pushed, ZenonT(40)
  <2>2. \A i \in 1 .. 15 : pushaq[16 - i] = Registers[i]  BY DEF pushaq, Registers
  <2>3. \A i \in 1 .. 15 : Registers[i] # "intn" /\ Registers[i] # "err"  BY DEF Registers
  <2> QED  BY <1>2, <1>3, <1>5, <2>1, <2>2, <2>3 DEF Expected
<1>6. CASE k \in 18 .. 22
  <2>1. /\ Registers[18] = "rip" /\ Registers[19] = "cs" /\ Registers[20] = "rflags"
        /\ Registers[21] = "rsp" /\ Registers[22] = "ss"
    BY DEF Registers
  <2>2. w[18] = "rip" /\ w[19] = "cs" /\ w[20] = "rflags" /\ w[21] = "rsp" /\ w[22] = "ss"
    BY Pushed
  <2> HIDE DEF w
  <2>0. k = 18 \/ k = 19 \/ k = 20 \/ k = 21 \/ k = 22  BY <1>6
  <2>3. w[k] = Registers[k]  BY <2>0, <2>1, <2>2, Zenon
  <2>4. /\ "rip" \notin {"intn", "err"} /\ "cs" \notin {"intn", "err"}
        /\ "rflags" \notin {"intn", "err"} /\ "rsp" \notin {"intn", "err"}
        /\ "ss" \notin {"intn", "err"}
    OBVIOUS
  <2>5. Registers[k] \notin {"intn", "err"}  BY <2>0, <2>1, <2>4, Zenon
  <2>6. Expected(v, TRUE, field) = field  BY <1>2, <2>5 DEF Expected
  <2>7. Seen(w, field) = field  BY <1>2, <1>3, <2>3, Zenon
  <2> QED  BY <2>6, <2>7, Zenon DEF w
<1>7. k = 16 \/ k = 17 \/ k \in 1 .. 15 \/ k \in 18 .. 22  OBVIOUS
<1> QED  BY <1>4, <1>5, <1>6, <1>7, Zenon

(* The frames the stubs made are what was pushed for their vectors.        *)
WordsOK ==
  \A f \in DOMAIN frames :
    frames[f].exception /\ frames[f].stub # {} =>
      frames[f].vector \in Faults \cup {2} /\ frames[f].stack = Stack(frames[f].vector, TRUE)

LEMMA TakeWords ==
  ASSUME FramesOK, WordsOK, NEW v, NEW exception \in BOOLEAN, NEW line,
         Take(v, exception, line), exception => v \in Faults \cup {2}
  PROVE  WordsOK'
<1> DEFINE frame == [vector |-> v, exception |-> exception, line |-> line,
                     stub |-> Stub(v), stack |-> IF Stub(v) = {} THEN <<>> ELSE Stack(v, exception)]
<1>1. frames' = Append(frames, frame)  BY DEF Take
<1>2. /\ frame.exception = exception /\ frame.vector = v /\ frame.stub = Stub(v)
      /\ Stub(v) # {} => frame.stack = Stack(v, exception)
  OBVIOUS
<1> HIDE DEF frame
<1>3. PICK S : frames \in Seq(S)  BY DEF FramesOK
<1>4. \A f \in DOMAIN frames' :
        \/ f \in DOMAIN frames /\ frames'[f] = frames[f]
        \/ frames'[f] = frame
  BY <1>1, <1>3
<1>5. frame.exception /\ frame.stub # {} =>
        frame.vector \in Faults \cup {2} /\ frame.stack = Stack(frame.vector, TRUE)
  <2>1. CASE exception = TRUE  BY <1>2, <2>1
  <2>2. CASE exception = FALSE  BY <1>2, <2>2
  <2> QED  BY <2>1, <2>2
<1>6. Faults' = Faults  OBVIOUS
<1> QED  BY <1>4, <1>5 DEF WordsOK

LEMMA WordsKept == BootIInv /\ WordsOK /\ [Next]_vars => WordsOK'
<1> SUFFICES ASSUME BootIInv, WordsOK, [Next]_vars PROVE WordsOK'  OBVIOUS
<1>1. FramesOK  BY DEF BootIInv
<1>2. CASE frames' = frames  BY <1>2 DEF WordsOK
<1>3. CASE Interrupt
  <2>1. PICK k \in {1, 2} : \E l \in LinesOf(k) : Take(VectorOf(k, l), FALSE, {l})
    BY <1>3 DEF Interrupt
  <2> QED  BY <1>1, <2>1, TakeWords
<1>4. CASE Spurious
  <2>1. PICK v \in apic.spurious : Take(v, FALSE, {})  BY <1>4 DEF Spurious
  <2> QED  BY <1>1, <2>1, TakeWords
<1>5. CASE NMI
  <2>1. Take(2, TRUE, {})  BY <1>5 DEF NMI
  <2> QED  BY <1>1, <2>1, TakeWords
<1>6. CASE Fault
  <2>1. PICK v \in Faults : Take(v, TRUE, {})  BY <1>6 DEF Fault
  <2> QED  BY <1>1, <2>1, TakeWords
<1>7. Run \/ (\E l \in Devices : Request(l)) \/ UNCHANGED vars => frames' = frames
  BY DEF Run, Request, vars
<1> QED  BY <1>2, <1>3, <1>4, <1>5, <1>6, <1>7 DEF Next

(* Vectors 29 and 30 push an error code their stubs do not know of.        *)
KnownCodes == Faults \cap {29, 30} = {}

(* interrupts.asm, idt.c: whatever exception reaches a stub, wherever, the *)
(* handler finds every field of struct Registers where it looks for it.    *)
THEOREM HandlersSeeFrames == KnownCodes => (Spec => []HandlerSeesFrame)
<1> SUFFICES ASSUME KnownCodes PROVE Spec => []HandlerSeesFrame  OBVIOUS
<1>1. Init => WordsOK  BY DEF Init, WordsOK
<1>2. BootIInv /\ WordsOK /\ [Next]_vars => WordsOK'  BY WordsKept
<1>3. WordsOK => HandlerSeesFrame
  <2> SUFFICES ASSUME WordsOK, NEW f \in DOMAIN frames,
                      frames[f].exception, frames[f].stub # {},
                      NEW field \in ToSet(Registers)
               PROVE  Seen(frames[f].stack, field) = Expected(frames[f].vector, TRUE, field)
    BY DEF HandlerSeesFrame
  <2>1. /\ frames[f].vector \in Faults \cup {2}
        /\ frames[f].stack = Stack(frames[f].vector, TRUE)
    BY DEF WordsOK
  <2>2. \A v \in Faults \cup {2} : v \in (0 .. 31) \ {29, 30}
    BY BootConstants DEF BootConstants, KnownCodes
  <2> QED  BY <2>1, <2>2, FrameRead
<1> QED  BY <1>1, <1>2, <1>3, BootInvariant, PTL DEF Spec
=============================================================================
