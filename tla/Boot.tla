-------------------------------- MODULE Boot --------------------------------
(***************************************************************************)
(* kMain(): initHAL() (arch/x86-64/hal.c) with what it does to the tables  *)
(* (gdt.c, idt.c) and to the interrupt controllers (pic.c, apic.c), one    *)
(* instruction or port access per step, while devices and the processor    *)
(* interrupt it.  Text that is printed in between changes nothing of this  *)
(* and is left out.                                                        *)
(***************************************************************************)
EXTENDS Interrupts

CONSTANTS
  Devices,     (* the lines, 0 .. 15, devices are connected to             *)
  Masks,       (* the sets of lines the loader may have masked             *)
  Faults,      (* the exceptions the running code may raise                *)
  Bases,       (* where the firmware may have put the APIC, as 4K page     *)
  MaxRequests  (* bound: requests the devices make                         *)

(* Pages below 4 GB, where the firmware puts the APIC.                     *)
Low4GB == 1048576

ASSUME BootConstants ==
  /\ Devices \subseteq 0 .. 15 /\ Masks \subseteq SUBSET (0 .. 15)
  /\ Faults \subseteq 0 .. 31 /\ Bases \subseteq 0 .. Low4GB - 1 /\ MaxRequests \in Nat

VARIABLES
  pc,          (* the next step of Program                                 *)
  hasAPIC,     (* what cpuid says                                          *)
  segments,    (* the segment table in use                                 *)
  filled,      (* the gates of the kernel's interrupt table are written    *)
  loaded,      (* that table is in use                                     *)
  enabled,     (* the processor's interrupt flag                           *)
  nmi,         (* a non-maskable interrupt is being handled                *)
  frames,      (* the interrupts that were taken, the last one running     *)
  chip,        (* the two controllers                                      *)
  saved,       (* a1 and a2 of initPIC()                                   *)
  apic,        (* the APIC: its page, whether it is enabled, and the       *)
               (* vector of spurious interrupts, if it was given one       *)
  p,           (* the page initAPIC() takes the APIC to be at              *)
  masked,      (* ghost: the lines the loader had masked                   *)
  requests     (* ghost: how many requests there were                      *)

tables == <<segments, filled, loaded>>
local  == <<apic, p>>
vars   == <<pc, hasAPIC, tables, enabled, nmi, frames, chip, saved, local, masked, requests>>

----------------------------------------------------------------------------
(* The program: a sequence of steps, each an operation, the controller it  *)
(* talks to (1 or 2, or 0) and the value it writes.                        *)

Do(op)         == [op |-> op, to |-> 0, value |-> 0]
Out(op, k, n)  == [op |-> op, to |-> k, value |-> n]

(* Mutant: one controller's mask is restored into the other.               *)
RestoreSwapped == <<Out("restore", 1, 2), Out("restore", 2, 1)>>

Restore == <<Out("restore", 1, 1), Out("restore", 2, 2)>>

initPIC(offset1, offset2) ==
  <<Do("save"),
    Out("command", 1, 17), Out("command", 2, 17),
    Out("data", 1, offset1), Out("data", 2, offset2),
    Out("data", 1, 4), Out("data", 2, 2),
    Out("data", 1, 1), Out("data", 2, 1)>> \o Restore

(* Mutant: interrupts are enabled first.                                   *)
initIDTEnabling == <<Do("sti"), Do("fill"), Do("lidt")>>

initIDT == <<Do("fill"), Do("lidt"), Do("sti")>>

setupGDT == <<Do("lgdt")>>
initAPIC == <<Do("rdmsr"), Do("wrmsr"), Do("spurious")>>

(* Eight rounds of eleven steps.                                           *)
InTurn(round) == [n \in 1 .. 8 * 11 |-> round[(n - 1) \div 11][((n - 1) % 11) + 1]]

(* Mutant: the second controller gets the first one's vectors.             *)
RoundsAlike == InTurn([k \in 0 .. 7 |-> initPIC(8 + k, 8 + k)])

Rounds == InTurn([k \in 0 .. 7 |-> initPIC(8 + k, 112 + k)])

initHAL == <<Do("cli")>> \o setupGDT \o initIDT \o IF hasAPIC THEN initAPIC ELSE Rounds

Program == initHAL \o <<Do("hlt")>>

----------------------------------------------------------------------------
(* The controllers (8259A): a command restarts one, which forgets its mask *)
(* and its requests; it then takes three words as data, the first one's    *)
(* lower three bits ignored, and any later one is a mask.                  *)

LinesOf(k) == IF k = 1 THEN 0 .. 7 ELSE 8 .. 15

Command(k) == [chip EXCEPT ![k] = [awaits |-> 2, base |-> @.base, mask |-> {}, requested |-> {}]]

Data(k, n) ==
  CASE chip[k].awaits = 2 -> [chip EXCEPT ![k].awaits = 3, ![k].base = n - (n % 8)]
    [] chip[k].awaits = 3 -> [chip EXCEPT ![k].awaits = 4]
    [] OTHER              -> [chip EXCEPT ![k].awaits = 0]

SetMask(k, byte) ==
  [chip EXCEPT ![k].mask = {l \in LinesOf(k) : \E m \in byte : l % 8 = m % 8}]

MasksNow == [k \in {1, 2} |-> chip[k].mask]

----------------------------------------------------------------------------
(* The APIC.  initAPIC() reads where it is, writes that back and gives it  *)
(* 39 as its spurious vector at the address it has read.                   *)

(* The lower half of the register only: addresses below 4 GB.              *)
getAPICbase == apic.base % Low4GB

(* Mutant: the mask has two digits too many.                               *)
setAPICbaseCoarse(page) == [apic EXCEPT !.base = page - (page % 256), !.enabled = TRUE]

(* The mask 0xfffff0000 has one digit too many, which clears the lowest    *)
(* four bits of the page.                                                  *)
setAPICbase(page) == [apic EXCEPT !.base = page - (page % 16), !.enabled = TRUE]

(* At another address there is memory, or nothing.                         *)
setSpurious(page) ==
  IF apic.enabled /\ apic.base = page THEN [apic EXCEPT !.spurious = {39}] ELSE apic

----------------------------------------------------------------------------
Step(s) ==
  /\ enabled' = CASE s.op = "cli" -> FALSE [] s.op = "sti" -> TRUE [] OTHER -> enabled
  /\ segments' = IF s.op = "lgdt" THEN gdt ELSE segments
  /\ filled'  = (filled \/ s.op = "fill")
  /\ loaded'  = (loaded \/ s.op = "lidt")
  /\ p'       = IF s.op = "rdmsr" THEN getAPICbase ELSE p
  /\ apic'    = CASE s.op = "wrmsr"    -> setAPICbase(p)
                  [] s.op = "spurious" -> setSpurious(p)
                  [] OTHER             -> apic
  /\ saved'   = IF s.op = "save" THEN MasksNow ELSE saved
  /\ chip'    = CASE s.op = "command" -> Command(s.to)
                  [] s.op = "data"    -> Data(s.to, s.value)
                  [] s.op = "restore" -> SetMask(s.to, saved[s.value])
                  [] OTHER            -> chip

(* The kernel runs until something interrupts it; at the end it halts.     *)
Run ==
  /\ frames = <<>> /\ pc < Len(Program)
  /\ Step(Program[pc]) /\ pc' = pc + 1
  /\ UNCHANGED <<hasAPIC, nmi, frames, masked, requests>>

----------------------------------------------------------------------------
(* Interrupts.                                                             *)

(* The stub the processor finds: none of the kernel's before its table is  *)
(* in use, or if a gate's segment is not one to run it in.                 *)
Stub(v) == IF filled /\ loaded /\ RunsCode(segments, Gate(v).selector) THEN {Gate(v).isr} ELSE {}

(* Mutant: trap gates leave the flag alone.                                *)
FlagInTrap(v) == enabled

(* The loader's gates are interrupt gates too.                             *)
FlagInHandler(v) == enabled /\ loaded /\ ~ClearsFlag(Gate(v))

(* handleException() prints what it finds and halts.  It has no way to     *)
(* return but to be woken, and what wakes it ends in the same halt.  The   *)
(* loader's handlers are not the kernel's: nothing is known of their       *)
(* stacks, and none is taken to come back.                                 *)
Take(v, exception, line) ==
  /\ frames' = Append(frames, [vector |-> v, exception |-> exception, line |-> line, stub |-> Stub(v),
                               stack |-> IF Stub(v) = {} THEN <<>> ELSE Stack(v, exception)])
  /\ enabled' = FlagInHandler(v)

(* A device requests an interrupt.                                         *)
Request(l) ==
  /\ requests < MaxRequests /\ requests' = requests + 1
  /\ LET k == IF l < 8 THEN 1 ELSE 2
     IN  /\ l \notin chip[k].requested
         /\ chip' = [chip EXCEPT ![k].requested = @ \cup {l}]
  /\ UNCHANGED <<pc, hasAPIC, tables, enabled, nmi, frames, saved, local, masked>>

(* A controller in operation passes on what is not masked, the second one  *)
(* through line 2 of the first.                                            *)
Passes(k, l) ==
  /\ chip[k].awaits = 0 /\ l \in chip[k].requested \ chip[k].mask
  /\ k = 2 => chip[1].awaits = 0 /\ 2 \notin chip[1].mask

VectorOf(k, l) == chip[k].base + (l % 8)

Interrupt ==
  \E k \in {1, 2} : \E l \in LinesOf(k) :
    /\ enabled /\ Passes(k, l)
    /\ Take(VectorOf(k, l), FALSE, {l})
    /\ chip' = [chip EXCEPT ![k].requested = @ \ {l}]
    /\ UNCHANGED <<pc, hasAPIC, tables, nmi, saved, local, masked, requests>>

Spurious ==
  /\ hasAPIC /\ enabled /\ apic.enabled
  /\ \E v \in apic.spurious : Take(v, FALSE, {})
  /\ UNCHANGED <<pc, hasAPIC, tables, nmi, chip, saved, local, masked, requests>>

(* At any step, whatever the flag and whichever table is in use; but not   *)
(* while one is handled.                                                   *)
NMI ==
  /\ ~nmi /\ nmi' = TRUE
  /\ Take(2, TRUE, {})
  /\ UNCHANGED <<pc, hasAPIC, tables, chip, saved, local, masked, requests>>

(* The running code raises one: at any step too.                           *)
Fault ==
  /\ frames = <<>>
  /\ \E v \in Faults : Take(v, TRUE, {})
  /\ UNCHANGED <<pc, hasAPIC, tables, nmi, chip, saved, local, masked, requests>>

(* The loader leaves the controllers with the vectors of a PC, and the     *)
(* firmware the APIC on or off.                                            *)
Init ==
  /\ pc = 1 /\ hasAPIC \in BOOLEAN
  /\ segments = loaderGDT /\ filled = FALSE /\ loaded = FALSE
  /\ enabled \in BOOLEAN /\ nmi = FALSE /\ frames = <<>>
  /\ apic \in [base : IF hasAPIC THEN Bases ELSE {0}, enabled : IF hasAPIC THEN BOOLEAN ELSE {FALSE},
               spurious : {{}}]
  /\ p = 0
  /\ masked \in Masks /\ requests = 0
  /\ chip = [k \in {1, 2} |-> [awaits |-> 0, base |-> IF k = 1 THEN 8 ELSE 112,
                               mask |-> masked \cap LinesOf(k), requested |-> {}]]
  /\ saved = [k \in {1, 2} |-> {}]

Next ==
  \/ Run
  \/ \E l \in Devices : Request(l)
  \/ Interrupt
  \/ Spurious
  \/ NMI
  \/ Fault

Spec == Init /\ [][Next]_vars
=============================================================================
