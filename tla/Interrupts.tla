----------------------------- MODULE Interrupts -----------------------------
(***************************************************************************)
(* The way of an interrupt: the descriptor tables it is looked up in       *)
(* (arch/x86-64/gdt.c, idt.c), what the processor and the stubs of         *)
(* interrupts.asm push, and what handleException() reads from it.  A word  *)
(* on the stack is the name of what was pushed.                            *)
(***************************************************************************)
EXTENDS Integers, SequencesExt

Vectors == 0 .. 255

----------------------------------------------------------------------------
(* The tables.  Of a segment its access byte and its flags; of a gate the  *)
(* stub, named by its vector, the segment's selector and the type.         *)

HasBit(byte, bit) == (byte \div bit) % 2 = 1

Segment(access, flags) == [access |-> access, flags |-> flags]

gdt == <<Segment(0, 0), Segment(155, 10), Segment(147, 10), Segment(251, 10), Segment(243, 10)>>

(* The loader's segments of 16, 32 and 64 bits, code and data in turn.     *)
loaderGDT == <<Segment(0, 0), Segment(155, 0), Segment(147, 0), Segment(155, 12),
               Segment(147, 12), Segment(155, 2), Segment(147, 0)>>

(* The selector names a present segment of 64-bit kernel code.             *)
RunsCode(table, selector) ==
  LET k == selector \div 8 + 1
  IN  /\ k <= Len(table)
      /\ \A bit \in {8, 16, 128} : HasBit(table[k].access, bit)
      /\ ~HasBit(table[k].access, 32) /\ ~HasBit(table[k].access, 64)
      /\ HasBit(table[k].flags, 2) /\ ~HasBit(table[k].flags, 4)

(* 0x80 is the present bit; a gate of type 0xe clears the interrupt flag.  *)
IDTint == 14

setIDTdescriptor(isr, flags) == [isr |-> isr, selector |-> 8, type |-> flags]

Gate(vector) == setIDTdescriptor(vector, 128 + IDTint)

ClearsFlag(gate) == gate.type % 16 = 14

----------------------------------------------------------------------------
(* The stack.                                                              *)

(* Exceptions that push an error code on x86-64 processors.                *)
HasErrorCode == {8, 10, 11, 12, 13, 14, 17, 21, 29, 30}

(* The vectors with the stub isr_err_stub; all others have isr_no_err_stub. *)
ErrStubs == {8, 10, 11, 12, 13, 14, 17, 21}

(* In the order they are pushed, the last one on top.  The processor       *)
(* pushes an error code for an exception, never for a device.              *)
Hardware(v, exception) ==
  <<"ss", "rsp", "rflags", "cs", "rip">>
    \o IF exception /\ v \in HasErrorCode THEN <<"code">> ELSE <<>>

(* Mutant: the stub for errors pushes a zero as well.                      *)
PushedAlike(v) == <<0, v>>

PushedByStub(v) == IF v \in ErrStubs THEN <<v>> ELSE <<0, v>>

pushaq == <<"rax", "rbx", "rcx", "rdx", "rsi", "rdi", "rbp", "r8", "r9",
            "r10", "r11", "r12", "r13", "r14", "r15">>

(* From the lowest address: what rdi points to when the handler is called. *)
Stack(v, exception) == Reverse(Hardware(v, exception) \o PushedByStub(v) \o pushaq)

(* The fields of struct Registers, in order.                               *)
Registers == <<"r15", "r14", "r13", "r12", "r11", "r10", "r9", "r8", "rbp", "rdi",
               "rsi", "rdx", "rcx", "rbx", "rax", "intn", "err",
               "rip", "cs", "rflags", "rsp", "ss">>

Offset == [field \in ToSet(Registers) |-> CHOOSE k \in DOMAIN Registers : Registers[k] = field]

(* r->field                                                                *)
Seen(stack, field) == stack[Offset[field]]

(* What it is to be: the word of that name, the vector, and the error code *)
(* or a zero.                                                              *)
Expected(v, exception, field) ==
  CASE field = "intn" -> v
    [] field = "err"  -> IF exception /\ v \in HasErrorCode THEN "code" ELSE 0
    [] OTHER          -> field
=============================================================================
