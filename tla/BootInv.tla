------------------------------ MODULE BootInv ------------------------------
(* What is checked of Boot.                                                *)
EXTENDS Boot

(* hal.c:16-21: from cli on vector v leads to the stub of v, in a segment  *)
(* it can run in.  No device ever meets the loader's table, or a table     *)
(* that goes with other segments: the flag is on again only when both are  *)
(* the kernel's.  What the flag does not hold back, an NMI or an exception *)
(* before lidt, does meet it, and nothing later does.  (The kernel does    *)
(* not run on after an interrupt: loaded is as it was when it came.)       *)
TableFirst ==
  pc # 1 => \A f \in DOMAIN frames :
              \/ frames[f].stub = {frames[f].vector}
              \/ frames[f].exception /\ ~loaded

(* The stubs make every frame look alike: handleException() finds the      *)
(* vector, the error code and the processor's words where struct Registers *)
(* has them (exceptions other than 29 and 30 that reach a stub).           *)
HandlerSeesFrame ==
  \A f \in DOMAIN frames : frames[f].exception /\ frames[f].stub # {} =>
    \A field \in ToSet(Registers) :
      Seen(frames[f].stack, field) = Expected(frames[f].vector, TRUE, field)

(* Handlers do not return, so a frame is never given back; still there are *)
(* never more than two, because a halted handler is woken by an NMI only,  *)
(* and that once.                                                          *)
StackBounded == Len(frames) <= 2

(* pic.c:43: "restore saved masks": whenever a round of initPIC() is over, *)
(* and at the end, exactly the lines are masked that the loader had masked. *)
AtRest == Program[pc].op \notin {"command", "data", "restore"}
MasksRestored == AtRest => chip[1].mask \cup chip[2].mask = masked

(* apic.c:41-47: initAPIC() writes the spurious vector to where it read the *)
(* APIC to be, after it has put it to an address with a mask of its own:   *)
(* at the end the APIC is enabled, where it was, and has the vector, if it *)
(* was on a boundary of 64 KB below 4 GB.                                  *)
ApicAnswers ==
  (hasAPIC /\ pc = Len(Program) /\ p % 16 = 0) =>
    p \in Bases /\ apic = [base |-> p, enabled |-> TRUE, spurious |-> {39}]

(* Two lines never have the same vector, nor does one have that of the     *)
(* spurious interrupt, once the controllers are set up.                    *)
OwnVectors ==
  pc = Len(Program) =>
    \A l, m \in 0 .. 15 :
      LET v(n) == VectorOf(IF n < 8 THEN 1 ELSE 2, n)
      IN  l # m => v(l) # v(m) /\ v(l) # 39
=============================================================================
