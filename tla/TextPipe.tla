------------------------------ MODULE TextPipe ------------------------------
(* What a Stream of randpseudocode.c promises: characters come out in the  *)
(* order they went in, each once, for as long as the writer takes what it  *)
(* is given.  A text it refuses is not lost at once: the characters pushed *)
(* next replace it one by one, and what is left of it goes out with them.  *)
EXTENDS Sequences, Naturals

CONSTANTS Char, Capacity

VARIABLES queue,  (* pushed and not yet handed to the writer               *)
          stale,  (* what is left of a text that was refused               *)
          out     (* what the writer has taken during this call            *)

vars == <<queue, stale, out>>

Init == queue = <<>> /\ stale = <<>> /\ out = <<>>

Rest(s) == IF s = <<>> THEN <<>> ELSE Tail(s)

Hand(q, s) ==
  /\ queue' = <<>>
  /\ \/ out' = out \o q \o s /\ stale' = <<>>
     \/ out' = out /\ stale' = q \o s

Put(c) ==
  /\ Len(queue) + 1 < Capacity
  /\ queue' = Append(queue, c) /\ stale' = Rest(stale)
  /\ UNCHANGED out

PutLast(c) ==
  /\ Len(queue) + 1 = Capacity
  /\ Hand(Append(queue, c), Rest(stale))

Flush == Hand(queue, stale)

Begin == queue = <<>> /\ out' = <<>> /\ UNCHANGED <<queue, stale>>

Next == Begin \/ Flush \/ \E c \in Char : Put(c) \/ PutLast(c)

Spec == Init /\ [][Next]_vars
=============================================================================
