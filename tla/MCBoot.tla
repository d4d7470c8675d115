------------------------------- MODULE MCBoot -------------------------------
(* Instances of Boot for TLC.                                              *)
EXTENDS BootInv

(* The timer, a disk behind the second controller, and their neighbours.   *)
SomeDevices == {0, 1, 14}

SomeMasks == {0 .. 15, {}, {1, 3}, {0, 2, 9}}

(* All but 29 and 30, whose stubs do not know of their error codes.        *)
SomeFaults == (0 .. 31) \ {29, 30}
(* Where the APIC of a PC is, 0xfee00000, another place initAPIC() leaves  *)
(* alone, and one it does not.                                             *)
SomeBases == {1043968, 1043984, 1043976}
=============================================================================
