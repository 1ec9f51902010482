-------------------------------- MODULE Procfs --------------------------------
(***************************************************************************)
(* What the readers of /proc have in common: a file that cannot be opened, *)
(* or is empty, and the counters of the kernel.                            *)
(***************************************************************************)
EXTENDS Integers

CONSTANTS
    NoFile,
    Uint64Bits      \* the width of a counter, 64

Unsigned(n) == n % 2 ^ Uint64Bits
=============================================================================
