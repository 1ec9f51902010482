------------------------------ MODULE SlotPool ------------------------------
(***************************************************************************)
(* What a limited client promises: never more than Capacity calls at once, *)
(* and every slot taken is given back.  A call made while more than        *)
(* Threshold slots are taken may be refused.                               *)
(***************************************************************************)
EXTENDS Naturals

CONSTANTS
    Capacity,    \* a natural number: how many slots there are
    Threshold    \* a natural number: above it calls may be refused

VARIABLE used

PoolTypeOK == used \in 0..Capacity

PoolInit == used = 0

Acquire == used < Capacity /\ used' = used + 1

Release == used > 0 /\ used' = used - 1

Refuse == used > Threshold /\ UNCHANGED used

PoolNext == Acquire \/ Release

PoolSpec == PoolInit /\ [][PoolNext]_used

\* Slots do not stay taken for ever.
FairPoolSpec == PoolSpec /\ WF_used(Release)
=============================================================================
