----------------------------- MODULE RecencyList -----------------------------
(***************************************************************************)
(* What a least-recently-used cache promises: it remembers the last        *)
(* MaxSize different keys that were used, in the order of their last use.  *)
(***************************************************************************)
EXTENDS Naturals, Sequences, SequencesExt

CONSTANTS
    Key,
    MaxSize   \* how many keys are remembered: a positive natural number

VARIABLE recent   \* the keys remembered, the last one used first

Remembered == {recent[i] : i \in DOMAIN recent}

Without(k) == RemoveFirst(recent, k)

\* k is used: it comes first, and what does not fit any more is forgotten.
Used(k) == LET s == <<k>> \o Without(k)
           IN  IF Len(s) > MaxSize THEN SubSeq(s, 1, MaxSize) ELSE s

Use(k) == recent' = Used(k)

\* The keys that a use of k makes the list forget.
ForgottenBy(k) ==
    LET s == <<k>> \o Without(k)
    IN  {s[i] : i \in (MaxSize + 1)..Len(s)}

ForgetAll == recent' = <<>>

RecencyInit == recent = <<>>

RecencyNext == ForgetAll \/ \E k \in Key : Use(k)

RecencySpec == RecencyInit /\ [][RecencyNext]_recent
=============================================================================
