----------------------------- MODULE RingCapacity -----------------------------
(***************************************************************************)
(* How SPSCQueue turns the requested capacity into the size of its ring,   *)
(* and why adding one under the mask m_mask = m_capacity - 1 is stepping   *)
(* around the ring.                                                        *)
(***************************************************************************)
EXTENDS Naturals, Bitwise

(* A multiple of two shares no bit with its predecessor. *)
IsPowerOfTwo(n) == n # 0 /\ (n & (n - 1)) = 0

NextPowerOfTwo(n) ==
    LET Doubled[r \in Nat] == IF r < n THEN Doubled[2 * r] ELSE r
    IN  IF n = 0 THEN 1 ELSE IF IsPowerOfTwo(n) THEN n ELSE Doubled[1]

MaskedSuccessor(i, capacity) == (i + 1) & (capacity - 1)
===============================================================================
