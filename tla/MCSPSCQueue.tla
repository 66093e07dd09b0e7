----------------------------- MODULE MCSPSCQueue ------------------------------
(* Small instances of SPSCQueue for TLC, and the check of the capacity     *)
(* arithmetic its constructor does.                                        *)
EXTENDS SPSCQueue, RingCapacity, FiniteSetsExt

CONSTANT Requested \* the constructor's argument

MCCapacity == NextPowerOfTwo(Requested)

(* The ring has the least power of two that is not below the request. *)
ASSUME CapacityIsLeastPower ==
    \A n \in 0 .. 64 : NextPowerOfTwo(n) = Min({c \in {2^k : k \in 0 .. 7} : c >= n})

(* Under a power of two, the mask steps around the ring. *)
ASSUME MaskWraps ==
    \A k \in 0 .. 5 : \A i \in 0 .. (2^k - 1) :
        MaskedSuccessor(i, 2^k) = IF i + 1 = 2^k THEN 0 ELSE i + 1
===============================================================================
