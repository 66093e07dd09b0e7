------------------------------ MODULE MCServices ------------------------------
(***************************************************************************)
(* Three services that share nothing, each on a small instance: kind says  *)
(* which of them is used in a behaviour.  The others stay as they are.     *)
(***************************************************************************)
EXTENDS FlowControl, Snowflake, RevocationList

MCHostHashes == {5, -3}
MCThreadHash == [t \in Thread |-> 1]
MCCustomIds == {<<1, 2>>, <<-1, -1>>}

VARIABLE kind

Init ==
    /\ kind \in {"flow", "snowflake", "revocation"}
    /\ FlowInit /\ SnowInit /\ ListInit
    /\ kind # "flow" => maxQueueSize = CHOOSE n \in Limits : TRUE
    /\ kind # "flow" => ~dropOnFull
    /\ kind # "snowflake" => hostHash = CHOOSE n \in HostHashes : TRUE

Next ==
    /\ \/ kind = "flow" /\ FlowNext /\ UNCHANGED <<snowVars, listVars>>
       \/ kind = "snowflake" /\ SnowNext /\ UNCHANGED <<flowVars, listVars>>
       \/ kind = "revocation" /\ ListNext /\ UNCHANGED <<flowVars, snowVars>>
    /\ UNCHANGED kind

Spec == Init /\ [][Next]_<<flowVars, snowVars, listVars, kind>>

(* Types of the three services. *)
ServicesTypesOK == FlowTypeOK /\ SnowTypeOK /\ ListTypeOK
===============================================================================
