---------------------------- MODULE MCIec104Link ----------------------------
(* Instances of Iec104Link for TLC. *)
EXTENDS Iec104LinkInv

Load(mh, ms, sh, ss) ==
    [e \in Station |-> [q \in Queue |->
        IF e = "master" THEN IF q = "high" THEN mh ELSE ms
                        ELSE IF q = "high" THEN sh ELSE ss]]

\* ASDUs per queue: master high, master spontaneous, slave high, slave spontaneous.
BothWays  == Load(1, 1, 1, 3)
InTurn    == Load(0, 1, 1, 2)
FromSlave == Load(0, 0, 0, 4)
=============================================================================
