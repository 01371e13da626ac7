--------------------------- MODULE LossyTransfer ---------------------------
(***************************************************************************)
(* What a link that may lose messages still promises: of the numbered      *)
(* messages of each class, none arrives twice and none arrives after a     *)
(* younger one of its class.                                               *)
(***************************************************************************)
EXTENDS Naturals, Sequences

CONSTANT Class

VARIABLES made, got    \* by class: messages made, those delivered in their order

Init == made = [c \in Class |-> 0] /\ got = [c \in Class |-> <<>>]

Make(c) == made' = [made EXCEPT ![c] = @ + 1] /\ UNCHANGED got

Youngest(c) == IF got[c] = <<>> THEN 0 ELSE got[c][Len(got[c])]

Deliver(c) ==
  /\ \E n \in (Youngest(c) + 1)..made[c] : got' = [got EXCEPT ![c] = Append(@, n)]
  /\ UNCHANGED made

Next == \E c \in Class : Make(c) \/ Deliver(c)

Spec == Init /\ [][Next]_<<made, got>>
=============================================================================
