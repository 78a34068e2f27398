---------------------------- MODULE MCModelGateway ----------------------------
(* Instances of ModelGateway for TLC.                                       *)
EXTENDS ModelGateway, TLC

CONSTANTS c1, c2, p1, p2, d1, d2, q1

OneRequest  == [c \in Calls |-> q1]
Unwanted    == [q \in Requests |-> None]
(* A provider that fails in every way, and the offline one.                *)
RemoteFirst == [p \in Providers |-> [protocol |-> IF p = p1 THEN "openai_chat" ELSE "internal",
                                     credential_env |-> p = p1]]
OnceEach    == [p \in Providers |-> 1]
RetryFirst  == [p \in Providers |-> IF p = p1 THEN 2 ELSE 1]
AllKnown    == [d \in Digests |-> Providers]
FitsAll     == [d \in Digests |-> [q \in Requests |-> Providers]]
(* The second file takes p1 from the private deployments. *)
Withdrawn   == [d \in Digests |-> IF d = d1 THEN {p1, p2} ELSE {p2}]
InOrder     == [d \in Digests |-> <<p1, p2>>]
SlotEach    == [d \in Digests |-> IF d = d1 THEN 2 ELSE 1]
CallSymmetry == Permutations(Calls) \cup Permutations(Reloads)
OneEntry    == [d \in Digests |-> 1]
=============================================================================
