--------------------------- MODULE MCBlockResponse ---------------------------
(* Small instances of BlockResponse for TLC. *)
EXTENDS BlockResponse

CONSTANTS svc, cli, cli2, outside, inside, gateway, caseA, caseB

MCBid2 == 1..2
MCBid3 == 1..3

MCTarget == [i \in {caseA, caseB} |-> IF i = caseA THEN outside ELSE inside]
MCTargetOne == [i \in {caseA} |-> outside]
MCTargetSame == [i \in {caseA, caseB} |-> outside]

=============================================================================
