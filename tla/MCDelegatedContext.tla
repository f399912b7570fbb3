------------------------- MODULE MCDelegatedContext -------------------------
(* Two turns and four results: two for the first turn, one that withholds, *)
(* and one for the second turn that reuses the nonce of the first.         *)
EXTENDS DelegatedContext

CONSTANTS t1, t2, e1, e2, e3, e4

MCTurns == {t1, t2}
MCEnvelopes == {e1, e2, e3, e4}
MCTurnOf == [e \in MCEnvelopes |-> IF e = e3 THEN t2 ELSE t1]
MCInjects == {e1, e2, e3}
MCNonce == [e \in MCEnvelopes |-> IF e = e3 THEN e1 ELSE e]
=============================================================================
