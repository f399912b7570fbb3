CONSTANTS
  t1 = t1
  t2 = t2
  e1 = e1
  e2 = e2
  e3 = e3
  e4 = e4
  None = None
  Turns <- MCTurns
  Envelopes <- MCEnvelopes
  TurnOf <- MCTurnOf
  Injects <- MCInjects
  Nonce <- MCNonce
SPECIFICATION Spec
INVARIANTS OneAuthority AnsweredIsRecorded NonceBuysOneTurn
PROPERTY TurnSettledOnce
