\* Five events; doubles of three digits, one of them printed; a history of two.
\* The bound on events stops the model.
CONSTANTS
  Digits = 3
  Exponents = 5
  Precision = 1
  MAX_HISTORY = 2
  LINE = 7
  Byte <- MCByte
  Key = {"9", "0", ".", "(", ")", "%"}
  Figure <- MCFigure
  SIZE = 8
  RESULT = 7
  Engineering <- MCEngineering
  Evaluate <- MCEvaluate
  Negated <- MCNegated
  Result <- MCResult
  Conforms <- FollowsGrammar
  Error = Error
  MaxEvents = 5
SPECIFICATION Spec
INVARIANTS TypeOK OperatorsApart DisplayAgrees AnswerStands ToggleRestores HistoryKept ParserFollowsGrammar ResultsAreOperands
CHECK_DEADLOCK FALSE
