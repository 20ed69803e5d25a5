SPECIFICATION Spec
CONSTANTS
  Char = {"a", "key", "CR", "LF"}
  Option = {"31"}
  MaxTokens = 3
  MaxText = 5
  BufSize = 2
  Key = {k1, k2}
  Nonce = {n1}
  BadKey = BadKey
INVARIANTS
  TextIsPassedOn
  MaskedIsShown
  TextIsRecovered
CHECK_DEADLOCK FALSE
