SPECIFICATION ForwardsSpec
CONSTANTS
  Targets = {t4}
  V4 = {t4}
  ForwardIds = {f1}
  NoTarget = NoTarget
  Askers = {a1}
  NoAsk = NoAsk
  MaxCopies = 1
  MaxChanges = 0
INVARIANTS RulesAreListed
