CONSTANTS
  m1 = m1
  m2 = m2
  m3 = m3
  ghost = ghost
  Thread = {t1, t2}
  Mixes <- MCMixes
  Bound <- MCBound
  Catalogue = {m1, m2, m3}
  TomlChain <- MCToml
  Keyless = {m3}
  Answers <- MCAnswers
  MaxAttempts = 2
  Default = 2
  Seeded = {"daily"}
  MaxCalls = 2
  MaxSpent = 2
SPECIFICATION SpendSpec
INVARIANTS SpendTypeOK BlockedIsHonest CountedOnce DayIsExact DecidedOnce
CHECK_DEADLOCK FALSE
