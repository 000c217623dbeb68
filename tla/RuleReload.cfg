SPECIFICATION Spec
CONSTANTS
  r1 = r1  r2 = r2  r3 = r3
  o1 = o1  o2 = o2
  NoRules = NoRules
  NoOp = NoOp
  Threads = {t1, t2}
  Ops = {o1, o2}
  RuleSets = {r1, r2, r3}
  Boot = r1
  Covers <- MCCovers
  Candidates <- MCCandidates
  Selects <- MCSelects
  MaxReloads = 3
  RingSlots = 1
INVARIANTS
  TypeOK
  ActiveGenerationComplete
  NoPartialRules
  EngineSurvivesOneReload
PROPERTY
  ActiveNeverRewritten
SYMMETRY ThreadSymmetry
CHECK_DEADLOCK FALSE
