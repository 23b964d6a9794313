SPECIFICATION Spec
CONSTANTS
  i1 = i1
  i2 = i2
  i3 = i3
  i4 = i4
  i5 = i5
  s1 = s1
  s2 = s2
  s3 = s3
  tort = tort
  trusts = trusts
  easy = easy
  hard = hard
  Items = {i1, i2, i3, i4, i5}
  Bank <- ABank
  Topics = {tort, trusts}
  Difficulties = {easy, hard}
  Sittings = {s1, s2, s3}
  Builders = {b1}
  ManualPapers <- SomeManual
  RulePapers <- SomeRules
  Updates <- SomeUpdates
  Blueprints <- ABlueprint
  Tolerance = 500
  Cooldown = 1
  MaxPapers = 3
  MaxRetags = 1
  MaxExports = 2
INVARIANTS
  CoolDownHonoured
  
  UsesAreRecorded
CHECK_DEADLOCK FALSE
