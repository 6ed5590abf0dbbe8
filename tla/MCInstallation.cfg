CONSTANTS
  Owner = juan
  Persons = {juan, ana, bea}
  Pets = {}
  Places = {}
  Values = {one, two}
  Zero = zero
  Phones = {phone, newer}
  Seeds = {first, second}
  Contents <- MCContents
  NoSeed = none
  Faces = {ana}
  SetupChildren = {ana}
  AdminLiterals <- MCAdminLiterals
  VoiceTastes = {one}
  MaxSetups = 1
  MaxLoads = 2
  MaxEdits = 1
  juan = juan
  ana = ana
  bea = bea
  first = first
  second = second
  one = one
  two = two
  phone = phone
  newer = newer
SPECIFICATION Spec
INVARIANT ReloadIsHarmless
PROPERTY ImportsAreRecorded
INVARIANT RowsHaveTheirEntity
CHECK_DEADLOCK FALSE
