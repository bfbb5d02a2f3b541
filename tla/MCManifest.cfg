SPECIFICATION ManifestSpec
CONSTANTS
  p = p  q = q
  i1 = i1  i2 = i2  i3 = i3
  Clients = {p, q}
  Ids = {i1, i2, i3}
  MaxMishaps = 2
INVARIANTS
  OnlyValidated
  LostOnlyByRace
  RecalledIsCommitted
