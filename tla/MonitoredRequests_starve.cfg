SPECIFICATION FairSpec
CONSTANTS
  s1 = s1
  s2 = s2
  m1 = m1
  Show = {s1, s2}
  Movie = {m1}
  Seasons = 2
  Batch = 2
  ActiveLimit = 1
  Cooldown = 2
  Allow = {}
PROPERTY MissingSearched
CHECK_DEADLOCK FALSE
