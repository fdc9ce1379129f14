SPECIFICATION FairSpec
CONSTANTS
  o1 = o1  p1 = p1  q1 = q1  o2 = o2  t2 = t2
  a = a  b = b  g = g  h = h  x = x  y = y  z = z
  Res <- MCRes
  Names = {1, 2}
  NameOf <- MCNameOf
  LevelOf <- MCLevelOf
  HomesOf <- MCHomesOf
  Projects = {a, b}
  Groups = {g, h}
  MyGroups = {g}
  Sums = {x, y, z}
  Tombstone = Tombstone
  None = None
  Mine = Mine
  FirstItems <- MCFirstItems
  FirstWay <- MCFirstWay
  FirstProjects = {a}
  Releases <- MCReleases
  Regroups <- MCRegroups
  Readable = {o1, p1, q1, o2}
  MaxChanges = 2
  MaxEdits = 1
  MaxFaults = 1
INVARIANTS TypeOK LevelsDecide JournalKnows
  
