SPECIFICATION Spec
CONSTANTS
  p1 = p1
  p2 = p2
  p3 = p3
  home = home
  home2 = home2
  repo = repo
  repo2 = repo2
  Dead = Dead
  NoPid = NoPid
  NoFile = NoFile
  Proc = {p1, p2, p3}
  File = {home, home2, repo, repo2}
  UserLock <- MixedHomes
  RepoLock <- MixedRepos
  MaxDeaths = 2
CONSTRAINT
  Clean
INVARIANTS
  TypeOK
  ExclusiveUnlessBreached
  NoLeakedLock
PROPERTIES
  LiveLocksRespected
  ImplementsExclusion
