SPECIFICATION FairSpec
CONSTANTS
  p1 = p1
  p2 = p2
  p3 = p3
  home = home
  home2 = home2
  repo = repo
  repo2 = repo2
  Dead = Dead
  NoPid = NoPid
  NoFile = NoFile
  Proc = {p1, p2}
  File = {home, repo}
  UserLock <- SharedHome
  RepoLock <- SharedRepo
  MaxDeaths = 1
PROPERTIES
  DeadLockReclaimed
  DreamsKeepRunning
