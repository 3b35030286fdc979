SPECIFICATION Spec
CONSTANTS
  Main = Main
  Dexes = {xyz}
  Markets = {ctx}
  Ctx = ctx
  WorkerSubs = {ctx}
  Ticks = {t1}
  MaxPx = 1
  None = None
  Clients = {c1}
  User = webData2
  Slots = {s1}
  MaxVer = 1
INVARIANTS RelayReachable IndexClean ToldOfEveryChange
PROPERTIES FeedRecovers
