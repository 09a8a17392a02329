CONSTANTS
  Idents <- IdentsVal
  Ident <- IdentVal
  Hosts = {"h1", "h2"}
  Masks = {1,2}
  Match <- MatchVal
  Handles = {1}
  Keys = {}
  Banned = {}
  MaxFds = 3
  MaxOps = 2
  MaxCrashes = 1
  Servers = {s1, s2}
  s1 = s1
  s2 = s2
  Nicks = {"n1", "n2", "bot"}
  Bot = "bot"
  Chans = {"c1", "c2"}
  MaxChans = 1
  Delay = 0
  MaxEntries = 2
  MaxEvents = 4
SYMMETRY Symmetry
SPECIFICATION CacheSpec
INVARIANTS CacheInv LostWhenAway
PROPERTY InSightKept
CHECK_DEADLOCK FALSE
