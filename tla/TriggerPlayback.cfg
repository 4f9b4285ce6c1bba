SPECIFICATION EitherSpec
CONSTANTS
  m1 = m1
  m2 = m2
  m3 = m3
  u1 = u1
  u2 = u2
  c1 = c1
  a1 = a1
  a2 = a2
  a3 = a3
  g1 = g1
  g2 = g2
  ph = ph
  bad = bad
  f1 = f1
  Messages = {m1, m2, m3}
  Scripts <- MCScripts
  Authors = {u1, u2}
  Channels = {c1}
  Triggers = {t1}
  None = None
  Slots = 1
  Window = 2
  Interval = 2
  Stall = 1
  Hours = {3}
  MaxVersion = 1
  MaxTime = 3
  Calls = {a1, a2, a3}
  Asked <- MCAsked
  Table <- MCTable
  Compiles <- MCCompiles
  Ids = {1, 2, 3, 4}
  Users = {u1, u2}
  Moderators = {u2}
  Guilds = {g1, g2}
  Phrases = {ph, bad}
  Files = {f1}
  Instants = {1, 2}
  Limit = 1
  Nil = Nil
  Empty = Empty
  Definitions <- MCDefinitions
  Folded <- MCFolded
  Sorted <- MCSorted
  Described = {"trigger", "reminder"}
  MaxOptions = 8
  Requests <- MCRequests
  MaxChunks = 3
  MaxDeletes = 2
INVARIANTS
  ForcedSpacing
  UndoTakesItsOwn
  ResponseIsFresh
  StoredTogether
  
  AnswersAreInScope
  PrivateStaysPrivate
  AnswersAreWholeAndTrue
PROPERTIES
  NamesResolveAlike
CHECK_DEADLOCK FALSE
