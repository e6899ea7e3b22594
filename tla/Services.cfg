SPECIFICATION ServicesSpec
CONSTANTS
  Getters = {g1, g2}
  Loggers = {n1}
  Files <- MCFiles
  MCFile <- MCFileMain
  MaxConfigs = 3
  NoLogger = NoLogger
  Malformed = Malformed
  PrprHandlers = {g1, g2}
  Photos = {p1, p2}
  DiskCap = 1
  NoOne = NoOne
  Pics = {p1, p2}
  Raters = {r1}
  BotRates = {1, 2}
  UserRates = {0, 2}
  maxPicRate = 2
  MaxPresses = 2
  NoValue = NoValue
  Codes = {usd, eur, cny}
  Period = 3
  MaxHours = 9
  NoCode = NoCode
  NoTable = NoTable
  SpHandlers = {g1, g2}
  Threads = {0, 1, 2}
  ForumTopics = {1}
  Prompts = {a}
  Empty = Empty
  Default = Default
  NoPrompt = NoPrompt
SYMMETRY ServicesSymmetry
CHECK_DEADLOCK FALSE
INVARIANTS
  ServicesTypeOK
  ConfigFollowed
  EditsArrive
  FilesKept
  RatesAddUp
  CachedPromptIsRow
PROPERTIES
  RatesKept
