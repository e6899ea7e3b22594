SPECIFICATION CommandsSpec
CONSTANTS
  None = None
  Handlers = {h1, h2, h3}
  Chats = {c1, c2}
  Uids = {u1, u2, u3}
  CharNames = {h1, h2, h3, n4}
  Orders = {1, 2, 3, 4, 5}
  Statuses = {normal, hurt}
  Normal = normal
  MaxRound = 3
  Parts = 2
  MaxWrites = 3
  CocHandlers = {c1, c2}
  AttrNames = {hp}
  AttrNumbers = {1, Huge}
  AttrWidth = 3
  Huge = Huge
  NoRow = NoRow
  DiceCounts = {0, 1, 2, 3}
  DiceFaces = {0, 1, 3}
  Modifiers = {5, 27, 127}
  Abilities <- MCAbilities
  RollArgs <- MCRollArgs
  MaxDice = 2
  DefaultFace = 4
  RollWidth = 8
  NoArg = NoArg
  Talkers = {u1, u2, u3, n4}
  Counts = {0, 1, 2}
  RankSize = 3
  Segments = 4
  Nobody = Nobody
  Unknown = Unknown
  Pieces <- MCPieces
  Contents <- MCContents
  MaxText = 2
  MaxDepth = 4
  CaptionRoom = 16
  HeadLengths = {2, 3, 4, 6}
  DescriptionLengths = {0, 1, 3, 5, 12}
  PrefixLength = 3
  SuffixLength = 2
  CalcTokens = {"n", "+", "*", "^", "C", "!", "%", "(", ")", "|"}
  MaxTokens = 5
  CalcWidth = 4
  maxResultBits = 8
  MaxNum = 14
  MaxDen = 3
  Times = {7, 8, 10, 11, 12}
  Timezones <- MCTimezones
  DefaultZone = 2
  daySeconds = 4
  tenMinutes = 2
  NotLoaded = NotLoaded
SYMMETRY CommandsSymmetry
CHECK_DEADLOCK FALSE
INVARIANTS
  CommandsTypeOK
  MapsAgree
  BackupKept
  AttrsAddUp
  MessageFits
  DiceFollowRules
  ReportIsTrue
  CaptionCloses
  CalculatesRight
  SegmentsAreLocal
PROPERTIES
  TurnOrder
