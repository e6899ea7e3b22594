SPECIFICATION MediaSpec
CONSTANTS
  Requests = {r1, r2, r3}
  DlKeys = {d1, d2}
  MCDlKeys <- MCKeysOfRequests
  maxConcurrentDownloads = 1
  NoRequest = NoRequest
  Photos = {p1, p2, p3, p4}
  ChanCap = 10
  NoPhoto = NoPhoto
  MaxTexts = 3
INVARIANTS
  MediaTypeOK
  DownloadsCounted
  SharedFileKept
  EntryKept
  LastTextStays
PROPERTIES
  EverybodyEnds
