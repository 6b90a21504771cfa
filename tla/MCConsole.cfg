CONSTANTS
  Titles = {g1, g2}
  NoTitle = NoTitle
  RetryLimit = 2
  MaxFaults = 3
  Installers = {t1, t2}
  NoHeap = NoHeap
  MaxBoots = 3
  Notes = {n1, n2}
  NoNote = NoNote
  FullNote = FullNote
  MAX_QUEUE = 2
  MAX_MESSAGES = 4
  Apps = {1, 2}
  Fpkgs = {2}
  Early = {1}
SPECIFICATION Spec
INVARIANTS
  PartsTypeOK
  QueryHandleLives
  SettingsKept
  ServiceKept
  InstallsDaemon
  MinutesOfPage
  ListUsable
  DiscMarked
  PackageKept
PROPERTIES
  GameCounted
  DumpsAsked
  SuspendsAsked
  DumpGoesOn
  StartRepairs
  InstallsEnd
  DaemonRenewed
  LoaderEnds
  NotesShown
  MinutesCorrected
  DiscFound
  ButtonWakes
