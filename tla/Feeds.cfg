SPECIFICATION FairSpec
CONSTANTS
  NoPhase = NoPhase
  Page <- Pages
  IpSources <- OneList
  TorExits = "exits"
  DomainUrl = {"hosts", "phish"}
  ConfFiles <- TwoConfs
  Bundle <- Release
  ExitNodes <- Exits
  FirstFiles <- Files
  Own <- ByHand
  Setup <- Meetings
  Instance = {"first", "second"}
  First = "first"
  None = None
INVARIANTS
  OwnEntriesStay
  RulesSurviveDownloads
PROPERTIES
  SavedListIsWhole
  TorNodesReturn
CHECK_DEADLOCK FALSE
