SPECIFICATION Spec
CONSTANTS
  Ports <- MCPorts
  Builds <- MCBuilds
  ServesOn <- MCServesOn
  Domains <- MCDomains
  Allowed <- MCAllowed
  RawProfiles <- MCRawProfiles
  MaxFrames = 2
  Readers = {"probe", "pull", "count"}
  MaxPerRound <- MCMaxPerRound
  RoundTime = 2
  ThirdParty = "drop"
  FailedFor = 2
  RefusedFor = 3
  MaxChanges = 2
  Health = {"serving", "slow", "busy", "down", "gone", "optedout"}
INVARIANTS AskedOnce NamesStayHome
PROPERTY TailIsSeen
CHECK_DEADLOCK FALSE
