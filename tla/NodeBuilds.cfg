SPECIFICATION Spec
CONSTANTS
  p1 = p1
  p2 = p2
  n1 = n1
  n2 = n2
  Pods = {p1, p2}
  Starts = {{p1, p2}}
  Nodes = {n1, n2}
  Pids = {1, 2, 3}
  NodeOf <- MCNodeOf
  KeyOf <- MCKeyOf
  DigestOf <- MCDigestOf
  PodOf <- MCPodOf
  VersionOf <- MCVersionOf
  PortsOf <- MCPortsOf
  CPUsOf <- MCCPUsOf
  NoDigest = NoDigest
  Budget <- MCNoBudget
  MaxPasses = 4
  MaxFlushes = 3
  Self = n1
  Keys = {1, 2}
  TopN = 1
  Refresh = 2
  Floor = 2
  MaxTime = 0
CHECK_DEADLOCK FALSE
INVARIANT BuildWrittenOnce
