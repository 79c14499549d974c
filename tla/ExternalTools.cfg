SPECIFICATION ExternalSpec
CONSTANTS
  t1 = t1
  t2 = t2
  drive = drive
  files = files
  v1 = v1
  v2 = v2
  x0 = x0
  x1 = x1
  x2 = x2
  p1 = p1
  p2 = p2
  c1 = c1
  c2 = c2
  c3 = c3
  None = None
  Tools <- MCTools
  Servers <- MCServers
  ServerOf <- MCServerOf
  Versions <- MCVersions
  Texts <- MCTexts
  TextOf <- MCTextOf
  Pages <- MCPages
  Calls <- MCCalls
  Browsing <- MCBrowsing
  Sessions = {here}
  SearchLimit = 1
  MaxStarts = 2
  MaxChanges = 1
  SignIns = {gmail}
  MaxIssued = 3
  MaxExpiries = 2
SYMMETRY MCSymmetry
INVARIANTS
  OnlyApprovedRun
  PinsWereShown
  ApprovalsSurvive
  SearchTellsTruth
  ConnectionLasts
  SendsAreAllowed
  BrowserIsAccountedFor
CHECK_DEADLOCK FALSE
