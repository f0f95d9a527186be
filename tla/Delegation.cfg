SPECIFICATION Spec
CONSTANTS
  d1 = d1
  d2 = d2
  get = get
  post = post
  top = top
  sub = sub
  Top = Top
  hTop = hTop
  hSub = hSub
  c1 = c1
  c2 = c2
  n1 = n1
  n2 = n2
  u1 = u1
  None = None
  Domains = {d1, d2}
  Methods = {get, post}
  Hosts = {hTop, hSub}
  Entries = {top, sub, Top}
  Lower <- LowerCase
  Above <- Enclosing
  Reach <- Reached
  Categories = {c1, c2}
  Actions = {n1, n2}
  Tools = {"gmail.send", "http.request"}
  Asks <- AllAsks
  Contexts <- Calls
  Lineages <- Stated
  Delegators = {u1}
  MaxLife = 2
  Tolerance = 1
  MaxDepth = 2
  MaxGrants = 1
  MaxTokens = 4
  MaxTime = 3
INVARIANTS
  TypeOK
  NeverWidens
  ApprovalInherited
  DepthCountsDelegations
  LifetimeBound
  ChainComplete
CHECK_DEADLOCK FALSE
