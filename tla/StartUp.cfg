SPECIFICATION BootSpec
CONSTANTS
  Admins = {a1, a2}
  Ids <- MCIds
  SeedIds <- MCSeedIds
  Asks <- MCAsks
  Names <- MCNames
  Notes <- MCNotes
  Limits <- MCLimits
  MaxRequests = 2
  MaxLogs = 2
  Parts <- MCParts
  ClientForm <- MCForm
  PageCap = 2
  Page = 1
  LogCap = 2
  Word = 16
  Unused = Unused
  Gone = Gone
  Null = Null
  Blank = Blank
  Migrations <- MCMigrations
  SeedUser = admin
  AdminRole = admin
  SeedRoles <- MCSeedRoles
  SeedPermissions <- MCSeedPermissions
  SeedClients <- MCSeedClients
  SeedScopes <- MCSeedScopes
  Values <- MCValues
  SeedLists <- MCSeedLists
  MaxEnds = 2
  u1 = u1
  u2 = u2
  u3 = u3
  r1 = r1
  r2 = r2
  r3 = r3
  r4 = r4
  r5 = r5
  p1 = p1
  p2 = p2
  p3 = p3
  p4 = p4
  p5 = p5
  c1 = c1
  c2 = c2
  c3 = c3
  admin = admin
  jane = jane
  super = super
  viewer = viewer
  boss = boss
  listing = listing
  consent = consent
  creating = creating
  portal = portal
  test = test
  uri = uri
  scope = scope
  email = email
CHECK_DEADLOCK FALSE
INVARIANTS
  NothingIsHalfThere
  CountedPagesHaveRows
PROPERTIES
  StartsOnlyAdd
  StartsUnlessConflicted
