SPECIFICATION FlowSpec
CONSTANTS
  Tabs = {t1, t2}
  HtmlTabs = {t2}
  Users = {u1, u2}
  Clients = {web, app}
  Public = {app}
  RequireConsent = {web}
  RedirectUris <- MCUris
  AllowedScopes <- MCScopes
  ResponseTypes <- MCTypes
  Queries <- MCQueries
  Sessions = {s1, s2}
  Codes = {c1, c2}
  None = None
  LoginForms <- MCForms
  Bearers <- MCBearers
  BearerUser <- MCBearerUser
  b1 = b1
  b2 = b2
  t1 = t1
  t2 = t2
  u1 = u1
  u2 = u2
  MaxChanges = 1
  web = web
  app = app
  webUri = webUri
  appUri = appUri
  read = read
  write = write
  unknown = unknown
CHECK_DEADLOCK FALSE
INVARIANTS
  CodesAreAuthorised
  CodesMatchRegistration
  LateRequestsAreRefused
PROPERTIES
  JourneysSucceed
