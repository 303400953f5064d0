SPECIFICATION Spec
CONSTANTS
  Null = Null
  Empty = empty
  Dashboard = dashboard
  sessionInfo = sessionInfo
  deviceInfo = deviceInfo
  admin = admin
  other = other
  Page <- Pages
  Account <- Accounts
  Admin <- admin
INVARIANTS
  ConsoleTypeOK
  TabsAgree
  OneTabPerPage
  ScrolledToATab
PROPERTIES
  PagesKeepRows
