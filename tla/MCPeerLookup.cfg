CONSTANTS
  Clients = {c1, c2, c3, c4}
  Permits = 1
  Sockets = 3
SPECIFICATION LookupsEndSpec
INVARIANTS TypeOK PermitsUsed LooksAtOpenSocket ReportsOneProcess
PROPERTIES SocketReleased ShutdownClosesAll
CHECK_DEADLOCK FALSE
