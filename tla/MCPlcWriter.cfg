SPECIFICATION PlcSpec
CONSTANTS
  Processes = {p, q, r}
  Threads = {a, b}
  Callers = {p, q, r, a, b}
  Supervised = {p}
  Files = {f, g, h}
  None = None
  Settings = {"windows", "overlap"}
  Clients = {x, y}
  Targets = {t, u}
  Default = t
  NoClient = NoClient
  MaxFault = 2
  MaxCoil = 3
  MaxChange = 1
INVARIANTS NeverJoined OneSession
PROPERTIES WidthFollows RequestsAnswered

