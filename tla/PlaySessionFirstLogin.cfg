SPECIFICATION Spec
CONSTANTS
  Servers = {Lobby, Arena}
  Default = Lobby
  Missing = Nowhere
  Versions = {763, 766}
  Widgets = {}
  Windows = {}
  NoWindow = NoWindow
  Registries = {}
  Thresholds = {Uncompressed}
  Uncompressed = Uncompressed
  Conns = {c1, c2, c3}
  NoConn = NoConn
  NoLink = NoLink
  MaxClientQueue = 1
INVARIANT WorldEnteredByLogin
