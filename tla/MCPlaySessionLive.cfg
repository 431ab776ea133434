SPECIFICATION FairSpec
CONSTANTS
  Servers = {Lobby, Arena}
  Default = Nowhere
  Missing = Nowhere
  Versions = {763, 765}
  Widgets = {}
  Windows = {}
  NoWindow = NoWindow
  Registries = {Biomes}
  Thresholds = {Uncompressed}
  Uncompressed = Uncompressed
  Conns = {c1, c2, c3}
  NoConn = NoConn
  NoLink = NoLink
  MaxClientQueue = 1
PROPERTIES
  LossNoticed
  TransferEnds
  ShutdownEnds
