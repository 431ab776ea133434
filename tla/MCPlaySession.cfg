SPECIFICATION Spec
CONSTANTS
  Servers = {Lobby, Arena}
  Default = Lobby
  Missing = Nowhere
  Versions = {763, 766}
  Widgets = {BossBar}
  Windows = {300}
  NoWindow = NoWindow
  Registries = {}
  Thresholds = {Uncompressed, Compressed}
  Uncompressed = Uncompressed
  Conns = {c1, c2, c3}
  NoConn = NoConn
  NoLink = NoLink
  MaxClientQueue = 2
SYMMETRY ConnSymmetry
INVARIANTS
  TypeOK
  NoResidue
  LoginAtMostOnce
  FramingAgrees
  CurrentServerIsAttached
  TrackedWindowIsShown
  IInv
PROPERTY ImplementsPromise
