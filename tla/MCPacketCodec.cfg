SPECIFICATION CodecSpec
CONSTANTS
  Versions <- MCVersions
  PacketIds <- MCPacketIds
  Numbers <- MCNumbers
  Names <- MCNames
  Uuids <- MCUuids
  Thresholds <- MCThresholds
  Trees <- MCTrees
  CustomServers <- MCCustomServers
  Word <- MCWord
INVARIANTS
  OneRole
  OwnPacketsDistinct
  FramesDelivered
  RoundTrip
  CutNeverForged
  RespawnMatchesLogin
  InjectionSound
