SPECIFICATION Spec
CONSTANTS
  Cameras <- MCCameras
  Watched <- MCWatched
  Chainage <- MCChainage
  Rank <- MCRank
  Rois <- MCRois
  Pictures <- MCPictures
  Memories <- MCMemories
  RouteOrder <- MCRouteOrder
  Travels <- MCTravels
  SitePlace <- MCSitePlace
  Limit <- MCLimit
  Flows <- MCFlows
  Situations <- MCSituations
  Gantries = {"g0", "g1", "g2"}
  Mile <- MCMile
  Advisories <- MCAdvisories
  Weathers <- MCWeathers
  FreeSpeeds = {110, 90}
  Corrections <- MCCorrections
  Lanes = 2
  RoiMetres = 100
  Jam = 133
  Critical = 4500
  QCap = 2000
  FreeFlow = 110
  Corridor = 9000
  DropPercent = 50
  SeverePercent = 35
  StoppedConfidence = 85
  MinDrop = 200
  Horizons = {1, 3, 5, 10}
  AdviceHorizons = {1, 3, 5}
  MinUpstream = 1000
  ErrorFloor = 150
  Window = 2000
  Alpha = 40
  NormalSpeed = 77
  MostLanes = 6
  MaxTicks = 1
  Black = Black
  Failed = Failed
  None = None
INVARIANT
  NoTickLost
CHECK_DEADLOCK FALSE
