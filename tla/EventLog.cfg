CONSTANTS
  Ids <- MCIds
  Keys <- MCKeys
  Events <- MCEvents
  EventOf <- MCEventOf
  LongEvents = {"long"}
  MaxAppends = 4
SPECIFICATION LogSpec
INVARIANTS EarlierEventsSurvive StateIsReplayed NoSilentLoss
