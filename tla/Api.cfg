CONSTANTS
  Calls = {"pay", "clash", "cancel"}
  Slots = {"pay", "again", "clash", "cancel", "cancelAgain"}
  Keys = {"k"}
  Targets <- MCTargets
  CallOf <- MCCallOf
  OpOf <- MCOpOf
  KeyOf <- MCKeyOf
  TargetOf <- MCTargetOf
  BodyOf <- MCBodyOf
  FlawOf <- MCFlawOf
  RefusalOf <- MCRefusalOf
  Data <- MCData
  Limit = 1
  MaxInFlight = 2
  MaxFaults = 1
SPECIFICATION FairSpec
INVARIANTS OncePerKey AnswersAreTrue
PROPERTY EveryCallSettles
