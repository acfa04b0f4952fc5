CONSTANTS
  Users = {"ann", "bob", "old"}
  Processes = {"p", "q"}
  Requests = {"a", "b", "d", "e", "f"}
  Names = {"l", "m", "n"}
  UserOf <- MCUserOf
  ProcOf <- MCProcOf
  NameOf <- MCNameOf
  Earlier <- MCEarlier
  None = "none"
  MaxFaults = 2
SPECIFICATION FairSpec
INVARIANTS TablesAreTheirOwn RefusalIsFinal
PROPERTIES EveryRequestAnswered
