\* Two runs, one of them limited, while CMR publishes; under fairness.
CONSTANTS
  r1 = r1
  r2 = r2
  Granules = {"a1", "a2", "a3"}
  Product <- OneProduct
  Date <- ThreeDates
  Tie <- NoTies
  Unusable = {"a2"}
  Products <- TwoProducts
  Runs = {r1, r2}
  Limit <- OneLimited
  PageSize = 1
  MaxFaults = 1
SPECIFICATION LiveSpec
INVARIANTS
  NoHoles
PROPERTIES
  OnlySuccessOvertakes
