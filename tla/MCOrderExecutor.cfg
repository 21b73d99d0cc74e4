SPECIFICATION FairSpec
CONSTANTS
  Order = {o1, o2, o3}
  Kinds = {"memory", "rocks"}
  MaxVersion = 3
  MaxMishaps = 2
  MaxLag = 2
CHECK_DEADLOCK FALSE
INVARIANT OwnChainUnbroken
PROPERTY ExecutorRests
