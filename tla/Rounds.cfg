CONSTANTS N = 3
          kFullBandwidth = 1000000
          kMinSetBandwidth = 5000
          min_bw = 4
          Inputs <- AllInputs
SPECIFICATION Spec
INVARIANTS ResultsReadBack LimitsFollowPlan PartsMeet
CHECK_DEADLOCK FALSE
