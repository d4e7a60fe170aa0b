SPECIFICATION FairSpec
CONSTANTS
  Inputs <- AllInputs
  Configs <- SomeConfigs
INVARIANTS NothingSwallowed TunnelAsAgreed
PROPERTIES NegotiationEnds AbortHeeded
