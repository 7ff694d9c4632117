SPECIFICATION Spec
CONSTANT Environments <- MCEnvironments
INVARIANTS
  NothingLeaks
  ProductionIsGuarded
  ServingIsBacked
  RefusedForCause
