\* Three requests of two clients for three routes, at two replicas, one of which
\* may die; environments that ask for Redis, for memory, and for more.
CONSTANTS
  p1 = p1
  p2 = p2
  Requests = {i1, i2, i3}
  Replicas = {p1, p2}
  Environments <- Deployments
  Clients = {c1, c2}
  Routes = {"redirect", "manifest", "health"}
  Allowed <- One
  Window = 2
  PublicTimeout = 1
  HealthTimeout = 1
  MaxTime = 2
  MaxCrashes = 1
SPECIFICATION Spec
SYMMETRY Symmetry
INVARIANTS
  LimitHolds
  RefusalsAreDue
CHECK_DEADLOCK FALSE
