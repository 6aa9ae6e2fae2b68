\* Two requests while a key is published and another retired, and the gateway may
\* die; deployments in which every variable is varied.
CONSTANTS
  old = old
  new = new
  Requests = {i1, i2}
  Deployments <- SomeDeployments
  Tokens <- SomeTokens
  NoToken = NoToken
  Keys = {old, new}
  FirstKeys = {old}
  Routes = {"runs", "deep_health", "trigger", "requeue"}
  JwksTtl = 1
  AdminTimeout = 1
  MaxTime = 3
  MaxCrashes = 1
SPECIFICATION Spec
SYMMETRY Symmetry
INVARIANTS
  RetiredKeysFade
  CurrentKeysAreKnown
  AnswersAreTrue
  TriggerIsAuthorised
  ServicesMeet
  ReadyMeansWired
CHECK_DEADLOCK FALSE
