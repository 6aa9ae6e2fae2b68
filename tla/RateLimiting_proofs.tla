------------------------- MODULE RateLimiting_proofs -------------------------
(***************************************************************************)
(* Rate limits hold, for every number of requests, replicas and clients,   *)
(* every allowance and every window.                                       *)
(***************************************************************************)
EXTENDS RateLimiting, FiniteSetTheorems, TLAPS

Windows == [started : Nat, count : Nat]

RequestState ==
  [pc : {"new", "limit", "routed", "answered"}, route : Routes \cup {"none"},
   replica : Replicas \cup {"none"}, client : Clients \cup {"none"}, deadline : Nat,
   counted : [key : LimitKeys \cup {<<>>}, at : Nat, passed : BOOLEAN], status : Nat]

-----------------------------------------------------------------------------
(* One key: its window, and the requests that passed                       *)

\* Those of the requests that were counted from a on and before b.
Between(requests, at, a, b) == {j \in requests : a <= at[j] /\ at[j] < b}

\* What a window [started, count] says of the requests that were let through at
\* their times: none came after it, and no more than allowed in it, or in the
\* time before it that can be in one minute with it.
Fits(requests, at, window, allowed) ==
  /\ window.started <= now
  /\ window.count = 0 => requests = {}
  /\ \A j \in requests : at[j] < window.started + Window
  /\ LET current == Between(requests, at, window.started, window.started + Window)
         before == Between(requests, at, window.started - Window + 1, window.started)
     IN  /\ Cardinality(current) <= window.count /\ Cardinality(current) <= allowed
         /\ Cardinality(before) <= allowed
  /\ \A t \in Nat : Cardinality(Between(requests, at, t, t + Window)) <= allowed + allowed

\* The times count only of the requests that passed.
LEMMA FitsSame ==
  ASSUME NEW requests, NEW at, NEW other, NEW window, NEW allowed,
         \A j \in requests : at[j] = other[j], Fits(requests, at, window, allowed)
  PROVE  Fits(requests, other, window, allowed)
<1>1. \A a, b : Between(requests, at, a, b) = Between(requests, other, a, b)
  BY DEF Between
<1> QED BY <1>1 DEF Fits

\* Counting a request makes room for it: the window that it falls into, the one
\* there was or a new one, has one more than those that passed in it.
LEMMA Counts ==
  ASSUME NEW requests, IsFiniteSet(requests), NEW at \in [requests -> Nat],
         NEW window \in Windows, NEW allowed \in Nat,
         now \in Nat, Fits(requests, at, window, allowed)
  PROVE  LET w == Count(window) IN
         /\ w \in Windows /\ w.count >= 1 /\ w.started <= now /\ now < w.started + Window
         /\ \A j \in requests : at[j] < w.started + Window
         /\ Cardinality(Between(requests, at, w.started, w.started + Window)) <= w.count - 1
         /\ Cardinality(Between(requests, at, w.started, w.started + Window)) <= allowed
         /\ Cardinality(Between(requests, at, w.started - Window + 1, w.started)) <= allowed
<1> DEFINE w == Count(window)
           c == Between(requests, at, w.started, w.started + Window)
           b == Between(requests, at, w.started - Window + 1, w.started)
           old == Between(requests, at, window.started, window.started + Window)
<1>1. Window \in Nat /\ Window >= 1
  BY LimitAssumption
<1>2. /\ window.started \in Nat /\ window.count \in Nat /\ window.started <= now
      /\ \A j \in requests : at[j] \in Nat /\ at[j] < window.started + Window
      /\ window.count = 0 => requests = {}
  BY DEF Windows, Fits
<1>3. IsFiniteSet(old) /\ old \subseteq requests
  BY FS_Subset DEF Between
<1>4. CASE window.count = 0 \/ now - window.started >= Window
  <2>1. w = [started |-> now, count |-> 1]
    BY <1>4 DEF Count
  <2>2. c = {}
    BY <1>1, <1>2, <1>4, <2>1 DEF Between
  <2>3. b \subseteq old
    BY <1>1, <1>2, <1>4, <2>1 DEF Between
  <2>4. Cardinality(c) = 0 /\ Cardinality(b) <= Cardinality(old) /\ Cardinality(old) \in Nat
        /\ Cardinality(b) \in Nat
    BY <1>3, <2>2, <2>3, FS_EmptySet, FS_Subset, FS_CardinalityType
  <2>5. Cardinality(old) <= allowed
    BY DEF Fits
  <2>6. \A j \in requests : at[j] < w.started + Window
    BY <1>1, <1>2, <1>4, <2>1
  <2> HIDE DEF c, b, old
  <2>7. Cardinality(c) <= w.count - 1 /\ Cardinality(c) <= allowed /\ Cardinality(b) <= allowed
    BY <2>1, <2>4, <2>5
  <2>8. w \in Windows /\ w.count >= 1 /\ w.started <= now /\ now < w.started + Window
    BY <1>1, <2>1 DEF Windows
  <2> QED BY <2>6, <2>7, <2>8 DEF c, b
<1>5. CASE window.count # 0 /\ now - window.started < Window
  <2>1. w = [started |-> window.started, count |-> window.count + 1]
    BY <1>1, <1>2, <1>5 DEF Count
  <2>2. w.started = window.started /\ w.count = window.count + 1
    BY <2>1
  <2>3. w \in Windows /\ w.count >= 1 /\ w.started <= now /\ now < w.started + Window
    BY <1>1, <1>2, <1>5, <2>1 DEF Windows
  <2>4. Cardinality(c) <= window.count /\ Cardinality(c) <= allowed /\ Cardinality(b) <= allowed
    BY <2>2 DEF Fits
  <2> HIDE DEF c, b
  <2>5. Cardinality(c) <= w.count - 1
    BY <1>2, <2>2, <2>4
  <2> QED BY <1>2, <2>2, <2>3, <2>4, <2>5 DEF c, b
<1>6. (now - window.started >= Window) \/ (now - window.started < Window)
  BY <1>1, <1>2
<1> HIDE DEF w
<1> QED BY <1>4, <1>5, <1>6 DEF w

\* A request that is counted and refused changes the window alone.
LEMMA Refuses ==
  ASSUME NEW requests, IsFiniteSet(requests), NEW at \in [requests -> Nat],
         NEW window \in Windows, NEW allowed \in Nat,
         now \in Nat, Fits(requests, at, window, allowed)
  PROVE  Fits(requests, at, Count(window), allowed)
<1> DEFINE w == Count(window)
           c == Between(requests, at, w.started, w.started + Window)
           b == Between(requests, at, w.started - Window + 1, w.started)
<1>1. /\ w \in Windows /\ w.count >= 1 /\ w.started <= now
      /\ \A j \in requests : at[j] < w.started + Window
      /\ Cardinality(c) <= w.count - 1 /\ Cardinality(c) <= allowed /\ Cardinality(b) <= allowed
  BY Counts
<1>2. IsFiniteSet(c) /\ Cardinality(c) \in Nat
  BY FS_Subset, FS_CardinalityType DEF Between
<1>3. Cardinality(c) <= w.count /\ w.count # 0
  <2> HIDE DEF c, w
  <2> QED BY <1>1, <1>2 DEF Windows
<1>4. \A t \in Nat : Cardinality(Between(requests, at, t, t + Window)) <= allowed + allowed
  BY DEF Fits
<1> HIDE DEF w
<1>5. Fits(requests, at, w, allowed)
  BY <1>1, <1>3, <1>4 DEF Fits
<1> QED BY <1>5 DEF w

\* A request that the window has room for is let through: any minute with it in
\* has part of its window, and part of the minute before.
LEMMA Passes ==
  ASSUME NEW requests, IsFiniteSet(requests), NEW at \in [requests -> Nat],
         NEW window \in Windows, NEW allowed \in Nat,
         now \in Nat, Fits(requests, at, window, allowed),
         NEW i, i \notin requests, NEW times \in [requests \cup {i} -> Nat],
         \A j \in requests : times[j] = at[j], times[i] = now,
         Count(window).count <= allowed
  PROVE  Fits(requests \cup {i}, times, Count(window), allowed)
<1> DEFINE w == Count(window)
           all == requests \cup {i}
           c == Between(requests, at, w.started, w.started + Window)
           b == Between(requests, at, w.started - Window + 1, w.started)
           current == Between(all, times, w.started, w.started + Window)
           before == Between(all, times, w.started - Window + 1, w.started)
<1>1. /\ w \in Windows /\ w.count >= 1 /\ w.started <= now /\ now < w.started + Window
      /\ \A j \in requests : at[j] < w.started + Window
      /\ Cardinality(c) <= w.count - 1 /\ Cardinality(c) <= allowed /\ Cardinality(b) <= allowed
  BY Counts
<1>2. w.started \in Nat /\ w.count \in Nat /\ w.count <= allowed /\ Window \in Nat /\ Window >= 1
  BY <1>1, LimitAssumption DEF Windows
<1> HIDE DEF w
<1>3. IsFiniteSet(c) /\ IsFiniteSet(b) /\ Cardinality(c) \in Nat /\ Cardinality(b) \in Nat
  BY FS_Subset, FS_CardinalityType DEF Between
<1>4. current = c \cup {i}
  BY <1>1, <1>2 DEF Between
<1>5. before = b
  BY <1>1, <1>2 DEF Between
<1>6. i \notin c
  BY DEF Between
<1>7. IsFiniteSet(current) /\ Cardinality(current) = Cardinality(c) + 1
  <2> HIDE DEF c, current
  <2> QED BY <1>3, <1>4, <1>6, FS_AddElement
<1>8. \A j \in all : times[j] \in Nat /\ times[j] < w.started + Window
  BY <1>1, <1>2
<1>9. ASSUME NEW t \in Nat
      PROVE  Cardinality(Between(all, times, t, t + Window)) <= allowed + allowed
  <2> DEFINE s == Between(all, times, t, t + Window)
  <2>1. CASE t <= now /\ now < t + Window
    <3>1. s \subseteq current \cup before
      BY <1>1, <1>2, <1>8, <2>1 DEF Between
    <3>2. IsFiniteSet(current) /\ IsFiniteSet(before) /\ Cardinality(current) = Cardinality(c) + 1
      BY <1>3, <1>5, <1>7
    <3> HIDE DEF s, current, before, c, b
    <3>3. /\ IsFiniteSet(current \cup before)
          /\ Cardinality(current \cup before) =
               Cardinality(current) + Cardinality(before) - Cardinality(current \cap before)
      BY <3>2, FS_Union
    <3>4. IsFiniteSet(current \cap before) /\ current \cap before \subseteq current
      BY <3>2, FS_Subset
    <3>5. Cardinality(current \cap before) \in Nat
      BY <3>4, FS_CardinalityType
    <3>6. IsFiniteSet(s) /\ Cardinality(s) <= Cardinality(current \cup before)
      BY <3>1, <3>3, FS_Subset
    <3>7. Cardinality(s) \in Nat /\ Cardinality(current \cup before) \in Nat
      BY <3>3, <3>6, FS_CardinalityType
    <3>8. Cardinality(s) <= allowed + allowed
      BY <1>1, <1>2, <1>3, <1>5, <3>2, <3>3, <3>5, <3>6, <3>7
    <3> QED BY <3>8 DEF s
  <2>2. CASE ~(t <= now /\ now < t + Window)
    <3>1. s = Between(requests, at, t, t + Window)
      BY <2>2 DEF Between
    <3> QED BY <3>1 DEF Fits
  <2> QED BY <2>1, <2>2
<1>10. Cardinality(current) <= w.count /\ Cardinality(before) <= allowed
  <2> HIDE DEF current, c, before, b
  <2> QED BY <1>1, <1>2, <1>3, <1>5, <1>7
<1>11. Cardinality(current) <= allowed
  <2> HIDE DEF current, c
  <2> QED BY <1>2, <1>3, <1>10, <1>7
<1>12. Fits(all, times, w, allowed)
  <2>1. w.count # 0
    BY <1>1, <1>2
  <2> QED BY <1>1, <1>8, <1>9, <1>10, <1>11, <2>1 DEF Fits
<1> QED BY <1>12 DEF w

-----------------------------------------------------------------------------
(* The inductive invariant *)

Stores == Replicas \cup {"redis"}

\* The requests that were let through under a key by a store, and when.
Passed(store, key) ==
  {i \in Requests : /\ req[i].counted.passed /\ req[i].counted.key = key
                    /\ StoreOf(req[i].replica) = store}
At == [i \in Requests |-> req[i].counted.at]

\* No count is lost: they are in Redis, or no replica has died.
Kept == gateway.backend = "redis" \/ crashes = 0

GatewayOK ==
  /\ RequiresMore(gateway.runtime_environment) => gateway.backend = "redis"
  /\ now \in Nat /\ crashes \in Nat
  /\ counters \in [Stores -> [LimitKeys -> Windows]]

\* A request is counted once, when it leaves "limit".
RequestOK(r) ==
  /\ r \in RequestState
  /\ r.pc = "limit" => r.route \in Routes /\ r.replica \in Replicas /\ r.client \in Clients
  /\ r.pc \in {"new", "limit"} => ~r.counted.passed
  /\ r.counted.passed => r.counted.key \in LimitKeys /\ r.replica \in Replicas

IInv ==
  /\ GatewayOK
  /\ req = [i \in Requests |-> req[i]]
  /\ \A i \in Requests : RequestOK(req[i])
  /\ Kept => \A s \in Stores, k \in LimitKeys : Fits(Passed(s, k), At, counters[s][k], Allowed[k[1]])

\* What a step leaves of a request: it is counted no more, and where it was let
\* through stays.
Same(r, x) ==
  /\ x.counted.passed = r.counted.passed
  /\ r.counted.passed => x.counted = r.counted /\ x.replica = r.replica

\* Steps that count nothing, whatever else they do to the requests.
LEMMA Uncounted ==
  ASSUME IInv, UNCHANGED gateway, UNCHANGED crashes,
         now' \in Nat, now <= now',
         UNCHANGED counters,
         NEW f \in [Requests -> RequestState], req' = f,
         \A i \in Requests : RequestOK(f[i]) /\ Same(req[i], f[i])
  PROVE  IInv'
<1>1. GatewayOK'
  BY DEF IInv, GatewayOK
<1>2. /\ req' = [i \in Requests |-> req'[i]]
      /\ \A i \in Requests : req'[i] = f[i]
  OBVIOUS
<1>3. \A i \in Requests : RequestOK(req[i])'
  BY <1>2 DEF RequestOK
<1>4. ASSUME Kept', NEW s \in Stores, NEW k \in LimitKeys
      PROVE  Fits(Passed(s, k), At, counters[s][k], Allowed[k[1]])'
  <2> DEFINE P == Passed(s, k)
  <2>1. Kept
    BY <1>4 DEF Kept
  <2>2. Passed(s, k)' = P
    BY <1>2 DEF Passed, StoreOf, Same
  <2>3. \A j \in P : At'[j] = At[j]
    BY <1>2 DEF Passed, At, Same
  <2>4. Fits(P, At, counters[s][k], Allowed[k[1]])
    BY <2>1 DEF IInv
  <2> DEFINE w == counters[s][k]
             n == Allowed[k[1]]
             times == At'
  <2>5. w \in Windows
    BY DEF IInv, GatewayOK
  <2> HIDE DEF P, w
  <2>6. Fits(P, times, w, n)
    BY <2>3, <2>4, FitsSame DEF w
  <2> QED BY <2>2, <2>5, <2>6 DEF IInv, GatewayOK, Fits, Windows, w
<1> QED BY <1>1, <1>2, <1>3, <1>4 DEF IInv

\* The same for a step of one request.
LEMMA Replaced ==
  ASSUME IInv, NEW i \in Requests, NEW x, RequestOK(x), Same(req[i], x),
         req' = [req EXCEPT ![i] = x], UNCHANGED <<gateway, now, counters, crashes>>
  PROVE  IInv'
<1> DEFINE f == [j \in Requests |-> IF j = i THEN x ELSE req[j]]
<1>1. \A j \in Requests : RequestOK(req[j]) /\ req[j] \in RequestState
  BY DEF IInv, RequestOK
<1>2. x \in RequestState
  BY DEF RequestOK
<1>3. req = [j \in Requests |-> req[j]]
  BY DEF IInv
<1>4. req' = f /\ f \in [Requests -> RequestState]
  BY <1>1, <1>2, <1>3
<1>5. \A j \in Requests : RequestOK(f[j]) /\ Same(req[j], f[j])
  BY <1>1 DEF Same
<1>6. now' \in Nat /\ now <= now'
  BY DEF IInv, GatewayOK
<1> HIDE DEF f
<1> QED BY <1>4, <1>5, <1>6, Uncounted

\* A request that is counted, and let through only where there is room.
LEMMA Counted ==
  ASSUME IInv, NEW i \in Requests, NEW x, RequestOK(x),
         NEW s \in Stores, NEW k \in LimitKeys, req[i].pc = "limit", s = StoreOf(req[i].replica),
         x.counted.passed =>
           /\ x.counted.key = k /\ x.counted.at = now /\ x.replica = req[i].replica
           /\ Count(counters[s][k]).count <= Allowed[k[1]],
         counters' = [counters EXCEPT ![s] = [counters[s] EXCEPT ![k] = Count(counters[s][k])]],
         req' = [req EXCEPT ![i] = x], UNCHANGED <<gateway, now, crashes>>
  PROVE  IInv'
<1> DEFINE w == counters[s][k]
           n == Allowed[k[1]]
           P == Passed(s, k)
<1>1. /\ \A j \in Requests : RequestOK(req[j]) /\ req[j] \in RequestState
      /\ req = [j \in Requests |-> req[j]] /\ x \in RequestState
      /\ now \in Nat /\ w \in Windows /\ ~req[i].counted.passed
      /\ counters \in [Stores -> [LimitKeys -> Windows]]
  BY DEF IInv, GatewayOK, RequestOK
<1>2. /\ req' = [j \in Requests |-> IF j = i THEN x ELSE req[j]]
      /\ req' = [j \in Requests |-> req'[j]]
      /\ \A j \in Requests : req'[j] = IF j = i THEN x ELSE req[j]
  BY <1>1
<1>3. n \in Nat
  BY LimitAssumption DEF LimitKeys
<1>4. IsFiniteSet(P) /\ P \subseteq Requests /\ i \notin P
  BY <1>1, ProcessAssumption, FS_Subset DEF Passed
<1>5. At \in [Requests -> Nat] /\ At' \in [Requests -> Nat]
      /\ \A j \in Requests : At'[j] = IF j = i THEN x.counted.at ELSE At[j]
  BY <1>1, <1>2 DEF At, RequestState
<1>6. Count(w) \in Windows
  BY <1>1 DEF Count, Windows
<1>7. /\ counters' \in [Stores -> [LimitKeys -> Windows]]
      /\ counters'[s][k] = Count(w)
      /\ \A z \in Stores, y \in LimitKeys : z # s \/ y # k => counters'[z][y] = counters[z][y]
  BY <1>1, <1>6
<1>8. GatewayOK'
  BY <1>7 DEF IInv, GatewayOK
<1>9. \A j \in Requests : RequestOK(req[j])'
  BY <1>1, <1>2 DEF RequestOK
<1>10. ASSUME Kept', NEW z \in Stores, NEW y \in LimitKeys
       PROVE  Fits(Passed(z, y), At, counters[z][y], Allowed[y[1]])'
  <2> DEFINE times == At'
             Q == Passed(z, y)
             Q2 == Passed(z, y)'
             v == counters[z][y]
             v2 == counters'[z][y]
             m == Allowed[y[1]]
  <2>1. Kept
    BY <1>10 DEF Kept
  <2>2. Fits(Q, At, v, m) /\ v \in Windows
    BY <1>1, <2>1 DEF IInv
  <2>3. IsFiniteSet(Q) /\ Q \subseteq Requests /\ i \notin Q
    BY <1>1, ProcessAssumption, FS_Subset DEF Passed
  <2>4. \A j \in Q : times[j] = At[j]
    BY <1>5, <2>3
  <2>5. Q2 = IF z = s /\ y = k /\ x.counted.passed THEN Q \cup {i} ELSE Q
    BY <1>1, <1>2 DEF Passed, StoreOf
  <2> DEFINE at == [j \in Q |-> At[j]]
  <2>6. at \in [Q -> Nat] /\ m \in Nat
    BY <1>5, <2>3, LimitAssumption DEF LimitKeys
  <2> HIDE DEF Q, Q2, m
  <2>7. Fits(Q, at, v, m)
    BY <2>2, FitsSame
  <2>8. Fits(Q2, times, v2, m)
    <3>1. CASE z = s /\ y = k /\ x.counted.passed
      <4> DEFINE late == [j \in Q \cup {i} |-> times[j]]
      <4>1. late \in [Q \cup {i} -> Nat] /\ late[i] = now /\ \A j \in Q : late[j] = at[j]
        BY <1>1, <1>5, <2>3, <2>4, <3>1
      <4>2. v2 = Count(v) /\ Count(v).count <= m
        BY <1>7, <3>1 DEF m
      <4> HIDE DEF v, v2, late, at, times
      <4>3. Fits(Q \cup {i}, late, v2, m)
        BY <1>1, <2>2, <2>3, <2>6, <2>7, <4>1, <4>2, Passes
      <4>4. \A j \in Q \cup {i} : late[j] = times[j]
        BY DEF late
      <4> QED BY <2>5, <3>1, <4>3, <4>4, FitsSame
    <3>2. CASE z = s /\ y = k /\ ~x.counted.passed
      <4>1. v2 = Count(v)
        BY <1>7, <3>2
      <4>2. \A j \in Q : at[j] = times[j]
        BY <2>4
      <4> HIDE DEF v, v2, at, times
      <4>3. Fits(Q, at, v2, m)
        BY <1>1, <2>2, <2>3, <2>6, <2>7, <4>1, Refuses
      <4> QED BY <2>5, <3>2, <4>2, <4>3, FitsSame
    <3>3. CASE z # s \/ y # k
      <4>1. v2 = v /\ Q2 = Q
        BY <1>7, <2>5, <3>3
      <4>2. \A j \in Q : At[j] = times[j]
        BY <2>4
      <4> HIDE DEF v, v2, times
      <4> QED BY <2>2, <4>1, <4>2, FitsSame
    <3> QED BY <3>1, <3>2, <3>3
  <2> QED BY <2>8 DEF Fits, m, Q2
<1> QED BY <1>2, <1>8, <1>9, <1>10 DEF IInv

-----------------------------------------------------------------------------
(* The steps *)

\* A request that is answered or routed stays what it was otherwise.
LEMMA Answers ==
  ASSUME IInv, NEW i \in Requests, NEW status \in Nat
  PROVE  /\ RequestOK(req[i]) /\ req[i] \in RequestState
         /\ LET x == Answer(i, status) IN
            /\ x \in RequestState /\ x.pc = "answered" /\ x.counted = req[i].counted
            /\ x.route = req[i].route /\ x.replica = req[i].replica /\ x.client = req[i].client
         /\ LET x == Routed(i) IN
            /\ x \in RequestState /\ x.pc = "routed" /\ x.counted = req[i].counted
            /\ x.route = req[i].route /\ x.replica = req[i].replica /\ x.client = req[i].client
<1>1. RequestOK(req[i]) /\ req[i] \in RequestState /\ now \in Nat
  BY DEF IInv, GatewayOK, RequestOK
<1>2. now + TimeoutOf(req[i].route) \in Nat
  BY <1>1, LimitAssumption DEF TimeoutOf
<1> QED BY <1>1, <1>2 DEF Answer, Routed, RequestState

\* Answers and routing count nothing.
LEMMA AnswerSteps ==
  ASSUME IInv, NEW i \in Requests, NEW status \in Nat,
         \/ req' = [req EXCEPT ![i] = Answer(i, status)]
         \/ req' = [req EXCEPT ![i] = Routed(i)],
         UNCHANGED <<gateway, now, counters, crashes>>
  PROVE  IInv'
<1>1. /\ RequestOK(Answer(i, status)) /\ Same(req[i], Answer(i, status))
      /\ RequestOK(Routed(i)) /\ Same(req[i], Routed(i))
  BY Answers DEF RequestOK, Same
<1> QED BY <1>1, Replaced

\* Requests come, or are turned down.
LEMMA Arrives ==
  ASSUME IInv, NEW i \in Requests, NEW route \in Routes, NEW replica \in Replicas,
         \/ TurnDown(i, route, replica)
         \/ \E client \in Clients : Arrive(i, route, replica, client)
  PROVE  IInv'
<1>1. /\ RequestOK(req[i]) /\ req[i] \in RequestState /\ req[i].pc = "new"
      /\ ~req[i].counted.passed /\ UNCHANGED <<gateway, now, counters, crashes>>
  BY DEF IInv, RequestOK, TurnDown, Arrive
<1>2. CASE TurnDown(i, route, replica)
  <2> DEFINE a == Answer(i, 400)
             x == [a EXCEPT !.route = route, !.replica = replica]
  <2>1. req' = [req EXCEPT ![i] = x]
    BY <1>2 DEF TurnDown
  <2>2. a \in RequestState /\ a.pc = "answered" /\ a.counted = req[i].counted
    BY Answers
  <2> HIDE DEF a
  <2>3. x \in RequestState /\ x.pc = "answered" /\ x.counted = req[i].counted
    BY <2>2 DEF RequestState
  <2> HIDE DEF x
  <2>4. RequestOK(x) /\ Same(req[i], x)
    BY <1>1, <2>3 DEF RequestOK, Same
  <2> QED BY <1>1, <2>1, <2>4, Replaced
<1>3. ASSUME NEW client \in Clients, Arrive(i, route, replica, client)
      PROVE  IInv'
  <2> DEFINE x == [req[i] EXCEPT !.pc = "limit", !.route = route, !.replica = replica, !.client = client]
  <2>1. req' = [req EXCEPT ![i] = x]
    BY <1>3 DEF Arrive
  <2>2. /\ x \in RequestState /\ x.pc = "limit" /\ x.counted = req[i].counted
        /\ x.route = route /\ x.replica = replica /\ x.client = client
    BY <1>1 DEF RequestState
  <2> HIDE DEF x
  <2>3. RequestOK(x) /\ Same(req[i], x)
    BY <1>1, <2>2 DEF RequestOK, Same
  <2> QED BY <1>1, <2>1, <2>3, Replaced
<1> QED BY <1>2, <1>3

\* The limiter counts a request, and lets it through or refuses it.
LEMMA Limits ==
  ASSUME IInv, NEW i \in Requests, Limit(i)
  PROVE  IInv'
<1> DEFINE r == req[i]
           s == StoreOf(r.replica)
           k == Key(i)
           w == Count(counters[s][k])
<1>1. /\ RequestOK(r) /\ r \in RequestState /\ r.pc = "limit" /\ ~r.counted.passed
      /\ r.route \in Routes /\ r.replica \in Replicas /\ r.client \in Clients
      /\ now \in Nat /\ UNCHANGED <<gateway, now, crashes>>
  BY DEF IInv, GatewayOK, RequestOK, Limit
<1>2. CASE ClassOf(r.route) = {}
  <2>1. req' = [req EXCEPT ![i] = Routed(i)] /\ UNCHANGED counters
    BY <1>2 DEF Limit
  <2> QED BY <1>1, <2>1, AnswerSteps
<1>3. ASSUME ClassOf(r.route) # {}
      PROVE  s \in Stores /\ k \in LimitKeys
  <2>1. ClassOf(r.route) \subseteq Classes
    BY DEF ClassOf, Classes
  <2>2. (CHOOSE c \in ClassOf(r.route) : TRUE) \in ClassOf(r.route)
    BY <1>3
  <2> QED BY <1>1, <2>1, <2>2 DEF Key, LimitKeys, StoreOf, Stores
<1>4. ASSUME NEW a \in RequestState, NEW passed \in BOOLEAN, ClassOf(r.route) # {},
             a.pc \in {"routed", "answered"}, a.replica = r.replica,
             passed => w.count <= Allowed[k[1]],
             counters' = [counters EXCEPT ![s] = [counters[s] EXCEPT ![k] = w]],
             req' = [req EXCEPT ![i] = [a EXCEPT !.counted = [key |-> k, at |-> now, passed |-> passed]]]
      PROVE  IInv'
  <2> DEFINE x == [a EXCEPT !.counted = [key |-> k, at |-> now, passed |-> passed]]
  <2>1. k \in LimitKeys /\ s \in Stores
    BY <1>3, <1>4
  <2>2. req' = [req EXCEPT ![i] = x]
    BY <1>4
  <2> HIDE DEF k, s
  <2>3. /\ x \in RequestState /\ x.pc = a.pc /\ x.replica = r.replica
        /\ x.counted.key = k /\ x.counted.at = now /\ x.counted.passed = passed
    BY <1>1, <1>4, <2>1 DEF RequestState
  <2> HIDE DEF x
  <2>4. RequestOK(x)
    BY <1>1, <1>4, <2>1, <2>3 DEF RequestOK
  <2> QED BY <1>1, <1>4, <2>1, <2>2, <2>3, <2>4, Counted DEF s
<1>5. CASE ClassOf(r.route) # {} /\ Check(i)
  <2> DEFINE passed == w.count <= Allowed[k[1]]
             a == IF passed THEN Routed(i) ELSE Answer(i, 429)
  <2>1. /\ counters' = [counters EXCEPT ![s] = [counters[s] EXCEPT ![k] = w]]
        /\ req' = [req EXCEPT ![i] = [a EXCEPT !.counted = [key |-> k, at |-> now, passed |-> passed]]]
    BY <1>5 DEF Check
  <2>2. a \in RequestState /\ a.pc \in {"routed", "answered"} /\ a.replica = r.replica
    BY Answers
  <2>3. passed \in BOOLEAN /\ (passed => w.count <= Allowed[k[1]])
    OBVIOUS
  <2> HIDE DEF a, passed
  <2> QED BY <1>4, <1>5, <2>1, <2>2, <2>3
<1>6. CASE ClassOf(r.route) # {} /\ CheckFails(i)
  <2>1. s = "redis"
    BY <1>6 DEF CheckFails, StoreOf
  <2>2. CASE req' = [req EXCEPT ![i] = Answer(i, 503)] /\ UNCHANGED counters
    <3> DEFINE status == 503
    <3>1. /\ status \in Nat /\ req' = [req EXCEPT ![i] = Answer(i, status)]
          /\ UNCHANGED <<gateway, now, counters, crashes>>
      BY <1>1, <2>2
    <3> HIDE DEF status
    <3> QED BY <3>1, AnswerSteps
  <2>3. CASE /\ counters' = [counters EXCEPT !["redis"] =
                  [counters["redis"] EXCEPT ![Key(i)] = Count(counters["redis"][Key(i)])]]
             /\ req' = [req EXCEPT ![i] =
                  [Answer(i, 503) EXCEPT !.counted = [key |-> Key(i), at |-> now, passed |-> FALSE]]]
    <3> DEFINE a == Answer(i, 503)
               passed == FALSE
    <3>1. /\ counters' = [counters EXCEPT ![s] = [counters[s] EXCEPT ![k] = w]]
          /\ req' = [req EXCEPT ![i] = [a EXCEPT !.counted = [key |-> k, at |-> now, passed |-> passed]]]
      BY <2>1, <2>3
    <3>2. a \in RequestState /\ a.pc \in {"routed", "answered"} /\ a.replica = r.replica
      BY Answers
    <3>3. passed \in BOOLEAN /\ (passed => w.count <= Allowed[k[1]])
      OBVIOUS
    <3> HIDE DEF a, passed
    <3> QED BY <1>4, <1>6, <3>1, <3>2, <3>3
  <2> QED BY <1>6, <2>2, <2>3 DEF CheckFails
<1> QED BY <1>2, <1>5, <1>6 DEF Limit

\* The handler answers, or the timeout does.
LEMMA Finishes ==
  ASSUME IInv, NEW i \in Requests, Handle(i) \/ TimeOut(i)
  PROVE  IInv'
<1>1. PICK status \in Nat : req' = [req EXCEPT ![i] = Answer(i, status)]
  BY DEF Handle, TimeOut
<1>2. UNCHANGED <<gateway, now, counters, crashes>>
  BY DEF Handle, TimeOut
<1> QED BY <1>1, <1>2, AnswerSteps

\* A replica that dies takes its own counters with it, and Redis keeps its own.
LEMMA Crashes ==
  ASSUME IInv, NEW replica \in Replicas, Crash(replica)
  PROVE  IInv'
<1> DEFINE f == [i \in Requests |->
                   IF req[i].replica = replica /\ req[i].pc # "answered" THEN Answer(i, 0) ELSE req[i]]
<1>1. /\ req' = f /\ UNCHANGED <<gateway, now>> /\ crashes' = crashes + 1
      /\ counters' = [counters EXCEPT ![replica] = [k \in LimitKeys |-> NoWindow]]
      /\ now \in Nat /\ crashes \in Nat /\ counters \in [Stores -> [LimitKeys -> Windows]]
  BY DEF IInv, GatewayOK, Crash
<1>2. ASSUME NEW i \in Requests
      PROVE  RequestOK(f[i]) /\ Same(req[i], f[i]) /\ f[i] \in RequestState /\ f[i].counted = req[i].counted
  <2>1. RequestOK(req[i]) /\ RequestOK(Answer(i, 0)) /\ Same(req[i], Answer(i, 0)) /\ Same(req[i], req[i])
        /\ Answer(i, 0).counted = req[i].counted
    BY Answers DEF RequestOK, Same
  <2> QED BY <2>1 DEF RequestOK
<1>3. /\ req' = [i \in Requests |-> req'[i]]
      /\ \A i \in Requests : req'[i] = f[i]
  BY <1>1
<1> HIDE DEF f
<1>4. NoWindow \in Windows
  BY DEF NoWindow, Windows
<1>5. /\ counters' \in [Stores -> [LimitKeys -> Windows]]
      /\ \A k \in LimitKeys : counters'[replica][k] = NoWindow
      /\ \A s \in Stores : s # replica => counters'[s] = counters[s]
  BY <1>1, <1>4 DEF Stores
<1>6. GatewayOK'
  BY <1>1, <1>5 DEF IInv, GatewayOK
<1>7. \A i \in Requests : RequestOK(req[i])'
  BY <1>2, <1>3 DEF RequestOK
<1>8. ASSUME Kept', NEW s \in Stores, NEW k \in LimitKeys
      PROVE  Fits(Passed(s, k), At, counters[s][k], Allowed[k[1]])'
  <2> DEFINE times == At'
             w == counters'[s][k]
             n == Allowed[k[1]]
             P == Passed(s, k)
  <2>1. gateway.backend = "redis" /\ Kept
    BY <1>1, <1>8 DEF Kept
  <2>2. Passed(s, k)' = P
    BY <1>1, <1>2, <1>3 DEF Passed, StoreOf, Same
  <2>3. \A j \in P : At[j] = times[j]
    BY <1>2, <1>3 DEF Passed, At
  <2>4. Fits(P, times, w, n)
    <3>1. CASE s = replica
      <4>1. P = {} /\ n \in Nat
        BY <2>1, <3>1, ProcessAssumption, LimitAssumption DEF Passed, StoreOf, LimitKeys
      <4>2. w = NoWindow
        BY <1>5, <3>1
      <4>3. \A a, b : Between(P, times, a, b) = {}
        BY <4>1 DEF Between
      <4>4. \A a, b : Cardinality(Between(P, times, a, b)) = 0
        BY <4>3, FS_EmptySet
      <4>5. w.started = 0 /\ w.count = 0
        BY <4>2 DEF NoWindow
      <4> HIDE DEF P, w, n, times
      <4> QED BY <1>1, <4>1, <4>4, <4>5 DEF Fits
    <3>2. CASE s # replica
      <4>1. w = counters[s][k]
        BY <1>5, <3>2
      <4>2. Fits(P, At, counters[s][k], n)
        BY <2>1 DEF IInv
      <4> HIDE DEF P, w, n, times
      <4> QED BY <2>3, <4>1, <4>2, FitsSame
    <3> QED BY <3>1, <3>2
  <2> HIDE DEF P
  <2> QED BY <1>1, <2>2, <2>4 DEF Fits
<1> QED BY <1>3, <1>6, <1>7, <1>8 DEF IInv

-----------------------------------------------------------------------------
(* The theorems *)

\* No configuration that the gateway accepts in staging or prod counts in memory
\* (from_lookup).
LEMMA StrictMeansRedis ==
  ASSUME NEW env, GatewayAccepts(env)
  PROVE  LET config == Gateway(env) IN
         RequiresMore(config.runtime_environment) => config.backend = "redis"
<1>1. /\ Gateway(env).runtime_environment = RuntimeEnvironment(env)
      /\ Gateway(env).backend = RateLimitBackend(env)
  BY DEF Gateway
<1>2. RequiresMore(RuntimeEnvironment(env)) /\ RateLimitBackend(env) # "redis"
        => "REDIS_URL" \in GatewayMissing(env)
  BY DEF GatewayMissing
<1>3. GatewayMissing(env) = {}
  BY DEF GatewayAccepts
<1> QED BY <1>1, <1>2, <1>3

\* Nothing has been counted yet.
LEMMA InitOK == Init => IInv
<1> SUFFICES ASSUME Init PROVE IInv
  OBVIOUS
<1>1. RequiresMore(gateway.runtime_environment) => gateway.backend = "redis"
  BY StrictMeansRedis DEF Init
<1>2. NoWindow \in Windows
  BY DEF NoWindow, Windows
<1>3. GatewayOK /\ \A s \in Stores, k \in LimitKeys : counters[s][k] = NoWindow
  BY <1>1, <1>2 DEF Init, GatewayOK, Stores
<1>4. RequestOK(NewRequest) /\ NewRequest.counted.passed = FALSE
  <2>1. Never \in Nat
    BY LimitAssumption DEF Never
  <2>2. NotCounted \in [key : LimitKeys \cup {<<>>}, at : Nat, passed : BOOLEAN] /\ NotCounted.passed = FALSE
    BY DEF NotCounted
  <2> QED BY <2>1, <2>2 DEF NewRequest, RequestOK, RequestState
<1>5. req = [i \in Requests |-> req[i]] /\ \A i \in Requests : req[i] = NewRequest
  BY DEF Init
<1>6. ASSUME NEW s \in Stores, NEW k \in LimitKeys
      PROVE  Fits(Passed(s, k), At, counters[s][k], Allowed[k[1]])
  <2> DEFINE P == Passed(s, k)
             w == counters[s][k]
             n == Allowed[k[1]]
  <2>1. P = {}
    BY <1>4, <1>5 DEF Passed
  <2>2. w.started = 0 /\ w.count = 0 /\ n \in Nat /\ now \in Nat
    BY <1>3, LimitAssumption DEF NoWindow, LimitKeys, GatewayOK
  <2>3. \A t, a, b : Between(P, t, a, b) = {}
    BY <2>1 DEF Between
  <2>4. Cardinality({}) = 0
    BY FS_EmptySet
  <2> HIDE DEF P, w, n
  <2>5. Fits(P, At, w, n)
    BY <2>1, <2>2, <2>3, <2>4 DEF Fits
  <2> QED BY <2>5 DEF P, w, n
<1> QED BY <1>3, <1>4, <1>5, <1>6 DEF IInv

\* Every step keeps the invariant.
LEMMA NextOK == IInv /\ [Next]_vars => IInv'
<1> SUFFICES ASSUME IInv, [Next]_vars PROVE IInv'
  OBVIOUS
<1>1. ASSUME NEW i \in Requests, NEW route \in Routes, NEW replica \in Replicas,
             \/ TurnDown(i, route, replica)
             \/ \E client \in Clients : Arrive(i, route, replica, client)
      PROVE  IInv'
  BY <1>1, Arrives
<1>2. ASSUME NEW i \in Requests, Limit(i) \/ Handle(i) \/ TimeOut(i)
      PROVE  IInv'
  BY <1>2, Limits, Finishes
<1>3. ASSUME NEW replica \in Replicas, Crash(replica)
      PROVE  IInv'
  BY <1>3, Crashes
<1>4. ASSUME UNCHANGED <<gateway, counters, req, crashes>>, now' \in Nat, now <= now'
      PROVE  IInv'
  <2>1. /\ req = [i \in Requests |-> req[i]]
        /\ \A i \in Requests : RequestOK(req[i]) /\ req[i] \in RequestState
    BY DEF IInv, RequestOK
  <2>2. req \in [Requests -> RequestState] /\ req' = req
    BY <1>4, <2>1
  <2>3. \A i \in Requests : RequestOK(req[i]) /\ Same(req[i], req[i])
    BY <2>1 DEF Same
  <2> QED BY <1>4, <2>2, <2>3, Uncounted
<1>5. CASE Tick
  BY <1>4, <1>5 DEF Tick, IInv, GatewayOK
<1>6. CASE UNCHANGED vars
  BY <1>4, <1>6 DEF vars, IInv, GatewayOK
<1> QED BY <1>1, <1>2, <1>3, <1>5, <1>6 DEF Next

\* In every state, each window that no death has emptied counts what was let
\* through in it and before it.
THEOREM Counting == Spec => []IInv
BY InitOK, NextOK, PTL DEF Spec

\* However requests are spread over replicas, no client has more than twice the
\* allowance let through in any minute, in staging and prod although replicas die
\* (RateLimiter::check, increment_window, from_lookup).
THEOREM LimitsHold == Spec => []LimitHolds
<1>1. ASSUME IInv, NEW requests \in Together, NEW key \in LimitKeys, NEW t \in Times
      PROVE  Cardinality(PassedIn(requests, key, t)) <= 2 * Allowed[key[1]]
  <2> DEFINE n == Allowed[key[1]]
             S == PassedIn(requests, key, t)
  <2>1. PICK s \in Stores : Kept /\ \A i \in requests : i \in Requests /\ StoreOf(req[i].replica) = s
    <3>1. CASE gateway.backend = "redis"
      <4>1. Together = {Requests}
        BY <3>1 DEF Together
      <4> QED BY <3>1, <4>1 DEF Kept, StoreOf, Stores
    <3>2. CASE gateway.backend # "redis"
      <4>1. ~RequiresMore(gateway.runtime_environment)
        BY <1>1, <3>2 DEF IInv, GatewayOK
      <4>2. crashes = 0 /\ requests \in {{i \in Requests : req[i].replica = p} : p \in Replicas}
        BY <3>2, <4>1 DEF Together
      <4>3. PICK p \in Replicas : requests = {i \in Requests : req[i].replica = p}
        BY <4>2
      <4> QED BY <3>2, <4>2, <4>3 DEF Kept, StoreOf, Stores
    <3> QED BY <3>1, <3>2
  <2> DEFINE B == Between(Passed(s, key), At, t, t + Window)
  <2>2. t \in Nat /\ Window \in Nat /\ n \in Nat
    BY LimitAssumption DEF Times, LimitKeys
  <2>3. Cardinality(B) <= n + n
    BY <1>1, <2>1, <2>2 DEF IInv, Fits
  <2>4. \A i \in Requests : req[i].counted.at \in Nat
    BY <1>1 DEF IInv, RequestOK, RequestState
  <2>5. S \subseteq B
    BY <2>1, <2>2, <2>4 DEF PassedIn, Passed, At, Between
  <2>6. IsFiniteSet(B)
    BY ProcessAssumption, FS_Subset DEF Between, Passed
  <2>7. Cardinality(S) <= Cardinality(B) /\ Cardinality(S) \in Nat /\ Cardinality(B) \in Nat
    BY <2>5, <2>6, FS_Subset, FS_CardinalityType
  <2> HIDE DEF S, B, n
  <2>8. Cardinality(S) <= 2 * n
    BY <2>2, <2>3, <2>7
  <2> QED BY <2>8 DEF S, n
<1>2. IInv => LimitHolds
  BY <1>1 DEF LimitHolds
<1> QED BY <1>2, Counting, PTL

-----------------------------------------------------------------------------
(* Refusals *)

\* Of requests as they were at some time, those counted under a key from a to b
\* that were not refused.
Spent(requests, key, a, b) ==
  {j \in Requests : /\ requests[j].counted.key = key /\ requests[j].status # 429
                    /\ a <= requests[j].counted.at /\ requests[j].counted.at <= b}

\* A request is counted when it leaves "limit", under its class and client.
CountedOK(r) ==
  /\ r.counted.key \in LimitKeys =>
       /\ r.pc \notin {"new", "limit"} /\ r.counted.at <= now
       /\ ClassOf(r.route) = {r.counted.key[1]} /\ r.client = r.counted.key[2]
  /\ r.status = 429 => r.counted.key \in LimitKeys /\ r.pc = "answered"

\* What a window has counted was spent, up to the allowance.
WindowOK(w, k) ==
  /\ w.started <= now
  /\ \/ w.count <= Cardinality(Spent(req, k, w.started, now))
     \/ Allowed[k[1]] <= Cardinality(Spent(req, k, w.started, now))

DueOK(i) ==
  LET c == req[i].counted IN
  Allowed[c.key[1]] <= Cardinality(Spent(req, c.key, c.at - Window + 1, c.at))

DueInv ==
  /\ \A i \in Requests : CountedOK(req[i])
  /\ \A s \in Stores, k \in LimitKeys : WindowOK(counters[s][k], k)
  /\ \A i \in Requests : req[i].status = 429 => DueOK(i)

\* A request that was counted stays so, and is not refused afterwards.
Lasts(r, x) ==
  r.counted.key \in LimitKeys => x.counted = r.counted /\ (r.status # 429 => x.status # 429)

\* What was spent stays spent.
LEMMA Spending ==
  ASSUME NEW f, NEW g, \A j \in Requests : Lasts(f[j], g[j]),
         \A j \in Requests : f[j].counted.at \in Nat,
         NEW k \in LimitKeys, NEW a \in Int, NEW b \in Int,
         NEW a2 \in Int, a2 <= a, NEW b2 \in Int, b <= b2
  PROVE  LET old == Spent(f, k, a, b)
             new == Spent(g, k, a2, b2)
         IN  /\ old \subseteq new /\ IsFiniteSet(new) /\ IsFiniteSet(old)
             /\ Cardinality(old) \in Nat /\ Cardinality(new) \in Nat
             /\ Cardinality(old) <= Cardinality(new)
<1> DEFINE old == Spent(f, k, a, b)
           new == Spent(g, k, a2, b2)
<1>1. old \subseteq new
  BY DEF Spent, Lasts
<1>2. IsFiniteSet(new)
  BY ProcessAssumption, FS_Subset DEF Spent
<1> HIDE DEF old, new
<1>3. IsFiniteSet(old) /\ Cardinality(old) <= Cardinality(new)
  BY <1>1, <1>2, FS_Subset
<1>4. Cardinality(old) \in Nat /\ Cardinality(new) \in Nat
  BY <1>2, <1>3, FS_CardinalityType
<1> QED BY <1>1, <1>2, <1>3, <1>4 DEF old, new

\* A window that is left alone, or emptied, is still right.
LEMMA WindowStays ==
  ASSUME IInv, NEW g, \A j \in Requests : Lasts(req[j], g[j]), req' = g,
         now' \in Nat, now <= now', NEW k \in LimitKeys, NEW w \in Windows,
         WindowOK(w, k) \/ w = NoWindow
  PROVE  WindowOK(w, k)'
<1> DEFINE n == Allowed[k[1]]
           old == Cardinality(Spent(req, k, w.started, now))
           new == Cardinality(Spent(g, k, w.started, now'))
<1>1. /\ \A j \in Requests : req[j].counted.at \in Nat
      /\ w.started \in Int /\ w.count \in Nat /\ now \in Int /\ now' \in Int /\ n \in Nat
  BY LimitAssumption DEF IInv, GatewayOK, RequestOK, RequestState, Windows, LimitKeys
<1>2. w.started <= w.started
  BY <1>1
<1>3. old \in Nat /\ new \in Nat /\ old <= new
  BY <1>1, <1>2, Spending
<1>4. w.started <= now /\ (w.count <= old \/ n <= old \/ w.count = 0)
  BY <1>1 DEF WindowOK, NoWindow, IInv, GatewayOK
<1>5. w.started <= now' /\ (w.count <= new \/ n <= new)
  <2> HIDE DEF old, new, n
  <2> QED BY <1>1, <1>3, <1>4
<1> QED BY <1>5 DEF WindowOK

\* A step keeps the invariant where it keeps the requests that were counted, and
\* is right about the windows and refusals that it touches.
LEMMA Dues ==
  ASSUME IInv, DueInv, NEW g \in [Requests -> RequestState], req' = g,
         \A j \in Requests : CountedOK(g[j]) /\ Lasts(req[j], g[j]),
         now' \in Nat, now <= now', counters' \in [Stores -> [LimitKeys -> Windows]],
         \A s \in Stores, k \in LimitKeys :
           \/ counters'[s][k] = counters[s][k]
           \/ counters'[s][k] = NoWindow
           \/ WindowOK(counters[s][k], k)',
         \A i \in Requests : g[i].status = 429 => req[i].status = 429 \/ DueOK(i)'
  PROVE  DueInv'
<1>1. /\ \A j \in Requests : req[j] \in RequestState /\ req[j].counted.at \in Nat
      /\ \A j \in Requests : g[j] \in RequestState /\ g[j].counted.at \in Nat /\ req'[j] = g[j]
      /\ now \in Nat /\ Window \in Nat
  BY LimitAssumption DEF IInv, GatewayOK, RequestOK, RequestState
<1>2. ASSUME NEW j \in Requests
      PROVE  CountedOK(req[j])'
  <2> DEFINE x == g[j]
  <2>1. CountedOK(x) /\ req'[j] = x /\ x.counted.at \in Nat
    BY <1>1
  <2> HIDE DEF x
  <2> QED BY <1>1, <2>1 DEF CountedOK
<1>3. ASSUME NEW s \in Stores, NEW k \in LimitKeys
      PROVE  WindowOK(counters[s][k], k)'
  <2> DEFINE w == counters'[s][k]
  <2>1. w \in Windows
    OBVIOUS
  <2>2. CASE w = counters[s][k] \/ w = NoWindow
    <3>1. WindowOK(w, k) \/ w = NoWindow
      BY <2>2 DEF DueInv
    <3> HIDE DEF w
    <3>2. /\ w.started <= now'
          /\ \/ w.count <= Cardinality(Spent(g, k, w.started, now'))
             \/ Allowed[k[1]] <= Cardinality(Spent(g, k, w.started, now'))
      BY <2>1, <3>1, WindowStays DEF WindowOK
    <3> QED BY <3>2 DEF WindowOK, w
  <2> QED BY <2>2
<1>4. ASSUME NEW i \in Requests, g[i].status = 429
      PROVE  DueOK(i)'
  <2>1. CASE req[i].status = 429
    <3> DEFINE c == req[i].counted
               n == Allowed[c.key[1]]
               from == c.at - Window + 1
    <3>1. c.key \in LimitKeys /\ g[i].counted = c
      BY <2>1 DEF DueInv, CountedOK, Lasts
    <3>2. from \in Int /\ c.at \in Int /\ from <= from /\ c.at <= c.at /\ n \in Nat
      BY <1>1, <3>1, LimitAssumption DEF LimitKeys
    <3>3. n <= Cardinality(Spent(req, c.key, from, c.at))
      BY <2>1 DEF DueInv, DueOK
    <3> HIDE DEF c, n, from
    <3>4. /\ Cardinality(Spent(req, c.key, from, c.at)) <= Cardinality(Spent(g, c.key, from, c.at))
          /\ Cardinality(Spent(req, c.key, from, c.at)) \in Nat
          /\ Cardinality(Spent(g, c.key, from, c.at)) \in Nat
      BY <1>1, <3>1, <3>2, Spending
    <3>5. n <= Cardinality(Spent(g, c.key, from, c.at))
      BY <3>2, <3>3, <3>4
    <3> QED BY <1>1, <3>1, <3>5 DEF DueOK, n, from
  <2> QED BY <1>4, <2>1
<1>5. \A i \in Requests : (req[i].status = 429)' => DueOK(i)'
  BY <1>1, <1>4
<1> QED BY <1>2, <1>3, <1>5 DEF DueInv

\* The same for a step of one request that counts nothing.
LEMMA DueReplaced ==
  ASSUME IInv, DueInv, NEW i \in Requests, NEW x \in RequestState,
         CountedOK(x), Lasts(req[i], x), x.status # 429,
         req' = [req EXCEPT ![i] = x], UNCHANGED <<now, counters>>
  PROVE  DueInv'
<1> DEFINE g == [j \in Requests |-> IF j = i THEN x ELSE req[j]]
<1>1. /\ \A j \in Requests : req[j] \in RequestState
      /\ req = [j \in Requests |-> req[j]] /\ now \in Nat
      /\ counters \in [Stores -> [LimitKeys -> Windows]]
  BY DEF IInv, GatewayOK, RequestOK
<1>2. req' = g /\ g \in [Requests -> RequestState]
  BY <1>1
<1>3. \A j \in Requests : CountedOK(g[j]) /\ Lasts(req[j], g[j])
  BY DEF DueInv, Lasts
<1>4. \A j \in Requests : g[j].status = 429 => req[j].status = 429
  OBVIOUS
<1>5. now' \in Nat /\ now <= now' /\ counters' \in [Stores -> [LimitKeys -> Windows]]
      /\ \A s \in Stores, k \in LimitKeys : counters'[s][k] = counters[s][k]
  BY <1>1
<1> HIDE DEF g
<1> QED BY <1>2, <1>3, <1>4, <1>5, Dues

\* Requests come, are turned down, routed uncounted, or answered.
LEMMA DueAnswers ==
  ASSUME IInv, DueInv, NEW i \in Requests, NEW status \in Nat, status # 429,
         \/ req' = [req EXCEPT ![i] = Answer(i, status)]
         \/ req[i].pc = "limit" /\ req' = [req EXCEPT ![i] = Routed(i)],
         UNCHANGED <<now, counters>>
  PROVE  DueInv'
<1>1. CountedOK(req[i])
  BY DEF DueInv
<1>2. CASE req' = [req EXCEPT ![i] = Answer(i, status)]
  <2> DEFINE x == Answer(i, status)
  <2>1. /\ x \in RequestState /\ x.pc = "answered" /\ x.counted = req[i].counted
        /\ x.route = req[i].route /\ x.client = req[i].client /\ req[i] \in RequestState
    BY Answers
  <2>2. x.status = status
    BY <2>1 DEF Answer, RequestState
  <2> HIDE DEF x
  <2>3. CountedOK(x) /\ Lasts(req[i], x) /\ x.status # 429
    BY <1>1, <2>1, <2>2 DEF CountedOK, Lasts
  <2> QED BY <1>2, <2>1, <2>3, DueReplaced DEF x
<1>3. CASE req[i].pc = "limit" /\ req' = [req EXCEPT ![i] = Routed(i)]
  <2> DEFINE x == Routed(i)
  <2>1. x \in RequestState /\ x.counted = req[i].counted /\ req[i] \in RequestState
    BY Answers
  <2>2. x.status = req[i].status
    BY <2>1 DEF Routed, RequestState
  <2>3. req' = [req EXCEPT ![i] = x]
    BY <1>3
  <2> HIDE DEF x
  <2>4. CountedOK(x) /\ Lasts(req[i], x) /\ x.status # 429
    BY <1>1, <1>3, <2>1, <2>2 DEF CountedOK, Lasts
  <2> QED BY <2>1, <2>3, <2>4, DueReplaced
<1> QED BY <1>2, <1>3

\* Requests that come have not been counted.
LEMMA DueArrives ==
  ASSUME IInv, DueInv, NEW i \in Requests, NEW route \in Routes, NEW replica \in Replicas,
         \/ TurnDown(i, route, replica)
         \/ \E client \in Clients : Arrive(i, route, replica, client)
  PROVE  DueInv'
<1>1. /\ CountedOK(req[i]) /\ req[i] \in RequestState /\ req[i].pc = "new"
      /\ UNCHANGED <<now, counters>>
  BY DEF IInv, RequestOK, DueInv, TurnDown, Arrive
<1>2. CASE TurnDown(i, route, replica)
  <2> DEFINE a == Answer(i, 400)
             x == [a EXCEPT !.route = route, !.replica = replica]
  <2>1. req' = [req EXCEPT ![i] = x]
    BY <1>2 DEF TurnDown
  <2>2. a \in RequestState /\ a.counted = req[i].counted
    BY Answers
  <2>3. a.status = 400
    BY <1>1 DEF Answer, RequestState
  <2> HIDE DEF a
  <2>4. x \in RequestState /\ x.counted = req[i].counted /\ x.status = 400
    BY <2>2, <2>3 DEF RequestState
  <2> HIDE DEF x
  <2>5. CountedOK(x) /\ Lasts(req[i], x) /\ x.status # 429
    BY <1>1, <2>4 DEF CountedOK, Lasts
  <2>6. x \in RequestState /\ UNCHANGED <<now, counters>>
    BY <1>1, <2>4
  <2> QED BY <2>1, <2>5, <2>6, DueReplaced
<1>3. ASSUME NEW client \in Clients, Arrive(i, route, replica, client)
      PROVE  DueInv'
  <2> DEFINE x == [req[i] EXCEPT !.pc = "limit", !.route = route, !.replica = replica, !.client = client]
  <2>1. req' = [req EXCEPT ![i] = x]
    BY <1>3 DEF Arrive
  <2>2. x \in RequestState /\ x.counted = req[i].counted /\ x.status = req[i].status
    BY <1>1 DEF RequestState
  <2> HIDE DEF x
  <2>3. CountedOK(x) /\ Lasts(req[i], x) /\ x.status # 429
    BY <1>1, <2>2 DEF CountedOK, Lasts
  <2> QED BY <1>1, <2>1, <2>2, <2>3, DueReplaced
<1> QED BY <1>2, <1>3

\* A request that is counted: if its window is full it is refused, and what fills
\* the window is in the minute before; else it is one more that was not refused.
LEMMA DueCounted ==
  ASSUME IInv, DueInv, NEW i \in Requests, NEW x \in RequestState,
         NEW s \in Stores, NEW k \in LimitKeys, req[i].pc = "limit",
         CountedOK(x), x.counted.key = k, x.counted.at = now,
         x.status = 429 => Count(counters[s][k]).count > Allowed[k[1]],
         counters' = [counters EXCEPT ![s] = [counters[s] EXCEPT ![k] = Count(counters[s][k])]],
         req' = [req EXCEPT ![i] = x], now' = now
  PROVE  DueInv'
<1> DEFINE w == counters[s][k]
           w2 == Count(w)
           n == Allowed[k[1]]
           g == [j \in Requests |-> IF j = i THEN x ELSE req[j]]
<1>1. /\ \A j \in Requests : req[j] \in RequestState /\ req[j].counted.at \in Nat
      /\ req = [j \in Requests |-> req[j]] /\ now \in Nat /\ w \in Windows
      /\ counters \in [Stores -> [LimitKeys -> Windows]]
      /\ req[i].counted.key \notin LimitKeys /\ req[i].status # 429
  BY DEF IInv, GatewayOK, RequestOK, RequestState, DueInv, CountedOK
<1>2. n \in Nat /\ n >= 1 /\ Window \in Nat /\ Window >= 1
  BY LimitAssumption DEF LimitKeys
<1>3. w2 \in Windows
  BY <1>1 DEF Count, Windows
<1>4. /\ counters' \in [Stores -> [LimitKeys -> Windows]]
      /\ counters'[s][k] = w2
      /\ \A z \in Stores, y \in LimitKeys : z # s \/ y # k => counters'[z][y] = counters[z][y]
  BY <1>1, <1>3
<1>5. req' = g /\ g \in [Requests -> RequestState] /\ g[i] = x
  BY <1>1
<1>6. \A j \in Requests : CountedOK(g[j]) /\ Lasts(req[j], g[j])
  BY <1>1 DEF DueInv, Lasts
<1>7. \A j \in Requests : j # i => g[j].status = req[j].status
  OBVIOUS
<1>8. /\ \A j \in Requests : Lasts(req[j], g[j])
      /\ \A j \in Requests : req[j].counted.at \in Nat
  BY <1>1, <1>6
<1> HIDE DEF g
<1>9. /\ w.started \in Nat /\ w.count \in Nat /\ w.started <= now
      /\ w.count <= Cardinality(Spent(req, k, w.started, now)) \/ n <= Cardinality(Spent(req, k, w.started, now))
  BY <1>1 DEF Windows, DueInv, WindowOK
<1>10. CASE x.status = 429
  <2> DEFINE a == w.started
             from == now - Window + 1
             old == Cardinality(Spent(req, k, a, now))
             new == Cardinality(Spent(g, k, a, now))
             due == Cardinality(Spent(g, k, from, now))
  <2>1. w2.count > n
    BY <1>10
  <2>2. now - w.started < Window /\ w2 = [started |-> w.started, count |-> w.count + 1]
    BY <1>1, <1>2, <1>9, <2>1 DEF Count
  <2>3. w2.started = w.started /\ n <= w.count
    BY <1>2, <1>9, <2>1, <2>2
  <2>4. n <= old
    <3>1. old \in Nat
      BY ProcessAssumption, FS_Subset, FS_CardinalityType DEF Spent
    <3>2. w.count <= old \/ n <= old
      BY <1>9
    <3> HIDE DEF old, w, n
    <3> QED BY <1>2, <1>9, <2>3, <3>1, <3>2
  <2>5. a \in Int /\ now \in Int /\ from \in Int /\ now <= now /\ a <= a /\ from <= a
    BY <1>1, <1>2, <1>9, <2>2
  <2>6. /\ old \in Nat /\ new \in Nat /\ old <= new
        /\ due \in Nat /\ old <= due
    <3> HIDE DEF a, from, w
    <3> QED BY <1>8, <2>5, Spending
  <2>7. n <= new /\ n <= due
    <3> HIDE DEF n, old, new, due
    <3> QED BY <1>2, <2>4, <2>6
  <2>8. DueOK(i)'
    BY <1>5, <2>7 DEF DueOK
  <2>9. w2.started <= now
    BY <1>9, <2>3
  <2>10. WindowOK(counters[s][k], k)'
    BY <1>4, <1>5, <2>3, <2>7, <2>9 DEF WindowOK
  <2>11. now' \in Nat /\ now <= now'
    BY <1>1
  <2>12. \A z \in Stores, y \in LimitKeys :
           counters'[z][y] = counters[z][y] \/ WindowOK(counters[z][y], y)'
    BY <1>4, <2>10
  <2>13. \A j \in Requests : g[j].status = 429 => req[j].status = 429 \/ DueOK(j)'
    BY <1>7, <2>8
  <2> QED BY <1>4, <1>5, <1>6, <2>11, <2>12, <2>13, Dues
<1>11. CASE x.status # 429
  <2> DEFINE a == w2.started
             old == Spent(req, k, a, now)
             new == Spent(g, k, a, now)
  <2>1. a \in Nat /\ a <= now /\ w2.count \in Nat
    BY <1>1, <1>3, <1>9 DEF Count, Windows
  <2>2. a \in Int /\ now \in Int /\ a <= a /\ now <= now
    BY <1>1, <2>1
  <2>3. old \subseteq new /\ IsFiniteSet(old) /\ IsFiniteSet(new)
        /\ Cardinality(old) \in Nat /\ Cardinality(new) \in Nat
    <3> HIDE DEF a
    <3>1. old \subseteq new
      BY <1>8 DEF Spent, Lasts
    <3>2. IsFiniteSet(new)
      BY ProcessAssumption, FS_Subset DEF Spent
    <3> HIDE DEF old, new
    <3> QED BY <3>1, <3>2, FS_Subset, FS_CardinalityType
  <2>4. i \in new /\ i \notin old
    BY <1>1, <1>5, <1>11, <2>1 DEF Spent
  <2>5. Cardinality(old) + 1 <= Cardinality(new)
    <3>1. Cardinality(old \cup {i}) = Cardinality(old) + 1
      BY <2>3, <2>4, FS_AddElement
    <3>2. old \cup {i} \subseteq new
      BY <2>3, <2>4
    <3> HIDE DEF old, new
    <3> QED BY <2>3, <3>1, <3>2, FS_Subset
  <2>6. w2.count <= Cardinality(old) + 1 \/ n <= Cardinality(old)
    <3>1. CASE w2.count = 1
      BY <2>3, <3>1
    <3>2. CASE a = w.started /\ w2.count = w.count + 1
      <4>1. w.count <= Cardinality(old) \/ n <= Cardinality(old)
        BY <1>9, <3>2
      <4> HIDE DEF old
      <4> QED BY <1>9, <2>3, <3>2, <4>1
    <3> QED BY <3>1, <3>2 DEF Count
  <2>7. w2.count <= Cardinality(new) \/ n <= Cardinality(new)
    <3> HIDE DEF old, new, n
    <3> QED BY <1>2, <2>1, <2>3, <2>5, <2>6
  <2>8. WindowOK(counters[s][k], k)'
    BY <1>4, <1>5, <2>1, <2>7 DEF WindowOK
  <2>9. now' \in Nat /\ now <= now'
    BY <1>1
  <2>10. \A z \in Stores, y \in LimitKeys :
           counters'[z][y] = counters[z][y] \/ WindowOK(counters[z][y], y)'
    BY <1>4, <2>8
  <2>11. \A j \in Requests : g[j].status = 429 => req[j].status = 429
    BY <1>5, <1>7, <1>11
  <2> QED BY <1>4, <1>5, <1>6, <2>9, <2>10, <2>11, Dues
<1> QED BY <1>10, <1>11

\* The limiter refuses a request only when the allowance of its key is spent.
LEMMA DueLimits ==
  ASSUME IInv, DueInv, NEW i \in Requests, Limit(i)
  PROVE  DueInv'
<1> DEFINE r == req[i]
           s == StoreOf(r.replica)
           k == Key(i)
           w == Count(counters[s][k])
<1>1. /\ RequestOK(r) /\ r \in RequestState /\ r.pc = "limit" /\ CountedOK(r)
      /\ r.route \in Routes /\ r.replica \in Replicas /\ r.client \in Clients
      /\ now \in Nat /\ now' = now
  BY DEF IInv, GatewayOK, RequestOK, Limit, DueInv
<1>2. CASE ClassOf(r.route) = {}
  <2> DEFINE status == 0
  <2>1. status \in Nat /\ status # 429 /\ req' = [req EXCEPT ![i] = Routed(i)] /\ UNCHANGED <<now, counters>>
    BY <1>2 DEF Limit
  <2> HIDE DEF status
  <2> QED BY <1>1, <2>1, DueAnswers
<1>3. ASSUME ClassOf(r.route) # {}
      PROVE  s \in Stores /\ k \in LimitKeys /\ ClassOf(r.route) = {k[1]} /\ r.client = k[2]
  <2>1. PICK c \in Classes : ClassOf(r.route) = {c}
    BY <1>3 DEF ClassOf, Classes
  <2>2. (CHOOSE d \in ClassOf(r.route) : TRUE) = c
    BY <2>1
  <2>3. k = <<c, r.client>>
    BY <2>2 DEF Key
  <2>4. s \in Stores
    BY <1>1 DEF StoreOf, Stores
  <2> HIDE DEF k, s
  <2> QED BY <1>1, <2>1, <2>3, <2>4 DEF LimitKeys
<1>4. ASSUME NEW a \in RequestState, NEW passed \in BOOLEAN, ClassOf(r.route) # {},
             a.pc \in {"routed", "answered"}, a.route = r.route, a.client = r.client,
             a.status = 429 => a.pc = "answered" /\ w.count > Allowed[k[1]],
             counters' = [counters EXCEPT ![s] = [counters[s] EXCEPT ![k] = w]],
             req' = [req EXCEPT ![i] = [a EXCEPT !.counted = [key |-> k, at |-> now, passed |-> passed]]]
      PROVE  DueInv'
  <2> DEFINE x == [a EXCEPT !.counted = [key |-> k, at |-> now, passed |-> passed]]
  <2>1. k \in LimitKeys /\ s \in Stores /\ ClassOf(r.route) = {k[1]} /\ r.client = k[2]
    BY <1>3, <1>4
  <2>2. /\ req' = [req EXCEPT ![i] = x] /\ (a.status = 429 => w.count > Allowed[k[1]])
        /\ counters' = [counters EXCEPT ![s] = [counters[s] EXCEPT ![k] = Count(counters[s][k])]]
    BY <1>4
  <2> HIDE DEF k, s
  <2>3. /\ x \in RequestState /\ x.pc = a.pc /\ x.route = a.route /\ x.client = a.client
        /\ x.status = a.status /\ x.counted.key = k /\ x.counted.at = now
    BY <1>1, <1>4, <2>1 DEF RequestState
  <2> HIDE DEF x
  <2>4. CountedOK(x)
    BY <1>1, <1>4, <2>1, <2>3 DEF CountedOK
  <2>5. /\ x \in RequestState /\ x.counted.key = k /\ x.counted.at = now
        /\ x.status = 429 => Count(counters[s][k]).count > Allowed[k[1]]
        /\ r.pc = "limit" /\ now' = now /\ k \in LimitKeys /\ s \in Stores
    BY <1>1, <2>1, <2>2, <2>3
  <2> HIDE DEF w
  <2> QED BY <2>2, <2>4, <2>5, DueCounted
<1>5. CASE ClassOf(r.route) # {} /\ Check(i)
  <2> DEFINE passed == w.count <= Allowed[k[1]]
             a == IF passed THEN Routed(i) ELSE Answer(i, 429)
  <2>1. /\ counters' = [counters EXCEPT ![s] = [counters[s] EXCEPT ![k] = w]]
        /\ req' = [req EXCEPT ![i] = [a EXCEPT !.counted = [key |-> k, at |-> now, passed |-> passed]]]
    BY <1>5 DEF Check
  <2>2. /\ a \in RequestState /\ a.pc \in {"routed", "answered"} /\ a.route = r.route /\ a.client = r.client
    BY Answers
  <2>3. passed \in BOOLEAN
    OBVIOUS
  <2>4. a.status = 429 => ~passed /\ a.pc = "answered"
    <3>1. r.status # 429
      BY <1>1 DEF CountedOK
    <3>2. Routed(i).status = r.status /\ Answer(i, 429).pc = "answered"
      BY <1>1 DEF Routed, Answer, RequestState
    <3> HIDE DEF passed
    <3> QED BY <3>1, <3>2
  <2>5. a.status = 429 => a.pc = "answered" /\ w.count > Allowed[k[1]]
    <3>1. w.count \in Nat /\ Allowed[k[1]] \in Nat
      <4>1. counters[s][k] \in Windows /\ Allowed[k[1]] \in Nat
        BY <1>3, <1>5, LimitAssumption DEF IInv, GatewayOK, LimitKeys
      <4> QED BY <4>1 DEF Count, Windows
    <3> HIDE DEF a, w, k
    <3> QED BY <2>4, <3>1
  <2> HIDE DEF a, passed
  <2> QED BY <1>4, <1>5, <2>1, <2>2, <2>3, <2>5
<1>6. CASE ClassOf(r.route) # {} /\ CheckFails(i)
  <2> DEFINE status == 503
             a == Answer(i, status)
  <2>1. s = "redis" /\ status \in Nat /\ status # 429
    BY <1>6 DEF CheckFails, StoreOf
  <2>2. CASE req' = [req EXCEPT ![i] = Answer(i, 503)] /\ UNCHANGED counters
    <3>1. req' = [req EXCEPT ![i] = Answer(i, status)] /\ UNCHANGED <<now, counters>>
      BY <1>1, <2>2
    <3> HIDE DEF status
    <3> QED BY <2>1, <3>1, DueAnswers
  <2>3. CASE /\ counters' = [counters EXCEPT !["redis"] =
                  [counters["redis"] EXCEPT ![Key(i)] = Count(counters["redis"][Key(i)])]]
             /\ req' = [req EXCEPT ![i] =
                  [Answer(i, 503) EXCEPT !.counted = [key |-> Key(i), at |-> now, passed |-> FALSE]]]
    <3> DEFINE passed == FALSE
    <3>1. /\ counters' = [counters EXCEPT ![s] = [counters[s] EXCEPT ![k] = w]]
          /\ req' = [req EXCEPT ![i] = [a EXCEPT !.counted = [key |-> k, at |-> now, passed |-> passed]]]
      BY <2>1, <2>3
    <3>2. a \in RequestState /\ a.pc \in {"routed", "answered"} /\ a.route = r.route /\ a.client = r.client
      BY Answers
    <3>3. a.status # 429
      BY <1>1 DEF Answer, RequestState
    <3>4. passed \in BOOLEAN
      OBVIOUS
    <3> HIDE DEF a, passed
    <3> QED BY <1>4, <1>6, <3>1, <3>2, <3>3, <3>4
  <2> QED BY <1>6, <2>2, <2>3 DEF CheckFails
<1> QED BY <1>2, <1>5, <1>6 DEF Limit

\* What was spent before a replica died stays spent.
LEMMA DueCrashes ==
  ASSUME IInv, DueInv, NEW replica \in Replicas, Crash(replica)
  PROVE  DueInv'
<1> DEFINE g == [i \in Requests |->
                   IF req[i].replica = replica /\ req[i].pc # "answered" THEN Answer(i, 0) ELSE req[i]]
<1>1. /\ req' = g /\ now' = now /\ now \in Nat
      /\ counters' = [counters EXCEPT ![replica] = [k \in LimitKeys |-> NoWindow]]
      /\ counters \in [Stores -> [LimitKeys -> Windows]]
  BY DEF IInv, GatewayOK, Crash
<1>2. NoWindow \in Windows
  BY DEF NoWindow, Windows
<1>3. /\ counters' \in [Stores -> [LimitKeys -> Windows]]
      /\ \A s \in Stores, k \in LimitKeys :
           counters'[s][k] = counters[s][k] \/ counters'[s][k] = NoWindow
  BY <1>1, <1>2 DEF Stores
<1>4. ASSUME NEW i \in Requests
      PROVE  /\ g[i] \in RequestState /\ CountedOK(g[i]) /\ Lasts(req[i], g[i])
             /\ g[i].status = 429 => req[i].status = 429
  <2> DEFINE a == Answer(i, 0)
  <2>1. /\ a \in RequestState /\ a.pc = "answered" /\ a.counted = req[i].counted
        /\ a.route = req[i].route /\ a.client = req[i].client /\ req[i] \in RequestState
    BY Answers
  <2>2. a.status = 0
    BY <2>1 DEF Answer, RequestState
  <2>3. g[i] = req[i] \/ g[i] = a
    OBVIOUS
  <2> HIDE DEF a, g
  <2> QED BY <2>1, <2>2, <2>3 DEF CountedOK, Lasts, DueInv
<1>5. g \in [Requests -> RequestState]
  BY <1>4
<1> HIDE DEF g
<1>6. now' \in Nat /\ now <= now'
  BY <1>1
<1> QED BY <1>1, <1>3, <1>4, <1>5, <1>6, Dues

\* Time passes, or nothing happens.
LEMMA DueTicks ==
  ASSUME IInv, DueInv, UNCHANGED <<counters, req>>, now' \in Nat, now <= now'
  PROVE  DueInv'
<1>1. /\ req = [i \in Requests |-> req[i]] /\ \A i \in Requests : req[i] \in RequestState
      /\ counters \in [Stores -> [LimitKeys -> Windows]]
  BY DEF IInv, GatewayOK, RequestOK
<1>2. req \in [Requests -> RequestState] /\ counters' \in [Stores -> [LimitKeys -> Windows]] /\ req' = req
  BY <1>1
<1>3. \A i \in Requests : CountedOK(req[i]) /\ Lasts(req[i], req[i])
  BY DEF DueInv, Lasts
<1> QED BY <1>2, <1>3, Dues

\* Whenever a request is refused, its class and client had spent their allowance.
THEOREM Refusing == Spec => []DueInv
<1>1. Init => DueInv
  <2> SUFFICES ASSUME Init PROVE DueInv
    OBVIOUS
  <2>1. \A i \in Requests : req[i].counted.key = <<>> /\ req[i].status = 0
    BY DEF Init, NewRequest, NotCounted
  <2>2. <<>> \notin LimitKeys
    BY DEF LimitKeys
  <2>3. ASSUME NEW s \in Stores, NEW k \in LimitKeys
        PROVE  WindowOK(counters[s][k], k)
    <3>1. counters[s][k].started = 0 /\ counters[s][k].count = 0 /\ now = 0
      BY DEF Init, Stores, NoWindow
    <3>2. Cardinality(Spent(req, k, 0, 0)) \in Nat
      BY ProcessAssumption, FS_Subset, FS_CardinalityType DEF Spent
    <3> QED BY <3>1, <3>2 DEF WindowOK
  <2> QED BY <2>1, <2>2, <2>3 DEF DueInv, CountedOK
<1>2. IInv /\ DueInv /\ [Next]_vars => DueInv'
  <2> SUFFICES ASSUME IInv, DueInv, [Next]_vars PROVE DueInv'
    OBVIOUS
  <2>1. ASSUME NEW i \in Requests, NEW route \in Routes, NEW replica \in Replicas,
               \/ TurnDown(i, route, replica)
               \/ \E client \in Clients : Arrive(i, route, replica, client)
        PROVE  DueInv'
    BY <2>1, DueArrives
  <2>2. ASSUME NEW i \in Requests, Handle(i) \/ TimeOut(i)
        PROVE  DueInv'
    <3>1. PICK status \in Nat : status # 429 /\ req' = [req EXCEPT ![i] = Answer(i, status)]
      BY <2>2 DEF Handle, TimeOut
    <3>2. UNCHANGED <<now, counters>>
      BY <2>2 DEF Handle, TimeOut
    <3> QED BY <3>1, <3>2, DueAnswers
  <2>3. ASSUME NEW i \in Requests, Limit(i)
        PROVE  DueInv'
    BY <2>3, DueLimits
  <2>4. ASSUME NEW replica \in Replicas, Crash(replica)
        PROVE  DueInv'
    BY <2>4, DueCrashes
  <2>5. Tick \/ UNCHANGED vars => DueInv'
    BY DueTicks DEF Tick, vars, IInv, GatewayOK
  <2> QED BY <2>1, <2>2, <2>3, <2>4, <2>5 DEF Next
<1> QED BY <1>1, <1>2, Counting, PTL DEF Spec

\* A 429 is due: the whole allowance of that class and client was spent in the
\* minute before, on requests that were not refused (increment_window, check).
THEOREM RefusalsDue == Spec => []RefusalsAreDue
<1>1. ASSUME IInv, DueInv, NEW i \in Requests, req[i].status = 429
      PROVE  \E class \in ClassOf(req[i].route) :
               Cardinality({j \in Requests :
                   /\ req[j].counted # NotCounted /\ req[j].status # 429
                   /\ class \in ClassOf(req[j].route) /\ req[j].client = req[i].client
                   /\ req[j].counted.at <= req[i].counted.at
                   /\ req[i].counted.at < req[j].counted.at + Window}) >= Allowed[class]
  <2> DEFINE c == req[i].counted
             k == c.key
             S == Spent(req, k, c.at - Window + 1, c.at)
             D == {j \in Requests :
                     /\ req[j].counted # NotCounted /\ req[j].status # 429
                     /\ k[1] \in ClassOf(req[j].route) /\ req[j].client = req[i].client
                     /\ req[j].counted.at <= req[i].counted.at
                     /\ req[i].counted.at < req[j].counted.at + Window}
  <2>1. k \in LimitKeys /\ ClassOf(req[i].route) = {k[1]} /\ req[i].client = k[2]
    BY <1>1 DEF DueInv, CountedOK
  <2>2. Allowed[k[1]] <= Cardinality(S)
    BY <1>1 DEF DueInv, DueOK
  <2>3. <<>> \notin LimitKeys
    BY DEF LimitKeys
  <2>4. \A j \in Requests : req[j].counted.at \in Nat
    BY <1>1 DEF IInv, RequestOK, RequestState
  <2>5. ASSUME NEW j \in S
        PROVE  j \in D
    <3>1. j \in Requests /\ req[j].counted.key = k /\ req[j].status # 429
          /\ c.at - Window + 1 <= req[j].counted.at /\ req[j].counted.at <= c.at
      BY <2>5 DEF Spent
    <3>2. ClassOf(req[j].route) = {k[1]} /\ req[j].client = k[2]
      BY <1>1, <2>1, <3>1 DEF DueInv, CountedOK
    <3>3. req[j].counted # NotCounted
      BY <2>1, <2>3, <3>1 DEF NotCounted
    <3>4. c.at < req[j].counted.at + Window
      BY <2>4, <3>1, LimitAssumption
    <3> QED BY <2>1, <3>1, <3>2, <3>3, <3>4
  <2>6. IsFiniteSet(D)
    BY ProcessAssumption, FS_Subset
  <2>7. Allowed[k[1]] \in Nat
    BY <2>1, LimitAssumption DEF LimitKeys
  <2>8. Cardinality(D) >= Allowed[k[1]]
    <3>1. S \subseteq D
      BY <2>5
    <3> HIDE DEF S, D, k
    <3>2. IsFiniteSet(S) /\ Cardinality(S) <= Cardinality(D)
      BY <2>6, <3>1, FS_Subset
    <3>3. Cardinality(S) \in Nat /\ Cardinality(D) \in Nat
      BY <2>6, <3>2, FS_CardinalityType
    <3> QED BY <2>2, <2>7, <3>2, <3>3
  <2>9. k[1] \in ClassOf(req[i].route)
    BY <2>1
  <2> QED BY <2>8, <2>9
<1>2. IInv /\ DueInv => RefusalsAreDue
  BY <1>1 DEF RefusalsAreDue
<1> QED BY <1>2, Counting, Refusing, PTL
=============================================================================
