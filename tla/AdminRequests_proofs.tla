------------------------ MODULE AdminRequests_proofs ------------------------
(***************************************************************************)
(* What the gateway guarantees of admin requests, for every number of      *)
(* them, every timeout and time to live, and every order in which keys     *)
(* come and go while refreshes overtake each other.                        *)
(***************************************************************************)
EXTENDS AdminRequests, TLAPS

Outcomes == {"success", "error", "rate_limited", "validation_failed", "not_found", "conflict"}
PCs == {"new", "auth", "fetch", "store", "reject", "admit", "handle", "upstream", "answered"}

RequestState ==
  [pc : PCs, route : Routes \cup {"none"}, token : Tokens \cup {NoToken}, deadline : Nat,
   keys : SUBSET Keys, renewed : BOOLEAN, accepted : Nat, status : Nat, upstream : Nat,
   delivered : BOOLEAN, audit : SUBSET [outcome : Outcomes, status : Nat]]

-----------------------------------------------------------------------------
(* The inductive invariant *)

\* Keys come once and go once.
ProviderOK ==
  /\ now \in Times
  /\ published \subseteq Keys
  /\ since \in [Keys -> 0..Never] /\ retired \in [Keys -> 0..Never]
  /\ \A k \in published : since[k] # Never /\ retired[k] = Never
  /\ \A k \in Keys : since[k] = Never => retired[k] = Never

\* The cached keys were the provider's no longer ago than a request may take.
CacheOK ==
  \A c \in jwks :
    /\ c.keys \subseteq Keys /\ c.fetched_at \in Times /\ c.fetched_at <= now
    /\ \A k \in c.keys : c.fetched_at <= retired[k] + AdminTimeout

\* A request under way is within its deadline.
Timely(r) ==
  r.pc \notin {"new", "answered"} => now <= r.deadline /\ r.deadline <= now + AdminTimeout

\* The keys it holds, and the one it was accepted for, were published when it
\* fetched them, or when those in the cache were.
KeysOK(r) ==
  /\ r.pc \in {"fetch", "store"} => r.token \in Tokens
  /\ r.pc = "store" =>
       /\ \A k \in r.keys : r.deadline <= retired[k] + AdminTimeout
       /\ \A k \in published \ r.keys : since[k] >= r.deadline - AdminTimeout
  /\ r.pc \in {"new", "auth", "fetch", "store"} => r.accepted = Never
  /\ r.accepted # Never =>
       /\ r.token \in Tokens /\ r.accepted <= now
       /\ r.accepted <= retired[r.token.kid] + JwksTtl + AdminTimeout
  /\ r.pc \notin {"reject", "answered"} => r.status = 0
  /\ r.pc = "answered" => r.token = NoToken
  /\ r.pc = "reject" /\ r.status = 401 /\ r.token # NoToken
       /\ r.token.valid /\ r.token.kid \in published
     => since[r.token.kid] >= r.deadline - AdminTimeout

\* Only a call that is made is delivered, only an answer is audited, and both
\* are true.
AuditOK(r) ==
  /\ r.delivered => r.pc \in {"upstream", "answered"}
  /\ r.upstream = 200 => r.delivered
  /\ r.audit # {} => r.pc = "answered"
  /\ r.pc # "answered" => r.status # 202
  /\ r.pc = "answered" => ToldTruly(r)

RequestOK(r) == r \in RequestState /\ Timely(r) /\ KeysOK(r) /\ AuditOK(r)

IInv ==
  /\ ProviderOK
  /\ CacheOK
  /\ req = [i \in DOMAIN req |-> req[i]]
  /\ \A i \in DOMAIN req : RequestOK(req[i])

-----------------------------------------------------------------------------
(* One request is replaced *)

\* What makes a request all right is its own, the time and the provider.
LEMMA Stands ==
  ASSUME NEW r, RequestOK(r), UNCHANGED <<now, provider>>
  PROVE  RequestOK(r)'
BY DEF RequestOK, RequestState, Timely, KeysOK, AuditOK, provider

LEMMA Replaces ==
  ASSUME IInv, NEW i \in DOMAIN req, NEW r, RequestOK(r),
         req' = [req EXCEPT ![i] = r], UNCHANGED <<now, provider>>, CacheOK'
  PROVE  IInv'
<1>1. ProviderOK'
  BY DEF IInv, ProviderOK, provider, Times
<1>2. /\ req' = [j \in DOMAIN req |-> IF j = i THEN r ELSE req[j]]
      /\ DOMAIN req' = DOMAIN req
  OBVIOUS
<1>3. req' = [j \in DOMAIN req' |-> req'[j]]
  BY <1>2
<1>4. ASSUME NEW j \in DOMAIN req'
      PROVE  RequestOK(req[j])'
  <2> DEFINE x == IF j = i THEN r ELSE req[j]
  <2>1. req'[j] = x /\ RequestOK(x)
    BY <1>2 DEF IInv
  <2> HIDE DEF x
  <2> QED BY <2>1 DEF RequestOK, RequestState, Timely, KeysOK, AuditOK, provider
<1> QED BY <1>1, <1>3, <1>4 DEF IInv

\* The cache stays as it is good.
LEMMA CacheStays ==
  ASSUME CacheOK, UNCHANGED <<now, provider, jwks>>
  PROVE  CacheOK'
BY DEF CacheOK, provider, Times

\* An answer says what became of the call, on record or without one.
MayAnswer(i, status) ==
  /\ status \in Nat \ {202}
  /\ req[i].delivered => status \in {0, 503}
MayRecord(i, status, outcome) ==
  /\ status \in Nat /\ outcome \in Outcomes
  /\ outcome = "success" <=> status = 202
  /\ status = 202 => req[i].delivered
  /\ req[i].delivered => status \in {202, 502}

LEMMA Answers ==
  ASSUME IInv, NEW i \in DOMAIN req, NEW status \in Nat
  PROVE  /\ MayAnswer(i, status) => RequestOK(Answer(i, status))
         /\ \A outcome : MayRecord(i, status, outcome) => RequestOK(Audited(Answer(i, status), outcome))
<1> DEFINE a == Answer(i, status)
<1>1. Never \in Nat /\ req[i] \in RequestState
  BY AdminAssumption DEF Never, IInv, RequestOK
<1>2. /\ a \in RequestState
      /\ a.pc = "answered" /\ a.token = NoToken /\ a.accepted = Never /\ a.status = status
      /\ a.delivered = req[i].delivered /\ a.audit = {} /\ a.upstream = 0
  BY <1>1 DEF Answer, NewRequest, RequestState, PCs
<1> HIDE DEF a
<1>3. ASSUME MayAnswer(i, status)
      PROVE  RequestOK(a)
  BY <1>2, <1>3 DEF MayAnswer, RequestOK, Timely, KeysOK, AuditOK, ToldTruly
<1>4. ASSUME NEW outcome, MayRecord(i, status, outcome)
      PROVE  RequestOK(Audited(a, outcome))
  <2> DEFINE b == Audited(a, outcome)
             entry == [outcome |-> outcome, status |-> status]
  <2>1. /\ b \in RequestState
        /\ b.pc = "answered" /\ b.token = NoToken /\ b.accepted = Never /\ b.status = status
        /\ b.delivered = req[i].delivered /\ b.audit = {entry} /\ b.upstream = 0
    BY <1>2, <1>4 DEF MayRecord, Audited, RequestState
  <2> HIDE DEF b
  <2>2. entry.outcome = outcome /\ entry.status = status
    OBVIOUS
  <2> HIDE DEF entry
  <2>3. RequestOK(b)
    BY <1>4, <2>1, <2>2 DEF MayRecord, RequestOK, Timely, KeysOK, AuditOK, ToldTruly
  <2> QED BY <2>3 DEF b
<1> QED BY <1>3, <1>4 DEF a

\* Going on to another step changes nothing else of a request.
LEMMA Goes ==
  ASSUME IInv, NEW i \in DOMAIN req, NEW pc \in PCs
  PROVE  LET g == Goto(i, pc)
             r == req[i]
         IN  /\ r \in RequestState /\ Timely(r) /\ KeysOK(r) /\ AuditOK(r)
             /\ g \in RequestState /\ g.pc = pc
             /\ g.route = r.route /\ g.token = r.token /\ g.deadline = r.deadline
             /\ g.keys = r.keys /\ g.renewed = r.renewed /\ g.accepted = r.accepted
             /\ g.status = r.status /\ g.upstream = r.upstream
             /\ g.delivered = r.delivered /\ g.audit = r.audit
BY DEF IInv, RequestOK, Goto, RequestState

\* A refusal is due: the key of a valid token is unknown only if it came late.
LEMMA Rejects ==
  ASSUME IInv, NEW i \in DOMAIN req, NEW status \in {401, 403, 503},
         req[i].pc \in {"auth", "fetch", "store"},
         status = 401 /\ req[i].token # NoToken
           /\ req[i].token.valid /\ req[i].token.kid \in published
         => since[req[i].token.kid] >= req[i].deadline - AdminTimeout
  PROVE  RequestOK(Reject(i, status))
<1> DEFINE g == Goto(i, "reject")
           x == Reject(i, status)
<1>1. /\ req[i] \in RequestState /\ Timely(req[i]) /\ KeysOK(req[i]) /\ AuditOK(req[i])
      /\ g \in RequestState /\ g.pc = "reject"
      /\ g.token = req[i].token /\ g.deadline = req[i].deadline /\ g.accepted = req[i].accepted
      /\ g.upstream = req[i].upstream /\ g.delivered = req[i].delivered /\ g.audit = req[i].audit
  BY Goes DEF PCs
<1>2. x = [g EXCEPT !.status = status, !.keys = {}] /\ status \in Nat
  BY DEF Reject
<1> HIDE DEF g, x
<1>3. /\ x \in RequestState /\ x.pc = "reject" /\ x.status = status
      /\ x.token = req[i].token /\ x.deadline = req[i].deadline /\ x.accepted = req[i].accepted
      /\ x.upstream = req[i].upstream /\ x.delivered = req[i].delivered /\ x.audit = req[i].audit
  BY <1>1, <1>2 DEF RequestState
<1>4. RequestOK(x)
  BY <1>1, <1>3 DEF RequestOK, Timely, KeysOK, AuditOK
<1> QED BY <1>4 DEF x

\* A token is accepted for a key that was published not long ago.
LEMMA Accepts ==
  ASSUME IInv, NEW i \in DOMAIN req, req[i].pc \in {"auth", "store"}, req[i].token \in Tokens,
         now <= retired[req[i].token.kid] + JwksTtl + AdminTimeout
  PROVE  RequestOK(Accept(i))
<1>1. CASE ~req[i].token.valid
  BY <1>1, Rejects DEF Accept
<1>2. CASE req[i].token.valid /\ ~req[i].token.admin
  BY <1>2, Rejects DEF Accept
<1>3. CASE req[i].token.valid /\ req[i].token.admin
  <2> DEFINE g == Goto(i, "admit")
             x == [g EXCEPT !.accepted = now, !.keys = {}]
  <2>1. /\ req[i] \in RequestState /\ Timely(req[i]) /\ KeysOK(req[i]) /\ AuditOK(req[i])
        /\ g \in RequestState /\ g.pc = "admit"
        /\ g.token = req[i].token /\ g.deadline = req[i].deadline /\ g.status = req[i].status
        /\ g.upstream = req[i].upstream /\ g.delivered = req[i].delivered /\ g.audit = req[i].audit
    BY Goes DEF PCs
  <2>2. Accept(i) = x
    BY <1>3 DEF Accept
  <2>3. now \in Nat
    BY DEF IInv, ProviderOK, Times
  <2> HIDE DEF g
  <2>4. /\ x \in RequestState /\ x.pc = "admit" /\ x.accepted = now
        /\ x.token = req[i].token /\ x.deadline = req[i].deadline /\ x.status = req[i].status
        /\ x.upstream = req[i].upstream /\ x.delivered = req[i].delivered /\ x.audit = req[i].audit
    BY <2>1, <2>3 DEF RequestState
  <2> HIDE DEF x
  <2>5. RequestOK(x)
    BY <2>1, <2>3, <2>4 DEF RequestOK, Timely, KeysOK, AuditOK
  <2> QED BY <2>2, <2>5
<1> QED BY <1>1, <1>2, <1>3

-----------------------------------------------------------------------------
(* The steps of a request *)

\* An answer, audited or not, touches nothing else.
LEMMA AnswerSteps ==
  ASSUME IInv, NEW i \in DOMAIN req, NEW status, MayAnswer(i, status),
         req' = [req EXCEPT ![i] = Answer(i, status)],
         UNCHANGED <<now, provider, jwks>>
  PROVE  IInv'
<1> DEFINE r == Answer(i, status)
<1>1. RequestOK(r)
  BY Answers DEF MayAnswer
<1>2. req' = [req EXCEPT ![i] = r] /\ CacheOK'
  BY CacheStays DEF IInv
<1> HIDE DEF r
<1> QED BY <1>1, <1>2, Replaces

LEMMA AuditSteps ==
  ASSUME IInv, NEW i \in DOMAIN req, NEW status, NEW outcome, MayRecord(i, status, outcome),
         req' = [req EXCEPT ![i] = Audited(Answer(i, status), outcome)],
         UNCHANGED <<now, provider, jwks>>
  PROVE  IInv'
<1> DEFINE r == Audited(Answer(i, status), outcome)
<1>1. RequestOK(r)
  BY Answers DEF MayRecord
<1>2. req' = [req EXCEPT ![i] = r] /\ CacheOK'
  BY CacheStays DEF IInv
<1> HIDE DEF r
<1> QED BY <1>1, <1>2, Replaces

LEMMA Arrives ==
  ASSUME IInv, NEW i \in DOMAIN req, NEW route \in Routes, NEW token \in Tokens \cup {NoToken},
         Arrive(i, route, token)
  PROVE  IInv'
<1> DEFINE x == [req[i] EXCEPT !.pc = "auth", !.route = route, !.token = token,
                               !.deadline = now + AdminTimeout]
<1>1. req[i] \in RequestState /\ KeysOK(req[i]) /\ AuditOK(req[i]) /\ req[i].pc = "new"
  BY DEF IInv, RequestOK, Arrive
<1>2. now \in Nat /\ now + AdminTimeout \in Nat
  BY AdminAssumption DEF IInv, ProviderOK, Times
<1>3. /\ x \in RequestState /\ x.pc = "auth" /\ x.deadline = now + AdminTimeout
      /\ x.accepted = req[i].accepted /\ x.status = req[i].status
      /\ x.upstream = req[i].upstream /\ x.delivered = req[i].delivered /\ x.audit = req[i].audit
  BY <1>1, <1>2 DEF RequestState, PCs
<1>4. req' = [req EXCEPT ![i] = x] /\ UNCHANGED <<now, provider, jwks>>
  BY DEF Arrive
<1> HIDE DEF x
<1>5. RequestOK(x)
  BY <1>1, <1>2, <1>3, AdminAssumption DEF RequestOK, Timely, KeysOK, AuditOK
<1> QED BY <1>4, <1>5, CacheStays, Replaces DEF IInv

\* The cached keys: the key is among them, or they are asked for.
LEMMA CachedKeysRead ==
  ASSUME IInv, NEW i \in DOMAIN req, ReadCachedKeys(i)
  PROVE  IInv'
<1>1. /\ req[i].pc = "auth" /\ req[i] \in RequestState
      /\ UNCHANGED <<now, provider, jwks>>
  BY DEF IInv, RequestOK, ReadCachedKeys
<1>2. CASE req[i].token = NoToken
  <2>1. req' = [req EXCEPT ![i] = Reject(i, 401)]
    BY <1>2 DEF ReadCachedKeys
  <2>2. RequestOK(Reject(i, 401))
    BY <1>1, <1>2, Rejects
  <2> QED BY <1>1, <2>1, <2>2, CacheStays, Replaces DEF IInv
<1>3. ASSUME req[i].token # NoToken, NEW c \in Fresh, req[i].token.kid \in c.keys
      PROVE  IInv'
  <2>1. req' = [req EXCEPT ![i] = Accept(i)]
    BY <1>3 DEF ReadCachedKeys
  <2>2. req[i].token \in Tokens
    BY <1>1, <1>3 DEF RequestState
  <2>3. /\ c.fetched_at \in Nat /\ now \in Nat /\ now - c.fetched_at <= JwksTtl
        /\ c.fetched_at <= retired[req[i].token.kid] + AdminTimeout
        /\ retired[req[i].token.kid] \in Nat
    BY <1>3, AdminAssumption DEF IInv, CacheOK, ProviderOK, Fresh, Times, Never
  <2>4. now <= retired[req[i].token.kid] + JwksTtl + AdminTimeout
    BY <2>3, AdminAssumption
  <2>5. RequestOK(Accept(i))
    BY <1>1, <2>2, <2>4, Accepts
  <2> QED BY <1>1, <2>1, <2>5, CacheStays, Replaces DEF IInv
<1>4. CASE req[i].token # NoToken /\ ~\E c \in Fresh : req[i].token.kid \in c.keys
  <2> DEFINE g == Goto(i, "fetch")
             x == [g EXCEPT !.renewed = Fresh # {}]
  <2>1. req' = [req EXCEPT ![i] = x]
    BY <1>4 DEF ReadCachedKeys
  <2>2. /\ Timely(req[i]) /\ KeysOK(req[i]) /\ AuditOK(req[i])
        /\ g \in RequestState /\ g.pc = "fetch"
        /\ g.token = req[i].token /\ g.deadline = req[i].deadline /\ g.accepted = req[i].accepted
        /\ g.status = req[i].status /\ g.upstream = req[i].upstream
        /\ g.delivered = req[i].delivered /\ g.audit = req[i].audit
    BY Goes DEF PCs
  <2> HIDE DEF g
  <2>3. /\ x \in RequestState /\ x.pc = "fetch"
        /\ x.token = req[i].token /\ x.deadline = req[i].deadline /\ x.accepted = req[i].accepted
        /\ x.status = req[i].status /\ x.upstream = req[i].upstream
        /\ x.delivered = req[i].delivered /\ x.audit = req[i].audit
    BY <2>2 DEF RequestState
  <2> HIDE DEF x
  <2>4. req[i].token \in Tokens
    BY <1>1, <1>4 DEF RequestState
  <2>5. RequestOK(x)
    BY <1>1, <2>2, <2>3, <2>4 DEF RequestOK, Timely, KeysOK, AuditOK
  <2> QED BY <1>1, <2>1, <2>5, CacheStays, Replaces DEF IInv
<1> QED BY <1>2, <1>3, <1>4

\* The keys that the provider publishes now are fetched, or nothing is.
LEMMA KeysFetched ==
  ASSUME IInv, NEW i \in DOMAIN req, FetchKeys(i)
  PROVE  IInv'
<1>1. req[i].pc = "fetch" /\ UNCHANGED <<now, provider, jwks>>
  BY DEF FetchKeys
<1>2. CASE req' = [req EXCEPT ![i] = Reject(i, 503)]
  <2> DEFINE x == Reject(i, 503)
  <2>1. RequestOK(x)
    BY <1>1, Rejects
  <2>2. CacheOK'
    BY <1>1, CacheStays DEF IInv
  <2>3. req' = [req EXCEPT ![i] = x]
    BY <1>2
  <2> HIDE DEF x
  <2> QED BY <1>1, <2>1, <2>2, <2>3, Replaces
<1>3. CASE req' = [req EXCEPT ![i] = [Goto(i, "store") EXCEPT !.keys = published]]
  <2> DEFINE g == Goto(i, "store")
             x == [g EXCEPT !.keys = published]
  <2>1. /\ Timely(req[i]) /\ KeysOK(req[i]) /\ AuditOK(req[i])
        /\ g \in RequestState /\ g.pc = "store"
        /\ g.token = req[i].token /\ g.deadline = req[i].deadline /\ g.accepted = req[i].accepted
        /\ g.status = req[i].status /\ g.upstream = req[i].upstream
        /\ g.delivered = req[i].delivered /\ g.audit = req[i].audit
    BY Goes DEF PCs
  <2> HIDE DEF g
  <2>2. published \subseteq Keys /\ now \in Nat /\ now <= MaxTime /\ \A k \in published : retired[k] = Never
    BY AdminAssumption DEF IInv, ProviderOK, Times
  <2>3. /\ x \in RequestState /\ x.pc = "store" /\ x.keys = published
        /\ x.token = req[i].token /\ x.deadline = req[i].deadline /\ x.accepted = req[i].accepted
        /\ x.status = req[i].status /\ x.upstream = req[i].upstream
        /\ x.delivered = req[i].delivered /\ x.audit = req[i].audit
    BY <2>1, <2>2 DEF RequestState
  <2> HIDE DEF x
  <2>4. \A k \in published : x.deadline <= retired[k] + AdminTimeout
    <3>1. x.deadline \in Nat /\ x.deadline <= now + AdminTimeout
      BY <1>1, <2>1, <2>3 DEF Timely, RequestState
    <3> QED BY <2>2, <3>1, AdminAssumption DEF Never
  <2>5. RequestOK(x)
    BY <1>1, <2>1, <2>3, <2>4 DEF RequestOK, Timely, KeysOK, AuditOK
  <2> QED BY <1>1, <1>3, <2>5, CacheStays, Replaces DEF IInv, x, g
<1> QED BY <1>2, <1>3 DEF FetchKeys

\* The cache is replaced by keys that were fetched within the timeout.
LEMMA KeysStored ==
  ASSUME IInv, NEW i \in DOMAIN req, StoreKeys(i)
  PROVE  IInv'
<1> DEFINE r == req[i]
<1>1. /\ r \in RequestState /\ Timely(r) /\ KeysOK(r) /\ AuditOK(r)
      /\ r.pc = "store" /\ r.token \in Tokens /\ r.token.kid \in Keys
      /\ now \in Times /\ now \in Nat /\ UNCHANGED <<now, provider>>
      /\ jwks' = {[keys |-> r.keys, fetched_at |-> now]}
  BY AdminAssumption DEF IInv, RequestOK, KeysOK, StoreKeys, ProviderOK, Times
<1>2. retired \in [Keys -> Nat] /\ since \in [Keys -> Nat] /\ r.keys \subseteq Keys /\ r.deadline \in Nat
  BY <1>1, AdminAssumption DEF IInv, ProviderOK, Never, RequestState
<1>3. \A k \in r.keys : now <= retired[k] + AdminTimeout
  BY <1>1, <1>2, AdminAssumption DEF Timely, KeysOK
<1>4. CacheOK'
  BY <1>1, <1>2, <1>3 DEF CacheOK, provider, Times
<1>5. CASE r.token.kid \in r.keys
  <2>1. req' = [req EXCEPT ![i] = Accept(i)]
    BY <1>5 DEF StoreKeys
  <2>2. now <= retired[r.token.kid] + JwksTtl + AdminTimeout
    BY <1>1, <1>2, <1>3, <1>5, AdminAssumption
  <2>3. RequestOK(Accept(i))
    BY <1>1, <2>2, Accepts
  <2> QED BY <1>1, <1>4, <2>1, <2>3, Replaces
<1>6. CASE r.token.kid \notin r.keys /\ r.renewed
  <2>1. req' = [req EXCEPT ![i] = Reject(i, 401)]
    BY <1>6 DEF StoreKeys
  <2>2. r.token.kid \in published => since[r.token.kid] >= r.deadline - AdminTimeout
    BY <1>1, <1>6 DEF KeysOK
  <2>3. RequestOK(Reject(i, 401))
    BY <1>1, <2>2, Rejects
  <2> QED BY <1>1, <1>4, <2>1, <2>3, Replaces
<1>7. CASE r.token.kid \notin r.keys /\ ~r.renewed
  <2> DEFINE g == Goto(i, "fetch")
             x == [g EXCEPT !.renewed = TRUE]
  <2>1. req' = [req EXCEPT ![i] = x]
    BY <1>7 DEF StoreKeys
  <2>2. /\ g \in RequestState /\ g.pc = "fetch"
        /\ g.token = r.token /\ g.deadline = r.deadline /\ g.accepted = r.accepted
        /\ g.status = r.status /\ g.upstream = r.upstream
        /\ g.delivered = r.delivered /\ g.audit = r.audit
    BY Goes DEF PCs
  <2> HIDE DEF g
  <2>3. /\ x \in RequestState /\ x.pc = "fetch"
        /\ x.token = r.token /\ x.deadline = r.deadline /\ x.accepted = r.accepted
        /\ x.status = r.status /\ x.upstream = r.upstream
        /\ x.delivered = r.delivered /\ x.audit = r.audit
    BY <2>2 DEF RequestState
  <2> HIDE DEF x
  <2>4. RequestOK(x)
    BY <1>1, <2>3 DEF RequestOK, Timely, KeysOK, AuditOK
  <2> QED BY <1>1, <1>4, <2>1, <2>4, Replaces
<1> QED BY <1>5, <1>6, <1>7

\* The limiter lets a request pass to its handler, or turns it down.
LEMMA Limits ==
  ASSUME IInv, NEW i \in DOMAIN req, LimitRejected(i) \/ LimitAdmin(i)
  PROVE  IInv'
<1>1. /\ req[i].pc \in {"reject", "admit"} /\ UNCHANGED <<now, provider, jwks>>
      /\ req[i] \in RequestState /\ Timely(req[i]) /\ ~req[i].delivered /\ req[i].status # 202
  BY DEF IInv, RequestOK, AuditOK, LimitRejected, LimitAdmin
<1>2. CASE LimitRejected(i)
  <2>1. PICK status \in {req[i].status, 429, 503} : req' = [req EXCEPT ![i] = Answer(i, status)]
    BY <1>2 DEF LimitRejected
  <2>2. req[i].status \in Nat \ {202}
    BY <1>1 DEF RequestState
  <2>3. MayAnswer(i, status)
    BY <1>1, <2>1, <2>2 DEF MayAnswer
  <2>4. UNCHANGED <<now, provider, jwks>> /\ req' = [req EXCEPT ![i] = Answer(i, status)]
    BY <1>1, <2>1
  <2> QED BY <2>3, <2>4, AnswerSteps
<1>3. CASE req' = [req EXCEPT ![i] = Pass(i)]
  <2> DEFINE x == Pass(i)
  <2>1. Never \in Nat
    BY AdminAssumption DEF Never
  <2>2. /\ x \in RequestState /\ x.pc = "handle" /\ x.deadline = req[i].deadline
        /\ x.accepted = Never /\ x.status = 0 /\ x.upstream = 0
        /\ x.delivered = FALSE /\ x.audit = {}
    BY <1>1, <2>1 DEF Pass, NewRequest, RequestState, PCs
  <2> HIDE DEF x
  <2>3. RequestOK(x)
    BY <1>1, <2>2 DEF RequestOK, Timely, KeysOK, AuditOK
  <2> QED BY <1>1, <1>3, <2>3, CacheStays, Replaces DEF IInv, x
<1>4. CASE req' = [req EXCEPT ![i] = Audited(Answer(i, 429), "rate_limited")]
  <2> DEFINE status == 429
             outcome == "rate_limited"
  <2>1. MayRecord(i, status, outcome)
    BY <1>1 DEF Outcomes, MayRecord
  <2>2. req' = [req EXCEPT ![i] = Audited(Answer(i, status), outcome)]
    BY <1>4
  <2> HIDE DEF status, outcome
  <2> QED BY <1>1, <2>1, <2>2, AuditSteps
<1>5. CASE req' = [req EXCEPT ![i] = Audited(Answer(i, 503), "error")]
  <2> DEFINE status == 503
             outcome == "error"
  <2>1. MayRecord(i, status, outcome)
    BY <1>1 DEF Outcomes, MayRecord
  <2>2. req' = [req EXCEPT ![i] = Audited(Answer(i, status), outcome)]
    BY <1>5
  <2> HIDE DEF status, outcome
  <2> QED BY <1>1, <2>1, <2>2, AuditSteps
<1> QED BY <1>2, <1>3, <1>4, <1>5 DEF LimitAdmin

\* Handlers that call nobody.
LEMMA Handles ==
  ASSUME IInv, NEW i \in DOMAIN req, HandleRead(i) \/ RefuseTrigger(i) \/ RefuseRequeue(i)
  PROVE  IInv'
<1>1. /\ req[i].pc = "handle" /\ UNCHANGED <<now, provider, jwks>> /\ ~req[i].delivered
  BY DEF IInv, RequestOK, AuditOK, HandleRead, RefuseTrigger, RefuseRequeue
<1>2. CASE HandleRead(i)
  <2>1. PICK status \in {200, 400, 503} :
          /\ req[i].route = "deep_health" =>
               status # 400 /\ (status = 200 => \A part \in Parts : Has(part))
          /\ req[i].route = "runs" /\ status = 200 => Has("database")
          /\ req' = [req EXCEPT ![i] = Answer(i, status)]
    BY <1>2, Zenon DEF HandleRead
  <2>2. MayAnswer(i, status) /\ req' = [req EXCEPT ![i] = Answer(i, status)]
    BY <1>1, <2>1 DEF MayAnswer
  <2> QED BY <1>1, <2>2, AnswerSteps
<1>3. ASSUME NEW status \in Nat \ {202}, NEW outcome \in Outcomes \ {"success"},
             req' = [req EXCEPT ![i] = Audited(Answer(i, status), outcome)]
      PROVE  IInv'
  <2>1. MayRecord(i, status, outcome)
    BY <1>1 DEF MayRecord
  <2> QED BY <1>1, <1>3, <2>1, AuditSteps
<1>4. (RefuseTrigger(i) \/ RefuseRequeue(i)) =>
        \E status \in Nat \ {202}, outcome \in Outcomes \ {"success"} :
          req' = [req EXCEPT ![i] = Audited(Answer(i, status), outcome)]
  <2> DEFINE Refused(status, outcome) == req' = [req EXCEPT ![i] = Audited(Answer(i, status), outcome)]
  <2>1. RefuseTrigger(i) => Refused(400, "validation_failed") \/ Refused(503, "error")
    BY DEF RefuseTrigger
  <2>2. RefuseRequeue(i) =>
          \/ Refused(400, "validation_failed") \/ Refused(503, "error")
          \/ \E refusal \in {<<404, "not_found">>, <<409, "conflict">>, <<422, "validation_failed">>,
                              <<500, "error">>} :
               Refused(refusal[1], refusal[2])
    BY Zenon DEF RefuseRequeue
  <2> HIDE DEF Refused
  <2>3. RefuseRequeue(i) =>
          \/ Refused(400, "validation_failed") \/ Refused(503, "error")
          \/ Refused(404, "not_found") \/ Refused(409, "conflict") \/ Refused(422, "validation_failed")
          \/ Refused(500, "error")
    BY <2>2
  <2>4. (RefuseTrigger(i) \/ RefuseRequeue(i)) =>
          \E status \in Nat \ {202}, outcome \in Outcomes \ {"success"} : Refused(status, outcome)
    BY <2>1, <2>3 DEF Outcomes
  <2> QED BY <2>4 DEF Refused
<1> QED BY <1>2, <1>3, <1>4

\* A write calls its upstream, which may answer, and is told what it answered.
LEMMA Writes ==
  ASSUME IInv, NEW i \in DOMAIN req,
         \/ CallUpstream(i) \/ IngestReceives(i) \/ QueueReceives(i) \/ FinishWrite(i)
  PROVE  IInv'
<1>1. /\ req[i].pc \in {"handle", "upstream"} /\ UNCHANGED <<now, provider, jwks>>
      /\ req[i] \in RequestState /\ Timely(req[i]) /\ KeysOK(req[i]) /\ AuditOK(req[i])
  BY DEF IInv, RequestOK, CallUpstream, IngestReceives, QueueReceives, FinishWrite
<1>2. CASE CallUpstream(i)
  <2> DEFINE x == Goto(i, "upstream")
  <2>1. /\ x \in RequestState /\ x.pc = "upstream"
        /\ x.token = req[i].token /\ x.deadline = req[i].deadline /\ x.accepted = req[i].accepted
        /\ x.status = req[i].status /\ x.upstream = req[i].upstream
        /\ x.delivered = req[i].delivered /\ x.audit = req[i].audit
    BY Goes DEF PCs
  <2>2. req' = [req EXCEPT ![i] = x]
    BY <1>2 DEF CallUpstream
  <2> HIDE DEF x
  <2>3. RequestOK(x)
    BY <1>1, <2>1 DEF RequestOK, Timely, KeysOK, AuditOK
  <2> QED BY <1>1, <2>2, <2>3, CacheStays, Replaces DEF IInv
<1>3. ASSUME NEW status \in Nat, NEW delivered \in BOOLEAN, req[i].pc = "upstream",
             status = 200 => delivered,
             req' = [req EXCEPT ![i] = [req[i] EXCEPT !.upstream = status, !.delivered = delivered]]
      PROVE  IInv'
  <2> DEFINE x == [req[i] EXCEPT !.upstream = status, !.delivered = delivered]
  <2>1. /\ x \in RequestState /\ x.pc = "upstream" /\ x.upstream = status /\ x.delivered = delivered
        /\ x.token = req[i].token /\ x.deadline = req[i].deadline /\ x.accepted = req[i].accepted
        /\ x.status = req[i].status /\ x.audit = req[i].audit
    BY <1>1, <1>3 DEF RequestState
  <2>2. req' = [req EXCEPT ![i] = x]
    BY <1>3
  <2> HIDE DEF x
  <2>3. RequestOK(x)
    BY <1>1, <1>3, <2>1 DEF RequestOK, Timely, KeysOK, AuditOK
  <2> QED BY <1>1, <2>2, <2>3, CacheStays, Replaces DEF IInv
<1>4. CASE IngestReceives(i)
  <2>1. PICK g \in gateway, s \in ingest : \E status \in IngestAnswers(g.auth, s.auth) :
          req' = [req EXCEPT ![i] = [req[i] EXCEPT !.upstream = status,
                                                   !.delivered = req[i].delivered \/ status = 200]]
    BY <1>4, Zenon DEF IngestReceives
  <2>1a. PICK status \in IngestAnswers(g.auth, s.auth) :
          req' = [req EXCEPT ![i] = [req[i] EXCEPT !.upstream = status,
                                                   !.delivered = req[i].delivered \/ status = 200]]
    BY <2>1
  <2> DEFINE delivered == req[i].delivered \/ status = 200
  <2>2. status \in Nat
    BY DEF IngestAnswers
  <2>3. delivered \in BOOLEAN /\ (status = 200 => delivered)
    OBVIOUS
  <2>4. req[i].pc = "upstream"
    BY <1>4 DEF IngestReceives
  <2>5. req' = [req EXCEPT ![i] = [req[i] EXCEPT !.upstream = status, !.delivered = delivered]]
    BY <2>1a
  <2> HIDE DEF delivered
  <2> QED BY <1>3, <2>2, <2>3, <2>4, <2>5
<1>5. CASE QueueReceives(i)
  <2>1. 200 \in Nat /\ TRUE \in BOOLEAN /\ req[i].pc = "upstream"
    BY <1>5 DEF QueueReceives
  <2>2. req' = [req EXCEPT ![i] = [req[i] EXCEPT !.upstream = 200, !.delivered = TRUE]]
    BY <1>5 DEF QueueReceives
  <2> QED BY <1>3, <2>1, <2>2
<1>6. CASE FinishWrite(i)
  <2>1. ASSUME req[i].upstream = 200, req' = [req EXCEPT ![i] = Audited(Answer(i, 202), "success")]
        PROVE  IInv'
    <3> DEFINE status == 202
               outcome == "success"
    <3>1. MayRecord(i, status, outcome)
      BY <1>1, <2>1 DEF Outcomes, AuditOK, MayRecord
    <3>2. req' = [req EXCEPT ![i] = Audited(Answer(i, status), outcome)]
      BY <2>1
    <3> HIDE DEF status, outcome
    <3> QED BY <1>1, <3>1, <3>2, AuditSteps
  <2>2. ASSUME req' = [req EXCEPT ![i] = Audited(Answer(i, 502), "error")]
        PROVE  IInv'
    <3> DEFINE status == 502
               outcome == "error"
    <3>1. MayRecord(i, status, outcome)
      BY DEF Outcomes, MayRecord
    <3>2. req' = [req EXCEPT ![i] = Audited(Answer(i, status), outcome)]
      BY <2>2
    <3> HIDE DEF status, outcome
    <3> QED BY <1>1, <3>1, <3>2, AuditSteps
  <2> QED BY <1>6, <2>1, <2>2, Zenon DEF FinishWrite
<1> QED BY <1>2, <1>4, <1>5, <1>6

\* Every step of a request keeps the invariant.
LEMMA RequestSteps ==
  ASSUME IInv, NEW i \in DOMAIN req, RequestStep(i)
  PROVE  IInv'
<1>1. CASE TimeOut(i)
  <2> DEFINE status == 503
  <2>1. /\ MayAnswer(i, status) /\ UNCHANGED <<now, provider, jwks>>
        /\ req' = [req EXCEPT ![i] = Answer(i, status)]
    BY <1>1 DEF TimeOut, MayAnswer
  <2> HIDE DEF status
  <2> QED BY <2>1, AnswerSteps
<1> QED
  BY <1>1, CachedKeysRead, KeysFetched, KeysStored, Limits, Handles, Writes DEF RequestStep

-----------------------------------------------------------------------------
(* The environment *)

\* A key that comes is nobody's yet.
LEMMA KeyPublished ==
  ASSUME IInv, NEW k \in Keys, PublishKey(k)
  PROVE  IInv'
<1>1. /\ now \in Nat /\ now <= MaxTime /\ since \in [Keys -> 0..Never]
      /\ UNCHANGED <<now, retired, jwks, req>>
      /\ published' = published \cup {k} /\ since' = [since EXCEPT ![k] = now]
      /\ since[k] = Never /\ retired[k] = Never /\ k \notin published
  BY AdminAssumption DEF IInv, ProviderOK, PublishKey, Times
<1>2. since' \in [Keys -> 0..Never] /\ since'[k] = now /\ now # Never
      /\ \A j \in Keys : j # k => since'[j] = since[j]
  BY <1>1, AdminAssumption DEF Never
<1>3. ProviderOK'
  BY <1>1, <1>2 DEF IInv, ProviderOK, Times
<1>4. CacheOK'
  BY <1>1 DEF IInv, CacheOK, Times
<1>5. ASSUME NEW j \in DOMAIN req'
      PROVE  RequestOK(req[j])'
  <2> DEFINE r == req[j]
  <2>1. req'[j] = r /\ RequestOK(r)
    BY <1>1 DEF IInv
  <2>2. r.accepted # Never => r.token.kid \in Keys
    BY <2>1, AdminAssumption DEF RequestOK, KeysOK
  <2>3. r.pc \in {"fetch", "store"} => r.keys \subseteq Keys
    BY <2>1 DEF RequestOK, RequestState
  <2> HIDE DEF r
  <2> QED
    BY <1>1, <1>2, <2>1, <2>2, <2>3, AdminAssumption
    DEF RequestOK, RequestState, Timely, KeysOK, AuditOK
<1> QED BY <1>1, <1>3, <1>4, <1>5 DEF IInv

\* A key that goes was there until now.
LEMMA KeyRetired ==
  ASSUME IInv, NEW k \in Keys, RetireKey(k)
  PROVE  IInv'
<1>1. /\ now \in Nat /\ now <= MaxTime /\ retired \in [Keys -> 0..Never] /\ since \in [Keys -> 0..Never]
      /\ UNCHANGED <<now, since, jwks, req>>
      /\ published' = published \ {k} /\ retired' = [retired EXCEPT ![k] = now]
      /\ since[k] # Never /\ retired[k] = Never /\ k \in published
  BY AdminAssumption DEF IInv, ProviderOK, RetireKey, Times
<1>2. retired' \in [Keys -> 0..Never] /\ retired'[k] = now /\ now # Never
      /\ \A j \in Keys : j # k => retired'[j] = retired[j]
  BY <1>1, AdminAssumption DEF Never
<1>3. ProviderOK'
  BY <1>1, <1>2 DEF IInv, ProviderOK, Times
<1>4. CacheOK'
  BY <1>1, <1>2, AdminAssumption DEF IInv, CacheOK, Times
<1>5. ASSUME NEW j \in DOMAIN req'
      PROVE  RequestOK(req[j])'
  <2> DEFINE r == req[j]
  <2>1. req'[j] = r /\ RequestOK(r)
    BY <1>1 DEF IInv
  <2>2. r.accepted # Never => r.token.kid \in Keys
    BY <2>1, AdminAssumption DEF RequestOK, KeysOK
  <2>3. r.keys \subseteq Keys /\ r.deadline \in Nat /\ r.accepted \in Nat
    BY <2>1 DEF RequestOK, RequestState
  <2> HIDE DEF r
  <2> QED
    BY <1>1, <1>2, <2>1, <2>2, <2>3, AdminAssumption
    DEF RequestOK, RequestState, Timely, KeysOK, AuditOK
<1> QED BY <1>1, <1>3, <1>4, <1>5 DEF IInv

\* The cache and what is under way die with the gateway.
LEMMA Crashes ==
  ASSUME IInv, Crash
  PROVE  IInv'
<1>1. ProviderOK' /\ CacheOK' /\ UNCHANGED <<now, provider>>
  BY DEF IInv, Crash, ProviderOK, CacheOK, provider, Times
<1>2. /\ req' = [i \in DOMAIN req |->
                   IF req[i].pc \in {"new", "answered"} THEN req[i] ELSE Answer(i, 0)]
      /\ DOMAIN req' = DOMAIN req
  BY DEF Crash
<1>3. req' = [j \in DOMAIN req' |-> req'[j]]
  BY <1>2
<1>4. ASSUME NEW j \in DOMAIN req'
      PROVE  RequestOK(req[j])'
  <2> DEFINE x == IF req[j].pc \in {"new", "answered"} THEN req[j] ELSE Answer(j, 0)
  <2>1. RequestOK(Answer(j, 0))
    BY <1>2, Answers DEF MayAnswer
  <2>2. req'[j] = x /\ RequestOK(x)
    BY <1>2, <2>1 DEF IInv
  <2> HIDE DEF x
  <2> QED BY <1>1, <2>2 DEF RequestOK, RequestState, Timely, KeysOK, AuditOK, provider
<1> QED BY <1>1, <1>3, <1>4 DEF IInv

\* Nothing that is due is left behind.
LEMMA Ticks ==
  ASSUME IInv, Tick
  PROVE  IInv'
<1>1. /\ now \in Nat /\ now < MaxTime /\ now' = now + 1 /\ UNCHANGED <<provider, jwks, req>>
      /\ \A i \in DOMAIN req : req[i].pc \notin {"new", "answered"} => now # req[i].deadline
  BY DEF IInv, ProviderOK, Tick, Times
<1>2. ProviderOK' /\ CacheOK'
  BY <1>1, AdminAssumption DEF IInv, ProviderOK, CacheOK, provider, Times, Never
<1>3. ASSUME NEW j \in DOMAIN req'
      PROVE  RequestOK(req[j])'
  <2> DEFINE r == req[j]
  <2>1. req'[j] = r /\ RequestOK(r) /\ (r.pc \notin {"new", "answered"} => now # r.deadline)
    BY <1>1 DEF IInv
  <2>2. r.deadline \in Nat /\ r.accepted \in Nat
    BY <2>1 DEF RequestOK, RequestState
  <2> HIDE DEF r
  <2> QED
    BY <1>1, <2>1, <2>2, AdminAssumption
    DEF RequestOK, RequestState, Timely, KeysOK, AuditOK, provider, Never
<1> QED BY <1>1, <1>2, <1>3 DEF IInv

\* Steps that change none of it.
LEMMA Unmoved ==
  ASSUME IInv, UNCHANGED <<now, provider, jwks, req>>
  PROVE  IInv'
BY DEF IInv, ProviderOK, CacheOK, RequestOK, RequestState, Timely, KeysOK, AuditOK, provider, Times

-----------------------------------------------------------------------------
(* The theorems *)

\* The invariant holds when the services have not started yet.
LEMMA InitOK == Init => IInv
<1> SUFFICES ASSUME Init PROVE IInv
  OBVIOUS
<1>1. ProviderOK /\ CacheOK
  BY AdminAssumption DEF Init, ProviderOK, CacheOK, Times, Never
<1>2. PICK d \in Deployments : req = [i \in d[3] |-> NewRequest]
  BY DEF Init
<1>3. RequestOK(NewRequest)
  <2>1. Never \in Nat
    BY AdminAssumption DEF Never
  <2> QED
    BY <2>1 DEF NewRequest, RequestOK, RequestState, Timely, KeysOK, AuditOK, PCs
<1>4. DOMAIN req = d[3] /\ \A i \in DOMAIN req : req[i] = NewRequest
  BY <1>2
<1>5. req = [i \in DOMAIN req |-> req[i]]
  BY <1>2, <1>4
<1> QED BY <1>1, <1>3, <1>4, <1>5 DEF IInv

\* Every step keeps it.
LEMMA NextOK == IInv /\ [Next]_vars => IInv'
<1> SUFFICES ASSUME IInv, [Next]_vars PROVE IInv'
  OBVIOUS
<1>1. CASE Start
  BY <1>1, Unmoved DEF Start
<1>2. ASSUME NEW i \in DOMAIN req, TurnDown(i)
      PROVE  IInv'
  <2> DEFINE status == 400
  <2>1. /\ MayAnswer(i, status) /\ UNCHANGED <<now, provider, jwks>>
        /\ req' = [req EXCEPT ![i] = Answer(i, status)]
    BY <1>2 DEF TurnDown, MayAnswer, IInv, RequestOK, AuditOK
  <2> HIDE DEF status
  <2> QED BY <2>1, AnswerSteps
<1>3. ASSUME NEW i \in DOMAIN req, NEW route \in Routes, NEW token \in Tokens \cup {NoToken},
             Arrive(i, route, token)
      PROVE  IInv'
  BY <1>3, Arrives
<1>4. ASSUME NEW i \in DOMAIN req, RequestStep(i)
      PROVE  IInv'
  BY <1>4, RequestSteps
<1>5. ASSUME NEW k \in Keys, PublishKey(k) \/ RetireKey(k)
      PROVE  IInv'
  BY <1>5, KeyPublished, KeyRetired
<1>6. CASE Crash
  BY <1>6, Crashes
<1>7. CASE Tick
  BY <1>7, Ticks
<1>8. CASE UNCHANGED vars
  BY <1>8, Unmoved DEF vars, provider
<1> QED BY <1>1, <1>2, <1>3, <1>4, <1>5, <1>6, <1>7, <1>8 DEF Next

\* In every state, the cached keys, the requests under way and the audit records
\* agree with what the identity provider published and the upstream was sent.
THEOREM Invariance == Spec => []IInv
BY InitOK, NextOK, PTL DEF Spec

\* A retired key is accepted no longer than the cache's time to live and a
\* request's timeout, however refreshes overtake each other (cached_jwks,
\* refresh_jwks).
THEOREM KeysFade == Spec => []RetiredKeysFade
<1>1. IInv => RetiredKeysFade
  BY DEF IInv, RequestOK, KeysOK, RetiredKeysFade
<1> QED BY <1>1, Invariance, PTL

\* No valid token is refused for a key that was published before the request came
\* (authenticate_with_role).
THEOREM KeysKnown == Spec => []CurrentKeysAreKnown
<1>1. IInv => CurrentKeysAreKnown
  BY DEF IInv, RequestOK, KeysOK, CurrentKeysAreKnown
<1> QED BY <1>1, Invariance, PTL

\* A write that was refused had no effect, one that was accepted had it, and the
\* trail agrees with the answer; what it misses was answered with 503, or by
\* nobody (trigger_ingest, requeue_processing_item, request_context).
THEOREM AnswersHold == Spec => []AnswersAreTrue
<1>1. IInv => AnswersAreTrue
  BY DEF IInv, RequestOK, AuditOK, AnswersAreTrue
<1> QED BY <1>1, Invariance, PTL

-----------------------------------------------------------------------------
(* What the two services make of the environment they both read *)

\* Every parser of a variable has the same default.
LEMMA ParsersAgree ==
  ASSUME NEW env
  PROVE  /\ Gateway(env).internal_service_auth = Ingest(env).internal_admin_auth
         /\ Ingest(env).queue = Processing(env).queue
         /\ \A q \in Gateway(env).processing_queue : q.queue = Processing(env).queue
         /\ \A s \in Gateway(env).tile_manifest_storage :
              s.container = Processing(env).tiles_container
<1>1. Gateway(env).internal_service_auth = Ingest(env).internal_admin_auth
  BY DEF Gateway, Ingest, ServiceAuth, InternalAdminAuth
<1>2. Ingest(env).queue = Processing(env).queue
  BY DEF Ingest, Processing
<1>3. \A q \in Gateway(env).processing_queue : q.queue = Processing(env).queue
  BY DEF Gateway, ProcessingQueue, Processing
<1>4. \A s \in Gateway(env).tile_manifest_storage : s.container = Processing(env).tiles_container
  BY DEF Gateway, TileManifestStorage, Processing
<1> QED BY <1>1, <1>2, <1>3, <1>4

\* In staging and prod a gateway that can trigger has a token to send.
LEMMA TriggerHasToken ==
  ASSUME NEW env, RequiresMore(RuntimeEnvironment(env)), GatewayAccepts(env),
         "ingest_admin" \in Wired(Gateway(env))
  PROVE  Gateway(env).internal_service_auth # {}
<1>1. env["INGEST_SERVICE_BASE_URL"] # {}
  BY DEF Wired, Gateway
<1>2. Unset(env, {"INTERNAL_SERVICE_AUTH_TOKEN"}) = {}
  BY <1>1 DEF GatewayAccepts, GatewayMissing, IsSet
<1>3. PICK token : token \in env["INTERNAL_SERVICE_AUTH_TOKEN"]
  BY <1>2 DEF Unset, IsSet
<1> QED BY <1>3 DEF Gateway, ServiceAuth

\* A part that is configured has a client, if and only if no value is unfit.
LEMMA ReadyHasClients ==
  ASSUME NEW env, Gateway(env).runtime_environment # "local", Unavailable(Gateway(env), TRUE) = {}
  PROVE  Wired(Gateway(env)) = Parts <=> Unfit(env) = {}
<1> DEFINE config == Gateway(env)
           endpoint == IF IsSet(env, "AZURE_STORAGE_EMULATOR_HOST") THEN "AZURE_STORAGE_EMULATOR_HOST"
                       ELSE "AZURE_STORAGE_ACCOUNT"
           clientFor(part) ==
             /\ part = "database" => ~IsMalformed(env["DATABASE_URL"])
             /\ part \in {"tile_manifest_storage", "processing_queue"} => ~IsMalformed(env[endpoint])
             /\ part = "ingest_admin" => Unprintable \notin env["INTERNAL_SERVICE_AUTH_TOKEN"]
             /\ part = "processing_queue" => ~IsMalformed(env["AZURE_QUEUE_NAME"])
<1>1. \A part \in Parts : config[part] # {}
  BY DEF Unavailable
<1>2. /\ config.database = env["DATABASE_URL"]
      /\ config.emulator = env["AZURE_STORAGE_EMULATOR_HOST"]
      /\ config.account = env["AZURE_STORAGE_ACCOUNT"]
      /\ config.processing_queue = ProcessingQueue(env)
      /\ config.internal_service_auth = ServiceAuth(env)
  BY DEF Gateway
<1>3. EndpointParses(config) <=> ~IsMalformed(env[endpoint])
  BY <1>2 DEF EndpointParses, IsSet
<1> HIDE DEF config
<1>4. (\A q \in config.processing_queue : q.queue # Malformed)
        <=> ~IsMalformed(env["AZURE_QUEUE_NAME"])
  <2> DEFINE name == OrDefault(env, "AZURE_QUEUE_NAME", "viirs-processing")
  <2>1. ProcessingQueue(env) # {}
    BY <1>1, <1>2 DEF Parts
  <2>2. ProcessingQueue(env) = {[queue |-> name]}
    BY <2>1 DEF ProcessingQueue
  <2>3. name = Malformed <=> IsMalformed(env["AZURE_QUEUE_NAME"])
    BY DEF OrDefault, IsSet, IsMalformed, Malformed
  <2> HIDE DEF name
  <2> QED BY <1>2, <2>2, <2>3
<1>5. (\A auth \in config.internal_service_auth : auth.token # Unprintable)
        <=> Unprintable \notin env["INTERNAL_SERVICE_AUTH_TOKEN"]
  <2> DEFINE header == OrDefault(env, "INTERNAL_SERVICE_AUTH_HEADER", "x-lumenhorizon-internal-token")
             tokens == env["INTERNAL_SERVICE_AUTH_TOKEN"]
  <2>1. config.internal_service_auth = {[header |-> header, token |-> token] : token \in tokens}
    BY <1>2 DEF ServiceAuth
  <2> HIDE DEF header, tokens
  <2>2. (\A auth \in config.internal_service_auth : auth.token # Unprintable)
          <=> \A token \in tokens : token # Unprintable
    <3>1. ASSUME NEW token \in tokens, \A auth \in config.internal_service_auth : auth.token # Unprintable
          PROVE  token # Unprintable
      <4> DEFINE a == [header |-> header, token |-> token]
      <4>1. a \in config.internal_service_auth /\ a.token = token
        BY <2>1
      <4> QED BY <3>1, <4>1
    <3>2. ASSUME NEW auth \in config.internal_service_auth, \A token \in tokens : token # Unprintable
          PROVE  auth.token # Unprintable
      <4>1. PICK token \in tokens : auth = [header |-> header, token |-> token]
        BY <2>1
      <4> QED BY <3>2, <4>1
    <3> QED BY <3>1, <3>2
  <2> QED BY <2>2, Zenon DEF tokens
<1>6. Wired(config) = {part \in Parts : clientFor(part)}
  <2> QED BY <1>1, <1>2, <1>3, <1>4, <1>5 DEF Wired
<1>7. Unfit(env) = {} <=> /\ ~IsMalformed(env["DATABASE_URL"])
                         /\ ~IsMalformed(env["AZURE_QUEUE_NAME"])
                         /\ ~IsMalformed(env[endpoint])
                         /\ Unprintable \notin env["INTERNAL_SERVICE_AUTH_TOKEN"]
  <2> HIDE DEF endpoint
  <2>1. Unfit(env) = {n \in {"DATABASE_URL", "AZURE_QUEUE_NAME", endpoint} : IsMalformed(env[n])}
                       \cup {n \in {"INTERNAL_SERVICE_AUTH_TOKEN"} : Unprintable \in env[n]}
    BY DEF Unfit, endpoint
  <2> QED BY <2>1
<1> HIDE DEF endpoint
<1>8. Wired(config) = Parts <=> \A part \in Parts : clientFor(part)
  BY <1>6
<1>9. (\A part \in Parts : clientFor(part)) <=> Unfit(env) = {}
  BY <1>7 DEF Parts
<1> QED BY <1>8, <1>9 DEF config

-----------------------------------------------------------------------------
(* The credentials both services run with *)

\* Services of one environment have one token and one header, and ingest-svc lets
\* a trigger in just if it reads them.
Understood(i) ==
  \A s \in ingest :
    \/ \E a \in s.auth : a.header \in FramingHeaders
    \/ /\ req[i].upstream \in {401, 403} => \E a \in s.auth : ~Readable(a)
       /\ req[i].upstream = 200 /\ req[i].route = "trigger"
            => s.auth = {} \/ \E a \in s.auth : Readable(a)

CredentialsOK ==
  /\ alike \in BOOLEAN
  /\ alike => /\ \A d \in deployed : d[1] = d[2]
              /\ \A g \in gateway, s \in ingest : g.auth = s.auth
              /\ \A i \in DOMAIN req : Understood(i)
  /\ deployed # {} => gateway = {} /\ \A i \in DOMAIN req : req[i] = NewRequest

\* A step of a request hears of its upstream what it has heard before, or that the
\* queue has the message.
Heard(i, r) ==
  /\ r.upstream \in {0, 200, req[i].upstream}
  /\ r.upstream = 200 /\ r.route = "trigger" => req[i].upstream = 200 /\ req[i].route = "trigger"

LEMMA Hears ==
  ASSUME CredentialsOK, deployed = {}, NEW i \in DOMAIN req, NEW r, Heard(i, r),
         req' = [req EXCEPT ![i] = r], UNCHANGED services
  PROVE  CredentialsOK'
<1>1. DOMAIN req' = DOMAIN req /\ \A j \in DOMAIN req : req'[j] = IF j = i THEN r ELSE req[j]
  OBVIOUS
<1>2. ASSUME alike, NEW j \in DOMAIN req
      PROVE  Understood(j)'
  <2>1. Understood(i) /\ Understood(j)
    BY <1>2 DEF CredentialsOK
  <2>2. CASE j = i
    BY <1>1, <2>1, <2>2 DEF Understood, Heard, services
  <2>3. CASE j # i
    BY <1>1, <2>1, <2>3 DEF Understood, services
  <2> QED BY <2>2, <2>3
<1> QED BY <1>1, <1>2 DEF CredentialsOK, services

\* What the steps make of a request keeps its upstream, or forgets it.
LEMMA Hearing ==
  ASSUME IInv, NEW i \in DOMAIN req
  PROVE  /\ \A pc : Heard(i, Goto(i, pc))
         /\ \A status : Heard(i, Answer(i, status)) /\ Heard(i, Reject(i, status))
         /\ \A status, outcome : Heard(i, Audited(Answer(i, status), outcome))
         /\ Heard(i, Accept(i)) /\ Heard(i, Pass(i))
         /\ \A keys : Heard(i, [Goto(i, "store") EXCEPT !.keys = keys])
         /\ \A renewed : Heard(i, [Goto(i, "fetch") EXCEPT !.renewed = renewed])
<1>1. req[i] \in RequestState
  BY DEF IInv, RequestOK
<1>2. \A pc : Heard(i, Goto(i, pc))
  BY <1>1 DEF Heard, Goto, RequestState
<1>3. \A status : Heard(i, Answer(i, status))
  BY DEF Heard, Answer, NewRequest
<1>4. \A status : Heard(i, Reject(i, status))
  BY <1>1 DEF Heard, Reject, Goto, RequestState
<1>5. \A status, outcome : Heard(i, Audited(Answer(i, status), outcome))
  BY DEF Heard, Audited, Answer, NewRequest
<1>6. Heard(i, Accept(i))
  BY <1>1, <1>4 DEF Heard, Accept, Goto, RequestState
<1>7. Heard(i, Pass(i))
  BY DEF Heard, Pass, NewRequest
<1>8. \A keys : Heard(i, [Goto(i, "store") EXCEPT !.keys = keys])
  BY <1>1 DEF Heard, Goto, RequestState
<1>9. \A renewed : Heard(i, [Goto(i, "fetch") EXCEPT !.renewed = renewed])
  BY <1>1 DEF Heard, Goto, RequestState
<1> QED BY <1>2, <1>3, <1>4, <1>5, <1>6, <1>7, <1>8, <1>9

\* ingest-svc understands the gateway if both have the same environment.
LEMMA IngestUnderstands ==
  ASSUME IInv, CredentialsOK, deployed = {}, NEW i \in DOMAIN req, IngestReceives(i)
  PROVE  CredentialsOK'
<1> DEFINE heard(status) == [req[i] EXCEPT !.upstream = status,
                                          !.delivered = req[i].delivered \/ status = 200]
<1>0. PICK g \in gateway, s \in ingest :
        /\ \E status \in IngestAnswers(g.auth, s.auth) : req' = [req EXCEPT ![i] = heard(status)]
        /\ UNCHANGED services
  BY Zenon DEF IngestReceives
<1>1. PICK status \in IngestAnswers(g.auth, s.auth) : req' = [req EXCEPT ![i] = heard(status)]
  BY <1>0, Zenon
<1> DEFINE r == heard(status)
<1>2. r.upstream = status
  BY DEF IInv, RequestOK, RequestState
<1> HIDE DEF r
<1>3. DOMAIN req' = DOMAIN req /\ \A j \in DOMAIN req : req'[j] = IF j = i THEN r ELSE req[j]
  BY <1>1 DEF r
<1>4. ASSUME alike, NEW t \in ingest
      PROVE  \/ \E a \in t.auth : a.header \in FramingHeaders
             \/ /\ status \in {401, 403} => \E a \in t.auth : ~Readable(a)
                /\ status = 200 => t.auth = {} \/ \E a \in t.auth : Readable(a)
  <2>1. g.auth = t.auth /\ s.auth = t.auth
    BY <1>4 DEF CredentialsOK
  <2>2. status \in IngestAnswers(t.auth, t.auth)
    BY <1>1, <2>1
  <2>3. CASE t.auth = {}
    BY <2>2, <2>3 DEF IngestAnswers
  <2>4. CASE \E a \in t.auth : Readable(a)
    BY <2>2, <2>4 DEF IngestAnswers
  <2>5. CASE /\ t.auth # {} /\ ~\E a \in t.auth : a.header \in FramingHeaders
             /\ ~\E a \in t.auth : Readable(a)
    BY <2>2, <2>5 DEF IngestAnswers
  <2> QED BY <2>3, <2>4, <2>5
<1>5. ASSUME alike, NEW j \in DOMAIN req
      PROVE  Understood(j)'
  <2>1. CASE j = i
    <3>1. req'[j] = r /\ ingest' = ingest
      BY <1>0, <1>3, <2>1 DEF services
    <3> QED BY <1>2, <1>4, <1>5, <3>1 DEF Understood
  <2>2. CASE j # i
    <3>1. Understood(j) /\ req'[j] = req[j] /\ ingest' = ingest
      BY <1>0, <1>3, <1>5, <2>2 DEF services, CredentialsOK
    <3> QED BY <3>1 DEF Understood
  <2> QED BY <2>1, <2>2
<1> QED BY <1>0, <1>3, <1>5 DEF CredentialsOK, services

LEMMA RequestHears ==
  ASSUME IInv, CredentialsOK, NEW i \in DOMAIN req,
         RequestStep(i) \/ TurnDown(i)
           \/ \E route \in Routes, token \in Tokens \cup {NoToken} : Arrive(i, route, token)
  PROVE  CredentialsOK'
<1>0. deployed = {}
  <2>1. NewRequest.pc = "new"
    BY DEF NewRequest
  <2>2. gateway # {} \/ req[i].pc # "new"
    BY DEF RequestStep, TimeOut, ReadCachedKeys, FetchKeys, StoreKeys, LimitRejected, LimitAdmin,
           HandleRead, RefuseTrigger, RefuseRequeue, CallUpstream, IngestReceives, QueueReceives,
           FinishWrite, TurnDown, Arrive
  <2> QED BY <2>1, <2>2 DEF CredentialsOK
<1>1. ASSUME NEW r, Heard(i, r), req' = [req EXCEPT ![i] = r], UNCHANGED services
      PROVE  CredentialsOK'
  BY <1>0, <1>1, Hears
<1>2. req[i] \in RequestState
  BY DEF IInv, RequestOK
<1>3. CASE \E route \in Routes, token \in Tokens \cup {NoToken} : Arrive(i, route, token)
  <2>1. PICK route, token, r :
          /\ r = [req[i] EXCEPT !.pc = "auth", !.route = route, !.token = token,
                                !.deadline = now + AdminTimeout]
          /\ req' = [req EXCEPT ![i] = r] /\ UNCHANGED services
    BY <1>3 DEF Arrive
  <2>2. req[i].upstream # 200
    BY <1>3 DEF Arrive, IInv, RequestOK, AuditOK
  <2>3. Heard(i, r)
    BY <1>2, <2>1, <2>2 DEF Heard, RequestState
  <2> QED BY <1>1, <2>1, <2>3
<1>4. CASE TurnDown(i) \/ TimeOut(i) \/ LimitRejected(i) \/ HandleRead(i)
  <2>1. PICK status : req' = [req EXCEPT ![i] = Answer(i, status)] /\ UNCHANGED services
    BY <1>4 DEF TurnDown, TimeOut, LimitRejected, HandleRead
  <2> QED BY <1>1, <2>1, Hearing
<1>5. CASE ReadCachedKeys(i)
  <2>1. /\ UNCHANGED services
        /\ \/ req' = [req EXCEPT ![i] = Reject(i, 401)]
           \/ req' = [req EXCEPT ![i] = Accept(i)]
           \/ req' = [req EXCEPT ![i] = [Goto(i, "fetch") EXCEPT !.renewed = Fresh # {}]]
    BY <1>5 DEF ReadCachedKeys
  <2> QED BY <1>1, <2>1, Hearing
<1>6. CASE FetchKeys(i)
  <2>1. /\ UNCHANGED services
        /\ \/ req' = [req EXCEPT ![i] = Reject(i, 503)]
           \/ req' = [req EXCEPT ![i] = [Goto(i, "store") EXCEPT !.keys = published]]
    BY <1>6 DEF FetchKeys
  <2> QED BY <1>1, <2>1, Hearing
<1>7. CASE StoreKeys(i)
  <2>1. /\ UNCHANGED services
        /\ \/ req' = [req EXCEPT ![i] = Reject(i, 401)]
           \/ req' = [req EXCEPT ![i] = Accept(i)]
           \/ req' = [req EXCEPT ![i] = [Goto(i, "fetch") EXCEPT !.renewed = TRUE]]
    BY <1>7 DEF StoreKeys
  <2> QED BY <1>1, <2>1, Hearing
<1>8. CASE LimitAdmin(i) \/ RefuseTrigger(i) \/ RefuseRequeue(i) \/ FinishWrite(i)
  <2>1. /\ UNCHANGED services
        /\ \/ req' = [req EXCEPT ![i] = Pass(i)]
           \/ \E status, outcome : req' = [req EXCEPT ![i] = Audited(Answer(i, status), outcome)]
    BY <1>8 DEF LimitAdmin, RefuseTrigger, RefuseRequeue, FinishWrite
  <2> QED BY <1>1, <2>1, Hearing
<1>9. CASE CallUpstream(i)
  <2>1. req' = [req EXCEPT ![i] = Goto(i, "upstream")] /\ UNCHANGED services
    BY <1>9 DEF CallUpstream
  <2> QED BY <1>1, <2>1, Hearing
<1>10. CASE QueueReceives(i)
  <2>1. PICK r : /\ r = [req[i] EXCEPT !.upstream = 200, !.delivered = TRUE]
                 /\ req' = [req EXCEPT ![i] = r] /\ UNCHANGED services
                 /\ req[i].route = "requeue"
    BY <1>10 DEF QueueReceives
  <2>2. Heard(i, r)
    BY <1>2, <2>1 DEF Heard, RequestState
  <2> QED BY <1>1, <2>1, <2>2
<1>11. CASE IngestReceives(i)
  BY <1>0, <1>11, IngestUnderstands
<1> QED
  BY <1>3, <1>4, <1>5, <1>6, <1>7, <1>8, <1>9, <1>10, <1>11 DEF RequestStep

LEMMA CredentialsKept == IInv /\ CredentialsOK /\ [Next]_vars => CredentialsOK'
<1> SUFFICES ASSUME IInv, CredentialsOK, [Next]_vars PROVE CredentialsOK'
  OBVIOUS
<1>1. CASE Start
  <2>1. PICK d \in deployed :
          /\ gateway' = IF GatewayAccepts(d[1]) THEN {AdminConfig(Gateway(d[1]))} ELSE {}
          /\ ingest' = IF IngestAccepts(d[2]) THEN {[auth |-> Ingest(d[2]).internal_admin_auth]}
                       ELSE {}
          /\ deployed' = {} /\ UNCHANGED <<alike, req>>
    BY <1>1 DEF Start
  <2>2. ASSUME alike, NEW g \in gateway', NEW s \in ingest'
        PROVE  g.auth = s.auth
    <3>1. g.auth = Gateway(d[1]).internal_service_auth
      BY <2>1, <2>2 DEF AdminConfig
    <3>2. s.auth = Ingest(d[2]).internal_admin_auth
      BY <2>1, <2>2
    <3>3. d[1] = d[2]
      BY <2>1, <2>2 DEF CredentialsOK
    <3> QED BY <3>1, <3>2, <3>3, ParsersAgree
  <2>3. ASSUME alike, NEW i \in DOMAIN req
        PROVE  Understood(i)'
    <3>1. req[i].upstream = 0
      BY <2>1 DEF CredentialsOK, NewRequest
    <3> QED BY <2>1, <3>1 DEF Understood
  <2> QED BY <2>1, <2>2, <2>3 DEF CredentialsOK
<1>2. CASE \E i \in DOMAIN req : TurnDown(i) \/ RequestStep(i) \/
             \E route \in Routes, token \in Tokens \cup {NoToken} : Arrive(i, route, token)
  BY <1>2, RequestHears
<1>3. CASE (\E k \in Keys : PublishKey(k) \/ RetireKey(k)) \/ Tick \/ UNCHANGED vars
  <2>1. UNCHANGED <<deployed, gateway, ingest, alike, req>>
    BY <1>3 DEF PublishKey, RetireKey, Tick, vars, services
  <2> QED BY <2>1 DEF CredentialsOK, Understood
<1>4. CASE Crash
  <2>1. /\ UNCHANGED services /\ DOMAIN req' = DOMAIN req /\ gateway # {}
        /\ \A i \in DOMAIN req :
             req'[i] = IF req[i].pc \in {"new", "answered"} THEN req[i] ELSE Answer(i, 0)
    BY <1>4 DEF Crash
  <2>2. \A i \in DOMAIN req : Answer(i, 0).upstream = 0
    BY DEF Answer, NewRequest
  <2>3. ASSUME alike, NEW i \in DOMAIN req
        PROVE  Understood(i)'
    <3>1. Understood(i)
      BY <2>1, <2>3 DEF CredentialsOK, services
    <3> QED BY <2>1, <2>2, <3>1 DEF Understood, services
  <2> QED BY <2>1, <2>2, <2>3 DEF CredentialsOK, services
<1> QED BY <1>1, <1>2, <1>3, <1>4 DEF Next

\* If both services have one environment, a trigger is turned down for its token
\* just if the call does not carry it readably, and outside of local and dev there
\* is a token to send (parse_internal_service_auth_config,
\* parse_internal_admin_auth_config, trigger_ingest, require_internal_admin).
THEOREM TriggersAuthorised == Spec => []TriggerIsAuthorised
<1>1. Init => CredentialsOK
  <2> SUFFICES ASSUME Init PROVE CredentialsOK
    OBVIOUS
  <2>1. PICK d \in Deployments :
          /\ deployed = {<<d[1], d[2]>>} /\ alike = (d[1] = d[2])
          /\ req = [i \in d[3] |-> NewRequest]
    BY DEF Init
  <2>2. gateway = {} /\ ingest = {} /\ NewRequest.upstream = 0
    BY DEF Init, NewRequest
  <2>3. alike \in BOOLEAN
    BY <2>1, Zenon
  <2>4. alike => d[1] = d[2]
    BY <2>1, Zenon
  <2>5. \A e \in deployed : e[1] = d[1] /\ e[2] = d[2]
    BY <2>1
  <2>6. \A i \in DOMAIN req : req[i] = NewRequest
    BY <2>1, <2>2
  <2>7. \A i \in DOMAIN req : Understood(i)
    BY <2>2, <2>6 DEF Understood
  <2> QED BY <2>2, <2>3, <2>4, <2>5, <2>6, <2>7 DEF CredentialsOK
<1>2. CredentialsOK => TriggerIsAuthorised
  BY TriggerHasToken DEF CredentialsOK, Understood, TriggerIsAuthorised
<1> QED BY <1>1, <1>2, CredentialsKept, Invariance, PTL DEF Spec

\* Services of one environment meet at one queue and one container, whatever it
\* says (parse_processing_queue_config, from_lookup_for of both other services).
THEOREM Meeting == Spec => []ServicesMeet
<1>1. ServicesMeet
  BY ParsersAgree DEF ServicesMeet
<1> QED BY <1>1, PTL

\* In every environment, ready means wired just if no client turns a value down
\* that its parser let pass (ReadinessProbe::check, AppState::new).
THEOREM ReadinessHolds == Spec => []ReadyMeansWired
<1>1. ReadyMeansWired
  BY ReadyHasClients DEF ReadyMeansWired
<1> QED BY <1>1, PTL
=============================================================================
