---------------------------- MODULE AccessProofs ----------------------------
(***************************************************************************)
(* Proofs about keys and what they admit, for any number of keys,          *)
(* requests, starting processes and faults.                                *)
(***************************************************************************)
EXTENDS Access, FiniteSetTheorems, TLAPS

-----------------------------------------------------------------------------
(* The inductive invariant.                                                 *)

\* A key that was not handed out has no trace in the table.
UnusedAreBlank == \A k \in Keys : ~Exists(k) => keys[k] = NoRecord

\* A request that is past the lookup has a key of the table, and one that is
\* past the check was not dead when it arrived; nothing has happened before
\* the handler runs, and only an admin's request waits for a new key's hash.
RequestsAreKnown ==
  \A r \in Requests :
    /\ req[r].pc \in {"verifying", "admitted", "hashing"} => Exists(req[r].key) /\ req[r].key \in Keys
    /\ req[r].pc \in {"admitted", "hashing"} => ~req[r].dead
    /\ req[r].pc \in {"new", "verifying", "admitted", "hashing"} => ~req[r].effect
    /\ req[r].pc = "hashing" => req[r].op = "create" /\ keys[req[r].key].role = "admin"

\* Whoever is up has seen a key, and where there are keys there is an admin's;
\* as long as no count overlapped a bootstrap, at most one process hashes, it
\* counted no key and none was added, and there is one bootstrap key at most.
BootstrapIsAlone ==
  /\ AnyKey => \E k \in Keys : keys[k].role = "admin"
  /\ (\E p \in Starters : starter[p] = "up") => AnyKey
  /\ ~lapped =>
       /\ \A p, q \in Starters : starter[p] = "hashing" /\ starter[q] = "hashing" => p = q
       /\ (\E p \in Starters : starter[p] = "hashing") => ~AnyKey
       /\ \A j, k \in Keys : keys[j].system /\ keys[k].system => j = k

KnownInv == AccessInv /\ UnusedAreBlank /\ RequestsAreKnown
IndInv   == KnownInv /\ BootstrapIsAlone

-----------------------------------------------------------------------------
(* What a step does to the table of keys.                                   *)

Row ==
  [role : Roles \cup {"none"}, exp : 0..MaxTime, by : Keys \cup {NoKey},
   used : 0..MaxTime, revokedBy : Keys \cup {NoKey}, system : BOOLEAN]

Request ==
  [pc : {"new", "verifying", "admitted", "hashing", "answered", "unlogged", "done", "cut"},
   key : Keys \cup {NoKey}, op : Ops \cup {"none"}, dead : BOOLEAN,
   effect : BOOLEAN, audited : BOOLEAN, at : 0..MaxTime]

\* A key that was handed out keeps its role and where it came from.
KeysKept ==
  \A k \in Keys : Exists(k) => 
    /\ keys'[k].role = keys[k].role /\ keys'[k].system = keys[k].system
    /\ Revoked(k) => keys'[k] = [keys[k] EXCEPT !.used = keys'[k].used]

KeysInv == keys \in [Keys -> Row] /\ KeysComeFromAdmins /\ UnusedAreBlank

LEMMA KeysTyped == TypeOK => keys \in [Keys -> Row]
  BY DEF TypeOK, Row

LEMMA ClockTyped == TypeOK => now \in 1..MaxTime /\ now \in Nat /\ 0 \in 0..MaxTime /\ now \in 0..MaxTime
  BY AccessAssumption DEF TypeOK

LEMMA ExistsInTable == \A k \in Keys : Exists(k) <=> keys[k].role # "none"
  BY DEF Exists, FindByLookupHash

LEMMA RecordTyped ==
  ASSUME NEW role \in Roles, NEW exp \in 0..MaxTime, NEW by \in Keys \cup {NoKey}, NEW system \in BOOLEAN
  PROVE  Record(role, exp, by, system) \in Row
<1>1. 0 \in 0..MaxTime BY AccessAssumption
<1> QED BY <1>1 DEF Record, Row

\* A fresh key: of the bootstrap, or of a request whose key is an admin's.
LEMMA InsertKeeps ==
  ASSUME KeysInv, NEW role \in Roles, NEW exp \in 0..MaxTime, NEW by \in Keys \cup {NoKey},
         NEW system \in BOOLEAN, system = (by = NoKey),
         by # NoKey => keys[by].role = "admin",
         Insert(role, exp, by, system)
  PROVE  KeysInv' /\ KeysKept
<1>1. PICK j \in Keys : ~Exists(j) /\ Create(j, Record(role, exp, by, system))
  BY DEF Insert
<1> DEFINE new == Record(role, exp, by, system)
<1>2. keys' = [keys EXCEPT ![j] = new] BY <1>1 DEF Create
<1>3. new \in Row BY RecordTyped
<1>4. keys' \in [Keys -> Row] BY <1>2, <1>3 DEF KeysInv
<1>5. keys[j].role = "none" BY <1>1, ExistsInTable
<1>6. \A k \in Keys : k # j => keys'[k] = keys[k] BY <1>2 DEF KeysInv
<1>7. keys'[j] = new BY <1>2 DEF KeysInv
<1>8. new.role = role /\ new.by = by /\ new.system = system /\ new.revokedBy = NoKey /\ new.used = 0
      /\ new.exp = exp /\ role # "none"
  BY DEF Record, Roles
<1> HIDE DEF new
<1>9. \A k \in Keys : keys[k].role = "admin" => k # j /\ keys'[k].role = "admin"
  BY <1>5, <1>6
<1>10. KeysComeFromAdmins'
  <2> SUFFICES ASSUME NEW k \in Keys, keys'[k].role # "none"
               PROVE  /\ keys'[k].system = (keys'[k].by = NoKey)
                      /\ keys'[k].by # NoKey => keys'[keys'[k].by].role = "admin" /\ keys'[k].by # k
                      /\ keys'[k].revokedBy # NoKey => keys'[keys'[k].revokedBy].role = "admin"
                      /\ keys'[k].exp # 0 => keys'[k].used <= keys'[k].exp
    BY DEF KeysComeFromAdmins, Exists, FindByLookupHash, Revoked
  <2>1. CASE k = j
    <3>1. by # NoKey => by # j /\ keys'[by].role = "admin" BY <1>5, <1>6
    <3>2. 0 <= exp BY AccessAssumption
    <3> QED BY <2>1, <3>1, <3>2, <1>7, <1>8
  <2>2. CASE k # j
    <3>1. keys'[k] = keys[k] BY <2>2, <1>6
    <3>2. Exists(k) BY <3>1, ExistsInTable
    <3>3. keys[k] \in Row BY DEF KeysInv
    <3>4. keys[k].by \in Keys \cup {NoKey} /\ keys[k].revokedBy \in Keys \cup {NoKey} BY <3>3 DEF Row
    <3> QED BY <3>1, <3>2, <3>4, <1>9 DEF KeysInv, KeysComeFromAdmins, Revoked
  <2> QED BY <2>1, <2>2
<1>11. UnusedAreBlank'
  <2> SUFFICES ASSUME NEW k \in Keys, keys'[k].role = "none" PROVE keys'[k] = NoRecord
    BY DEF UnusedAreBlank, Exists, FindByLookupHash, NoRecord, Record
  <2>1. k # j BY <1>7, <1>8
  <2> QED BY <2>1, <1>6, ExistsInTable DEF KeysInv, UnusedAreBlank
<1>12. KeysKept
  <2> SUFFICES ASSUME NEW k \in Keys, Exists(k) PROVE keys'[k] = keys[k] /\ keys[k] \in Row
    BY DEF KeysKept, Row
  <2> QED BY <1>1, <1>6 DEF KeysInv
<1> QED BY <1>4, <1>10, <1>11, <1>12 DEF KeysInv

\* A write to a row that exists, which leaves all but the last use and the
\* revocation as they are.
LEMMA WriteKeeps ==
  ASSUME KeysInv, NEW j \in Keys, Exists(j), NEW row \in Row,
         keys' = [keys EXCEPT ![j] = row],
         row.role = keys[j].role, row.by = keys[j].by, row.system = keys[j].system, row.exp = keys[j].exp,
         row.exp # 0 => row.used <= row.exp,
         Revoked(j) => row = [keys[j] EXCEPT !.used = row.used],
         row.revokedBy # NoKey => keys[row.revokedBy].role = "admin"
  PROVE  KeysInv' /\ KeysKept
<1>1. keys' \in [Keys -> Row] BY DEF KeysInv
<1>2. keys'[j] = row /\ \A k \in Keys : k # j => keys'[k] = keys[k] BY DEF KeysInv
<1>3. \A k \in Keys : keys'[k].role = keys[k].role BY <1>2
<1>4. KeysComeFromAdmins'
  <2> SUFFICES ASSUME NEW k \in Keys, keys'[k].role # "none"
               PROVE  /\ keys'[k].system = (keys'[k].by = NoKey)
                      /\ keys'[k].by # NoKey => keys'[keys'[k].by].role = "admin" /\ keys'[k].by # k
                      /\ keys'[k].revokedBy # NoKey => keys'[keys'[k].revokedBy].role = "admin"
                      /\ keys'[k].exp # 0 => keys'[k].used <= keys'[k].exp
    BY DEF KeysComeFromAdmins, Exists, FindByLookupHash, Revoked
  <2>1. Exists(k) BY <1>3, ExistsInTable
  <2>2. keys[k] \in Row BY DEF KeysInv
  <2>3. keys[k].by \in Keys \cup {NoKey} /\ keys[k].revokedBy \in Keys \cup {NoKey}
        /\ row.revokedBy \in Keys \cup {NoKey}
    BY <2>2 DEF Row
  <2>4. CASE k = j BY <2>1, <2>3, <2>4, <1>2, <1>3 DEF KeysInv, KeysComeFromAdmins, Revoked
  <2>5. CASE k # j BY <2>1, <2>3, <2>5, <1>2, <1>3 DEF KeysInv, KeysComeFromAdmins, Revoked
  <2> QED BY <2>4, <2>5
<1>5. UnusedAreBlank'
  <2> SUFFICES ASSUME NEW k \in Keys, keys'[k].role = "none" PROVE keys'[k] = NoRecord
    BY DEF UnusedAreBlank, Exists, FindByLookupHash, NoRecord, Record
  <2>1. k # j BY <1>3, ExistsInTable
  <2> QED BY <2>1, <1>2, ExistsInTable DEF KeysInv, UnusedAreBlank
<1>6. KeysKept
  <2> SUFFICES ASSUME NEW k \in Keys, k # j PROVE keys'[k] = [keys[k] EXCEPT !.used = keys'[k].used]
    BY <1>2 DEF KeysKept
  <2>1. keys'[k] = keys[k] /\ keys[k] \in Row BY <1>2 DEF KeysInv
  <2> QED BY <2>1 DEF Row
<1> QED BY <1>1, <1>4, <1>5, <1>6 DEF KeysInv

LEMMA SameKeys == ASSUME KeysInv, UNCHANGED keys PROVE KeysInv' /\ KeysKept
<1>1. \A k \in Keys : keys[k] = [keys[k] EXCEPT !.used = keys[k].used] BY DEF KeysInv, Row
<1>2. KeysKept BY <1>1 DEF KeysKept
<1> QED BY <1>2 DEF KeysInv, KeysComeFromAdmins, UnusedAreBlank, Exists, FindByLookupHash, Revoked, NoRecord, Record

LEMMA KnownKeys == KnownInv => KeysInv
  BY KeysTyped DEF KnownInv, AccessInv, KeysInv

\* A request that acts does so with a key of the table.
LEMMA ActingKey ==
  ASSUME KnownInv, NEW r \in Requests, req[r].pc \in {"verifying", "admitted", "hashing"}
  PROVE  req[r].key \in Keys /\ Exists(req[r].key) /\ req[r].key # NoKey
  BY AccessAssumption DEF KnownInv, RequestsAreKnown

\* An operation on keys is an admin's.
LEMMA AdminOps ==
  ASSUME NEW r \in Requests, MayAct(r), req[r].op \in {"create", "revoke", "decide"}
  PROVE  keys[req[r].key].role = "admin"
  BY DEF MayAct, RequiredRoles

LEMMA KeysStep == ASSUME KnownInv, [Next]_vars PROVE KeysInv' /\ KeysKept
<1> USE KnownKeys
<1>1. CASE UNCHANGED keys BY <1>1, SameKeys
<1>2. ASSUME NEW p \in Starters, InsertBootstrapKey(p) PROVE KeysInv' /\ KeysKept
  <2>1. 0 \in 0..MaxTime BY AccessAssumption
  <2>2. "admin" \in Roles BY DEF Roles
  <2>3. Insert("admin", 0, NoKey, TRUE) BY <1>2 DEF InsertBootstrapKey
  <2> QED BY <2>1, <2>2, <2>3, InsertKeeps
<1>3. ASSUME NEW r \in Requests, InsertKey(r) PROVE KeysInv' /\ KeysKept
  <2>1. PICK role \in Roles, exp \in {0, now} : Insert(role, exp, req[r].key, FALSE)
    BY <1>3 DEF InsertKey
  <2>2. exp \in 0..MaxTime BY ClockTyped DEF KnownInv, AccessInv
  <2>3. req[r].pc = "hashing" BY <1>3 DEF InsertKey
  <2>4. req[r].key \in Keys /\ req[r].key # NoKey BY <2>3, ActingKey
  <2>5. keys[req[r].key].role = "admin" BY <2>3 DEF KnownInv, RequestsAreKnown
  <2> HIDE DEF KnownInv
  <2> QED BY <2>1, <2>2, <2>4, <2>5, InsertKeeps
<1>4. ASSUME NEW r \in Requests, Authenticate(r), Admitted(r) PROVE KeysInv' /\ KeysKept
  <2> DEFINE j == req[r].key
             row == [keys[j] EXCEPT !.used = now]
  <2>1. j \in Keys /\ Exists(j) BY <1>4, ActingKey DEF Authenticate
  <2>2. keys' = [keys EXCEPT ![j] = row]
    BY <1>4 DEF Authenticate, UpdateLastUsed
  <2>3. keys[j] \in Row BY <2>1 DEF KeysInv
  <2>4. now \in 0..MaxTime BY ClockTyped DEF KnownInv, AccessInv
  <2>5. row \in Row BY <2>3, <2>4 DEF Row
  <2>6. row.role = keys[j].role /\ row.by = keys[j].by /\ row.system = keys[j].system
        /\ row.exp = keys[j].exp /\ row.used = now /\ row.revokedBy = keys[j].revokedBy
    BY <2>3 DEF Row
  <2>7. row.exp # 0 => row.used <= row.exp
    <3>1. keys[j].exp \in 0..MaxTime BY <2>3 DEF Row
    <3>2. keys[j].exp # 0 => ~(keys[j].exp < now) BY <1>4 DEF Admitted, Expired
    <3> QED BY <3>1, <3>2, <2>4, <2>6, AccessAssumption
  <2>8. row = [keys[j] EXCEPT !.used = row.used] BY <2>6
  <2>9. row.revokedBy # NoKey => keys[row.revokedBy].role = "admin"
    BY <2>1, <2>6 DEF KeysInv, KeysComeFromAdmins, Revoked
  <2> HIDE DEF row, j
  <2> QED BY <2>1, <2>2, <2>5, <2>6, <2>7, <2>8, <2>9, WriteKeeps
<1>5. ASSUME NEW r \in Requests, RevokeKey(r) PROVE KeysInv' /\ KeysKept
  <2>1. PICK j \in Keys : IF MayRevoke(j)
                          THEN Revoke(j, req[r].key) /\ Answered(r, TRUE)
                          ELSE Answered(r, FALSE) /\ UNCHANGED keys
    BY <1>5 DEF RevokeKey
  <2>2. CASE ~MayRevoke(j) BY <2>1, <2>2, SameKeys
  <2>3. CASE MayRevoke(j)
    <3> DEFINE row == [keys[j] EXCEPT !.revokedBy = req[r].key]
    <3>1. Exists(j) /\ ~Revoked(j) BY <2>3 DEF MayRevoke
    <3>2. keys' = [keys EXCEPT ![j] = row] BY <2>1, <2>3 DEF Revoke
    <3>3. keys[j] \in Row BY DEF KeysInv
    <3>4. req[r].key \in Keys BY <1>5, ActingKey DEF RevokeKey, MayAct
    <3>5. row \in Row BY <3>3, <3>4 DEF Row
    <3>6. row.role = keys[j].role /\ row.by = keys[j].by /\ row.system = keys[j].system
          /\ row.exp = keys[j].exp /\ row.used = keys[j].used /\ row.revokedBy = req[r].key
      BY <3>3 DEF Row
    <3>7. row.exp # 0 => row.used <= row.exp
      BY <3>1, <3>6 DEF KeysInv, KeysComeFromAdmins
    <3>8. keys[row.revokedBy].role = "admin" BY <1>5, <3>6, AdminOps DEF RevokeKey
    <3> HIDE DEF row
    <3> QED BY <3>1, <3>2, <3>5, <3>6, <3>7, <3>8, WriteKeeps
  <2> QED BY <2>2, <2>3
<1>6. ASSUME NEW r \in Requests, Handle(r) PROVE KeysInv' /\ KeysKept
  BY <1>1, <1>3, <1>4, <1>5, <1>6
  DEF Handle, Arrive, ServePublic, Authenticate, Refuse, RateLimited, Serve, CreateKey, Decide, Audit
<1> QED BY <1>1, <1>2, <1>6 DEF Next, vars, Tick, CleanUp, CountKeys, Crash, RequestApproval

-----------------------------------------------------------------------------
(* What a step does to the requests.                                        *)

RequestOK(r) ==
  /\ req[r].pc \in {"verifying", "admitted", "hashing"} => Exists(req[r].key) /\ req[r].key \in Keys
  /\ req[r].pc \in {"admitted", "hashing"} => ~req[r].dead
  /\ req[r].pc \in {"new", "verifying", "admitted", "hashing"} => ~req[r].effect
  /\ req[r].pc = "hashing" => req[r].op = "create" /\ keys[req[r].key].role = "admin"
  /\ req[r].effect => req[r].key # NoKey /\ ~req[r].dead /\ keys[req[r].key].role \in RequiredRoles(req[r].op)
  /\ req[r].pc = "done" /\ req[r].effect => req[r].audited \/ req[r].at + Retention < now

RequestsOK == \A r \in Requests : RequestOK(r)

LEMMA RequestsOKDef == RequestsOK <=> RequestsAreKnown /\ EffectsAreEntitled /\ EffectsAreAudited
  BY DEF RequestsOK, RequestOK, RequestsAreKnown, EffectsAreEntitled, EffectsAreAudited

\* A request that a step leaves alone, or only moves out of the way.
LEMMA OtherRequest ==
  ASSUME KnownInv, KeysKept, now' \in {now, now + 1}, NEW r \in Requests, req'[r] = req[r]
  PROVE  RequestOK(r)'
<1>1. RequestOK(r) BY RequestsOKDef DEF KnownInv, AccessInv, RequestsOK
<1>2. req[r] \in Request BY DEF KnownInv, AccessInv, TypeOK, Request
<1>3. req[r].key \in Keys /\ Exists(req[r].key) => keys'[req[r].key].role = keys[req[r].key].role
  BY DEF KeysKept
<1>4. req[r].key \in Keys \cup {NoKey} /\ req[r].at \in Nat BY <1>2, AccessAssumption DEF Request
<1>5. req[r].effect => req[r].key \in Keys /\ Exists(req[r].key)
  BY <1>1, <1>4, ExistsInTable DEF RequestOK, RequiredRoles, Roles
<1>6. req[r].at + Retention < now => req[r].at + Retention < now'
  BY <1>4, ClockTyped, AccessAssumption DEF KnownInv, AccessInv
<1>7. req[r].key \in Keys /\ Exists(req[r].key) => Exists(req[r].key)'
  BY <1>3, ExistsInTable DEF Exists, FindByLookupHash
<1> QED BY <1>1, <1>3, <1>5, <1>6, <1>7 DEF RequestOK, RequiredRoles

ReqInv == req \in [Requests -> Request] /\ RequestsOK

LEMMA KnownRequests == KnownInv => ReqInv
  BY RequestsOKDef DEF KnownInv, AccessInv, ReqInv, TypeOK, Request

\* One request moves on and the others stay.
LEMMA OneRequest ==
  ASSUME KnownInv, KeysKept, now' = now, NEW r \in Requests, NEW q \in Request,
         req' = [req EXCEPT ![r] = q], RequestOK(r)'
  PROVE  ReqInv'
<1>1. req' \in [Requests -> Request] BY KnownRequests DEF ReqInv
<1>2. ASSUME NEW o \in Requests, o # r PROVE RequestOK(o)'
  <2>1. req'[o] = req[o] BY <1>2, KnownRequests DEF ReqInv
  <2> HIDE DEF KnownInv
  <2> QED BY <2>1, OtherRequest
<1> QED BY <1>1, <1>2 DEF ReqInv, RequestsOK

LEMMA SameRequests ==
  ASSUME KnownInv, KeysKept, now' \in {now, now + 1}, UNCHANGED req PROVE ReqInv'
  BY KnownRequests, OtherRequest DEF ReqInv, RequestsOK

LEMMA NewTyped == New \in Request
<1>1. 0 \in 0..MaxTime BY AccessAssumption
<1> QED BY <1>1 DEF New, Request

\* The role of a key that acts, before and after the step.
LEMMA RoleKept ==
  ASSUME KnownInv, KeysKept, NEW k \in Keys, Exists(k)
  PROVE  keys'[k].role = keys[k].role /\ Exists(k)'
  BY ExistsInTable DEF KeysKept, Exists, FindByLookupHash

\* The answer of a request that may act, or that is refused.
LEMMA AnsweredKeeps ==
  ASSUME KnownInv, KeysKept, now' = now, NEW r \in Requests, NEW effect \in BOOLEAN,
         req[r].pc \in {"admitted", "hashing"}, Answered(r, effect),
         effect => keys[req[r].key].role \in RequiredRoles(req[r].op)
  PROVE  ReqInv'
<1> DEFINE q == [req[r] EXCEPT !.pc = "answered", !.effect = effect]
<1>1. req[r] \in Request BY KnownRequests DEF ReqInv
<1>2. q \in Request BY <1>1 DEF Request
<1>3. req' = [req EXCEPT ![r] = q] BY KnownRequests DEF Answered, ReqInv
<1>4. req'[r] = q BY <1>3, KnownRequests DEF ReqInv
<1>5. q.pc = "answered" /\ q.effect = effect /\ q.key = req[r].key /\ q.op = req[r].op /\ q.dead = req[r].dead
  BY <1>1 DEF Request
<1>6. req[r].key \in Keys /\ Exists(req[r].key) /\ req[r].key # NoKey BY ActingKey
<1>7. ~req[r].dead BY KnownRequests DEF ReqInv, RequestsOK, RequestOK
<1>8. keys'[req[r].key].role = keys[req[r].key].role BY <1>6, RoleKept
<1> HIDE DEF q
<1>9. RequestOK(r)' BY <1>4, <1>5, <1>6, <1>7, <1>8 DEF RequestOK, RequiredRoles
<1> HIDE DEF KnownInv
<1> QED BY <1>2, <1>3, <1>9, OneRequest

LEMMA ArriveKeeps ==
  ASSUME KnownInv, KeysKept, NEW r \in Requests, NEW k \in ResolvedKeys, NEW op \in Ops, Arrive(r, k, op)
  PROVE  ReqInv'
<1>1. now' = now BY DEF Arrive
<1>2. CASE Exists(k)
  <2> DEFINE q == [New EXCEPT !.pc = "verifying", !.key = k, !.op = op, !.dead = Revoked(k) \/ Expired(k)]
  <2>1. req' = [req EXCEPT ![r] = q] BY <1>2 DEF Arrive
  <2>2. k \in Keys BY <1>2 DEF Exists, FindByLookupHash, NoRecord, Record
  <2>3. (Revoked(k) \/ Expired(k)) \in BOOLEAN OBVIOUS
  <2>4. q \in Request BY <2>2, <2>3, NewTyped DEF Request
  <2>5. q.pc = "verifying" /\ q.key = k /\ q.effect = FALSE BY DEF New
  <2>6. req'[r] = q BY <2>1, KnownRequests DEF ReqInv
  <2>7. Exists(k)' BY <1>2, <2>2, RoleKept
  <2> HIDE DEF q
  <2>8. RequestOK(r)' BY <2>2, <2>5, <2>6, <2>7 DEF RequestOK
  <2> HIDE DEF KnownInv
  <2> QED BY <1>1, <2>1, <2>4, <2>8, OneRequest
<1>3. CASE ~Exists(k)
  <2> DEFINE q == [New EXCEPT !.pc = "done", !.op = op]
  <2>1. req' = [req EXCEPT ![r] = q] BY <1>3 DEF Arrive
  <2>2. q \in Request BY NewTyped DEF Request
  <2>3. q.pc = "done" /\ q.effect = FALSE BY DEF New
  <2>4. req'[r] = q BY <2>1, KnownRequests DEF ReqInv
  <2> HIDE DEF q
  <2>5. RequestOK(r)' BY <2>3, <2>4 DEF RequestOK
  <2> HIDE DEF KnownInv
  <2> QED BY <1>1, <2>1, <2>2, <2>5, OneRequest
<1> QED BY <1>2, <1>3

LEMMA RequestsHandled ==
  ASSUME KnownInv, KeysKept, NEW r \in Requests, Handle(r) PROVE ReqInv'
<1> USE KnownRequests
<1>0. now' = now
  BY DEF Handle, Arrive, ServePublic, Authenticate, Refuse, RateLimited, Serve, CreateKey, InsertKey, RevokeKey, Decide, Audit
<1>r. req[r] \in Request /\ RequestOK(r) BY DEF ReqInv, RequestsOK
<1> HIDE DEF KnownInv
<1>1. ASSUME NEW k \in ResolvedKeys, NEW op \in Ops, Arrive(r, k, op) PROVE ReqInv'
  BY <1>1, ArriveKeeps
<1>2. CASE ServePublic(r)
  <2> DEFINE q == [New EXCEPT !.pc = "done", !.op = "public"]
  <2>1. req' = [req EXCEPT ![r] = q] BY <1>2 DEF ServePublic
  <2>2. q \in Request BY NewTyped DEF Request, Ops
  <2>3. q.pc = "done" /\ q.effect = FALSE BY DEF New
  <2>4. req'[r] = q BY <2>1 DEF ReqInv
  <2> HIDE DEF q
  <2>5. RequestOK(r)' BY <2>3, <2>4 DEF RequestOK
  <2> QED BY <1>0, <2>1, <2>2, <2>5, OneRequest
<1>3. CASE Authenticate(r)
  <2> DEFINE q == [req[r] EXCEPT !.pc = IF Admitted(r) THEN "admitted" ELSE "done"]
  <2>1. req' = [req EXCEPT ![r] = q] BY <1>3 DEF Authenticate, ReqInv
  <2>2. q \in Request BY <1>r DEF Request
  <2>3. /\ q.pc = IF Admitted(r) THEN "admitted" ELSE "done"
        /\ q.key = req[r].key /\ q.dead = req[r].dead /\ q.effect = req[r].effect
    BY <1>r DEF Request
  <2>4. req[r].pc = "verifying" BY <1>3 DEF Authenticate
  <2>5. ~q.effect BY <1>r, <2>3, <2>4 DEF RequestOK
  <2>6. req[r].key \in Keys /\ keys'[req[r].key].role # "none"
    BY <2>4, ActingKey, RoleKept, ExistsInTable
  <2>7. req'[r] = q BY <2>1 DEF ReqInv
  <2>8. Admitted(r) => ~req[r].dead BY DEF Admitted
  <2> HIDE DEF q
  <2>9. RequestOK(r)' BY <2>3, <2>5, <2>6, <2>7, <2>8 DEF RequestOK, Exists, FindByLookupHash
  <2> QED BY <1>0, <2>1, <2>2, <2>9, OneRequest
<1>4. CASE Refuse(r) \/ RateLimited(r)
  BY <1>0, <1>4, AnsweredKeeps DEF Refuse, RateLimited
<1>5. CASE Serve(r)
  BY <1>0, <1>5, AnsweredKeeps DEF Serve, MayAct
<1>6. CASE CreateKey(r)
  <2> DEFINE q == [req[r] EXCEPT !.pc = "hashing"]
  <2>1. req' = [req EXCEPT ![r] = q] BY <1>6 DEF CreateKey, ReqInv
  <2>2. q \in Request BY <1>r DEF Request
  <2>3. q.pc = "hashing" /\ q.key = req[r].key /\ q.op = req[r].op /\ q.dead = req[r].dead /\ q.effect = req[r].effect
    BY <1>r DEF Request
  <2>4. req[r].pc = "admitted" /\ req[r].op = "create" BY <1>6 DEF CreateKey, MayAct
  <2>5. req[r].key \in Keys /\ Exists(req[r].key) BY <2>4, ActingKey
  <2>6. keys'[req[r].key].role = "admin" /\ Exists(req[r].key)'
    BY <1>6, <2>4, <2>5, AdminOps, RoleKept DEF CreateKey
  <2>7. req'[r] = q BY <2>1 DEF ReqInv
  <2> HIDE DEF q
  <2>8. RequestOK(r)' BY <1>r, <2>3, <2>4, <2>5, <2>6, <2>7 DEF RequestOK
  <2> QED BY <1>0, <2>1, <2>2, <2>8, OneRequest
<1>7. CASE InsertKey(r)
  <2>1. req[r].pc = "hashing" /\ Answered(r, TRUE) BY <1>7 DEF InsertKey
  <2>2. keys[req[r].key].role \in RequiredRoles(req[r].op) BY <1>r, <2>1 DEF RequestOK, RequiredRoles
  <2> QED BY <1>0, <2>1, <2>2, AnsweredKeeps
<1>8. CASE RevokeKey(r)
  <2>1. Answered(r, TRUE) \/ Answered(r, FALSE) BY <1>8 DEF RevokeKey
  <2> QED BY <1>0, <1>8, <2>1, AnsweredKeeps DEF RevokeKey, MayAct
<1>9. CASE Decide(r)
  <2>1. Answered(r, TRUE) \/ Answered(r, FALSE) BY <1>9 DEF Decide
  <2> QED BY <1>0, <1>9, <2>1, AnsweredKeeps DEF Decide, MayAct
<1>10. CASE Audit(r)
  <2>1. PICK pc \in {"done", "unlogged"}, audited \in BOOLEAN, at \in 0..MaxTime :
          /\ req' = [req EXCEPT ![r] = [req[r] EXCEPT !.pc = pc, !.audited = audited, !.at = at]]
          /\ pc = "done" => audited
    <3>1. now \in 0..MaxTime BY ClockTyped DEF KnownInv, AccessInv
    <3>2. CASE req' = [req EXCEPT ![r] = CreateLog(r)] BY <3>1, <3>2 DEF CreateLog
    <3>3. CASE req' = [req EXCEPT ![r].pc = "unlogged"]
      <4>1. [req[r] EXCEPT !.pc = "unlogged"]
              = [req[r] EXCEPT !.pc = "unlogged", !.audited = req[r].audited, !.at = req[r].at]
        BY <1>r DEF Request
      <4>2. req' = [req EXCEPT ![r] = [req[r] EXCEPT !.pc = "unlogged"]] BY <3>3 DEF ReqInv
      <4>3. req[r].audited \in BOOLEAN /\ req[r].at \in 0..MaxTime BY <1>r DEF Request
      <4> QED BY <4>1, <4>2, <4>3
    <3> QED BY <1>10, <3>2, <3>3 DEF Audit
  <2> DEFINE q == [req[r] EXCEPT !.pc = pc, !.audited = audited, !.at = at]
  <2>2. q \in Request BY <1>r DEF Request
  <2>3. q.pc = pc /\ q.audited = audited /\ q.key = req[r].key /\ q.op = req[r].op /\ q.dead = req[r].dead
        /\ q.effect = req[r].effect
    BY <1>r DEF Request
  <2>4. req'[r] = q BY <2>1 DEF ReqInv
  <2>5. req[r].key \in Keys \cup {NoKey} BY <1>r DEF Request
  <2>6. req[r].effect => req[r].key \in Keys /\ Exists(req[r].key)
    BY <1>r, <2>5, ExistsInTable DEF RequestOK, RequiredRoles, Roles
  <2>7. req[r].effect => keys'[req[r].key].role = keys[req[r].key].role BY <2>6, RoleKept
  <2> HIDE DEF q
  <2>8. RequestOK(r)' BY <1>r, <2>1, <2>3, <2>4, <2>7 DEF RequestOK, RequiredRoles
  <2> QED BY <1>0, <2>1, <2>2, <2>8, OneRequest DEF q
<1> QED BY <1>1, <1>2, <1>3, <1>4, <1>5, <1>6, <1>7, <1>8, <1>9, <1>10 DEF Handle

\* The gateway ends: no request goes on, and none of those that are over is
\* lost or changed.
LEMMA CrashKeeps ==
  ASSUME KnownInv, KeysKept, NEW p \in Starters, Crash(p) PROVE ReqInv'
<1> HIDE DEF KnownInv
<1>1. now' = now BY DEF Crash
<1>2. CASE p # Gateway BY <1>1, <1>2, SameRequests DEF Crash
<1>3. CASE p = Gateway
  <2>1. req' = [r \in Requests |-> IF req[r].pc = "new" THEN New ELSE [req[r] EXCEPT !.pc = "cut"]]
    BY <1>3 DEF Crash
  <2>2. ASSUME NEW r \in Requests PROVE req'[r] \in Request /\ RequestOK(r)'
    <3>1. req[r] \in Request /\ RequestOK(r) BY KnownRequests DEF ReqInv, RequestsOK
    <3>2. CASE req[r].pc = "new"
      <4>1. req'[r] = New BY <2>1, <3>2
      <4> QED BY <4>1, NewTyped DEF RequestOK, New
    <3>3. CASE req[r].pc # "new"
      <4> DEFINE q == [req[r] EXCEPT !.pc = "cut"]
      <4>1. req'[r] = q BY <2>1, <3>3
      <4>2. q \in Request BY <3>1 DEF Request
      <4>3. q.pc = "cut" /\ q.key = req[r].key /\ q.op = req[r].op /\ q.dead = req[r].dead /\ q.effect = req[r].effect
        BY <3>1 DEF Request
      <4>4. keys' = keys BY DEF Crash
      <4> HIDE DEF q
      <4> QED BY <3>1, <4>1, <4>2, <4>3, <4>4 DEF RequestOK, RequiredRoles
    <3> QED BY <3>2, <3>3
  <2> QED BY <2>1, <2>2 DEF ReqInv, RequestsOK
<1> QED BY <1>2, <1>3

\* The daily clean-up takes only rows that are older than the retention.
LEMMA CleanUpKeeps ==
  ASSUME KnownInv, KeysKept, CleanUp PROVE ReqInv'
<1> HIDE DEF KnownInv
<1>1. req' = DeleteOlderThan(now - Retention) /\ now' = now /\ keys' = keys BY DEF CleanUp
<1>2. ASSUME NEW r \in Requests PROVE req'[r] \in Request /\ RequestOK(r)'
  <2>1. req[r] \in Request /\ RequestOK(r) BY KnownRequests DEF ReqInv, RequestsOK
  <2> DEFINE kept == req[r].audited /\ req[r].at >= now - Retention
             q    == [req[r] EXCEPT !.audited = kept]
  <2>2. req'[r] = q BY <1>1, <2>1 DEF DeleteOlderThan, Request
  <2>3. kept \in BOOLEAN OBVIOUS
  <2>4. q \in Request BY <2>1, <2>3 DEF Request
  <2>5. q.pc = req[r].pc /\ q.key = req[r].key /\ q.op = req[r].op /\ q.dead = req[r].dead
        /\ q.effect = req[r].effect /\ q.at = req[r].at /\ q.audited = kept
    BY <2>1 DEF Request
  <2>6. req[r].audited => kept \/ req[r].at + Retention < now
    <3>1. req[r].at \in Nat /\ now \in Nat /\ Retention \in Nat
      BY <2>1, ClockTyped, AccessAssumption DEF Request, KnownInv, AccessInv
    <3> QED BY <3>1
  <2> HIDE DEF q, kept
  <2> QED BY <1>1, <2>1, <2>2, <2>4, <2>5, <2>6 DEF RequestOK, RequiredRoles, Exists, FindByLookupHash
<1>3. req' \in [Requests -> Request] BY <1>1, <1>2 DEF DeleteOlderThan
<1> QED BY <1>2, <1>3 DEF ReqInv, RequestsOK

-----------------------------------------------------------------------------
(* The invariant of keys and requests.                                      *)

Rest ==
  /\ now \in 1..MaxTime
  /\ starter \in [Starters -> {"down", "hashing", "up"}]
  /\ approvals \in [Approvals -> {"none", "pending", "approved", "rejected"}]
  /\ faults \in 0..MaxFaults /\ lapped \in BOOLEAN

LEMMA KnownParts == KnownInv <=> KeysInv /\ ReqInv /\ Rest
<1>1. TypeOK <=> keys \in [Keys -> Row] /\ req \in [Requests -> Request] /\ Rest
  BY DEF TypeOK, Row, Request, Rest
<1> QED BY <1>1, RequestsOKDef DEF KnownInv, AccessInv, KeysInv, ReqInv

LEMMA KnownInit == Init => KnownInv
<1> SUFFICES ASSUME Init PROVE KeysInv /\ ReqInv /\ Rest BY KnownParts
<1>1. 0 \in 0..MaxTime /\ 0 \in 0..MaxFaults /\ 1 \in 1..MaxTime BY AccessAssumption
<1>2. NoRecord \in Row /\ NoRecord.role = "none" BY <1>1 DEF NoRecord, Record, Row
<1>3. KeysInv
  BY <1>2, ExistsInTable DEF Init, KeysInv, KeysComeFromAdmins, UnusedAreBlank
<1>4. ReqInv BY NewTyped DEF Init, ReqInv, RequestsOK, RequestOK, New
<1>5. Rest BY <1>1 DEF Init, Rest
<1> QED BY <1>3, <1>4, <1>5

LEMMA RestStep == ASSUME KnownInv, [Next]_vars PROVE Rest'
<1>1. Rest BY KnownParts
<1>2. ASSUME NEW r \in Requests, Handle(r) PROVE Rest'
  <2>1. CASE Audit(r) BY <1>1, <2>1, AccessAssumption DEF Rest, Audit
  <2>2. CASE Decide(r) BY <1>1, <2>2 DEF Rest, Decide, Resolve
  <2>3. CASE UNCHANGED <<now, starter, approvals, faults, lapped>> BY <1>1, <2>3 DEF Rest
  <2> QED BY <1>2, <2>1, <2>2, <2>3
    DEF Handle, Arrive, ServePublic, Authenticate, Refuse, RateLimited, Serve, CreateKey, InsertKey, RevokeKey
<1>3. CASE Tick BY <1>1, <1>3, AccessAssumption DEF Rest, Tick
<1>4. CASE CleanUp BY <1>1, <1>4 DEF Rest, CleanUp
<1>5. ASSUME NEW p \in Starters, CountKeys(p) PROVE Rest' BY <1>1, <1>5 DEF Rest, CountKeys
<1>6. ASSUME NEW p \in Starters, InsertBootstrapKey(p) PROVE Rest' BY <1>1, <1>6 DEF Rest, InsertBootstrapKey
<1>7. ASSUME NEW p \in Starters, Crash(p) PROVE Rest'
  <2>1. faults' \in 0..MaxFaults BY <1>1, <1>7, AccessAssumption DEF Rest, Crash
  <2>2. approvals' \in [Approvals -> {"none", "pending", "approved", "rejected"}] BY <1>1, <1>7 DEF Rest, Crash
  <2> QED BY <1>1, <1>7, <2>1, <2>2 DEF Rest, Crash
<1>8. ASSUME NEW a \in Approvals, RequestApproval(a) PROVE Rest' BY <1>1, <1>8 DEF Rest, RequestApproval
<1>9. CASE UNCHANGED vars BY <1>1, <1>9 DEF Rest, vars
<1> QED BY <1>2, <1>3, <1>4, <1>5, <1>6, <1>7, <1>8, <1>9 DEF Next

LEMMA KnownStep == ASSUME KnownInv, [Next]_vars PROVE KnownInv'
<1>1. KeysInv' /\ KeysKept BY KeysStep
<1>2. Rest' BY RestStep
<1>3. ReqInv'
  <2>1. ASSUME UNCHANGED req, now' \in {now, now + 1} PROVE ReqInv' BY <1>1, <2>1, SameRequests
  <2>2. CASE CleanUp BY <1>1, <2>2, CleanUpKeeps
  <2>3. ASSUME NEW p \in Starters, Crash(p) PROVE ReqInv' BY <1>1, <2>3, CrashKeeps
  <2>4. ASSUME NEW r \in Requests, Handle(r) PROVE ReqInv' BY <1>1, <2>4, RequestsHandled
  <2> HIDE DEF KnownInv
  <2> QED BY <2>1, <2>2, <2>3, <2>4 DEF Next, vars, Tick, CountKeys, InsertBootstrapKey, RequestApproval
<1>4. (KeysInv /\ ReqInv /\ Rest)' BY <1>1, <1>2, <1>3
<1> QED BY <1>4, KnownParts, PTL

\* Keys and what they admit are sound in every reachable state: every key goes
\* back to a bootstrap through admins' keys and is not used after its expiry;
\* a request has an effect only with a key that was live on arrival and whose
\* role requireRoles lets pass, although authenticateApiKey judges a record
\* read before the slow comparison; and what it did is in the audit log for as
\* long as the retention lasts.
THEOREM AccessIsSound == Spec => []AccessInv
<1>1. KnownInv /\ [Next]_vars => KnownInv' BY KnownStep
<1>2. KnownInv => AccessInv BY DEF KnownInv
<1> QED BY KnownInit, <1>1, <1>2, PTL DEF Spec

\* A revocation stands: no step of any request or process lifts it or replaces
\* who made it, because DELETE /keys/:id refuses a key whose revokedAt is set
\* and a key that authenticates has only its last use written.
THEOREM RevocationStands == Spec => RevocationIsFinal
<1>1. ASSUME KnownInv, [Next]_vars
      PROVE  [\A k \in Keys : Revoked(k) => keys'[k] = [keys[k] EXCEPT !.used = keys'[k].used]]_vars
  <2>1. KeysKept /\ KeysInv BY <1>1, KeysStep, KnownKeys
  <2>2. ASSUME NEW k \in Keys, Revoked(k) PROVE Exists(k)
    BY <2>1, <2>2 DEF KeysInv, UnusedAreBlank, Revoked, NoRecord, Record
  <2> QED BY <2>1, <2>2 DEF KeysKept
<1>2. KnownInv /\ [Next]_vars => KnownInv' BY KnownStep
<1> QED BY KnownInit, <1>1, <1>2, PTL DEF Spec, RevocationIsFinal

-----------------------------------------------------------------------------
(* The bootstrap.                                                           *)

LEMMA BootstrapInit == Init => BootstrapIsAlone
<1> SUFFICES ASSUME Init PROVE BootstrapIsAlone OBVIOUS
<1>1. \A k \in Keys : keys[k].role = "none" /\ keys[k].system = FALSE BY DEF Init, NoRecord, Record
<1>2. ~AnyKey BY <1>1, ExistsInTable DEF AnyKey
<1> QED BY <1>1, <1>2 DEF Init, BootstrapIsAlone

LEMMA KeyStays == ASSUME KeysKept, AnyKey PROVE AnyKey'
  BY ExistsInTable DEF KeysKept, AnyKey, Exists, FindByLookupHash

\* Where there is a key there is an admin's, before and after the step.
LEMMA AdminStays ==
  ASSUME KeysKept, \E k \in Keys : keys[k].role = "admin" PROVE \E k \in Keys : keys'[k].role = "admin"
<1>1. PICK k \in Keys : keys[k].role = "admin" OBVIOUS
<1>2. Exists(k) BY <1>1, ExistsInTable
<1> QED BY <1>1, <1>2 DEF KeysKept

LEMMA BootstrapStep ==
  ASSUME IndInv, [Next]_vars PROVE BootstrapIsAlone'
<1>1. KnownInv /\ BootstrapIsAlone BY DEF IndInv
<1>2. KeysInv /\ KeysInv' /\ KeysKept BY <1>1, KnownKeys, KeysStep
<1>3. starter \in [Starters -> {"down", "hashing", "up"}] /\ lapped \in BOOLEAN
  BY <1>1, KnownParts DEF Rest
\* A step that adds no key.
<1>4. ASSUME \A k \in Keys : keys'[k].role = keys[k].role /\ keys'[k].system = keys[k].system
      PROVE  /\ AnyKey' <=> AnyKey
             /\ (\E k \in Keys : keys'[k].role = "admin") <=> \E k \in Keys : keys[k].role = "admin"
             /\ (\A j, k \in Keys : keys'[j].system /\ keys'[k].system => j = k)
                  <=> \A j, k \in Keys : keys[j].system /\ keys[k].system => j = k
  BY <1>4 DEF AnyKey, Exists, FindByLookupHash
<1>5. ASSUME UNCHANGED <<starter, lapped>>,
             \A k \in Keys : keys'[k].role = keys[k].role /\ keys'[k].system = keys[k].system
      PROVE  BootstrapIsAlone'
  <2>1. AnyKey' <=> AnyKey BY <1>4, <1>5
  <2>2. (\E k \in Keys : keys'[k].role = "admin") <=> \E k \in Keys : keys[k].role = "admin" BY <1>4, <1>5
  <2> QED BY <1>1, <1>5, <2>1, <2>2 DEF BootstrapIsAlone
<1>6. ASSUME NEW p \in Starters, CountKeys(p) PROVE BootstrapIsAlone'
  <2>1. UNCHANGED keys BY <1>6 DEF CountKeys
  <2>2. AnyKey' <=> AnyKey BY <2>1 DEF AnyKey, Exists, FindByLookupHash
  <2>3. starter' = [starter EXCEPT ![p] = IF AnyKey THEN "up" ELSE "hashing"] BY <1>6 DEF CountKeys
  <2>4. lapped' = (lapped \/ (~AnyKey /\ \E o \in Starters : starter[o] = "hashing")) BY <1>6 DEF CountKeys
  <2>5. \A q \in Starters : starter'[q] = IF q = p THEN (IF AnyKey THEN "up" ELSE "hashing") ELSE starter[q]
    BY <1>3, <2>3
  <2>6. (\E q \in Starters : starter'[q] = "up") => AnyKey' BY <1>1, <2>2, <2>5 DEF BootstrapIsAlone
  <2>7. ~lapped' => \A q, o \in Starters : starter'[q] = "hashing" /\ starter'[o] = "hashing" => q = o
    BY <1>1, <2>4, <2>5 DEF BootstrapIsAlone
  <2>8. ~lapped' => ((\E q \in Starters : starter'[q] = "hashing") => ~AnyKey')
    BY <1>1, <2>2, <2>4, <2>5 DEF BootstrapIsAlone
  <2> QED BY <1>1, <2>1, <2>2, <2>4, <2>6, <2>7, <2>8 DEF BootstrapIsAlone
<1>7. ASSUME NEW p \in Starters, InsertBootstrapKey(p) PROVE BootstrapIsAlone'
  <2>1. starter[p] = "hashing" /\ Insert("admin", 0, NoKey, TRUE) /\ starter' = [starter EXCEPT ![p] = "up"] /\ UNCHANGED lapped
    BY <1>7 DEF InsertBootstrapKey
  <2>2. PICK j \in Keys : /\ ~Exists(j) /\ keys'[j].role = "admin"
                           /\ \A k \in Keys : k # j => keys'[k] = keys[k]
    BY <1>2, <2>1 DEF Insert, Create, Record, KeysInv
  <2>3. AnyKey' BY <2>2 DEF AnyKey, Exists, FindByLookupHash
  <2>4. ASSUME ~lapped, NEW k \in Keys, k # j PROVE ~keys'[k].system
    <3>1. ~AnyKey BY <1>1, <2>1, <2>4 DEF BootstrapIsAlone
    <3>2. keys[k] = NoRecord BY <1>2, <3>1 DEF AnyKey, KeysInv, UnusedAreBlank
    <3> QED BY <2>2, <2>4, <3>2 DEF NoRecord, Record
  <2>5. ~lapped => \A q \in Starters : starter'[q] # "hashing"
    BY <1>1, <1>3, <2>1 DEF BootstrapIsAlone
  <2> QED BY <2>1, <2>2, <2>3, <2>4, <2>5 DEF BootstrapIsAlone
<1>8. ASSUME NEW r \in Requests, InsertKey(r) PROVE BootstrapIsAlone'
  <2>1. req[r].pc = "hashing" /\ UNCHANGED <<starter, lapped>> BY <1>8 DEF InsertKey
  <2>2. req[r].key \in Keys /\ Exists(req[r].key) BY <1>1, <2>1, ActingKey
  <2>3. AnyKey BY <2>2 DEF AnyKey
  <2>4. AnyKey' BY <1>2, <2>3, KeyStays
  <2>5. \E k \in Keys : keys'[k].role = "admin" BY <1>1, <1>2, <2>3, AdminStays DEF BootstrapIsAlone
  <2>6. PICK role \in Roles, exp \in {0, now} : Insert(role, exp, req[r].key, FALSE) BY <1>8 DEF InsertKey
  <2>7. PICK j \in Keys : keys'[j].system = FALSE /\ \A k \in Keys : k # j => keys'[k] = keys[k]
    BY <1>2, <2>6 DEF Insert, Create, Record, KeysInv
  <2>8. \A k \in Keys : keys'[k].system => keys[k].system BY <2>7
  <2> QED BY <1>1, <2>1, <2>3, <2>4, <2>5, <2>8 DEF BootstrapIsAlone
<1>9. ASSUME NEW p \in Starters, Crash(p) PROVE BootstrapIsAlone'
  <2>1. starter' = [starter EXCEPT ![p] = "down"] /\ UNCHANGED <<keys, lapped>> BY <1>9 DEF Crash
  <2>2. \A q \in Starters : starter'[q] \in {"down", starter[q]} BY <1>3, <2>1
  <2>3. AnyKey' <=> AnyKey BY <2>1 DEF AnyKey, Exists, FindByLookupHash
  <2> QED BY <1>1, <2>1, <2>2, <2>3 DEF BootstrapIsAlone
<1>10. ASSUME NEW r \in Requests, Authenticate(r) PROVE BootstrapIsAlone'
  <2>1. req[r].key \in Keys /\ req[r].pc = "verifying" BY <1>1, <1>10, ActingKey DEF Authenticate
  <2>2. \A k \in Keys : keys'[k].role = keys[k].role /\ keys'[k].system = keys[k].system
    BY <1>2, <1>10, <2>1 DEF Authenticate, UpdateLastUsed, KeysInv, Row
  <2> QED BY <1>5, <1>10, <2>2 DEF Authenticate
<1>11. ASSUME NEW r \in Requests, RevokeKey(r) PROVE BootstrapIsAlone'
  <2>1. \A k \in Keys : keys'[k].role = keys[k].role /\ keys'[k].system = keys[k].system
    <3>1. UNCHANGED keys \/ \E j \in Keys : keys' = [keys EXCEPT ![j].revokedBy = req[r].key]
      BY <1>11 DEF RevokeKey, Revoke
    <3> QED BY <1>2, <3>1 DEF KeysInv, Row
  <2> QED BY <1>5, <1>11, <2>1 DEF RevokeKey
<1>12. CASE UNCHANGED <<keys, starter, lapped>> BY <1>5, <1>12
<1> QED BY <1>6, <1>7, <1>8, <1>9, <1>10, <1>11, <1>12
  DEF Next, vars, Handle, Tick, CleanUp, RequestApproval, Arrive, ServePublic, Refuse, RateLimited, Serve,
      CreateKey, Decide, Audit

LEMMA IndStep == ASSUME IndInv, [Next]_vars PROVE IndInv'
  BY KnownStep, BootstrapStep DEF IndInv

\* At most one bootstrap key is counted as such.
LEMMA SystemKeysAreFew ==
  ASSUME \A j, k \in Keys : keys[j].system /\ keys[k].system => j = k
  PROVE  ~(Cardinality({k \in Keys : keys[k].system}) > 1)
<1> DEFINE S == {k \in Keys : keys[k].system}
<1>1. CASE S = {}
  <2>1. Cardinality(S) = 0 BY <1>1, FS_EmptySet
  <2> QED BY <2>1
<1>2. CASE S # {}
  <2>1. PICK k \in S : TRUE BY <1>2
  <2>2. S = {k} BY <2>1
  <2>3. Cardinality(S) = 1 BY <2>2, FS_Singleton
  <2> QED BY <2>3
<1> QED BY <1>1, <1>2

\* ensureBootstrapAdminKey leaves an admin key behind in every process that is
\* up, and makes a second one only when another process counted between its
\* count and its insertion.
THEOREM BootstrapIsOnce == Spec => []BootstrapOnce
<1>1. Init => IndInv BY KnownInit, BootstrapInit DEF IndInv
<1>2. IndInv /\ [Next]_vars => IndInv' BY IndStep
<1>3. IndInv => BootstrapOnce
  <2> SUFFICES ASSUME IndInv PROVE BootstrapOnce OBVIOUS
  <2>1. BootstrapIsAlone /\ lapped \in BOOLEAN BY KnownParts DEF IndInv, Rest
  <2> QED BY <2>1, SystemKeysAreFew DEF BootstrapOnce, BootstrapIsAlone
<1> QED BY <1>1, <1>2, <1>3, PTL DEF Spec
=============================================================================
