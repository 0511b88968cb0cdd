------------------------------- MODULE Access -------------------------------
(***************************************************************************)
(* API keys and what they admit: the bootstrap of the first admin key, the *)
(* authentication of a request against a record that was read before the   *)
(* slow comparison of its hash, roles and rate limits, creation and        *)
(* revocation of keys, the decisions on approval requests, and the audit   *)
(* log that is written after the answer (apps/gateway, packages/storage).  *)
(*                                                                         *)
(* Storage answers at once and a request yields only while bcrypt works,   *)
(* so one action is a request's stretch up to the next hash or answer.     *)
(* The gateway and the script bootstrap-admin-key share the database.      *)
(***************************************************************************)
EXTENDS Integers, FiniteSets

CONSTANTS
  Keys, NoKey,       \* bound: keys that are ever created
  Requests,          \* bound: requests, each sent once
  Approvals,         \* bound: approval requests of tools
  Starters,          \* processes that make sure of a bootstrap key
  Gateway,           \* the one of them that serves requests
  MaxTime,           \* bound: the clock, for expiry
  Retention,         \* auditLogRetentionDays
  MaxFaults          \* bound: crashes, and audit rows that are not written

ASSUME AccessAssumption ==
  /\ Gateway \in Starters /\ NoKey \notin Keys
  /\ {Retention, MaxFaults} \subseteq Nat /\ MaxTime \in Nat \ {0}

Roles == {"admin", "user", "readonly"}
Ops   == {"create", "revoke", "decide", "submit", "read", "public"}

VARIABLES
  now,
  keys,        \* api_keys: role, expiry (0 for never), creator, last use, who revoked it
  starter,     \* per process: "down", "hashing", "up"
  req,         \* per request: place, key, operation, what it saw
  approvals,   \* ApprovalQueue.requests: "none", "pending", "approved", "rejected"
  faults,
  \* what happened
  lapped       \* a bootstrap began while another had counted no keys

vars == <<now, keys, starter, req, approvals, faults, lapped>>

Record(role, exp, by, system) ==
  [role |-> role, exp |-> exp, by |-> by, used |-> 0, revokedBy |-> NoKey, system |-> system]

NoRecord == Record("none", 0, NoKey, FALSE)
New      == [pc |-> "new", key |-> NoKey, op |-> "none", dead |-> FALSE, effect |-> FALSE,
             audited |-> FALSE, at |-> 0]

\* The record of a key that is sent along, if it is one that was handed out.
FindByLookupHash(k) == IF k \in Keys THEN keys[k] ELSE NoRecord

Exists(k)  == FindByLookupHash(k).role # "none"
Revoked(k) == keys[k].revokedBy # NoKey
Expired(k) == keys[k].exp # 0 /\ keys[k].exp < now
Up         == starter[Gateway] = "up"

Init ==
  /\ now = 1 /\ keys = [k \in Keys |-> NoRecord]
  /\ starter = [p \in Starters |-> "down"]
  /\ req = [r \in Requests |-> New]
  /\ approvals = [a \in Approvals |-> "none"]
  /\ faults = 0 /\ lapped = FALSE

Tick == now < MaxTime /\ now' = now + 1 /\ UNCHANGED <<keys, starter, req, approvals, faults, lapped>>

-----------------------------------------------------------------------------
(* The start: ensureBootstrapAdminKey counts, hashes, inserts.             *)

AnyKey_valid == \E k \in Keys : Exists(k) /\ ~Revoked(k)

AnyKey == \E k \in Keys : Exists(k)

CountKeys(p) ==
  /\ starter[p] = "down"
  /\ starter' = [starter EXCEPT ![p] = IF AnyKey THEN "up" ELSE "hashing"]
  /\ lapped' = (lapped \/ (~AnyKey /\ \E o \in Starters : starter[o] = "hashing"))
  /\ UNCHANGED <<now, keys, req, approvals, faults>>

\* repository.create.
Create(k, record) == keys' = [keys EXCEPT ![k] = record]

\* createApiKey, once the fresh key is hashed.
Insert(role, exp, by, system) ==
  \E k \in Keys : ~Exists(k) /\ Create(k, Record(role, exp, by, system))

InsertBootstrapKey(p) ==
  /\ starter[p] = "hashing"
  /\ Insert("admin", 0, NoKey, TRUE)
  /\ starter' = [starter EXCEPT ![p] = "up"]
  /\ UNCHANGED <<now, req, approvals, faults, lapped>>

\* A process ends.  With the gateway its requests end, and so do the approval
\* requests, which are in memory.
Crash(p) ==
  /\ starter[p] # "down" /\ faults < MaxFaults
  /\ faults' = faults + 1
  /\ starter' = [starter EXCEPT ![p] = "down"]
  /\ IF p # Gateway THEN UNCHANGED <<req, approvals>>
     ELSE /\ req' = [r \in Requests |-> IF req[r].pc = "new" THEN New ELSE [req[r] EXCEPT !.pc = "cut"]]
          /\ approvals' = [a \in Approvals |-> "none"]
  /\ UNCHANGED <<now, keys, lapped>>

-----------------------------------------------------------------------------
(* A request: authentication, role, operation, audit.                      *)

\* isPublicRoute: health, metrics, settings and webhooks need no key and leave
\* no trace in the audit log.
ServePublic(r) ==
  /\ Up /\ req[r].pc = "new"
  /\ req' = [req EXCEPT ![r] = [New EXCEPT !.pc = "done", !.op = "public"]]
  /\ UNCHANGED <<now, keys, starter, approvals, faults, lapped>>

\* resolveApiKey: the key of the header or of the query, or none.
ResolvedKeys == {k \in Keys : Exists(k)} \cup {NoKey}

\* The key's record is read and bcrypt compares; without a record the answer
\* is 401.
Arrive(r, k, op) ==
  /\ Up /\ req[r].pc = "new" /\ op # "public"
  /\ req' = [req EXCEPT ![r] =
               IF Exists(k)
               THEN [New EXCEPT !.pc = "verifying", !.key = k, !.op = op,
                                !.dead = Revoked(k) \/ Expired(k)]
               ELSE [New EXCEPT !.pc = "done", !.op = op]]
  /\ UNCHANGED <<now, keys, starter, approvals, faults, lapped>>

\* authenticateApiKey after the comparison: revocation by the record that was
\* read, expiry by the clock.
Admitted(r) == ~req[r].dead /\ ~Expired(req[r].key)

RequiredRoles_authenticated(op) == IF op \in {"decide", "submit"} THEN {"admin", "user"} ELSE Roles

\* requireRoles of the routes.
RequiredRoles(op) ==
  CASE op = "read" -> Roles
    [] op = "submit" -> {"admin", "user"}
    [] OTHER -> {"admin"}

\* Nobody waits for updateLastUsed; it follows the check at once.
UpdateLastUsed(k) == keys' = [keys EXCEPT ![k].used = now]

\* The key was compared and is valid; its last use is stored.
Authenticate(r) ==
  /\ req[r].pc = "verifying" /\ Up
  /\ IF Admitted(r) THEN UpdateLastUsed(req[r].key) ELSE UNCHANGED keys
  /\ req' = [req EXCEPT ![r].pc = IF Admitted(r) THEN "admitted" ELSE "done"]
  /\ UNCHANGED <<now, starter, approvals, faults, lapped>>

\* Of a role that requireRoles lets pass.
MayAct(r) ==
  /\ req[r].pc = "admitted" /\ Up
  /\ keys[req[r].key].role \in RequiredRoles(req[r].op)

Answered(r, effect) == req' = [req EXCEPT ![r].pc = "answered", ![r].effect = effect]

\* 403, with an audit row.
Refuse(r) ==
  /\ req[r].pc = "admitted" /\ Up /\ ~MayAct(r)
  /\ Answered(r, FALSE)
  /\ UNCHANGED <<now, keys, starter, approvals, faults, lapped>>

\* 429 for a key that has used up the requests of its role in this minute; the
\* counters are left out, so any authenticated request may be the one too many.
RateLimited(r) ==
  /\ req[r].pc = "admitted" /\ Up
  /\ Answered(r, FALSE)
  /\ UNCHANGED <<now, keys, starter, approvals, faults, lapped>>

\* Reads and submissions, which change nothing here.
Serve(r) ==
  /\ MayAct(r) /\ req[r].op \in {"read", "submit"}
  /\ Answered(r, TRUE)
  /\ UNCHANGED <<now, keys, starter, approvals, faults, lapped>>

\* POST /keys: the new key is hashed, and then inserted.
CreateKey(r) ==
  /\ MayAct(r) /\ req[r].op = "create"
  /\ req' = [req EXCEPT ![r].pc = "hashing"]
  /\ UNCHANGED <<now, keys, starter, approvals, faults, lapped>>

InsertKey(r) ==
  /\ req[r].pc = "hashing"
  /\ \E role \in Roles, exp \in {0, now} : Insert(role, exp, req[r].key, FALSE)
  /\ Answered(r, TRUE)
  /\ UNCHANGED <<now, starter, approvals, faults, lapped>>

MayRevoke_again(k) == Exists(k)

\* DELETE /keys/:id refuses a key that is revoked already.
MayRevoke(k) == Exists(k) /\ ~Revoked(k)

\* repository.revoke.
Revoke(k, by) == keys' = [keys EXCEPT ![k].revokedBy = by]

RevokeKey(r) ==
  /\ MayAct(r) /\ req[r].op = "revoke"
  /\ \E k \in Keys :
       IF MayRevoke(k)
       THEN Revoke(k, req[r].key) /\ Answered(r, TRUE)
       ELSE Answered(r, FALSE) /\ UNCHANGED keys
  /\ UNCHANGED <<now, starter, approvals, faults, lapped>>

\* approve and reject replace the status, whatever it was.
Resolve(a, decision) == approvals' = [approvals EXCEPT ![a] = decision]

Decide(r) ==
  /\ MayAct(r) /\ req[r].op = "decide"
  /\ \E a \in Approvals, d \in {"approved", "rejected"} :
       IF approvals[a] # "none"
       THEN Resolve(a, d) /\ Answered(r, TRUE)
       ELSE Answered(r, FALSE) /\ UNCHANGED approvals
  /\ UNCHANGED <<now, keys, starter, faults, lapped>>

\* The repository of the audit log: a row is written with its time, and rows
\* that are older than the retention go.
CreateLog(r) == [req[r] EXCEPT !.pc = "done", !.audited = TRUE, !.at = now]

DeleteOlderThan(time) == [r \in Requests |-> [req[r] EXCEPT !.audited = @ /\ req[r].at >= time]]

\* onResponse: a row that cannot be written is logged and forgotten.
Audit(r) ==
  /\ req[r].pc = "answered"
  /\ \/ req' = [req EXCEPT ![r] = CreateLog(r)] /\ UNCHANGED faults
     \/ req' = [req EXCEPT ![r].pc = "unlogged"] /\ faults < MaxFaults /\ faults' = faults + 1
  /\ UNCHANGED <<now, keys, starter, approvals, lapped>>

\* Once a day.
CleanUp ==
  /\ Up /\ req' = DeleteOlderThan(now - Retention)
  /\ UNCHANGED <<now, keys, starter, approvals, faults, lapped>>

\* A tool asks for an approval (ApprovalQueue.create).
RequestApproval(a) ==
  /\ Up /\ approvals[a] = "none" /\ approvals' = [approvals EXCEPT ![a] = "pending"]
  /\ UNCHANGED <<now, keys, starter, req, faults, lapped>>

-----------------------------------------------------------------------------
Handle(r) ==
  \/ \E k \in ResolvedKeys, op \in Ops : Arrive(r, k, op)
  \/ ServePublic(r) \/ Authenticate(r)
  \/ Refuse(r) \/ RateLimited(r) \/ Serve(r) \/ CreateKey(r) \/ InsertKey(r) \/ RevokeKey(r) \/ Decide(r) \/ Audit(r)

Next ==
  \/ Tick \/ CleanUp
  \/ \E p \in Starters : CountKeys(p) \/ InsertBootstrapKey(p) \/ Crash(p)
  \/ \E r \in Requests : Handle(r)
  \/ \E a \in Approvals : RequestApproval(a)

Spec == Init /\ [][Next]_vars
-----------------------------------------------------------------------------
\* The values the variables take.
TypeOK ==
  /\ now \in 1..MaxTime
  /\ keys \in [Keys -> [role : Roles \cup {"none"}, exp : 0..MaxTime, by : Keys \cup {NoKey},
                        used : 0..MaxTime, revokedBy : Keys \cup {NoKey}, system : BOOLEAN]]
  /\ starter \in [Starters -> {"down", "hashing", "up"}]
  /\ req \in [Requests -> [pc : {"new", "verifying", "admitted", "hashing", "answered", "unlogged", "done", "cut"},
                           key : Keys \cup {NoKey}, op : Ops \cup {"none"}, dead : BOOLEAN,
                           effect : BOOLEAN, audited : BOOLEAN, at : 0..MaxTime]]
  /\ approvals \in [Approvals -> {"none", "pending", "approved", "rejected"}]
  /\ faults \in 0..MaxFaults /\ lapped \in BOOLEAN

\* A request has an effect only by a key whose role allows it and which was
\* neither revoked nor expired when the request arrived, although the record
\* it is judged by is older than the moment it acts.
EffectsAreEntitled ==
  \A r \in Requests :
    req[r].effect => req[r].key # NoKey /\ ~req[r].dead /\ keys[req[r].key].role \in RequiredRoles(req[r].op)

\* Every key goes back to the bootstrap: it was made at the start of a process
\* or by a key that is an admin's, and whoever revoked a key is an admin too.  A
\* key that expires is not used after that.
KeysComeFromAdmins ==
  \A k \in Keys : Exists(k) =>
    /\ keys[k].system = (keys[k].by = NoKey)
    /\ keys[k].by # NoKey => keys[keys[k].by].role = "admin" /\ keys[k].by # k
    /\ Revoked(k) => keys[keys[k].revokedBy].role = "admin"
    /\ keys[k].exp # 0 => keys[k].used <= keys[k].exp

\* Once a process is up there is an admin key, and there is more than one
\* bootstrap key only if one process counted while another was hashing.
BootstrapOnce ==
  /\ (\E p \in Starters : starter[p] = "up") => \E k \in Keys : keys[k].role = "admin"
  /\ Cardinality({k \in Keys : keys[k].system}) > 1 => lapped

\* A request that was answered and had an effect is in the audit log, unless
\* the row could not be written, the gateway ended first or the row is older
\* than the retention.
EffectsAreAudited ==
  \A r \in Requests :
    req[r].pc = "done" /\ req[r].effect => req[r].audited \/ req[r].at + Retention < now

\* The types, where keys come from, and what requests may do and leave a trace of.
AccessInv == TypeOK /\ KeysComeFromAdmins /\ EffectsAreEntitled /\ EffectsAreAudited

\* A revocation stands: it is not lifted, and who revoked the key is not
\* replaced by a later request (DELETE /keys/:id checks revokedAt).
RevocationIsFinal ==
  [][\A k \in Keys : Revoked(k) => keys'[k] = [keys[k] EXCEPT !.used = keys'[k].used]]_vars
=============================================================================
