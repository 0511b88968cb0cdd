-------------------------- MODULE ConnectorsProofs --------------------------
(***************************************************************************)
(* Proofs about one connector, for any number of requests, subscriptions,  *)
(* messages, polls, edits, closed connections and faults.                  *)
(***************************************************************************)
EXTENDS Connectors, TLAPS

-----------------------------------------------------------------------------
(* The inductive invariant, in three parts.                                 *)

Wanted == row = "stored" /\ enabled

\* What each type leaves alone, what a process that is down has forgotten, and
\* what there cannot be before the row.
Bare ==
  /\ type # "queue" => subscriptions = NoSub /\ Quiet /\ \A s \in Subs : stage[s] = "free"
  /\ type # "polling" => timer = 0
  /\ row = "stored" => ver >= 1
  /\ type = "polling" /\ up => timer = (IF Wanted THEN ver ELSE 0)
  /\ ~up => Quiet /\ timer = 0 /\ subscriptions = NoSub /\ \A s \in Subs : stage[s] = "free"
  /\ row = "absent" => ver = 0 /\ Quiet /\ subscriptions = NoSub /\ \A s \in Subs : stage[s] = "free"

\* As long as no calls crossed, one call is at work at most and by the row as
\* it is; the subscription it closes is the one that is tracked; a connection
\* that is open, or will be without being told to close, is tracked as well.
\* Nobody closes what is being opened, nor leaves open what is to be closed, so
\* that an entry whose close failed has no connection.
InStep ==
  type = "queue" /\ ~raced =>
    /\ \A q, r \in Callers : req[q].pc # "idle" /\ req[r].pc # "idle" => q = r
    /\ \A r \in Callers :
         /\ req[r].pc # "idle" => req[r].on = Wanted
         /\ req[r].pc = "closing" => req[r].sub = subscriptions /\ stage[req[r].sub] # "open"
         /\ req[r].pc = "subscribing" => subscriptions = NoSub /\ ~closed[req[r].sub]
    /\ \A s \in Subs : stage[s] = "open" => s = subscriptions /\ ~closed[s]
    /\ \A s \in Subs : stage[s] \in {"waiting", "reopening"} => closed[s] \/ s = subscriptions
    /\ Quiet /\ ~Wanted => subscriptions = NoSub \/ closed[subscriptions]
    /\ up /\ Quiet /\ Wanted /\ faults = 0 => HasSubscription

\* Calls wait for a connection of their own.
OwnSubs ==
  \A r \in Callers :
    /\ req[r].pc # "idle" => req[r].sub \in Subs
    /\ req[r].pc = "closing" => closed[req[r].sub]
    /\ req[r].pc = "subscribing" => req[r].on

LifeInv == Bare /\ InStep /\ OwnSubs

\* Nothing has happened that takes a message back from its handler.
Calm == closes = 0 /\ faults = 0 /\ ver <= 1 /\ row # "deleted"

MsgInv ==
  /\ AckedWasProcessed
  /\ secret => type = "webhook"
  /\ work # {} => type = "queue"
  /\ \A m \in Messages : secret /\ msg[m] = "held" => sender[m] = "signed"
  /\ Calm =>
       /\ up /\ \A r \in Callers : req[r].pc # "closing"
       /\ \A m \in Messages : msg[m] \in {"ready", "held"} => processed[m] = 0
       /\ \A v, w \in work : w.live /\ msg[w.m] = "held" /\ (v.m = w.m => v = w)

\* As long as no polls overlapped: one waits at most, what it got is no older
\* than the state, and there are events only of contents up to the state.
PollInv ==
  /\ \A p \in Polls : poll[p].pc \in {"answered", "processing"} => poll[p].got \in 1..content
  /\ state <= content
  /\ ~raced =>
       /\ \A p, q \in Polls : poll[p].pc # "idle" /\ poll[q].pc # "idle" => p = q
       /\ \A c \in 1..MaxContent : events[c] < 2 /\ (events[c] > 0 => c <= state)
       /\ \A p \in Polls :
            /\ poll[p].pc = "answered" => state <= poll[p].got
            /\ poll[p].pc = "processing" => state < poll[p].got

-----------------------------------------------------------------------------
(* The lifecycle and the driver.                                            *)

USE DEF row_, life, driver, broker, polling, bounds

Versions == 0..(MaxEdits + 1)
Call == [pc : {"idle", "closing", "subscribing"}, sub : Subs \cup {NoSub}, on : BOOLEAN, ver : Versions]

TypeLife ==
  /\ type \in Types /\ row \in {"absent", "stored", "deleted"} /\ enabled \in BOOLEAN /\ ver \in Versions
  /\ up \in BOOLEAN /\ req \in [Callers -> Call] /\ subscriptions \in Subs \cup {NoSub} /\ timer \in Versions
  /\ stage \in [Subs -> {"free", "opening", "open", "quitting", "waiting", "reopening"}]
  /\ closed \in [Subs -> BOOLEAN] /\ raced \in BOOLEAN /\ faults \in 0..MaxFaults

LifeOK == TypeLife /\ LifeInv

LEMMA Bounds ==
  /\ 0 \in Versions /\ 1 \in Versions /\ Versions \subseteq Nat
  /\ 0 \in 0..MaxFaults /\ 0..MaxFaults \subseteq Nat /\ MaxFaults \in Nat /\ MaxEdits \in Nat
  BY ConnectorsAssumption DEF Versions

LEMMA IdleTyped == Idle \in Call /\ Idle.pc = "idle"
  BY Bounds DEF Idle, Call

LEMMA BootIsCaller == Boot \in Callers /\ Requests \subseteq Callers
  BY DEF Callers

LEMMA FaultCounts ==
  ASSUME faults \in 0..MaxFaults, Fault PROVE faults' \in 0..MaxFaults /\ faults' > 0
  BY Bounds DEF Fault

\* A step that leaves the lifecycle and the driver alone.
LEMMA LifeSame ==
  ASSUME LifeOK, UNCHANGED <<type, row, enabled, ver, up, req, subscriptions, timer, stage, closed>>,
         raced' \in BOOLEAN, raced => raced', UNCHANGED faults \/ Fault
  PROVE  LifeOK'
<1>1. faults' \in 0..MaxFaults /\ (faults' = 0 => faults = 0)
  BY FaultCounts DEF LifeOK, TypeLife
<1>2. TypeLife' BY <1>1 DEF LifeOK, TypeLife
<1>3. Bare' BY DEF LifeOK, LifeInv, Bare, Quiet, Wanted
<1>4. InStep' BY <1>1 DEF LifeOK, LifeInv, TypeLife, InStep, HasSubscription, Quiet, Wanted
<1>5. OwnSubs' BY DEF LifeOK, LifeInv, OwnSubs
<1> QED BY <1>2, <1>3, <1>4, <1>5 DEF LifeOK, LifeInv

\* The process ends.
LEMMA LifeDown ==
  ASSUME LifeOK, Down, UNCHANGED row_, UNCHANGED faults \/ Fault PROVE LifeOK'
<1>1. faults' \in 0..MaxFaults BY FaultCounts DEF LifeOK, TypeLife
<1>2. /\ up' = FALSE /\ subscriptions' = NoSub /\ timer' = 0 /\ raced' = FALSE
      /\ req' \in [Callers -> Call] /\ \A r \in Callers : req'[r] = Idle
      /\ stage' = [s \in Subs |-> "free"] /\ closed' = [s \in Subs |-> FALSE]
  BY IdleTyped DEF Down
<1>3. Quiet' BY <1>2, IdleTyped DEF Quiet
<1>4. TypeLife' BY <1>1, <1>2, Bounds DEF LifeOK, TypeLife
<1>5. Bare' BY <1>2, <1>3 DEF LifeOK, LifeInv, Bare
<1>6. InStep' BY <1>2, <1>3, IdleTyped DEF InStep
<1>7. OwnSubs' BY <1>2, IdleTyped DEF OwnSubs
<1> QED BY <1>4, <1>5, <1>6, <1>7 DEF LifeOK, LifeInv

\* Start, in its two outcomes.
LEMMA StartOutcome ==
  ASSUME TypeLife, NEW r \in Callers, NEW on \in BOOLEAN, NEW v \in Versions,
         NEW st \in [Subs -> {"free", "opening", "open", "quitting", "waiting", "reopening"}],
         Start(r, on, v, st)
  PROVE  /\ timer' = (IF on /\ type = "polling" THEN v ELSE 0) /\ timer' \in Versions
         /\ req' \in [Callers -> Call] /\ \A q \in Callers : q # r => req'[q] = req[q]
         /\ stage' \in [Subs -> {"free", "opening", "open", "quitting", "waiting", "reopening"}]
         /\ on /\ type = "queue" =>
              \E s \in Subs : /\ req'[r] = [pc |-> "subscribing", sub |-> s, on |-> on, ver |-> v]
                             /\ ~closed[s] /\ stage' = [st EXCEPT ![s] = "opening"]
         /\ ~(on /\ type = "queue") => req'[r] = Idle /\ stage' = st
<1>1. timer' = (IF on /\ type = "polling" THEN v ELSE 0) /\ timer' \in Versions
  BY Bounds DEF Start, StartPolling, StopPolling
<1>2. CASE on /\ type = "queue"
  <2>1. PICK s \in Subs : /\ stage' = [st EXCEPT ![s] = "opening"] /\ ~closed[s]
                          /\ req' = [req EXCEPT ![r] = [pc |-> "subscribing", sub |-> s, on |-> on, ver |-> v]]
    BY <1>2 DEF Start, Subscribe
  <2>2. [pc |-> "subscribing", sub |-> s, on |-> on, ver |-> v] \in Call BY DEF Call
  <2> QED BY <1>1, <1>2, <2>1, <2>2 DEF TypeLife
<1>3. CASE ~(on /\ type = "queue")
  BY <1>1, <1>3, IdleTyped DEF Start, TypeLife
<1> QED BY <1>2, <1>3

\* sync of a request: by the row as it has become, and between other calls
\* unless they race.
LEMMA SyncKeeps ==
  ASSUME LifeOK, NEW r \in Requests, Serving(r), NEW on \in BOOLEAN, NEW v \in Versions, Sync(r, on, v),
         UNCHANGED <<type, up, subscriptions, faults>>,
         row' \in {"stored", "deleted"}, enabled' \in BOOLEAN, ver' \in Versions,
         on = Wanted', row' = "stored" => v = ver' /\ ver' >= 1
  PROVE  LifeOK'
<1>0. r \in Callers /\ up /\ req[r].pc = "idle" BY BootIsCaller DEF Serving
<1>t. TypeLife BY DEF LifeOK
<1>1. raced' \in BOOLEAN /\ (~raced' => ~raced /\ (type = "queue" => Quiet)) BY <1>t DEF TypeLife, Sync
<1>2. CASE subscriptions # NoSub
  <2> DEFINE call == [pc |-> "closing", sub |-> subscriptions, on |-> on, ver |-> v]
  <2>1. /\ closed' = [closed EXCEPT ![subscriptions] = TRUE]
        /\ stage' = [stage EXCEPT ![subscriptions] = IF @ = "open" THEN "quitting" ELSE @]
        /\ req' = [req EXCEPT ![r] = call] /\ UNCHANGED timer
    BY <1>2 DEF Sync, CloseSubscription
  <2>2. type = "queue" /\ subscriptions \in Subs BY <1>2, <1>t DEF TypeLife, LifeOK, LifeInv, Bare
  <2>3. call \in Call BY <2>2 DEF Call
  <2>4. req' \in [Callers -> Call] /\ req'[r] = call /\ \A q \in Callers : q # r => req'[q] = req[q]
    BY <1>0, <1>t, <2>1, <2>3 DEF TypeLife
  <2>5. closed' \in [Subs -> BOOLEAN]
        /\ stage' \in [Subs -> {"free", "opening", "open", "quitting", "waiting", "reopening"}]
    BY <1>t, <2>1 DEF TypeLife
  <2>6. closed'[subscriptions] /\ \A s \in Subs : closed[s] => closed'[s] BY <1>t, <2>1, <2>2 DEF TypeLife
  <2>7. stage'[subscriptions] # "open" /\ \A s \in Subs : s # subscriptions => stage'[s] = stage[s]
    BY <1>t, <2>1, <2>2 DEF TypeLife
  <2>8. ~Quiet' BY <1>0, <2>4 DEF Quiet
  <2>9. TypeLife' BY <1>t, <1>1, <2>1, <2>4, <2>5 DEF TypeLife
  <2>10. Bare' BY <1>0, <2>1, <2>2, <2>8 DEF LifeOK, LifeInv, Bare
  <2>11. OwnSubs'
    <3> SUFFICES ASSUME NEW q \in Callers
                 PROVE  /\ req'[q].pc # "idle" => req'[q].sub \in Subs
                        /\ req'[q].pc = "closing" => closed'[req'[q].sub]
                        /\ req'[q].pc = "subscribing" => req'[q].on
      BY DEF OwnSubs
    <3>1. CASE q = r BY <2>2, <2>4, <2>6, <3>1
    <3>2. CASE q # r BY <2>4, <2>6, <3>2 DEF LifeOK, LifeInv, OwnSubs
    <3> QED BY <3>1, <3>2
  <2>12. InStep'
    <3> SUFFICES ASSUME ~raced'
                 PROVE  /\ \A q, o \in Callers : req'[q].pc # "idle" /\ req'[o].pc # "idle" => q = o
                        /\ \A q \in Callers :
                             /\ req'[q].pc # "idle" => req'[q].on = Wanted'
                             /\ req'[q].pc = "closing" => req'[q].sub = subscriptions' /\ stage'[req'[q].sub] # "open"
                             /\ req'[q].pc = "subscribing" => subscriptions' = NoSub /\ ~closed'[req'[q].sub]
                        /\ \A s \in Subs : stage'[s] = "open" => s = subscriptions' /\ ~closed'[s]
                        /\ \A s \in Subs : stage'[s] \in {"waiting", "reopening"} => closed'[s] \/ s = subscriptions'
      BY <2>8 DEF InStep
    <3>1. \A q \in Callers : q # r => req'[q].pc = "idle" BY <1>1, <2>2, <2>4 DEF Quiet
    <3>2. \A s \in Subs : stage'[s] = "open" => s = subscriptions' /\ ~closed'[s]
      BY <1>1, <2>2, <2>7 DEF LifeOK, LifeInv, InStep
    <3>3. \A s \in Subs : stage'[s] \in {"waiting", "reopening"} => closed'[s] \/ s = subscriptions'
      BY <1>1, <2>2, <2>6, <2>7 DEF LifeOK, LifeInv, InStep
    <3> QED BY <2>4, <2>7, <3>1, <3>2, <3>3
  <2> QED BY <2>9, <2>10, <2>11, <2>12 DEF LifeOK, LifeInv
<1>3. CASE subscriptions = NoSub
  <2>1. Start(r, on, v, stage) /\ UNCHANGED closed BY <1>3 DEF Sync
  <2>2. /\ timer' = (IF on /\ type = "polling" THEN v ELSE 0) /\ timer' \in Versions
        /\ req' \in [Callers -> Call] /\ \A q \in Callers : q # r => req'[q] = req[q]
        /\ stage' \in [Subs -> {"free", "opening", "open", "quitting", "waiting", "reopening"}]
    BY <1>0, <1>t, <2>1, StartOutcome DEF TypeLife
  <2>3. TypeLife' BY <1>t, <1>1, <2>1, <2>2 DEF TypeLife
  <2>4. on => v = ver' BY DEF Wanted
  <2>5. CASE on /\ type = "queue"
    <3>1. PICK s \in Subs : /\ req'[r] = [pc |-> "subscribing", sub |-> s, on |-> on, ver |-> v]
                            /\ ~closed'[s] /\ stage' = [stage EXCEPT ![s] = "opening"]
      BY <2>1, <2>5, <1>0, <1>t DEF Start, Subscribe, TypeLife
    <3>2. \A x \in Subs : stage'[x] = IF x = s THEN "opening" ELSE stage[x] BY <1>t, <3>1 DEF TypeLife
    <3>3. ~Quiet' BY <1>0, <3>1 DEF Quiet
    <3>4. Bare' BY <1>0, <2>2, <2>5, <3>3 DEF LifeOK, LifeInv, Bare
    <3>5. OwnSubs' BY <2>1, <2>2, <2>5, <3>1 DEF LifeOK, LifeInv, OwnSubs
    <3>6. InStep'
      <4> SUFFICES ASSUME ~raced' PROVE InStep' BY DEF InStep
      <4>1. \A q \in Callers : q # r => req'[q].pc = "idle" BY <1>1, <2>2, <2>5 DEF Quiet
      <4>2. \A x \in Subs : stage'[x] = "open" => x = subscriptions' /\ ~closed'[x]
        BY <1>1, <2>1, <2>5, <3>2 DEF LifeOK, LifeInv, InStep
      <4>3. \A x \in Subs : stage'[x] \in {"waiting", "reopening"} => closed'[x] \/ x = subscriptions'
        BY <1>1, <2>1, <2>5, <3>2 DEF LifeOK, LifeInv, InStep
      <4> QED BY <1>3, <3>1, <3>3, <4>1, <4>2, <4>3 DEF InStep
    <3> QED BY <2>3, <3>4, <3>5, <3>6 DEF LifeOK, LifeInv
  <2>6. CASE ~(on /\ type = "queue")
    <3>1. req'[r] = Idle /\ stage' = stage BY <1>0, <1>t, <2>1, <2>6, StartOutcome DEF TypeLife
    <3>2. \A q \in Callers : req'[q].pc = "idle" \/ req'[q] = req[q] BY <2>2, <3>1, IdleTyped
    <3>3. Quiet => Quiet' BY <3>2 DEF Quiet
    <3>4. Bare'
      BY <1>0, <1>3, <2>2, <2>4, <2>6, <3>1, <3>3 DEF LifeOK, LifeInv, Bare, Wanted
    <3>5. OwnSubs' BY <2>1, <3>2 DEF LifeOK, LifeInv, OwnSubs
    <3>6. InStep'
      <4> SUFFICES ASSUME ~raced', type' = "queue" PROVE InStep' BY DEF InStep
      <4>1. Quiet' BY <1>1, <3>3
      <4>2. ~Wanted' BY <2>6
      <4>3. ~raced /\ type = "queue" BY <1>1
      <4> QED BY <1>3, <2>1, <3>1, <4>1, <4>2, <4>3 DEF LifeOK, LifeInv, InStep, Quiet
    <3> QED BY <2>3, <3>4, <3>5, <3>6 DEF LifeOK, LifeInv
  <2> QED BY <2>5, <2>6
<1> QED BY <1>2, <1>3

\* A call that the lifecycle is at is one of a queue connector that is up.
LEMMA CallIsQueue ==
  ASSUME LifeOK, NEW r \in Callers, req[r].pc # "idle"
  PROVE  type = "queue" /\ up /\ row # "absent" /\ req[r].sub \in Subs /\ req[r] \in Call
  BY DEF LifeOK, LifeInv, TypeLife, Bare, OwnSubs, Quiet

LEMMA StoppedKeeps == ASSUME LifeOK, NEW r \in Callers, Stopped(r) PROVE LifeOK'
<1> DEFINE old == req[r].sub
           st  == [stage EXCEPT ![old] = IF @ = "quitting" THEN "free" ELSE @]
<1>t. TypeLife BY DEF LifeOK
<1>0. req[r].pc = "closing" BY DEF Stopped
<1>1. type = "queue" /\ up /\ row # "absent" /\ old \in Subs /\ req[r] \in Call BY <1>0, CallIsQueue
<1>2. req[r].on \in BOOLEAN /\ req[r].ver \in Versions BY <1>1 DEF Call
<1>3. st \in [Subs -> {"free", "opening", "open", "quitting", "waiting", "reopening"}]
      /\ \A s \in Subs : st[s] = stage[s] \/ st[s] = "free"
  BY <1>t, <1>1 DEF TypeLife
<1>4. Start(r, req[r].on, req[r].ver, st) /\ subscriptions' = NoSub
      /\ UNCHANGED <<type, row, enabled, ver, up, closed, raced, faults>>
  BY DEF Stopped
<1> HIDE DEF st
<1>5. /\ timer' = 0 /\ req' \in [Callers -> Call] /\ \A q \in Callers : q # r => req'[q] = req[q]
      /\ stage' \in [Subs -> {"free", "opening", "open", "quitting", "waiting", "reopening"}]
  BY <1>t, <1>1, <1>2, <1>3, <1>4, StartOutcome
<1>6. TypeLife' BY <1>t, <1>4, <1>5, Bounds DEF TypeLife
<1>7. ~raced => /\ \A q \in Callers : q # r => req'[q].pc = "idle"
                /\ old = subscriptions /\ closed[old] /\ req[r].on = Wanted
                /\ \A s \in Subs : stage[s] # "open"
                /\ \A s \in Subs : stage[s] \in {"waiting", "reopening"} => closed[s]
  BY <1>0, <1>1, <1>5 DEF LifeOK, LifeInv, InStep, OwnSubs
<1>8. CASE req[r].on
  <2>1. PICK s \in Subs : /\ req'[r] = [pc |-> "subscribing", sub |-> s, on |-> req[r].on, ver |-> req[r].ver]
                          /\ ~closed'[s] /\ stage' = [st EXCEPT ![s] = "opening"]
    BY <1>t, <1>1, <1>4, <1>8 DEF Start, Subscribe, TypeLife
  <2>2. \A x \in Subs : stage'[x] \in {"opening", "free", stage[x]} BY <1>3, <2>1
  <2>3. ~Quiet' BY <2>1 DEF Quiet
  <2>4. Bare' BY <1>1, <1>4, <1>5, <2>3 DEF LifeOK, LifeInv, Bare
  <2>5. OwnSubs' BY <1>4, <1>5, <1>8, <2>1 DEF LifeOK, LifeInv, OwnSubs
  <2>6. InStep'
    <3> SUFFICES ASSUME ~raced PROVE InStep' BY <1>4 DEF InStep
    <3>1. \A x \in Subs : stage'[x] # "open" /\ (stage'[x] \in {"waiting", "reopening"} => closed'[x])
      BY <1>4, <1>7, <2>2
    <3>2. Wanted' = Wanted BY <1>4 DEF Wanted
    <3> QED BY <1>4, <1>7, <2>1, <2>3, <3>1, <3>2 DEF InStep
  <2> QED BY <1>6, <2>4, <2>5, <2>6 DEF LifeOK, LifeInv
<1>9. CASE ~req[r].on
  <2>1. req'[r] = Idle /\ stage' = st BY <1>t, <1>4, <1>9 DEF Start, TypeLife
  <2>2. Bare' BY <1>1, <1>4, <1>5 DEF LifeOK, LifeInv, Bare
  <2>3. OwnSubs' BY <1>4, <1>5, <2>1, IdleTyped DEF LifeOK, LifeInv, OwnSubs
  <2>4. InStep'
    <3> SUFFICES ASSUME ~raced PROVE InStep' BY <1>4 DEF InStep
    <3>1. \A x \in Subs : stage'[x] # "open" /\ (stage'[x] \in {"waiting", "reopening"} => closed'[x])
      BY <1>3, <1>4, <1>7, <2>1
    <3>2. ~Wanted' BY <1>4, <1>7, <1>9 DEF Wanted
    <3>3. \A q \in Callers : req'[q].pc = "idle" BY <1>7, <2>1, IdleTyped
    <3> QED BY <1>4, <3>1, <3>2, <3>3 DEF InStep
  <2> QED BY <1>6, <2>2, <2>3, <2>4 DEF LifeOK, LifeInv
<1> QED BY <1>8, <1>9

\* The close is refused: the entry stays, without a connection.
LEMMA CloseFailsKeeps == ASSUME LifeOK, NEW r \in Callers, CloseFails(r) PROVE LifeOK'
<1> DEFINE s == req[r].sub
<1>t. TypeLife BY DEF LifeOK
<1>0. /\ req[r].pc = "closing" /\ req' = [req EXCEPT ![r] = Idle] /\ stage' = [stage EXCEPT ![s] = "free"] /\ Fault
      /\ UNCHANGED <<type, row, enabled, ver, up, subscriptions, timer, closed, raced>>
  BY DEF CloseFails
<1>1. type = "queue" /\ up /\ row # "absent" /\ s \in Subs BY <1>0, CallIsQueue
<1>2. /\ req' \in [Callers -> Call] /\ req'[r].pc = "idle"
      /\ \A q \in Callers : q # r => req'[q] = req[q]
  BY <1>t, <1>0, IdleTyped DEF TypeLife
<1>3. faults' \in 0..MaxFaults /\ faults' # 0 BY <1>t, <1>0, FaultCounts, Bounds DEF TypeLife
<1>4. \A x \in Subs : stage'[x] = IF x = s THEN "free" ELSE stage[x] BY <1>t, <1>0 DEF TypeLife
<1>5. TypeLife' BY <1>t, <1>0, <1>1, <1>2, <1>3 DEF TypeLife
<1>6. Bare' BY <1>0, <1>1 DEF LifeOK, LifeInv, Bare
<1>7. OwnSubs' BY <1>0, <1>2 DEF LifeOK, LifeInv, OwnSubs
<1>8. InStep'
  <2> SUFFICES ASSUME ~raced PROVE InStep' BY <1>0 DEF InStep
  <2>1. /\ \A q \in Callers : req'[q].pc = "idle"
        /\ s = subscriptions /\ closed[s]
        /\ \A x \in Subs : stage[x] = "open" => x = subscriptions /\ ~closed[x]
        /\ \A x \in Subs : stage[x] \in {"waiting", "reopening"} => closed[x] \/ x = subscriptions
    BY <1>0, <1>1, <1>2 DEF LifeOK, LifeInv, InStep, OwnSubs
  <2> QED BY <1>0, <1>3, <1>4, <2>1 DEF InStep
<1> QED BY <1>5, <1>6, <1>7, <1>8 DEF LifeOK, LifeInv

\* The connection is there, or could not be opened; the call is over.
LEMMA SubscribedKeeps ==
  ASSUME LifeOK, NEW r \in Callers, Subscribed(r) \/ SubscribeFails(r) PROVE LifeOK'
<1> DEFINE s == req[r].sub
<1>t. TypeLife BY DEF LifeOK
<1>0. req[r].pc = "subscribing" /\ req' = [req EXCEPT ![r] = Idle]
      /\ UNCHANGED <<type, row, enabled, ver, up, timer, closed, raced>>
  BY DEF Subscribed, SubscribeFails
<1>1. type = "queue" /\ up /\ row # "absent" /\ s \in Subs BY <1>0, CallIsQueue
<1>2. /\ req' \in [Callers -> Call] /\ req'[r].pc = "idle"
      /\ \A q \in Callers : q # r => req'[q] = req[q]
  BY <1>t, <1>0, IdleTyped DEF TypeLife
<1>3. OwnSubs' BY <1>0, <1>2 DEF LifeOK, LifeInv, OwnSubs
<1>4. ~raced => /\ \A q \in Callers : req'[q].pc = "idle"
                /\ subscriptions = NoSub /\ ~closed[s] /\ Wanted
                /\ \A x \in Subs : stage[x] # "open"
                /\ \A x \in Subs : stage[x] \in {"waiting", "reopening"} => closed[x]
  BY <1>0, <1>1, <1>2, ConnectorsAssumption DEF LifeOK, LifeInv, InStep, OwnSubs
<1>5. Wanted' = Wanted BY <1>0 DEF Wanted
<1>6. CASE Subscribed(r)
  <2>1. subscriptions' = s /\ stage' = [stage EXCEPT ![s] = "open"] /\ UNCHANGED faults BY <1>6 DEF Subscribed
  <2>2. TypeLife' BY <1>t, <1>0, <1>1, <1>2, <2>1 DEF TypeLife
  <2>3. Bare' BY <1>0, <1>1 DEF LifeOK, LifeInv, Bare
  <2>4. \A x \in Subs : stage'[x] = IF x = s THEN "open" ELSE stage[x] BY <1>t, <2>1 DEF TypeLife
  <2>5. s # NoSub BY <1>1, ConnectorsAssumption
  <2>6. InStep'
    <3> SUFFICES ASSUME ~raced PROVE InStep' BY <1>0 DEF InStep
    <3>1. subscriptions' = s /\ ~closed'[s] /\ HasSubscription'
      BY <1>0, <1>4, <2>1, <2>5 DEF HasSubscription
    <3>2. \A x \in Subs : stage'[x] = "open" => x = s BY <1>4, <2>4
    <3>3. \A x \in Subs : stage'[x] \in {"waiting", "reopening"} => closed'[x] BY <1>0, <1>4, <2>4
    <3>4. \A q \in Callers : req'[q].pc = "idle" BY <1>4
    <3>5. Wanted' BY <1>4, <1>5
    <3> HIDE DEF s
    <3> QED BY <3>1, <3>2, <3>3, <3>4, <3>5 DEF InStep
  <2> QED BY <1>3, <2>2, <2>3, <2>6 DEF LifeOK, LifeInv
<1>7. CASE SubscribeFails(r)
  <2>1. UNCHANGED subscriptions /\ stage' = [stage EXCEPT ![s] = "free"] /\ Fault BY <1>7 DEF SubscribeFails
  <2>2. faults' \in 0..MaxFaults /\ faults' > 0 BY <1>t, <2>1, FaultCounts DEF TypeLife
  <2>3. TypeLife' BY <1>t, <1>0, <1>1, <1>2, <2>1, <2>2 DEF TypeLife
  <2>4. Bare' BY <1>0, <1>1 DEF LifeOK, LifeInv, Bare
  <2>5. \A x \in Subs : stage'[x] = IF x = s THEN "free" ELSE stage[x] BY <1>t, <2>1 DEF TypeLife
  <2>6. InStep'
    <3> SUFFICES ASSUME ~raced PROVE InStep' BY <1>0 DEF InStep
    <3>1. faults' # 0 BY <2>2, Bounds
    <3>2. \A x \in Subs : stage'[x] # "open" /\ (stage'[x] \in {"waiting", "reopening"} => closed'[x])
      BY <1>0, <1>4, <2>5
    <3> QED BY <1>0, <1>4, <2>1, <3>1, <3>2 DEF InStep
  <2> QED BY <1>3, <2>3, <2>4, <2>6 DEF LifeOK, LifeInv
<1> QED BY <1>6, <1>7

LEMMA RoutesKeep ==
  ASSUME LifeOK, NEW r \in Callers, CreateConnector(r) \/ UpdateConnector(r) \/ DeleteConnector(r)
  PROVE  LifeOK'
<1>t. TypeLife BY DEF LifeOK
<1>1. CASE CreateConnector(r)
  <2>1. r \in Requests /\ Serving(r) /\ Sync(r, TRUE, 1) /\ UNCHANGED <<type, up, subscriptions, faults>>
        /\ row' = "stored" /\ enabled' = TRUE /\ ver' = 1
    BY <1>1 DEF CreateConnector, Serving, CreateRow
  <2>2. TRUE = Wanted' BY <2>1 DEF Wanted
  <2>3. enabled' \in BOOLEAN /\ ver' \in Versions /\ 1 = ver' /\ ver' >= 1 BY <2>1, Bounds
  <2> QED BY <2>1, <2>2, <2>3, Bounds, SyncKeeps
<1>2. CASE UpdateConnector(r)
  <2>1. r \in Requests /\ Serving(r) /\ Sync(r, enabled', ver') /\ UNCHANGED <<type, up, subscriptions, faults>>
        /\ row' = "stored" /\ enabled' \in BOOLEAN /\ ver' = ver + 1 /\ ver <= MaxEdits
    BY <1>2 DEF UpdateConnector, Serving, UpdateRow
  <2>2. Wanted' = enabled' BY <2>1 DEF Wanted
  <2>3. ver' \in Versions /\ ver' >= 1 BY <1>t, <2>1, Bounds DEF TypeLife, Versions
  <2> QED BY <2>1, <2>2, <2>3, SyncKeeps
<1>3. CASE DeleteConnector(r)
  <2>1. r \in Requests /\ Serving(r) /\ Sync(r, FALSE, 0) /\ UNCHANGED <<type, up, subscriptions, faults>>
        /\ row' = "deleted" /\ UNCHANGED <<enabled, ver>>
    BY <1>3 DEF DeleteConnector, Serving, DeleteRow
  <2>2. Wanted' = FALSE BY <2>1 DEF Wanted
  <2> QED BY <1>t, <2>1, <2>2, Bounds, SyncKeeps DEF TypeLife
<1> QED BY <1>1, <1>2, <1>3

LEMMA BootKeeps == ASSUME LifeOK, BootGateway PROVE LifeOK'
<1>t. TypeLife BY DEF LifeOK
<1>0. ~up /\ up' = TRUE /\ UNCHANGED <<type, row, enabled, ver, subscriptions, closed, raced, faults>>
  BY DEF BootGateway
<1>1. Quiet /\ timer = 0 /\ subscriptions = NoSub /\ \A s \in Subs : stage[s] = "free"
  BY <1>0 DEF LifeOK, LifeInv, Bare
<1>2. Wanted' = Wanted BY <1>0 DEF Wanted
<1>3. CASE Wanted
  <2>1. Start(Boot, TRUE, ver, stage) BY <1>3 DEF BootGateway, Wanted
  <2>2. /\ timer' = (IF type = "polling" THEN ver ELSE 0) /\ timer' \in Versions
        /\ req' \in [Callers -> Call] /\ \A q \in Callers : q # Boot => req'[q] = req[q]
        /\ stage' \in [Subs -> {"free", "opening", "open", "quitting", "waiting", "reopening"}]
    BY <1>t, <2>1, BootIsCaller, StartOutcome DEF TypeLife
  <2>3. TypeLife' BY <1>t, <1>0, <2>2 DEF TypeLife
  <2>4. row = "stored" BY <1>3 DEF Wanted
  <2>5. CASE type = "queue"
    <3>1. PICK s \in Subs : /\ req'[Boot] = [pc |-> "subscribing", sub |-> s, on |-> TRUE, ver |-> ver]
                            /\ ~closed'[s] /\ stage' = [stage EXCEPT ![s] = "opening"]
      BY <1>0, <1>t, <2>1, <2>5, BootIsCaller DEF Start, Subscribe, TypeLife
    <3>2. \A x \in Subs : stage'[x] \in {"opening", "free"} BY <1>t, <1>1, <3>1 DEF TypeLife
    <3>3. ~Quiet' BY <3>1, BootIsCaller DEF Quiet
    <3>4. \A q \in Callers : q # Boot => req'[q].pc = "idle" BY <1>1, <2>2 DEF Quiet
    <3>5. Bare' BY <1>0, <1>1, <2>2, <2>4, <2>5 DEF LifeOK, LifeInv, Bare
    <3>6. OwnSubs' BY <3>1, <3>4 DEF OwnSubs
    <3>7. Wanted' = TRUE BY <1>0, <1>3 DEF Wanted
    <3>8. req'[Boot].pc = "subscribing" /\ req'[Boot].on = TRUE /\ ~closed'[req'[Boot].sub]
      <4>1. req'[Boot].sub = s BY <3>1
      <4> QED BY <3>1, <4>1
    <3>9. \A x \in Subs : stage'[x] \notin {"open", "waiting", "reopening"} BY <3>2
    <3>10. InStep'
      <4>1. \A q, o \in Callers : req'[q].pc # "idle" /\ req'[o].pc # "idle" => q = o BY <3>4
      <4>2. subscriptions' = NoSub BY <1>0, <1>1
      <4>3. \A q \in Callers : req'[q].pc # "idle" => req'[q].on = Wanted'
        <5>1. req'[Boot].on = Wanted' BY <3>7, <3>8
        <5> QED BY <3>4, <5>1
      <4>4. \A q \in Callers : req'[q].pc # "closing" BY <3>4, <3>8
      <4>5. \A q \in Callers : req'[q].pc = "subscribing" => ~closed'[req'[q].sub] BY <3>4, <3>8
      <4> QED BY <3>3, <3>9, <4>1, <4>2, <4>3, <4>4, <4>5 DEF InStep
    <3> QED BY <2>3, <3>5, <3>6, <3>10 DEF LifeOK, LifeInv
  <2>6. CASE type # "queue"
    <3>1. req' = [req EXCEPT ![Boot] = Idle] /\ stage' = stage BY <2>1, <2>6 DEF Start
    <3>2. \A q \in Callers : req'[q].pc = "idle" BY <1>t, <1>1, <3>1, IdleTyped DEF Quiet, TypeLife
    <3>3. Bare' BY <1>0, <1>1, <1>2, <1>3, <2>2, <2>4, <3>1, <3>2 DEF LifeOK, LifeInv, Bare, Quiet
    <3>4. OwnSubs' BY <3>2 DEF OwnSubs
    <3>5. InStep' BY <1>0, <2>6 DEF InStep
    <3> QED BY <2>3, <3>3, <3>4, <3>5 DEF LifeOK, LifeInv
  <2> QED BY <2>5, <2>6
<1>4. CASE ~Wanted
  <2>1. UNCHANGED <<timer, stage, req>> BY <1>4 DEF BootGateway, Wanted
  <2>2. TypeLife' BY <1>t, <1>0, <2>1 DEF TypeLife
  <2>3. Bare' BY <1>0, <1>1, <1>2, <1>4, <2>1 DEF LifeOK, LifeInv, Bare, Quiet
  <2>4. OwnSubs' BY <1>0, <2>1 DEF LifeOK, LifeInv, OwnSubs
  <2>5. InStep' BY <1>0, <1>1, <1>2, <1>4, <2>1 DEF LifeOK, LifeInv, InStep, Quiet
  <2> QED BY <2>2, <2>3, <2>4, <2>5 DEF LifeOK, LifeInv
<1> QED BY <1>3, <1>4

\* A connection that closes, waits and is opened again.
LEMMA DriverKeeps ==
  ASSUME LifeOK, NEW s \in Subs, ConnectionCloses(s) \/ Reconnect(s) \/ Reopened(s) PROVE LifeOK'
<1>t. TypeLife BY DEF LifeOK
<1>0. /\ stage[s] \in {"open", "waiting", "reopening"}
      /\ UNCHANGED <<type, row, enabled, ver, up, req, subscriptions, timer, closed, faults>>
  BY DEF ConnectionCloses, Reconnect, Reopened
<1>1. type = "queue" /\ up /\ row # "absent" BY <1>0 DEF LifeOK, LifeInv, Bare, TypeLife
<1>2. Bare' BY <1>0, <1>1 DEF LifeOK, LifeInv, Bare
<1>3. OwnSubs' BY <1>0 DEF LifeOK, LifeInv, OwnSubs
<1>4. (Wanted' = Wanted) /\ (Quiet' <=> Quiet) BY <1>0 DEF Wanted, Quiet
<1>5. PICK to \in {"free", "waiting", "reopening", "open"} :
        /\ stage' = [stage EXCEPT ![s] = to] /\ raced' \in BOOLEAN /\ (raced => raced')
        /\ to \in {"waiting", "reopening"} => ~closed[s]
        /\ to = "open" /\ ~raced' => ~closed[s] /\ stage[s] = "reopening"
  <2>1. CASE ConnectionCloses(s) BY <1>t, <2>1 DEF ConnectionCloses, TypeLife
  <2>2. CASE Reconnect(s) BY <1>t, <2>2 DEF Reconnect, TypeLife
  <2>3. CASE Reopened(s) BY <1>t, <2>3 DEF Reopened, TypeLife
  <2> QED BY <2>1, <2>2, <2>3
<1>6. TypeLife' BY <1>t, <1>0, <1>5 DEF TypeLife
<1>7. \A x \in Subs : stage'[x] = IF x = s THEN to ELSE stage[x] BY <1>t, <1>5 DEF TypeLife
<1>8. InStep'
  <2> SUFFICES ASSUME ~raced' PROVE InStep' BY DEF InStep
  <2>1. ~raced BY <1>5
  <2>2. s = subscriptions \/ closed[s] BY <1>0, <1>1, <2>1 DEF LifeOK, LifeInv, InStep
  <2>3. \A x \in Subs : stage'[x] = "open" => x = subscriptions /\ ~closed[x]
    BY <1>1, <1>5, <1>7, <2>1, <2>2 DEF LifeOK, LifeInv, InStep
  <2>4. \A x \in Subs : stage'[x] \in {"waiting", "reopening"} => closed[x] \/ x = subscriptions
    BY <1>1, <1>7, <2>1, <2>2 DEF LifeOK, LifeInv, InStep
  <2>5. \A r \in Callers : req[r].pc = "closing" => stage'[req[r].sub] # "open"
    BY <1>1, <1>5, <1>7, <2>1 DEF LifeOK, LifeInv, InStep, OwnSubs
  <2> QED BY <1>0, <1>1, <1>4, <2>1, <2>3, <2>4, <2>5 DEF LifeOK, LifeInv, InStep, HasSubscription
<1> QED BY <1>2, <1>3, <1>6, <1>8 DEF LifeOK, LifeInv

LEMMA LifeInit == Init => LifeOK
<1> SUFFICES ASSUME Init PROVE LifeOK OBVIOUS
<1>1. TypeLife BY Bounds, IdleTyped DEF Init, TypeLife
<1>2. Quiet BY IdleTyped DEF Init, Quiet
<1>3. Bare BY <1>2 DEF Init, Bare, Wanted
<1>4. InStep BY <1>2, IdleTyped DEF Init, InStep, Wanted, Quiet
<1>5. OwnSubs BY IdleTyped DEF Init, OwnSubs
<1> QED BY <1>1, <1>3, <1>4, <1>5 DEF LifeOK, LifeInv

LEMMA LifeStep == ASSUME LifeOK, [Next]_vars PROVE LifeOK'
<1>t. raced \in BOOLEAN BY DEF LifeOK, TypeLife
<1>1. CASE Crash BY <1>1, LifeDown DEF Crash
<1>2. CASE BootGateway BY <1>2, BootKeeps
<1>3. CASE ContentChanges BY <1>t, <1>3, LifeSame DEF ContentChanges
<1>4. ASSUME NEW r \in Callers, Lifecycle(r) PROVE LifeOK'
  BY <1>4, StoppedKeeps, CloseFailsKeeps, SubscribedKeeps, RoutesKeep DEF Lifecycle
<1>5. ASSUME NEW s \in Subs, Driver(s) PROVE LifeOK'
  BY <1>5, DriverKeeps, LifeDown DEF Driver, ReopenFails
<1>6. ASSUME NEW s \in Subs, NEW m \in Messages, Consume(s, m) PROVE LifeOK'
  BY <1>t, <1>6, LifeSame DEF Consume
<1>7. ASSUME NEW w \in work, Handle(w) PROVE LifeOK'
  <2>1. UNCHANGED faults \/ Fault BY <1>7 DEF Handle
  <2>2. CASE w.live BY <1>t, <1>7, <2>1, <2>2, LifeSame DEF Handle
  <2>3. CASE ~w.live BY <1>7, <2>1, <2>3, LifeDown DEF Handle
  <2> QED BY <2>2, <2>3
<1>8. ASSUME NEW p \in Polls, Polling(p) PROVE LifeOK'
  <2>1. CASE Poll(p)
    <3>1. raced' \in BOOLEAN /\ (raced => raced') BY <1>t, <2>1 DEF Poll
    <3> QED BY <2>1, <3>1, LifeSame DEF Poll
  <2>2. CASE Fetched(p) \/ Compare(p) \/ PollDone(p) BY <1>t, <2>2, LifeSame DEF Fetched, Compare, PollDone
  <2>3. CASE PollFails(p) BY <2>3, LifeDown DEF PollFails
  <2> QED BY <1>8, <2>1, <2>2, <2>3 DEF Polling
<1>9. ASSUME NEW m \in Messages, Webhook(m) PROVE LifeOK'
  BY <1>t, <1>9, LifeSame DEF Webhook, AcceptWebhook, HandleWebhook
<1>10. CASE UNCHANGED vars BY <1>t, <1>10, LifeSame DEF vars
<1> QED BY <1>1, <1>2, <1>3, <1>4, <1>5, <1>6, <1>7, <1>8, <1>9, <1>10 DEF Next

-----------------------------------------------------------------------------
(* The messages.                                                            *)

Job == [m : Messages, s : Subs, live : BOOLEAN]

TypeMsg ==
  /\ requeue \in BOOLEAN /\ secret \in BOOLEAN /\ sender \in [Messages -> Senders]
  /\ msg \in [Messages -> {"ready", "held", "acked", "dropped", "lost"}]
  /\ work \subseteq Job /\ processed \in [Messages -> Nat] /\ closes \in 0..MaxCloses

\* The same as MsgInv, message by message.
Message(m) ==
  /\ msg[m] = "acked" => processed[m] > 0
  /\ secret /\ (processed[m] > 0 \/ msg[m] = "held") => sender[m] = "signed"
  /\ Calm => processed[m] <= 1 /\ (msg[m] \in {"ready", "held"} => processed[m] = 0)

Undisturbed ==
  /\ up /\ \A r \in Callers : req[r].pc # "closing"
  /\ \A v, w \in work : w.live /\ msg[w.m] = "held" /\ (v.m = w.m => v = w)

MsgOK ==
  /\ TypeMsg /\ (secret => type = "webhook") /\ (work # {} => type = "queue")
  /\ (\A m \in Messages : Message(m)) /\ (Calm => Undisturbed)

LEMMA MsgParts == ASSUME TypeLife, TypeMsg PROVE MsgOK <=> MsgInv
<1>1. Calm <=> ~(closes + faults > 0 \/ ver > 1 \/ row = "deleted")
  BY ConnectorsAssumption, Bounds DEF Calm, TypeLife, TypeMsg
<1>2. \A m \in Messages : processed[m] \in Nat BY DEF TypeMsg
<1>3. (\A m \in Messages : Message(m)) <=>
        /\ AckedWasProcessed
        /\ \A m \in Messages : secret /\ msg[m] = "held" => sender[m] = "signed"
        /\ Calm => \A m \in Messages : msg[m] \in {"ready", "held"} => processed[m] = 0
  BY <1>1, <1>2 DEF Message, AckedWasProcessed
<1> QED BY <1>3 DEF MsgOK, MsgInv, Undisturbed

\* What takes messages back is not undone, and as long as it has not happened
\* the gateway is up and no call closes a subscription.
LEMMA CalmStep ==
  ASSUME LifeOK, MsgOK, [Next]_vars, Calm'
  PROVE  Calm /\ up' /\ \A r \in Callers : req'[r].pc # "closing"
<1> USE DEF Calm
<1>t. TypeLife /\ faults \in Nat /\ ver \in Nat /\ closes \in Nat
  BY Bounds, ConnectorsAssumption DEF LifeOK, TypeLife, MsgOK, TypeMsg
<1>f. ~Fault BY <1>t DEF Fault
<1>0. Calm => up /\ (\A r \in Callers : req[r].pc # "closing") /\ \A w \in work : w.live
  BY DEF MsgOK, Undisturbed
<1>1. CASE UNCHANGED <<up, req, row, ver, closes, faults>> BY <1>0, <1>1
<1>2. ASSUME NEW r \in Callers, Stopped(r) \/ CloseFails(r) PROVE FALSE BY <1>0, <1>f, <1>2 DEF Stopped, CloseFails
<1>3. ASSUME NEW r \in Callers, Subscribed(r)
      PROVE Calm /\ up' /\ \A q \in Callers : req'[q].pc # "closing"
  BY <1>0, <1>3, <1>t, IdleTyped DEF Subscribed, TypeLife
<1>4. ASSUME NEW r \in Callers, CreateConnector(r)
      PROVE Calm /\ up' /\ \A q \in Callers : req'[q].pc # "closing"
  <2>1. Quiet /\ subscriptions = NoSub /\ Serving(r) /\ row = "absent" /\ UNCHANGED <<up, closes, faults>>
    BY <1>4 DEF CreateConnector, LifeOK, LifeInv, Bare
  <2>2. Start(r, TRUE, 1, stage) BY <1>4, <2>1 DEF CreateConnector, Sync
  <2>3. ver <= 1
    <3>1. row = "absent" => ver = 0 BY DEF LifeOK, LifeInv, Bare
    <3> QED BY <2>1, <3>1
  <2>4. \A q \in Callers : req'[q].pc # "closing"
    <3>1. \A q \in Callers : q # r => req'[q] = req[q]
      BY <1>t, <2>2 DEF Start, Subscribe, TypeLife
    <3>2. req'[r].pc # "closing" BY <1>t, <2>2, IdleTyped DEF Start, Subscribe, TypeLife
    <3> QED BY <2>1, <3>1, <3>2 DEF Quiet
  <2> QED BY <2>1, <2>3, <2>4 DEF Serving
<1>5. ASSUME NEW r \in Callers, UpdateConnector(r) PROVE FALSE
  <2>1. row = "stored" /\ ver' = ver + 1 BY <1>5 DEF UpdateConnector, UpdateRow
  <2>2. ver >= 1 BY <2>1 DEF LifeOK, LifeInv, Bare
  <2> QED BY <1>t, <2>1, <2>2
<1>6. ASSUME NEW r \in Callers, DeleteConnector(r) PROVE FALSE BY <1>6 DEF DeleteConnector, DeleteRow
<1>7. CASE BootGateway BY <1>0, <1>7 DEF BootGateway
<1>8. ASSUME NEW s \in Subs, ConnectionCloses(s) PROVE FALSE BY <1>8, <1>t DEF ConnectionCloses
<1>9. ASSUME NEW w \in work, Handle(w) PROVE Calm /\ up' /\ \A r \in Callers : req'[r].pc # "closing"
  <2>1. UNCHANGED <<row, ver, closes, faults>> BY <1>9, <1>f DEF Handle
  <2>2. w.live BY <1>0, <2>1
  <2>3. UNCHANGED <<up, req>> BY <1>9, <2>2 DEF Handle
  <2> QED BY <1>1, <2>1, <2>3
<1>10. ASSUME NEW r \in Callers, Lifecycle(r)
       PROVE Calm /\ up' /\ \A q \in Callers : req'[q].pc # "closing"
  BY <1>f, <1>2, <1>3, <1>4, <1>5, <1>6, <1>10 DEF Lifecycle, SubscribeFails
<1>11. ASSUME NEW s \in Subs, Driver(s)
       PROVE Calm /\ up' /\ \A r \in Callers : req'[r].pc # "closing"
  BY <1>f, <1>1, <1>8, <1>11 DEF Driver, Reconnect, Reopened, ReopenFails
<1>12. ASSUME NEW p \in Polls, Polling(p)
       PROVE Calm /\ up' /\ \A r \in Callers : req'[r].pc # "closing"
  BY <1>f, <1>1, <1>12 DEF Polling, Poll, Fetched, Compare, PollDone, PollFails
<1>13. ASSUME NEW m \in Messages, Webhook(m)
       PROVE Calm /\ up' /\ \A r \in Callers : req'[r].pc # "closing"
  BY <1>f, <1>1, <1>13 DEF Webhook, AcceptWebhook, HandleWebhook
<1>14. ASSUME NEW s \in Subs, NEW m \in Messages, Consume(s, m)
       PROVE Calm /\ up' /\ \A r \in Callers : req'[r].pc # "closing"
  BY <1>f, <1>1, <1>14 DEF Consume
<1> HIDE DEF Calm
<1> QED BY <1>f, <1>1, <1>7, <1>9, <1>10, <1>11, <1>12, <1>13, <1>14 DEF Next, vars, Crash, ContentChanges

LEMMA ClosesBounded == 0 \in 0..MaxCloses /\ 0..MaxCloses \subseteq Nat
  BY ConnectorsAssumption

\* A step that leaves the messages alone.
LEMMA MsgSame ==
  ASSUME MsgOK, UNCHANGED <<type, requeue, secret, sender, msg, work, processed, closes>>,
         Calm' => Calm /\ up' /\ \A r \in Callers : req'[r].pc # "closing"
  PROVE  MsgOK'
<1>1. TypeMsg' BY DEF MsgOK, TypeMsg
<1>2. \A m \in Messages : Message(m)' BY DEF MsgOK, Message
<1>3. Calm' => Undisturbed' BY DEF MsgOK, Undisturbed
<1> QED BY <1>1, <1>2, <1>3 DEF MsgOK

\* A step that takes messages back from handlers, or loses them.
LEMMA MsgTaken ==
  ASSUME MsgOK, UNCHANGED <<type, requeue, secret, sender>>, ~Calm', closes' \in 0..MaxCloses,
         msg' \in [Messages -> {"ready", "held", "acked", "dropped", "lost"}],
         \A m \in Messages : msg'[m] \in {msg[m], "ready", "lost"},
         processed' \in [Messages -> Nat], \A m \in Messages : processed'[m] >= processed[m],
         secret => UNCHANGED processed,
         work' \subseteq Job, work' # {} => work # {}
  PROVE  MsgOK'
<1>1. TypeMsg' BY DEF MsgOK, TypeMsg
<1>2. ASSUME NEW m \in Messages PROVE Message(m)'
  <2>1. Message(m) /\ processed[m] \in Nat /\ processed'[m] \in Nat BY DEF MsgOK, TypeMsg
  <2>2. msg'[m] = "acked" => processed'[m] > 0 BY <2>1 DEF Message
  <2>3. secret' /\ (processed'[m] > 0 \/ msg'[m] = "held") => sender'[m] = "signed"
    BY <2>1 DEF Message
  <2> QED BY <2>2, <2>3 DEF Message
<1> QED BY <1>1, <1>2 DEF MsgOK

LEMMA MsgDown ==
  ASSUME LifeOK, MsgOK, [Next]_vars, Down, UNCHANGED <<type, requeue, secret, sender, processed, closes>>
  PROVE  MsgOK'
<1>1. ~Calm' BY CalmStep DEF Down
<1>2. msg' \in [Messages -> {"ready", "held", "acked", "dropped", "lost"}]
      /\ \A m \in Messages : msg'[m] \in {msg[m], "ready", "lost"}
  BY DEF Down, MsgOK, TypeMsg
<1>3. work' = {} BY DEF Down
<1>4. \A m \in Messages : processed'[m] >= processed[m] BY DEF MsgOK, TypeMsg
<1> QED BY <1>1, <1>2, <1>3, <1>4, MsgTaken DEF MsgOK, TypeMsg

LEMMA MsgRequeued ==
  ASSUME LifeOK, MsgOK, ~Calm', NEW s \in Subs, Requeued(s), UNCHANGED <<type, requeue, secret, sender, processed>>,
         closes' \in 0..MaxCloses
  PROVE  MsgOK'
<1>1. msg' \in [Messages -> {"ready", "held", "acked", "dropped", "lost"}]
      /\ \A m \in Messages : msg'[m] \in {msg[m], "ready", "lost"}
  BY DEF Requeued, MsgOK, TypeMsg
<1>2. \A w \in Job : [w EXCEPT !.live = FALSE] \in Job BY DEF Job
<1>3. work' \subseteq Job /\ (work' # {} => work # {}) BY <1>2 DEF Requeued, MsgOK, TypeMsg
<1>4. \A m \in Messages : processed'[m] >= processed[m] BY DEF MsgOK, TypeMsg
<1> QED BY <1>1, <1>3, <1>4, MsgTaken DEF MsgOK, TypeMsg

LEMMA MsgConsume ==
  ASSUME LifeOK, MsgOK, [Next]_vars, NEW s \in Subs, NEW m \in Messages, Consume(s, m) PROVE MsgOK'
<1>0. /\ msg[m] = "ready" /\ type = "queue"
      /\ UNCHANGED <<type, requeue, secret, sender, processed, closes>>
  BY DEF Consume
<1>1. secret = FALSE BY <1>0 DEF MsgOK, TypeMsg
<1>2. CASE msg' = [msg EXCEPT ![m] = "held"] /\ work' = work \cup {[m |-> m, s |-> s, live |-> TRUE]}
  <2> DEFINE j == [m |-> m, s |-> s, live |-> TRUE]
  <2>1. j \in Job BY DEF Job
  <2>2. TypeMsg' BY <1>0, <1>2, <2>1 DEF MsgOK, TypeMsg
  <2>3. \A x \in Messages : msg'[x] = IF x = m THEN "held" ELSE msg[x] BY <1>2 DEF MsgOK, TypeMsg
  <2>4. \A x \in Messages : Message(x)'
    BY <1>0, <1>1, <2>3, CalmStep DEF MsgOK, Message
  <2>5. Calm' => Undisturbed'
    <3> SUFFICES ASSUME Calm' PROVE Undisturbed' OBVIOUS
    <3>1. Calm /\ up' /\ \A r \in Callers : req'[r].pc # "closing" BY CalmStep
    <3>2. \A v, w \in work : w.live /\ msg[w.m] = "held" /\ (v.m = w.m => v = w) BY <3>1 DEF MsgOK, Undisturbed
    <3>3. \A w \in work : w.m \in Messages /\ w.m # m BY <1>0, <3>2 DEF MsgOK, TypeMsg, Job
    <3>4. j.m = m /\ j.live = TRUE OBVIOUS
    <3>5. work' = work \cup {j} BY <1>2
    <3> HIDE DEF j
    <3>6. \A v, w \in work' : w.live /\ msg'[w.m] = "held" /\ (v.m = w.m => v = w)
      BY <2>3, <3>2, <3>3, <3>4, <3>5
    <3> QED BY <3>1, <3>6 DEF Undisturbed
  <2> QED BY <1>0, <1>1, <2>2, <2>4, <2>5 DEF MsgOK
<1>3. CASE Fault /\ msg' = [msg EXCEPT ![m] = "dropped"] /\ UNCHANGED work
  <2>1. ~Calm'
    <3>1. faults' > 0 BY <1>3, FaultCounts DEF LifeOK, TypeLife
    <3> QED BY <3>1 DEF Calm
  <2>2. TypeMsg' BY <1>0, <1>3 DEF MsgOK, TypeMsg
  <2>3. \A x \in Messages : msg'[x] = IF x = m THEN "dropped" ELSE msg[x] BY <1>3 DEF MsgOK, TypeMsg
  <2>4. \A x \in Messages : Message(x)' BY <1>0, <1>1, <2>1, <2>3 DEF MsgOK, Message
  <2> QED BY <1>0, <1>1, <1>3, <2>1, <2>2, <2>4 DEF MsgOK
<1> QED BY <1>2, <1>3 DEF Consume

LEMMA MsgHandle ==
  ASSUME LifeOK, MsgOK, [Next]_vars, NEW w \in work, Handle(w) PROVE MsgOK'
<1>0. w \in Job /\ w.m \in Messages /\ type = "queue" BY DEF MsgOK, TypeMsg, Job
<1>1. secret = FALSE BY <1>0 DEF MsgOK, TypeMsg
<1>2. PICK ok \in BOOLEAN :
        /\ IF ok THEN UNCHANGED faults ELSE Fault
        /\ processed' = [processed EXCEPT ![w.m] = IF ok THEN @ + 1 ELSE @]
        /\ IF w.live
           THEN Answer(w, ok) /\ UNCHANGED <<life, driver, state, poll, events, raced>>
           ELSE Down
  BY DEF Handle
<1>3. UNCHANGED <<type, requeue, secret, sender, closes>> BY DEF Handle
<1>4. processed' \in [Messages -> Nat] /\ \A m \in Messages : processed'[m] >= processed[m]
  BY <1>0, <1>2 DEF MsgOK, TypeMsg
<1>5. CASE ~w.live
  <2>1. Down BY <1>2, <1>5
  <2>2. ~Calm' BY <2>1, CalmStep DEF Down
  <2>3. msg' \in [Messages -> {"ready", "held", "acked", "dropped", "lost"}]
        /\ \A m \in Messages : msg'[m] \in {msg[m], "ready", "lost"}
    BY <2>1 DEF Down, MsgOK, TypeMsg
  <2>4. work' = {} BY <2>1 DEF Down
  <2> QED BY <1>1, <1>3, <1>4, <2>2, <2>3, <2>4, MsgTaken DEF MsgOK, TypeMsg
<1>6. CASE w.live
  <2> DEFINE to == IF ok THEN "acked" ELSE IF requeue THEN "ready" ELSE "dropped"
  <2>1. msg' = [msg EXCEPT ![w.m] = to] /\ work' = work \ {w} BY <1>2, <1>6 DEF Answer
  <2>2. TypeMsg' BY <1>3, <1>4, <2>1 DEF MsgOK, TypeMsg
  <2>3. \A m \in Messages : msg'[m] = IF m = w.m THEN to ELSE msg[m] BY <2>1 DEF MsgOK, TypeMsg
  <2>4. ~ok => ~Calm'
    <3>1. ~ok => faults' > 0 BY <1>2, FaultCounts DEF LifeOK, TypeLife
    <3> QED BY <3>1 DEF Calm
  <2>5. \A m \in Messages : processed'[m] = IF ok /\ m = w.m THEN processed[m] + 1 ELSE processed[m]
    BY <1>0, <1>2 DEF MsgOK, TypeMsg
  <2>6. Calm' => Calm /\ msg[w.m] = "held" BY CalmStep DEF MsgOK, Undisturbed
  <2>7. ASSUME NEW m \in Messages PROVE Message(m)'
    <3>1. Message(m) /\ processed[m] \in Nat BY DEF MsgOK, TypeMsg
    <3>2. msg'[m] = "acked" => processed'[m] > 0 BY <2>3, <2>5, <3>1 DEF Message
    <3>3. Calm' => processed'[m] <= 1 /\ (msg'[m] \in {"ready", "held"} => processed'[m] = 0)
      BY <2>3, <2>4, <2>5, <2>6, <3>1 DEF Message
    <3> QED BY <1>1, <1>3, <3>2, <3>3 DEF Message
  <2>8. Calm' => Undisturbed'
    <3> SUFFICES ASSUME Calm' PROVE Undisturbed' OBVIOUS
    <3>1. Calm /\ up' /\ \A r \in Callers : req'[r].pc # "closing" BY CalmStep
    <3>2. \A u, v \in work : v.live /\ msg[v.m] = "held" /\ (u.m = v.m => u = v) BY <3>1 DEF MsgOK, Undisturbed
    <3>3. \A v \in work' : v \in work /\ v.m \in Messages /\ v.m # w.m BY <2>1, <3>2 DEF MsgOK, TypeMsg, Job
    <3>4. \A v \in work' : msg'[v.m] = "held" BY <2>3, <3>2, <3>3
    <3> QED BY <3>1, <3>2, <3>3, <3>4 DEF Undisturbed
  <2>9. work' # {} => type' = "queue" BY <1>0, <1>3
  <2> QED BY <1>1, <1>3, <2>2, <2>7, <2>8, <2>9 DEF MsgOK
<1> QED BY <1>5, <1>6

LEMMA MsgWebhook ==
  ASSUME LifeOK, MsgOK, [Next]_vars, NEW m \in Messages, Webhook(m) PROVE MsgOK'
<1>0. UNCHANGED <<type, requeue, secret, sender, work, closes>> /\ type = "webhook"
  BY DEF Webhook, AcceptWebhook, HandleWebhook
<1>w. work = {} BY <1>0 DEF MsgOK
<1>1. Calm' => Calm /\ Undisturbed' BY <1>0, <1>w, CalmStep DEF Undisturbed
<1>2. ASSUME NEW to \in {"held", "acked", "dropped"}, msg' = [msg EXCEPT ![m] = to], processed' \in [Messages -> Nat],
             \A x \in Messages : Message(x)'
      PROVE  MsgOK'
  <2>1. TypeMsg' BY <1>0, <1>2 DEF MsgOK, TypeMsg
  <2> QED BY <1>0, <1>1, <1>2, <2>1 DEF MsgOK
<1>3. CASE AcceptWebhook(m)
  <2> DEFINE to == IF ValidateWebhook(m) THEN "held" ELSE "dropped"
  <2>1. msg[m] = "ready" /\ msg' = [msg EXCEPT ![m] = to] /\ UNCHANGED processed BY <1>3 DEF AcceptWebhook
  <2>2. \A x \in Messages : msg'[x] = IF x = m THEN to ELSE msg[x] BY <2>1 DEF MsgOK, TypeMsg
  <2>3. secret /\ to = "held" => sender[m] = "signed" BY DEF ValidateWebhook, ValidateSignature
  <2>4. \A x \in Messages : Message(x)' BY <1>0, <1>1, <2>1, <2>2, <2>3 DEF MsgOK, Message
  <2> QED BY <1>2, <2>1, <2>4 DEF MsgOK, TypeMsg
<1>4. CASE HandleWebhook(m)
  <2>1. msg[m] = "held" /\ Message(m) BY <1>4 DEF HandleWebhook, MsgOK
  <2>2. CASE msg' = [msg EXCEPT ![m] = "acked"] /\ processed' = [processed EXCEPT ![m] = @ + 1]
    <3>1. processed' \in [Messages -> Nat]
          /\ \A x \in Messages : processed'[x] = IF x = m THEN processed[x] + 1 ELSE processed[x]
      BY <2>2 DEF MsgOK, TypeMsg
    <3>2. \A x \in Messages : msg'[x] = IF x = m THEN "acked" ELSE msg[x] BY <2>2 DEF MsgOK, TypeMsg
    <3>3. processed[m] \in Nat BY DEF MsgOK, TypeMsg
    <3>4. Message(m)' BY <1>0, <1>1, <2>1, <3>1, <3>2, <3>3 DEF Message
    <3>5. \A x \in Messages : x # m => Message(x)' BY <1>0, <1>1, <3>1, <3>2 DEF MsgOK, Message
    <3> QED BY <1>2, <2>2, <3>1, <3>4, <3>5
  <2>3. CASE Fault /\ msg' = [msg EXCEPT ![m] = "dropped"] /\ UNCHANGED processed
    <3>1. \A x \in Messages : msg'[x] = IF x = m THEN "dropped" ELSE msg[x] BY <2>3 DEF MsgOK, TypeMsg
    <3>2. \A x \in Messages : Message(x)' BY <1>0, <1>1, <2>1, <2>3, <3>1 DEF MsgOK, Message
    <3> QED BY <1>2, <2>3, <3>2 DEF MsgOK, TypeMsg
  <2> QED BY <1>4, <2>2, <2>3 DEF HandleWebhook
<1> QED BY <1>3, <1>4 DEF Webhook

LEMMA MsgInit == Init => MsgOK
<1> SUFFICES ASSUME Init PROVE MsgOK OBVIOUS
<1>1. sender \in [Messages -> Senders]
  <2>1. {"unsigned"} \subseteq Senders BY DEF Senders
  <2> QED BY <2>1 DEF Init
<1>2. requeue \in BOOLEAN /\ secret \in BOOLEAN /\ (secret => type = "webhook") BY DEF Init
<1>3. TypeMsg BY <1>1, <1>2, ClosesBounded DEF Init, TypeMsg
<1>4. \A m \in Messages : Message(m) BY DEF Init, Message
<1>5. Undisturbed BY IdleTyped DEF Init, Undisturbed
<1>6. work = {} BY DEF Init
<1> QED BY <1>2, <1>3, <1>4, <1>5, <1>6 DEF MsgOK

LEMMA MsgStep == ASSUME LifeOK, MsgOK, [Next]_vars PROVE MsgOK'
<1>0. ASSUME UNCHANGED <<type, requeue, secret, sender, msg, work, processed, closes>> PROVE MsgOK'
  BY <1>0, MsgSame, CalmStep
<1>1. CASE Crash BY <1>1, MsgDown DEF Crash
<1>2. ASSUME NEW r \in Callers, Stopped(r) PROVE MsgOK'
  <2>1. req[r].pc = "closing" /\ UNCHANGED <<type, requeue, secret, sender, processed, closes>>
    BY <1>2 DEF Stopped
  <2>2. req[r].sub \in Subs BY <2>1, CallIsQueue
  <2>3. ~Calm' BY <2>1, CalmStep DEF MsgOK, Undisturbed
  <2>4. CASE Requeued(req[r].sub)
    <3>1. closes' \in 0..MaxCloses BY <2>1 DEF MsgOK, TypeMsg
    <3> QED BY <2>1, <2>2, <2>3, <2>4, <3>1, MsgRequeued
  <2>5. CASE UNCHANGED <<msg, work>> BY <1>0, <2>1, <2>5
  <2> QED BY <1>2, <2>4, <2>5 DEF Stopped
<1>c. ASSUME NEW r \in Callers, CloseFails(r) PROVE MsgOK'
  <2>1. /\ req[r].pc = "closing" /\ Requeued(req[r].sub)
        /\ UNCHANGED <<type, requeue, secret, sender, processed, closes>>
    BY <1>c DEF CloseFails
  <2>2. req[r].sub \in Subs BY <2>1, CallIsQueue
  <2>3. ~Calm' BY <2>1, CalmStep DEF MsgOK, Undisturbed
  <2>4. closes' \in 0..MaxCloses BY <2>1 DEF MsgOK, TypeMsg
  <2> QED BY <2>1, <2>2, <2>3, <2>4, MsgRequeued
<1>3. ASSUME NEW r \in Callers, Lifecycle(r) PROVE MsgOK'
  BY <1>0, <1>2, <1>c, <1>3
  DEF Lifecycle, Subscribed, SubscribeFails, CreateConnector, UpdateConnector, DeleteConnector
<1>4. ASSUME NEW s \in Subs, Driver(s) PROVE MsgOK'
  <2>1. CASE ConnectionCloses(s)
    <3>1. Requeued(s) /\ closes' = closes + 1 /\ closes < MaxCloses
          /\ UNCHANGED <<type, requeue, secret, sender, processed>>
      BY <2>1 DEF ConnectionCloses
    <3>2. closes' \in 0..MaxCloses /\ closes' # 0 BY <3>1, ConnectorsAssumption DEF MsgOK, TypeMsg
    <3>3. ~Calm' BY <3>2 DEF Calm
    <3> QED BY <3>1, <3>2, <3>3, MsgRequeued
  <2>2. CASE ReopenFails(s) BY <2>2, MsgDown DEF ReopenFails
  <2>3. CASE Reconnect(s) \/ Reopened(s) BY <1>0, <2>3 DEF Reconnect, Reopened
  <2> QED BY <1>4, <2>1, <2>2, <2>3 DEF Driver
<1>5. ASSUME NEW s \in Subs, NEW m \in Messages, Consume(s, m) PROVE MsgOK' BY <1>5, MsgConsume
<1>6. ASSUME NEW w \in work, Handle(w) PROVE MsgOK' BY <1>6, MsgHandle
<1>7. ASSUME NEW p \in Polls, Polling(p) PROVE MsgOK'
  <2>1. CASE PollFails(p) BY <2>1, MsgDown DEF PollFails
  <2> QED BY <1>0, <1>7, <2>1 DEF Polling, Poll, Fetched, Compare, PollDone
<1>8. ASSUME NEW m \in Messages, Webhook(m) PROVE MsgOK' BY <1>8, MsgWebhook
<1> QED BY <1>0, <1>1, <1>3, <1>4, <1>5, <1>6, <1>7, <1>8 DEF Next, vars, BootGateway, ContentChanges

-----------------------------------------------------------------------------
(* The polls.                                                               *)

Contents == 1..MaxContent
Wait     == [pc : {"idle", "fetching", "answered", "processing"}, got : 0..MaxContent]

TypePoll ==
  /\ content \in Contents /\ state \in 0..MaxContent /\ events \in [Contents -> 0..2]
  /\ poll \in [Polls -> Wait] /\ raced \in BOOLEAN

PollOK == TypePoll /\ PollInv

LEMMA PollBounds ==
  /\ 0 \in 0..MaxContent /\ 1 \in Contents /\ Contents \subseteq Nat /\ 0..MaxContent \subseteq Nat
  /\ MaxContent \in Nat
  BY ConnectorsAssumption DEF Contents

LEMMA RestingTyped == Resting \in Wait /\ Resting.pc = "idle"
  BY PollBounds DEF Resting, Wait

LEMMA PollInit == Init => PollOK
<1> SUFFICES ASSUME Init PROVE PollOK OBVIOUS
<1>1. TypePoll
  <2>1. events \in [Contents -> 0..2] BY DEF Init, Contents
  <2>2. poll \in [Polls -> Wait] BY RestingTyped DEF Init
  <2> QED BY <2>1, <2>2, PollBounds DEF Init, TypePoll
<1>2. \A p \in Polls : poll[p].pc = "idle" BY RestingTyped DEF Init
<1>3. PollInv BY <1>2 DEF Init, PollInv
<1> QED BY <1>1, <1>3 DEF PollOK

LEMMA PollSame ==
  ASSUME PollOK, UNCHANGED polling, raced' \in BOOLEAN, raced => raced' PROVE PollOK'
  BY DEF PollOK, TypePoll, PollInv

LEMMA PollDown == ASSUME PollOK, Down, UNCHANGED content PROVE PollOK'
<1>1. /\ state' = 0 /\ poll' = [p \in Polls |-> Resting] /\ events' = [c \in 1..MaxContent |-> 0]
      /\ raced' = FALSE
  BY DEF Down
<1>2. TypePoll'
  <2>1. events' \in [Contents -> 0..2] BY <1>1 DEF Contents
  <2>2. poll' \in [Polls -> Wait] BY <1>1, RestingTyped
  <2> QED BY <1>1, <2>1, <2>2, PollBounds DEF PollOK, TypePoll
<1>3. \A p \in Polls : poll'[p].pc = "idle" BY <1>1, RestingTyped
<1>4. state' <= content' BY <1>1, PollBounds DEF PollOK, TypePoll
<1>5. \A c \in 1..MaxContent : events'[c] = 0 BY <1>1
<1>6. PollInv' BY <1>3, <1>4, <1>5 DEF PollInv
<1> QED BY <1>2, <1>6 DEF PollOK

LEMMA PollingKeeps ==
  ASSUME PollOK, NEW p \in Polls, Poll(p) \/ Fetched(p) \/ Compare(p) \/ PollDone(p) PROVE PollOK'
<1>t. TypePoll /\ poll[p] \in Wait /\ content \in Nat /\ state \in Nat /\ poll[p].got \in 0..MaxContent
  BY PollBounds DEF PollOK, TypePoll, Wait
<1>1. CASE Poll(p)
  <2> DEFINE q == [pc |-> "fetching", got |-> 0]
  <2>1. poll' = [poll EXCEPT ![p] = q] /\ poll[p].pc = "idle"
        /\ raced' = (raced \/ \E o \in Polls : poll[o].pc # "idle") /\ UNCHANGED <<content, state, events>>
    BY <1>1 DEF Poll
  <2>2. q \in Wait /\ q.pc = "fetching" BY PollBounds DEF Wait
  <2>3. poll'[p] = q /\ \A o \in Polls : o # p => poll'[o] = poll[o] BY <1>t, <2>1 DEF TypePoll
  <2>4. TypePoll' BY <1>t, <2>1, <2>2 DEF TypePoll
  <2>5. ~raced' => ~raced /\ \A o \in Polls : poll[o].pc = "idle" BY <2>1
  <2> HIDE DEF q
  <2>6. PollInv' BY <2>1, <2>2, <2>3, <2>5 DEF PollOK, PollInv
  <2> QED BY <2>4, <2>6 DEF PollOK
<1>2. CASE Fetched(p)
  <2> DEFINE q == [pc |-> "answered", got |-> content]
  <2>1. poll' = [poll EXCEPT ![p] = q] /\ poll[p].pc = "fetching" /\ UNCHANGED <<content, state, events, raced>>
    BY <1>2 DEF Fetched
  <2>2. q \in Wait /\ q.pc = "answered" /\ q.got = content BY <1>t DEF Wait, TypePoll, Contents
  <2>3. poll'[p] = q /\ \A o \in Polls : o # p => poll'[o] = poll[o] BY <1>t, <2>1 DEF TypePoll
  <2>4. TypePoll' BY <1>t, <2>1, <2>2 DEF TypePoll
  <2>5. content \in 1..content /\ state <= content BY <1>t, PollBounds DEF PollOK, PollInv, TypePoll, Contents
  <2> HIDE DEF q
  <2>6. PollInv' BY <2>1, <2>2, <2>3, <2>5 DEF PollOK, PollInv
  <2> QED BY <2>4, <2>6 DEF PollOK
<1>3. CASE Compare(p)
  <2> DEFINE q == IF IsUnchanged(state, poll[p].got) THEN Resting ELSE [poll[p] EXCEPT !.pc = "processing"]
  <2>1. poll' = [poll EXCEPT ![p] = q] /\ poll[p].pc = "answered" /\ UNCHANGED <<content, state, events, raced>>
    BY <1>3 DEF Compare
  <2>2. q \in Wait BY <1>t, RestingTyped DEF Wait
  <2>3. poll'[p] = q /\ \A o \in Polls : o # p => poll'[o] = poll[o] BY <1>t, <2>1 DEF TypePoll
  <2>4. TypePoll' BY <1>t, <2>1, <2>2 DEF TypePoll
  <2>5. poll[p].got \in 1..content BY <2>1 DEF PollOK, PollInv
  <2>6. q.pc = "idle" \/ (q.pc = "processing" /\ q.got = poll[p].got /\ (state = 0 \/ state # poll[p].got))
    BY <1>t, RestingTyped DEF IsUnchanged, Wait
  <2>7. ~raced => (q.pc = "processing" => state < q.got)
    <3>1. ~raced => state <= poll[p].got BY <2>1 DEF PollOK, PollInv
    <3> QED BY <1>t, <2>5, <2>6, <3>1
  <2> HIDE DEF q
  <2>8. PollInv' BY <2>1, <2>3, <2>5, <2>6, <2>7 DEF PollOK, PollInv
  <2> QED BY <2>4, <2>8 DEF PollOK
<1>4. CASE PollDone(p)
  <2> DEFINE g == poll[p].got
  <2>1. /\ poll[p].pc = "processing" /\ state' = g /\ poll' = [poll EXCEPT ![p] = Resting]
        /\ events' = [events EXCEPT ![g] = IF @ < 2 THEN @ + 1 ELSE 2] /\ UNCHANGED <<content, raced>>
    BY <1>4 DEF PollDone
  <2>2. g \in 1..content /\ g \in Contents
    BY <1>t, <2>1, PollBounds DEF PollOK, PollInv, TypePoll, Contents
  <2>3. poll'[p].pc = "idle" /\ \A o \in Polls : o # p => poll'[o] = poll[o]
    BY <1>t, <2>1, RestingTyped DEF TypePoll
  <2>4. events[g] \in 0..2 BY <1>t, <2>2 DEF TypePoll
  <2>5. events' \in [Contents -> 0..2]
    <3>1. (IF events[g] < 2 THEN events[g] + 1 ELSE 2) \in 0..2 BY <2>4
    <3> QED BY <1>t, <2>1, <2>2, <3>1 DEF TypePoll
  <2>6. TypePoll' BY <1>t, <2>1, <2>5, RestingTyped DEF TypePoll
  <2>7. g <= content BY <1>t, <2>2
  <2>8. ASSUME ~raced
        PROVE  /\ \A o \in Polls : poll'[o].pc = "idle"
               /\ \A c \in 1..MaxContent : events'[c] < 2 /\ (events'[c] > 0 => c <= g)
    <3>1. \A o \in Polls : poll'[o].pc = "idle" BY <2>1, <2>3, <2>8 DEF PollOK, PollInv
    <3>2. state < g BY <2>1, <2>8 DEF PollOK, PollInv
    <3>3. \A c \in 1..MaxContent : events[c] \in 0..2 /\ c \in Nat BY <1>t, PollBounds DEF TypePoll, Contents
    <3>4. events[g] = 0
      <4>1. events[g] > 0 => g <= state BY <2>2, <2>8 DEF PollOK, PollInv, Contents
      <4> QED BY <1>t, <2>2, <2>4, <3>2, <4>1
    <3>5. \A c \in 1..MaxContent : events'[c] = IF c = g THEN 1 ELSE events[c]
      BY <1>t, <2>1, <3>4 DEF TypePoll, Contents
    <3>6. \A c \in 1..MaxContent : events[c] < 2 /\ (events[c] > 0 => c <= state)
      BY <2>8 DEF PollOK, PollInv
    <3>7. g \in Nat /\ state \in Nat BY <1>t, <2>2
    <3>8. ASSUME NEW c \in 1..MaxContent PROVE events'[c] < 2 /\ (events'[c] > 0 => c <= g)
      BY <3>2, <3>3, <3>5, <3>6, <3>7
    <3> QED BY <3>1, <3>8
  <2>9. \A o \in Polls : poll'[o].pc \in {"answered", "processing"} => poll'[o].got \in 1..content'
    BY <2>1, <2>3 DEF PollOK, PollInv
  <2> HIDE DEF g
  <2>10. PollInv' BY <2>1, <2>7, <2>8, <2>9 DEF PollInv
  <2> QED BY <2>6, <2>10 DEF PollOK
<1> QED BY <1>1, <1>2, <1>3, <1>4

LEMMA ContentKeeps == ASSUME PollOK, ContentChanges PROVE PollOK'
<1>1. content < MaxContent /\ content' = content + 1 /\ UNCHANGED <<state, poll, events, raced>>
  BY DEF ContentChanges
<1>2. TypePoll' BY <1>1, PollBounds DEF PollOK, TypePoll, Contents
<1>3. 1..content \subseteq 1..content' /\ state <= content'
  BY <1>1, PollBounds DEF PollOK, TypePoll, PollInv, Contents
<1>4. PollInv' BY <1>1, <1>3 DEF PollOK, PollInv
<1> QED BY <1>2, <1>4 DEF PollOK

LEMMA PollStep == ASSUME PollOK, [Next]_vars PROVE PollOK'
<1>t. raced \in BOOLEAN BY DEF PollOK, TypePoll
<1>0. ASSUME UNCHANGED polling, raced' \in BOOLEAN, raced => raced' PROVE PollOK' BY <1>0, PollSame
<1>1. CASE Crash BY <1>1, PollDown DEF Crash
<1>2. CASE BootGateway BY <1>t, <1>0, <1>2 DEF BootGateway
<1>3. CASE ContentChanges BY <1>3, ContentKeeps
<1>4. ASSUME NEW r \in Callers, Lifecycle(r) PROVE PollOK'
  <2>1. CASE Stopped(r) \/ CloseFails(r) \/ Subscribed(r) \/ SubscribeFails(r)
    BY <1>t, <1>0, <2>1 DEF Stopped, CloseFails, Subscribed, SubscribeFails
  <2>2. CASE CreateConnector(r) \/ UpdateConnector(r) \/ DeleteConnector(r)
    <3>1. raced' \in BOOLEAN /\ (raced => raced')
      BY <1>t, <2>2 DEF CreateConnector, UpdateConnector, DeleteConnector, Sync
    <3> QED BY <1>0, <2>2, <3>1 DEF CreateConnector, UpdateConnector, DeleteConnector
  <2> QED BY <1>4, <2>1, <2>2 DEF Lifecycle
<1>5. ASSUME NEW s \in Subs, Driver(s) PROVE PollOK'
  <2>1. CASE ReopenFails(s) BY <2>1, PollDown DEF ReopenFails
  <2>2. CASE ConnectionCloses(s) \/ Reconnect(s) \/ Reopened(s)
    <3>1. raced' \in BOOLEAN /\ (raced => raced') BY <1>t, <2>2 DEF ConnectionCloses, Reconnect, Reopened
    <3> QED BY <1>0, <2>2, <3>1 DEF ConnectionCloses, Reconnect, Reopened
  <2> QED BY <1>5, <2>1, <2>2 DEF Driver
<1>6. ASSUME NEW s \in Subs, NEW m \in Messages, Consume(s, m) PROVE PollOK' BY <1>t, <1>0, <1>6 DEF Consume
<1>7. ASSUME NEW w \in work, Handle(w) PROVE PollOK'
  <2>1. CASE w.live BY <1>t, <1>0, <1>7, <2>1 DEF Handle
  <2>2. CASE ~w.live BY <1>7, <2>2, PollDown DEF Handle
  <2> QED BY <2>1, <2>2
<1>8. ASSUME NEW p \in Polls, Polling(p) PROVE PollOK' BY <1>8, PollingKeeps, PollDown DEF Polling, PollFails
<1>9. ASSUME NEW m \in Messages, Webhook(m) PROVE PollOK'
  BY <1>t, <1>0, <1>9 DEF Webhook, AcceptWebhook, HandleWebhook
<1>10. CASE UNCHANGED vars BY <1>t, <1>0, <1>10 DEF vars
<1> QED BY <1>1, <1>2, <1>3, <1>4, <1>5, <1>6, <1>7, <1>8, <1>9, <1>10 DEF Next

-----------------------------------------------------------------------------
(* The theorems.                                                            *)

IndInv == LifeOK /\ MsgOK /\ PollOK

LEMMA IndInvStep == ASSUME IndInv, [Next]_vars PROVE IndInv'
  BY LifeStep, MsgStep, PollStep DEF IndInv

LEMMA IndInvInit == Init => IndInv
  BY LifeInit, MsgInit, PollInit DEF IndInv

LEMMA IndInvMeans == IndInv => ConnectorInv /\ EventInv
<1> SUFFICES ASSUME IndInv PROVE ConnectorInv /\ EventInv OBVIOUS
<1>1. TypeLife /\ TypeMsg /\ TypePoll BY DEF IndInv, LifeOK, MsgOK, PollOK
<1>2. TypeOK
  <2>1. {requeue, secret} \subseteq BOOLEAN BY <1>1 DEF TypeMsg
  <2> QED BY <1>1, <2>1 DEF TypeOK, TypeLife, TypeMsg, TypePoll, Versions, Call, Job, Contents, Wait
<1>3. MsgInv BY <1>1, MsgParts DEF IndInv
<1>4. EventInv BY <1>3 DEF IndInv, PollOK, PollInv, MsgInv, EventInv, OneEventPerChange
<1>5. ConsumersAreTracked
  <2>1. CASE type = "queue" BY <2>1 DEF IndInv, LifeOK, LifeInv, InStep, ConsumersAreTracked
  <2>2. CASE type # "queue" BY <2>2 DEF IndInv, LifeOK, LifeInv, Bare, ConsumersAreTracked
  <2> QED BY <2>1, <2>2
<1>6. RunsWhatIsStored
  <2>1. CASE type = "queue"
    <3> SUFFICES ASSUME up, Quiet, ~raced
                 PROVE  /\ timer = 0 /\ (Wanted /\ faults = 0 => HasSubscription)
                        /\ ~Wanted => /\ subscriptions = NoSub \/ closed[subscriptions]
                                      /\ \A s \in Subs : stage[s] # "open"
      BY <2>1 DEF RunsWhatIsStored, Wanted
    <3>1. timer = 0 BY <2>1 DEF IndInv, LifeOK, LifeInv, Bare
    <3>2. /\ Wanted /\ faults = 0 => HasSubscription
          /\ ~Wanted => subscriptions = NoSub \/ closed[subscriptions]
          /\ \A s \in Subs : stage[s] = "open" => s = subscriptions /\ ~closed[s]
      BY <2>1 DEF IndInv, LifeOK, LifeInv, InStep
    <3> QED BY <3>1, <3>2, ConnectorsAssumption
  <2>2. CASE type # "queue"
    BY <2>2 DEF IndInv, LifeOK, LifeInv, Bare, RunsWhatIsStored, Wanted
  <2> QED BY <2>1, <2>2
<1> QED BY <1>2, <1>4, <1>5, <1>6 DEF ConnectorInv

\* Between calls that did not overlap the gateway runs what the row of a
\* connector says, and it consumes over no connection that a later stop would
\* not close (connectorLifecycle, QueueConnector, PollingConnector, the
\* RabbitMQ driver), through reconnects, subscriptions and closes that fail and
\* crashes.  A disabled connector may keep the entry of a close that failed,
\* but has no consumer; an enabled one is sure of one only without a fault.
THEOREM ConnectorIsSound == Spec => []ConnectorInv
<1>1. IndInv /\ [Next]_vars => IndInv' BY IndInvStep
<1>2. IndInv => ConnectorInv BY IndInvMeans
<1> QED BY IndInvInit, <1>1, <1>2, PTL DEF Spec

\* A message is acknowledged only once its event was processed, and processed
\* twice only after a lost channel, a fault, an edit or a deletion; with a
\* secret only what is signed with it is processed; and polls that do not
\* overlap make one event of each content they see.
THEOREM EventsAreSound == Spec => []EventInv
<1>1. IndInv /\ [Next]_vars => IndInv' BY IndInvStep
<1>2. IndInv => EventInv BY IndInvMeans
<1> QED BY IndInvInit, <1>1, <1>2, PTL DEF Spec
=============================================================================
