---------------------------- MODULE LedgerProofs ----------------------------
(***************************************************************************)
(* Theorems about what the tracing checkpointer records of the puts of an  *)
(* application and of fork_thread, for any threads, checkpoints, callers   *)
(* and failures.                                                           *)
(***************************************************************************)
EXTENDS ForkProofs

-----------------------------------------------------------------------------
(***************************************************************************)
(* A place is a thread and an id.  At most one checkpoint is ever put      *)
(* there: the application's ids are new, and fork_thread copies, in the    *)
(* order of the ids, into a thread that nobody used.  So a put in progress *)
(* has its checkpoint in the store, or it was deleted or drifted; and an   *)
(* event can only mean that one put.                                       *)
(***************************************************************************)
Puts == [thread : Threads, ns : Namespaces, id : Ids, content : Contents]

PutIds == {p.id : p \in put_history}

put_of(x) ==
  [thread |-> x.thread, ns |-> x.ns, id |-> x.id, content |-> Survives[x.object]]

PutsTyped == put_history \subseteq Puts

Numbered == \E n \in Nat : PutIds = 1..n

OncePut ==
  \A p, q \in put_history : p.thread = q.thread /\ p.id = q.id => p = q

Stored ==
  \A t \in Threads, id \in Ids : store[t][id] # None =>
    /\ \E p \in put_history : p.thread = t /\ p.id = id /\ p.ns = store[t][id].ns
    /\ store[t][id].parent # None => store[t][id].parent < id

\* What the call x has put is in the store, or in its hands.
at_hand(x) ==
  IF x.tup # None THEN x.tup.content = Survives[x.object]
  ELSE /\ store[x.thread][x.id] # None
       /\ store[x.thread][x.id].ns = x.ns
       /\ store[x.thread][x.id].content = Survives[x.object]

InFlight ==
  \A c \in Callers : call[c] # None /\ call[c].op = "put" =>
    /\ put_of(call[c]) \in put_history
    /\ <<call[c].thread, call[c].id>> \in raced \/ at_hand(call[c])

\* A snapshot in log t is of a checkpoint that was put; in thread t, if the log
\* is about that thread, and then with the digest of what was put.
claimed(t, e) ==
  \E p \in put_history :
    /\ p.id = e.id
    /\ OwnLog(t) => /\ p.thread = t
                    /\ <<t, p.id>> \notin raced => e.digest = digest(p.id, p.content)

OnRecord ==
  \A t \in Threads : \A n \in DOMAIN log[t] :
    log[t][n].kind = "snapshot" => claimed(t, log[t][n])

OwnRecorders == \A t \in Threads : recorders[t] # None => recorders[t].log = t

WrapperTyped == wrapper.bound \in Recorders \cup {None}

Places ==
  /\ PutsTyped /\ Numbered /\ OncePut /\ Stored /\ InFlight /\ OnRecord
  /\ OwnRecorders /\ WrapperTyped

\* How the recorders change: recorder_for makes one where there is none.
RecordersMade ==
  \A t \in Threads : \/ recorders'[t] = recorders[t]
                     \/ recorders[t] = None /\ recorders'[t] = made(t)

LEMMA KeepMakes ==
  ASSUME recorders \in Caches, NEW t \in Threads, keep(t) \/ UNCHANGED recorders
  PROVE  RecordersMade
  BY DEF keep, constructs, Caches, RecordersMade

LEMMA MadeOwn ==
  ASSUME OwnRecorders, RecordersMade
  PROVE  OwnRecorders'
<1>1. \A t : made(t).log = t
  BY DEF made
<1> QED
  BY <1>1 DEF OwnRecorders, RecordersMade

\* The recorder that calls for a thread use is always the same one.
LEMMA RecForSame ==
  ASSUME RecordersMade, UNCHANGED wrapper, NEW t \in Threads
  PROVE  rec_for(t)' = rec_for(t)
  BY DEF RecordersMade, rec_for, made

LEMMA RecForType ==
  ASSUME CPTyped, WrapperTyped, NEW t \in Threads, rec_for(t) # None
  PROVE  rec_for(t) \in Recorders
<1>1. made(t) \in Recorders
  BY DEF made, Recorders
<1> QED
  BY <1>1 DEF rec_for, WrapperTyped, CPTyped, Caches

\* A log only grows.
LEMMA LogGrows ==
  ASSUME log \in Logs, NEW u \in Threads, NEW e \in Events,
         log' = [log EXCEPT ![u] = Append(@, e)]
  PROVE  /\ \A t \in Threads : \A n \in DOMAIN log[t] :
              n \in DOMAIN log'[t] /\ log'[t][n] = log[t][n]
         /\ \A t \in Threads : \A n \in DOMAIN log'[t] :
              \/ n \in DOMAIN log[t] /\ log'[t][n] = log[t][n]
              \/ t = u /\ log'[t][n] = e
<1>1. log[u] \in Seq(Events)
  BY DEF Logs
<1> DEFINE s == Append(log[u], e)
<1>2. /\ s \in Seq(Events) /\ Len(s) = Len(log[u]) + 1
      /\ \A n \in 1..Len(log[u]) : s[n] = log[u][n]
      /\ s[Len(log[u]) + 1] = e
  BY <1>1, AppendProperties
<1>3. /\ DOMAIN log[u] = 1..Len(log[u]) /\ Len(log[u]) \in Nat
      /\ DOMAIN s = 1..(Len(log[u]) + 1)
  BY <1>1, <1>2, LenProperties
<1>4. log'[u] = s /\ \A t \in Threads : t # u => log'[t] = log[t]
  BY DEF Logs
<1> HIDE DEF s
<1> QED
  BY <1>2, <1>3, <1>4

-----------------------------------------------------------------------------
(***************************************************************************)
(* What one step of the tracing of a call does.                            *)
(***************************************************************************)
\* The call of c answers without a new event; if its recorder is enforced and
\* it returned, then because its checkpoint is gone.
Unrecorded(c) ==
  /\ log' = log
  /\ \E how \in {"returned", "raised"} :
       /\ leave(c, how)
       /\ how = "returned" /\ enforced(call[c].thread) =>
            /\ call[c].op = "put" /\ call[c].tup = None
            /\ S!get_tuple(call[c].thread, call[c].ns, call[c].id) = None

\* The call of c is recorded and returns.
Recorded(c) ==
  /\ call[c].op = "writes" \/ call[c].tup # None
  /\ rec_for(call[c].thread) # None
  /\ log' = [log EXCEPT ![rec_for(call[c].thread).log] = Append(@, event(call[c]))]
  /\ leave(c, "returned")

\* The call of c has read its checkpoint again.
ReadAgain(c) ==
  /\ call[c].op = "put" /\ call[c].tup = None
  /\ S!get_tuple(call[c].thread, call[c].ns, call[c].id) # None
  /\ call' = [call EXCEPT ![c].tup =
                S!get_tuple(call[c].thread, call[c].ns, call[c].id)]
  /\ UNCHANGED <<log, answered>>

\* A strict recorder that is in force is a strict recorder for the handler.
LEMMA EnforcedStrict ==
  ASSUME NEW t, enforced(t)
  PROVE  strict_for(t)
<1>1. made(t).strict = FALSE
  BY DEF made
<1>2. CASE wrapper.bound # None
  BY <1>2 DEF enforced, rec_for, strict_for
<1>3. CASE wrapper.bound = None
  <2>1. wrapper.enabled /\ recorders[t] # None /\ recorders[t].strict
    BY <1>1, <1>3 DEF enforced, rec_for
  <2> QED
    BY <1>3, <2>1 DEF strict_for
<1> QED
  BY <1>2, <1>3

LEMMA HandleUnrecorded ==
  ASSUME NEW c, handle(c)
  PROVE  /\ Unrecorded(c)
         /\ keep(call[c].thread) \/ UNCHANGED recorders
<1>1. log' = log /\ (keep(call[c].thread) \/ UNCHANGED recorders)
  BY DEF handle
<1>2. PICK raises \in BOOLEAN :
        leave(c, IF raises \/ strict_for(call[c].thread) THEN "raised" ELSE "returned")
  BY DEF handle
<1>3. CASE strict_for(call[c].thread)
  <2>1. leave(c, "raised")
    BY <1>2, <1>3
  <2> QED
    BY <1>1, <2>1 DEF Unrecorded
<1>4. CASE ~strict_for(call[c].thread)
  <2>1. ~enforced(call[c].thread)
    BY <1>4, EnforcedStrict
  <2>2. leave(c, "raised") \/ leave(c, "returned")
    BY <1>2
  <2> QED
    BY <1>1, <2>1, <2>2 DEF Unrecorded
<1> QED
  BY <1>1, <1>3, <1>4

LEMMA TracingEffect ==
  ASSUME CPTyped, NEW c \in Callers, CPTracing(c)
  PROVE  /\ call[c] # None /\ call[c] \in Calls
         /\ UNCHANGED <<store, pending, wrapper, put_history, changed, raced>>
         /\ RecordersMade
         /\ Unrecorded(c) \/ Recorded(c) \/ ReadAgain(c)
<1> DEFINE t == call[c].thread
           got == S!get_tuple(t, call[c].ns, call[c].id)
<1>1. /\ call[c] # None
      /\ UNCHANGED <<store, pending, wrapper, put_history, changed, raced>>
  BY DEF CPTracing, Reread, Trace, saver
<1>2. call[c] \in Calls /\ t \in Threads
  BY <1>1, CallType
<1>3. recorders \in Caches
  BY DEF CPTyped
<1> SUFFICES /\ keep(t) \/ UNCHANGED recorders
             /\ Unrecorded(c) \/ Recorded(c) \/ ReadAgain(c)
  BY <1>1, <1>2, <1>3, KeepMakes
<1>4. CASE handle(c)
  BY <1>4, HandleUnrecorded
<1>5. CASE Reread(c)
  <2>1. call[c].op = "put" /\ call[c].tup = None
    BY <1>5 DEF Reread
  <2>2. CASE rec_for(t) = None /\ leave(c, "returned") /\ UNCHANGED <<ledger, faults>>
    <3>1. ~enforced(t)
      BY <2>2 DEF enforced
    <3> QED
      BY <2>2, <3>1 DEF Unrecorded, ledger
  <2>3. CASE reread(c, got) /\ UNCHANGED log /\ (keep(t) \/ UNCHANGED recorders)
    <3>1. CASE got = None
      BY <2>1, <2>3, <3>1 DEF reread, Unrecorded
    <3>2. CASE got # None
      BY <2>1, <2>3, <3>2 DEF reread, ReadAgain
    <3> QED
      BY <2>3, <3>1, <3>2
  <2> QED
    BY <1>4, <1>5, <2>2, <2>3 DEF Reread
<1>6. CASE Trace(c)
  <2>1. call[c].op = "writes" \/ call[c].tup # None
    BY <1>6 DEF Trace
  <2>2. CASE rec_for(t) = None /\ leave(c, "returned") /\ UNCHANGED <<ledger, faults>>
    <3>1. ~enforced(t)
      BY <2>2 DEF enforced
    <3> QED
      BY <2>2, <3>1 DEF Unrecorded, ledger
  <2>3. CASE rec_for(t) # None /\ emit(c, rec_for(t), event(call[c]))
    <3>1. CASE /\ log' = [log EXCEPT ![rec_for(t).log] = Append(@, event(call[c]))]
               /\ leave(c, "returned") /\ keep(t)
      BY <2>1, <2>3, <3>1 DEF Recorded
    <3>2. CASE ~rec_for(t).strict /\ leave(c, "returned") /\ keep(t) /\ UNCHANGED log
      BY <3>2 DEF Unrecorded, enforced
    <3> QED
      BY <1>4, <2>3, <3>1, <3>2 DEF emit
  <2> QED
    BY <1>4, <1>6, <2>2, <2>3 DEF Trace
<1> QED
  BY <1>5, <1>6 DEF CPTracing

-----------------------------------------------------------------------------
(***************************************************************************)
(* At most one checkpoint is ever put at a place, step by step.            *)
(***************************************************************************)
\* The more is put, the fewer logs are about one thread only.
LEMMA OwnLogEarlier ==
  ASSUME UNCHANGED wrapper, put_history \subseteq put_history', NEW t, OwnLog(t)'
  PROVE  OwnLog(t)
  BY DEF OwnLog

LEMMA PutIdsNat ==
  ASSUME PutsTyped
  PROVE  PutIds \subseteq Ids /\ Ids \subseteq Nat
  BY SaverAssumption DEF PutsTyped, Puts, PutIds

\* The next id of the application is greater than all others.
LEMMA FreshIsNew ==
  ASSUME Numbered, PutsTyped
  PROVE  /\ fresh \in Nat /\ \A p \in put_history : p.id < fresh
         /\ \A n \in Nat : PutIds = 1..n => fresh = n + 1
<1>1. PICK n \in Nat : PutIds = 1..n
  BY DEF Numbered
<1>2. \A m \in Nat : Cardinality(1..m) = m
  BY FS_Interval
<1>3. fresh = n + 1
  BY <1>1, <1>2 DEF fresh, PutIds
<1>4. \A p \in put_history : p.id \in 1..n
  BY <1>1 DEF PutIds
<1>5. ASSUME NEW k \in Nat, PutIds = 1..k PROVE fresh = k + 1
  BY <1>2, <1>5 DEF fresh, PutIds
<1> QED
  BY <1>3, <1>4, <1>5

\* A put at a place of its own.
LEMMA PutPlaces ==
  ASSUME CPTyped, Places, NEW c \in Callers, NEW t \in Threads, NEW ns \in Namespaces,
         NEW id \in Ids, NEW o \in Objects, NEW parent \in Ids \cup {None},
         NEW async \in BOOLEAN, InnerPut(c, t, ns, id, o, parent, async),
         \A p \in put_history : p.thread = t => p.id # id,
         parent # None => parent < id,
         id \in PutIds \/ id = fresh
  PROVE  Places'
<1> DEFINE new == [thread |-> t, ns |-> ns, id |-> id, content |-> Survives[o]]
           cell == [ns |-> ns, content |-> Survives[o], parent |-> parent]
           x == [op |-> "put", thread |-> t, ns |-> ns, id |-> id, async |-> async,
                 object |-> o, tup |-> None, task |-> None, list |-> <<>>]
<1>1. /\ put_history' = put_history \cup {new}
      /\ UNCHANGED <<log, recorders, wrapper, raced>>
  BY DEF InnerPut, ledger
<1>2. new \in Puts /\ new.thread = t /\ new.id = id /\ new.ns = ns
  BY SaverAssumption DEF Puts
<1>3. cell \in S!Checkpoints /\ cell # None /\ cell.ns = ns /\ cell.parent = parent
      /\ cell.content = Survives[o]
  BY SaverAssumption, CallAssumption DEF S!Checkpoints
<1>4. PutsTyped'
  BY <1>1, <1>2 DEF Places, PutsTyped
<1>5. Numbered'
  <2>1. PICK n \in Nat : PutIds = 1..n
    BY DEF Places, Numbered
  <2>2. PutIds' = PutIds \cup {id}
    <3> HIDE DEF new
    <3> QED
      BY <1>1, <1>2 DEF PutIds
  <2>3. CASE id \in PutIds
    BY <2>1, <2>2, <2>3 DEF Numbered
  <2>4. CASE id = fresh
    <3>1. id = n + 1
      BY <2>1, <2>4, FreshIsNew DEF Places
    <3>2. PutIds' = 1..(n + 1) /\ n + 1 \in Nat
      BY <2>1, <2>2, <3>1
    <3> QED
      BY <3>2 DEF Numbered
  <2> QED
    BY <2>3, <2>4
<1>6. OncePut'
  BY <1>1 DEF Places, OncePut
<1>7. /\ store' = [store EXCEPT ![t] = [store[t] EXCEPT ![id] = cell]]
      /\ store'[t][id] = cell
      /\ \A u \in Threads, i \in Ids : u # t \/ i # id => store'[u][i] = store[u][i]
  BY DEF InnerPut, S!stored_put, CPTyped, Stores
<1>8. Stored'
  <2> SUFFICES ASSUME NEW u \in Threads, NEW i \in Ids, store'[u][i] # None
               PROVE  /\ \E p \in put_history' :
                            p.thread = u /\ p.id = i /\ p.ns = store'[u][i].ns
                      /\ store'[u][i].parent # None => store'[u][i].parent < i
    BY DEF Stored
  <2>1. CASE u = t /\ i = id
    <3> HIDE DEF new, cell
    <3> QED
      BY <1>1, <1>2, <1>3, <1>7, <2>1
  <2>2. CASE u # t \/ i # id
    BY <1>1, <1>7, <2>2 DEF Places, Stored
  <2> QED
    BY <2>1, <2>2
<1>9. InFlight'
  <2>1. /\ call[c] = None /\ call'[c] = x
        /\ \A d \in Callers : d # c => call'[d] = call[d]
    BY DEF InnerPut, CPTyped, Progresses
  <2> SUFFICES ASSUME NEW d \in Callers, NEW y, y = call'[d], y # None, y.op = "put"
               PROVE  /\ put_of(y) \in put_history'
                      /\ <<y.thread, y.id>> \in raced' \/ at_hand(y)'
    BY DEF InFlight, put_of, at_hand
  <2>2. CASE d = c
    <3>1. put_of(x) = new
      BY DEF put_of
    <3>2. at_hand(x)'
      BY <1>3, <1>7 DEF at_hand
    <3> HIDE DEF x
    <3> QED
      BY <1>1, <2>1, <2>2, <3>1, <3>2
  <2>3. CASE d # c
    <3>1. /\ y = call[d] /\ y.thread \in Threads /\ y.id \in Ids
      BY <2>1, <2>3, CallType
    <3>2. put_of(y) \in put_history /\ (<<y.thread, y.id>> \in raced \/ at_hand(y))
      BY <3>1 DEF Places, InFlight
    <3>3. y.thread # t \/ y.id # id
      BY <3>2 DEF put_of
    <3>4. store'[y.thread][y.id] = store[y.thread][y.id]
      BY <1>7, <3>1, <3>3
    <3>5. at_hand(y) => at_hand(y)'
      BY <3>4 DEF at_hand
    <3> QED
      BY <1>1, <3>2, <3>5
  <2> QED
    BY <2>2, <2>3
<1>10. OnRecord'
  <2> SUFFICES ASSUME NEW u \in Threads, NEW n \in DOMAIN log[u],
                      log[u][n].kind = "snapshot"
               PROVE  claimed(u, log[u][n])'
    BY <1>1 DEF OnRecord
  <2>1. claimed(u, log[u][n])
    BY DEF Places, OnRecord
  <2>2. OwnLog(u)' => OwnLog(u)
    BY <1>1, OwnLogEarlier
  <2> QED
    BY <1>1, <2>1, <2>2 DEF claimed
<1> QED
  BY <1>1, <1>4, <1>5, <1>6, <1>8, <1>9, <1>10 DEF Places, OwnRecorders, WrapperTyped

\* Steps that put nothing, change no checkpoint and record no snapshot.
LEMMA SamePlaces ==
  ASSUME Places, CPTyped, RecordersMade, UNCHANGED <<store, wrapper, put_history, raced>>,
         \A c \in Callers : \/ call'[c] = call[c]
                            \/ call'[c] = None
                            \/ call'[c].op = "writes",
         \A t \in Threads : \A n \in DOMAIN log'[t] :
           \/ n \in DOMAIN log[t] /\ log'[t][n] = log[t][n]
           \/ log'[t][n].kind # "snapshot"
  PROVE  Places'
<1>1. PutsTyped' /\ Numbered' /\ OncePut' /\ Stored' /\ WrapperTyped'
  BY DEF Places, PutsTyped, Numbered, PutIds, OncePut, Stored, WrapperTyped
<1>2. OwnRecorders'
  BY MadeOwn DEF Places
<1>3. InFlight'
  BY DEF Places, InFlight, at_hand, put_of
<1>4. OnRecord'
  BY DEF Places, OnRecord, claimed, OwnLog
<1> QED
  BY <1>1, <1>2, <1>3, <1>4 DEF Places

\* The snapshot of a call claims what the call put.
LEMMA SnapshotClaims ==
  ASSUME CPTyped, Places, NEW c \in Callers, call[c] # None, call[c].op = "put",
         call[c].tup # None, rec_for(call[c].thread) # None
  PROVE  claimed(rec_for(call[c].thread).log, event(call[c]))
<1> DEFINE x == call[c]
           p == put_of(x)
           u == rec_for(x.thread).log
<1>1. x \in Calls /\ x.thread \in Threads /\ x.id \in Ids
  BY CallType
<1>2. p \in put_history /\ (<<x.thread, x.id>> \in raced \/ x.tup.content = Survives[x.object])
  BY DEF Places, InFlight, at_hand
<1>3. p.thread = x.thread /\ p.id = x.id /\ p.content = Survives[x.object]
  BY DEF put_of
<1>4. event(x).id = x.id /\ event(x).digest = digest(x.id, x.tup.content)
  BY DEF event, snapshot
<1>5. ASSUME OwnLog(u) PROVE p.thread = u
  <2>1. CASE wrapper.bound # None
    <3>1. wrapper.bound.log = u
      BY <2>1 DEF rec_for
    <3> QED
      BY <1>2, <1>5, <2>1, <3>1 DEF OwnLog
  <2>2. CASE wrapper.bound = None
    <3>1. made(x.thread).log = x.thread
      BY DEF made
    <3>2. u = x.thread
      BY <1>1, <2>2, <3>1 DEF rec_for, Places, OwnRecorders
    <3> QED
      BY <1>3, <3>2
  <2> QED
    BY <2>1, <2>2
<1> HIDE DEF x, p, u
<1>6. claimed(u, event(x))
  BY <1>2, <1>3, <1>4, <1>5 DEF claimed
<1> QED
  BY <1>6 DEF x, u

LEMMA TracingPlaces ==
  ASSUME CPTyped, Places, NEW c \in Callers, CPTracing(c)
  PROVE  Places'
<1>1. /\ call[c] # None /\ call[c] \in Calls /\ call[c].thread \in Threads
      /\ UNCHANGED <<store, pending, wrapper, put_history, changed, raced>>
      /\ RecordersMade
  BY TracingEffect, CallType
<1>2. CASE Unrecorded(c)
  <2>1. log' = log /\ call' = [call EXCEPT ![c] = None]
    BY <1>2 DEF Unrecorded, leave
  <2>2. \A d \in Callers : call'[d] = call[d] \/ call'[d] = None
    BY <2>1 DEF CPTyped, Progresses
  <2> QED
    BY <1>1, <2>1, <2>2, SamePlaces
<1>3. CASE ReadAgain(c)
  <2> DEFINE got == S!get_tuple(call[c].thread, call[c].ns, call[c].id)
  <2>1. /\ log' = log /\ call[c].op = "put" /\ call[c].tup = None /\ got # None
        /\ call' = [call EXCEPT ![c] = [call[c] EXCEPT !.tup = got]]
    BY <1>3 DEF ReadAgain, CPTyped, Progresses
  <2>2. got = store[call[c].thread][call[c].id]
    BY <2>1 DEF S!get_tuple
  <2> HIDE DEF got
  <2>3. PICK y : y = [call[c] EXCEPT !.tup = got]
    OBVIOUS
  <2>4. y.thread = call[c].thread /\ y.id = call[c].id /\ y.ns = call[c].ns
        /\ y.object = call[c].object /\ y.tup = got
    BY <1>1, <2>1, <2>3 DEF Calls
  <2>5. call'[c] = y /\ \A d \in Callers : d # c => call'[d] = call[d]
    BY <2>1, <2>3 DEF CPTyped, Progresses
  <2>6. put_of(y) = put_of(call[c])
    BY <2>4 DEF put_of
  <2>7. put_of(y) \in put_history /\ (<<y.thread, y.id>> \in raced \/ at_hand(y)')
    <3>1. at_hand(call[c]) => at_hand(y)'
      BY <2>1, <2>2, <2>4 DEF at_hand
    <3> QED
      BY <1>1, <2>1, <2>4, <2>6, <3>1 DEF Places, InFlight
  <2>8. InFlight'
    <3> SUFFICES ASSUME NEW d \in Callers, NEW z, z = call'[d], z # None, z.op = "put"
                 PROVE  /\ put_of(z) \in put_history'
                        /\ <<z.thread, z.id>> \in raced' \/ at_hand(z)'
      BY DEF InFlight, put_of, at_hand
    <3>1. CASE d = c
      BY <1>1, <2>5, <2>7, <3>1
    <3>2. CASE d # c
      <4>1. z = call[d]
        BY <2>5, <3>2
      <4>2. put_of(z) \in put_history /\ (<<z.thread, z.id>> \in raced \/ at_hand(z))
        BY <4>1 DEF Places, InFlight
      <4>3. at_hand(z) => at_hand(z)'
        BY <1>1 DEF at_hand
      <4> QED
        BY <1>1, <4>2, <4>3
    <3> QED
      BY <3>1, <3>2
  <2>9. PutsTyped' /\ Numbered' /\ OncePut' /\ Stored' /\ WrapperTyped' /\ OwnRecorders'
    BY <1>1, MadeOwn
    DEF Places, PutsTyped, Numbered, PutIds, OncePut, Stored, WrapperTyped
  <2>10. OnRecord'
    BY <1>1, <2>1 DEF Places, OnRecord, claimed, OwnLog
  <2> QED
    BY <2>8, <2>9, <2>10 DEF Places
<1>4. CASE Recorded(c)
  <2> DEFINE r == rec_for(call[c].thread)
             e == event(call[c])
  <2>1. /\ r # None /\ (call[c].op = "writes" \/ call[c].tup # None)
        /\ log' = [log EXCEPT ![r.log] = Append(@, e)]
        /\ call' = [call EXCEPT ![c] = None]
    BY <1>4 DEF Recorded, leave
  <2>2. \A d \in Callers : call'[d] = call[d] \/ call'[d] = None
    BY <2>1 DEF CPTyped, Progresses
  <2>3. e \in Events /\ r \in Recorders /\ r.log \in Threads
    BY <1>1, <2>1, EventType, RecForType DEF Places, Recorders
  <2>4. e.kind = "snapshot" => claimed(r.log, e)
    <3>1. CASE call[c].op = "put"
      BY <1>1, <2>1, <3>1, SnapshotClaims
    <3>2. CASE call[c].op = "writes"
      BY <3>2 DEF event, checkpoint_writes
    <3> QED
      BY <1>1, <3>1, <3>2 DEF Calls
  <2> HIDE DEF r, e
  <2>5. \A t \in Threads : \A n \in DOMAIN log'[t] :
          \/ n \in DOMAIN log[t] /\ log'[t][n] = log[t][n]
          \/ t = r.log /\ log'[t][n] = e
    BY <2>1, <2>3, LogGrows DEF CPTyped
  <2>6. OnRecord'
    <3> SUFFICES ASSUME NEW t \in Threads, NEW n \in DOMAIN log'[t], NEW f,
                        f = log'[t][n], f.kind = "snapshot"
                 PROVE  claimed(t, f)'
      BY DEF OnRecord, claimed, OwnLog
    <3>1. claimed(t, f)
      BY <2>4, <2>5 DEF Places, OnRecord
    <3> QED
      BY <1>1, <3>1 DEF claimed, OwnLog
  <2>7. InFlight'
    BY <1>1, <2>2 DEF Places, InFlight, at_hand, put_of
  <2>8. PutsTyped' /\ Numbered' /\ OncePut' /\ Stored' /\ WrapperTyped' /\ OwnRecorders'
    BY <1>1, MadeOwn
    DEF Places, PutsTyped, Numbered, PutIds, OncePut, Stored, WrapperTyped
  <2> QED
    BY <2>6, <2>7, <2>8 DEF Places
<1> QED
  BY <1>2, <1>3, <1>4, TracingEffect

\* What happens to the store behind the callers' backs is noted.
Disturbed(places) ==
  /\ note_change(places)
  /\ \A t \in Threads, id \in Ids :
       \/ store'[t][id] = store[t][id]
       \/ <<t, id>> \in places /\ store'[t][id] = None
       \/ /\ <<t, id>> \in places /\ store[t][id] # None
          /\ store'[t][id].ns = store[t][id].ns
          /\ store'[t][id].parent = store[t][id].parent

LEMMA EnvironmentEffect ==
  ASSUME CPTyped, CPEnvironment
  PROVE  /\ UNCHANGED <<call, log, recorders, wrapper, put_history, answered>>
         /\ \E places \in SUBSET (Threads \X Ids) : Disturbed(places)
<1>1. UNCHANGED <<call, log, recorders, wrapper, put_history, answered>>
  BY DEF CPEnvironment, DeleteThread, Drift, ledger
<1>2. ASSUME NEW t \in Threads, DeleteThread(t)
      PROVE  \E places \in SUBSET (Threads \X Ids) : Disturbed(places)
  <2> DEFINE gone == {<<t, id>> : id \in {i \in Ids : store[t][i] # None}}
  <2>1. note_change(gone) /\ gone \in SUBSET (Threads \X Ids)
    BY <1>2 DEF DeleteThread
  <2>2. ASSUME NEW u \in Threads, NEW id \in Ids
        PROVE  store'[u][id] = store[u][id] \/ (<<u, id>> \in gone /\ store'[u][id] = None)
    BY <1>2 DEF DeleteThread, CPTyped, Stores
  <2> HIDE DEF gone
  <2>3. Disturbed(gone)
    BY <2>1, <2>2 DEF Disturbed
  <2> QED
    BY <2>1, <2>3
<1>3. ASSUME NEW t \in Threads, NEW id \in Ids, NEW x \in Tampered[id], Drift(t, id, x)
      PROVE  \E places \in SUBSET (Threads \X Ids) : Disturbed(places)
  <2>1. store[t][id] # None /\ store[t][id] \in S!Checkpoints
    BY <1>3 DEF Drift, CPTyped, Stores
  <2>2. store' = [store EXCEPT ![t] = [store[t] EXCEPT ![id] =
                    [store[t][id] EXCEPT !.content = x]]]
    BY <1>3 DEF Drift, CPTyped, Stores
  <2>3. /\ store'[t][id] = [store[t][id] EXCEPT !.content = x]
        /\ \A u \in Threads, i \in Ids : u # t \/ i # id => store'[u][i] = store[u][i]
    BY <2>2 DEF CPTyped, Stores
  <2>4. store'[t][id].ns = store[t][id].ns /\ store'[t][id].parent = store[t][id].parent
    BY <2>1, <2>3 DEF S!Checkpoints
  <2>5. note_change({<<t, id>>})
    BY <1>3 DEF Drift
  <2>6. Disturbed({<<t, id>>})
    BY <2>1, <2>3, <2>4, <2>5 DEF Disturbed
  <2> QED
    BY <2>6
<1> QED
  BY <1>1, <1>2, <1>3 DEF CPEnvironment

LEMMA EnvironmentPlaces ==
  ASSUME CPTyped, Places, CPEnvironment
  PROVE  Places'
<1>1. /\ UNCHANGED <<call, log, recorders, wrapper, put_history>>
      /\ \E places \in SUBSET (Threads \X Ids) : Disturbed(places)
  BY EnvironmentEffect
<1>2. PICK places \in SUBSET (Threads \X Ids) : Disturbed(places)
  BY <1>1
<1>3. /\ raced \subseteq raced'
      /\ \A c \in Callers :
           /\ call[c] # None /\ call[c].op = "put" /\ call[c].tup = None
           /\ <<call[c].thread, call[c].id>> \in places
           => <<call[c].thread, call[c].id>> \in raced'
  BY <1>2 DEF note_change, Disturbed
<1>4. Stored'
  <2> SUFFICES ASSUME NEW t \in Threads, NEW id \in Ids, store'[t][id] # None
               PROVE  /\ \E p \in put_history' :
                            p.thread = t /\ p.id = id /\ p.ns = store'[t][id].ns
                      /\ store'[t][id].parent # None => store'[t][id].parent < id
    BY DEF Stored
  <2>1. /\ store[t][id] # None /\ store'[t][id].ns = store[t][id].ns
        /\ store'[t][id].parent = store[t][id].parent
    BY <1>2 DEF Disturbed
  <2> QED
    BY <1>1, <2>1 DEF Places, Stored
<1>5. InFlight'
  <2> SUFFICES ASSUME NEW c \in Callers, NEW x, x = call[c], x # None, x.op = "put"
               PROVE  /\ put_of(x) \in put_history
                      /\ <<x.thread, x.id>> \in raced' \/ at_hand(x)'
    BY <1>1 DEF InFlight, put_of, at_hand
  <2>1. put_of(x) \in put_history /\ (<<x.thread, x.id>> \in raced \/ at_hand(x))
    BY DEF Places, InFlight
  <2>2. x.thread \in Threads /\ x.id \in Ids
    BY CallType
  <2>3. CASE x.tup # None
    BY <1>3, <2>1, <2>3 DEF at_hand
  <2>4. CASE x.tup = None
    <3>1. CASE <<x.thread, x.id>> \in places
      BY <1>3, <2>1, <2>4, <3>1
    <3>2. CASE <<x.thread, x.id>> \notin places
      <4>1. store'[x.thread][x.id] = store[x.thread][x.id]
        BY <1>2, <2>2, <3>2 DEF Disturbed
      <4> QED
        BY <1>3, <2>1, <2>4, <4>1 DEF at_hand
    <3> QED
      BY <3>1, <3>2
  <2> QED
    BY <2>3, <2>4
<1>6. OnRecord'
  BY <1>1, <1>3 DEF Places, OnRecord, claimed, OwnLog
<1> QED
  BY <1>1, <1>4, <1>5, <1>6
  DEF Places, PutsTyped, Numbered, PutIds, OncePut, OwnRecorders, WrapperTyped

-----------------------------------------------------------------------------
(***************************************************************************)
(* Where fork_thread stands: behind the checkpoints it read, whose ids     *)
(* ascend; and what was put into the new thread is what it copied, or an   *)
(* application put it there since, with a greater id.                      *)
(***************************************************************************)
Ascends(chain) ==
  \A i, j \in 1..Len(chain) : i < j => chain[i].id < chain[j].id

Known(chain, at) ==
  \A j \in 1..Len(chain) : chain[j].id \in PutIds /\ chain[j].id <= at

\* A put into the new thread is one of its first n copies, or later than all.
Copied(child, chain, n, at) ==
  \A p \in put_history : p.thread = child =>
    p.id > at \/ \E j \in 1..n : p.id = chain[j].id

Lineage ==
  fork.phase \in {"read", "copy"} =>
    /\ fork.at \in PutIds
    /\ Ascends(fork.chain) /\ Known(fork.chain, fork.at)
    /\ Copied(fork.child, fork.chain, fork.n, fork.at)
    /\ fork.phase = "read" =>
         /\ fork.current <= fork.at
         /\ \A j \in 1..Len(fork.chain) : fork.current < fork.chain[j].id

\* A put elsewhere: in another thread, or later than the fork.
LEMMA PutLineage ==
  ASSUME Lineage, fork' = fork, NEW new, put_history' = put_history \cup {new},
         fork.phase \in {"read", "copy"} => new.thread # fork.child \/ new.id > fork.at
  PROVE  Lineage'
<1>1. PutIds \subseteq PutIds'
  BY DEF PutIds
<1> QED
  BY <1>1 DEF Lineage, Ascends, Known, Copied

LEMMA SameLineage ==
  ASSUME Lineage, fork' = fork, UNCHANGED put_history
  PROVE  Lineage'
  BY DEF Lineage, Ascends, Known, Copied, PutIds

\* A checkpoint in the store is one that was put.
LEMMA StoredWasPut ==
  ASSUME CPTyped, Places, NEW t \in Threads, NEW ns, NEW id \in Ids,
         S!get_tuple(t, ns, id) # None
  PROVE  /\ id \in PutIds
         /\ store[t][id] # None /\ S!get_tuple(t, ns, id) = store[t][id]
         /\ S!get_tuple(t, ns, id).parent # None => S!get_tuple(t, ns, id).parent < id
<1>1. store[t][id] # None /\ S!get_tuple(t, ns, id) = store[t][id]
  BY DEF S!get_tuple
<1> QED
  BY <1>1 DEF Places, Stored, PutIds

\* An application puts its next checkpoint.
LEMMA AppPutPlaces ==
  ASSUME CPTyped, Places, Lineage, NEW c \in Callers, NEW t \in AppThreads,
         AppPut(c, t), fork' = fork
  PROVE  Places' /\ Lineage'
<1>1. t \in Threads /\ Root \in Namespaces /\ AppObjects \subseteq Objects
  BY WrapperAssumption
<1>2. PICK ns \in Namespaces, o \in Objects, async \in BOOLEAN,
           parent \in Ids \cup {None} :
        /\ InnerPut(c, t, ns, fresh, o, parent, async)
        /\ parent = None \/ parent \in S!ids(t, ns)
  BY <1>1 DEF AppPut, S!ids
<1>3. PICK id \in Ids : id = fresh
  BY DEF AppPut
<1>4. \A p \in put_history : p.id < id
  BY <1>3, FreshIsNew DEF Places
<1>5. \A i \in PutIds : i < id
  BY <1>4 DEF PutIds
<1>6. \A p \in put_history : p.id # id
  BY <1>4, SaverAssumption
<1>7. parent # None => parent < id
  <2> SUFFICES ASSUME parent # None PROVE parent < id
    OBVIOUS
  <2>1. parent \in Ids /\ S!get_tuple(t, ns, parent) # None
    BY <1>2 DEF S!ids
  <2> QED
    BY <1>1, <1>5, <2>1, StoredWasPut
<1>8. Places'
  BY <1>1, <1>2, <1>3, <1>6, <1>7, PutPlaces
<1>9. Lineage'
  <2> DEFINE new == [thread |-> t, ns |-> ns, id |-> id, content |-> Survives[o]]
  <2>1. put_history' = put_history \cup {new} /\ new.id = id
    BY <1>2, <1>3 DEF InnerPut
  <2>2. fork.phase \in {"read", "copy"} => fork.at < id
    BY <1>5 DEF Lineage
  <2>3. id \in Nat /\ PutIds \subseteq Nat
    BY SaverAssumption DEF Places, PutsTyped, PutIds, Puts
  <2>4. fork.phase \in {"read", "copy"} => new.id > fork.at
    BY <2>1, <2>2, <2>3 DEF Lineage
  <2> HIDE DEF new
  <2> QED
    BY <2>1, <2>4, PutLineage
<1> QED
  BY <1>8, <1>9

\* fork_thread begins behind a checkpoint that was put.
LEMMA BeginPlaces ==
  ASSUME IInv, Places, NEW src \in Threads, NEW child \in Threads, NEW ns \in Namespaces,
         NEW logged \in BOOLEAN, ForkBegin(src, child, ns, logged)
  PROVE  Places' /\ Lineage'
<1>1. PICK at \in latest(src, ns)
                   \cup UNION {find_checkpoint_by_label(src, x) : x \in labels(src)} :
        fork' = [phase |-> "read", src |-> src, child |-> child, ns |-> ns, at |-> at,
                 logged |-> logged, current |-> at, chain |-> <<>>, n |-> 0, w |-> 0]
  BY DEF ForkBegin
<1>2. UNCHANGED <<store, call, log, wrapper, put_history, raced>>
  BY DEF ForkBegin, saver, history
<1>3. RecordersMade
  BY DEF ForkBegin, RecordersMade, IInv, CPTyped, Caches
<1>4. Places'
  BY <1>2, <1>3, SamePlaces DEF IInv
<1>5. at \in PutIds
  <2>1. CASE at \in latest(src, ns)
    <3>1. at \in Ids /\ S!get_tuple(src, ns, at) # None
      BY <2>1 DEF latest, S!ids
    <3> QED
      BY <3>1, StoredWasPut DEF IInv
  <2>2. ASSUME NEW x, at \in find_checkpoint_by_label(src, x) PROVE at \in PutIds
    <3>1. PICK n \in DOMAIN log[src] : log[src][n].kind = "snapshot" /\ at = log[src][n].id
      BY <2>2 DEF find_checkpoint_by_label
    <3>2. claimed(src, log[src][n])
      BY <3>1 DEF Places, OnRecord
    <3> QED
      BY <3>1, <3>2 DEF claimed, PutIds
  <2> QED
    BY <1>1, <2>1, <2>2
<1>6. at <= at
  BY <1>5, PutIdsNat DEF Places
<1>7. \A p \in put_history : p.thread # child
  BY DEF ForkBegin
<1>8. /\ fork'.at = at /\ fork'.current = at /\ fork'.chain = <<>> /\ fork'.n = 0
      /\ fork'.child = child
  BY <1>1
<1>9. PutIds' = PutIds
  BY <1>2 DEF PutIds
<1>10. Lineage'
  BY <1>2, <1>5, <1>6, <1>7, <1>8, <1>9 DEF Lineage, Ascends, Known, Copied
<1> QED
  BY <1>4, <1>10

\* It goes on to the parent, which has a smaller id.
LEMMA ReadLineage ==
  ASSUME IInv, Places, Lineage, ForkRead
  PROVE  Lineage'
<1> DEFINE got == S!get_tuple(fork.src, fork.ns, fork.current)
           tuple == [id |-> fork.current, cell |-> got,
                     writes |-> pending[fork.src][fork.current]]
           chain == IF got = None THEN fork.chain ELSE <<tuple>> \o fork.chain
           next == IF got = None THEN None ELSE got.parent
           at == fork.at
<1>1. fork \in Running /\ fork.current \in Ids /\ fork.src \in Threads
      /\ fork.chain \in Seq(Tuples) /\ fork.n = 0 /\ fork.phase = "read"
  BY IsRunning DEF ForkRead, IInv, Progress, Running
<1>2. fork' = [fork EXCEPT !.chain = chain, !.current = next,
                 !.phase = IF next # None THEN "read"
                           ELSE IF chain = <<>> THEN "raised" ELSE "copy"]
  BY DEF ForkRead
<1>3. UNCHANGED put_history /\ PutIds' = PutIds
  BY DEF ForkRead, cpvars, history, PutIds
<1>4. at \in PutIds /\ PutIds \subseteq Ids /\ Ids \subseteq Nat
  BY <1>1, SaverAssumption DEF Lineage, Places, PutsTyped, PutIds, Puts
<1>5. /\ Ascends(fork.chain) /\ Known(fork.chain, at)
      /\ Copied(fork.child, fork.chain, 0, at) /\ fork.current <= at
      /\ \A j \in 1..Len(fork.chain) : fork.current < fork.chain[j].id
  BY <1>1 DEF Lineage
<1>6. Copied(fork.child, chain, 0, at)
  BY <1>5 DEF Copied
<1>7. /\ Ascends(chain) /\ Known(chain, at)
      /\ next # None => /\ next <= at
                        /\ \A j \in 1..Len(chain) : next < chain[j].id
  <2>1. CASE got = None
    BY <1>5, <2>1
  <2>2. CASE got # None
    <3>1. /\ fork.current \in PutIds
          /\ got.parent # None => got.parent < fork.current
      BY <1>1, <2>2, StoredWasPut DEF IInv
    <3>2. got \in S!Checkpoints
      BY <1>1, <2>2, GetTupleType DEF IInv, CPTyped
    <3>3. got.parent \in Ids \cup {None}
      BY <3>2 DEF S!Checkpoints
    <3>4. tuple.id = fork.current /\ tuple \in Tuples
      BY <1>1, <3>2 DEF Tuples, IInv, CPTyped, Pendings
    <3>5. fork.chain \in Seq(Tuples) /\ <<tuple>> \in Seq(Tuples)
      BY <1>1, <3>4
    <3> HIDE DEF tuple, got
    <3>6. /\ Len(chain) = Len(fork.chain) + 1 /\ Len(fork.chain) \in Nat
          /\ chain[1] = tuple
          /\ \A j \in 1..Len(chain) : j # 1 =>
               j - 1 \in 1..Len(fork.chain) /\ chain[j] = fork.chain[j - 1]
      <4>1. /\ chain = <<tuple>> \o fork.chain
            /\ Len(<<tuple>>) = 1 /\ <<tuple>>[1] = tuple /\ Len(fork.chain) \in Nat
        BY <2>2, <3>5, LenProperties
      <4> QED
        BY <3>5, <4>1, ConcatProperties
    <3> HIDE DEF chain
    <3>7. \A j \in 1..Len(fork.chain) : fork.chain[j].id \in Nat
      BY <1>4, <1>5 DEF Known
    <3>8. Ascends(chain)
      <4> SUFFICES ASSUME NEW i \in 1..Len(chain), NEW j \in 1..Len(chain), i < j
                   PROVE  chain[i].id < chain[j].id
        BY DEF Ascends
      <4>1. j # 1 /\ j - 1 \in 1..Len(fork.chain) /\ chain[j] = fork.chain[j - 1]
        BY <3>6
      <4>2. CASE i = 1
        BY <1>5, <3>4, <3>6, <4>1, <4>2
      <4>3. CASE i # 1
        <5>1. i - 1 \in 1..Len(fork.chain) /\ chain[i] = fork.chain[i - 1]
          BY <3>6, <4>3
        <5>2. i - 1 < j - 1
          OBVIOUS
        <5> QED
          BY <1>5, <4>1, <5>1, <5>2 DEF Ascends
      <4> QED
        BY <4>2, <4>3
    <3>9. Known(chain, at)
      BY <1>5, <3>1, <3>4, <3>6 DEF Known
    <3>10. ASSUME next # None
           PROVE  next <= at /\ \A j \in 1..Len(chain) : next < chain[j].id
      <4>1. next \in Nat /\ next < fork.current /\ fork.current \in Nat /\ at \in Nat
        BY <1>1, <1>4, <2>2, <3>1, <3>3, <3>10
      <4> HIDE DEF next
      <4>2. next <= at
        BY <1>5, <4>1
      <4>3. ASSUME NEW j \in 1..Len(chain) PROVE next < chain[j].id
        <5>1. CASE j = 1
          BY <3>4, <3>6, <4>1, <5>1
        <5>2. CASE j # 1
          <6>1. j - 1 \in 1..Len(fork.chain) /\ chain[j] = fork.chain[j - 1]
            BY <3>6, <5>2
          <6>2. fork.current < chain[j].id /\ chain[j].id \in Nat
            BY <1>5, <3>7, <6>1
          <6> QED
            BY <4>1, <6>2
        <5> QED
          BY <5>1, <5>2
      <4> QED
        BY <4>2, <4>3
    <3> QED
      BY <3>8, <3>9, <3>10
  <2> QED
    BY <2>1, <2>2
<1> HIDE DEF got, chain, next, tuple
<1>8. /\ fork'.chain = chain /\ fork'.current = next /\ fork'.n = 0
      /\ fork'.at = at /\ fork'.child = fork.child
      /\ fork'.phase = IF next # None THEN "read"
                       ELSE IF chain = <<>> THEN "raised" ELSE "copy"
  BY <1>1, <1>2 DEF Running
<1> QED
  BY <1>3, <1>4, <1>6, <1>7, <1>8 DEF Lineage, Ascends, Known, Copied

\* It copies the next one, to a place that nothing was put at.
LEMMA CopyPlaces ==
  ASSUME IInv, Places, Lineage, ForkPut
  PROVE  /\ Places' /\ Lineage'
         /\ \A p \in put_history :
              p.thread = fork.child => p.id # fork.chain[fork.n + 1].id
<1> DEFINE x == fork.chain[fork.n + 1]
           parent == IF fork.n = 0 THEN None ELSE fork.chain[fork.n].id
           n == fork.n
           at == fork.at
<1>1. /\ fork.phase = "copy" /\ n < Len(fork.chain)
      /\ InnerPut(Forker, fork.child, fork.ns, x.id, x.cell.content, parent, FALSE)
  BY DEF ForkPut, copying
<1>2. fork \in Running /\ fork.child \in Threads /\ fork.ns \in Namespaces
      /\ fork.chain \in Seq(Tuples) /\ n \in Nat /\ Len(fork.chain) \in Nat
  BY <1>1, IsRunning, LenProperties DEF IInv, Running
<1>3. n + 1 \in 1..Len(fork.chain) /\ (n # 0 => n \in 1..Len(fork.chain))
  BY <1>1, <1>2
<1>4. ASSUME NEW j \in 1..Len(fork.chain)
      PROVE  fork.chain[j] \in Tuples /\ fork.chain[j].id \in Ids
  <2>1. fork.chain[j] \in Tuples
    BY <1>2, ElementOfSeq
  <2> QED
    BY <2>1 DEF Tuples
<1>5. /\ Ascends(fork.chain) /\ Known(fork.chain, at) /\ at \in PutIds
      /\ Copied(fork.child, fork.chain, n, at)
  BY <1>1 DEF Lineage
<1>6. Ids \subseteq Nat /\ PutIds \subseteq Ids
  BY SaverAssumption DEF Places, PutsTyped, PutIds, Puts
<1>7. x.id \in Ids /\ x.id \in PutIds /\ x.id <= at /\ x.cell.content \in Objects
  <2>1. x \in Tuples
    BY <1>3, <1>4
  <2> QED
    BY <1>3, <1>4, <1>5, <2>1, SaverAssumption DEF Known, Tuples, S!Checkpoints
<1>8. parent \in Ids \cup {None} /\ (parent # None => parent < x.id)
  <2>1. CASE n # 0
    <3>1. n < n + 1
      BY <1>2
    <3> QED
      BY <1>3, <1>4, <1>5, <2>1, <3>1 DEF Ascends
  <2> QED
    BY <2>1
<1> HIDE DEF parent
<1>9. ASSUME NEW p \in put_history, p.thread = fork.child PROVE p.id # x.id
  <2>1. CASE p.id > at
    <3>1. x.id \in Nat /\ at \in Nat
      BY <1>5, <1>6, <1>7
    <3> HIDE DEF x, at
    <3> QED
      BY <1>7, <2>1, <3>1
  <2>2. CASE \E j \in 1..n : p.id = fork.chain[j].id
    <3>1. PICK j \in 1..n : p.id = fork.chain[j].id
      BY <2>2
    <3>2. j \in 1..Len(fork.chain) /\ j < n + 1
      BY <1>1, <1>2
    <3>3. fork.chain[j].id < fork.chain[n + 1].id
      BY <1>3, <1>5, <3>2 DEF Ascends
    <3>4. fork.chain[j].id \in Nat /\ fork.chain[n + 1].id \in Nat
      BY <1>3, <1>4, <1>6, <3>2
    <3> QED
      BY <3>1, <3>3, <3>4
  <2> QED
    BY <1>5, <1>9, <2>1, <2>2 DEF Copied
<1>10. Places'
  BY <1>1, <1>2, <1>7, <1>8, <1>9, PutPlaces, ForkerAssumption DEF IInv
<1>11. /\ fork'.phase = "copy" /\ fork'.chain = fork.chain /\ fork'.n = n + 1
       /\ fork'.at = at /\ fork'.child = fork.child
  BY <1>1, <1>2 DEF ForkPut, Running
<1> DEFINE new == [thread |-> fork.child, ns |-> fork.ns, id |-> x.id,
                   content |-> Survives[x.cell.content]]
<1>12. put_history' = put_history \cup {new} /\ new.id = fork.chain[n + 1].id
  BY <1>1 DEF InnerPut
<1> HIDE DEF new, x
<1>13. \A p \in put_history' : p.thread = fork.child =>
         p.id > at \/ \E j \in 1..(n + 1) : p.id = fork.chain[j].id
  <2>1. n + 1 \in 1..(n + 1) /\ 1..n \subseteq 1..(n + 1)
    BY <1>2
  <2> QED
    BY <1>5, <1>12, <2>1 DEF Copied
<1>14. PutIds \subseteq PutIds'
  BY <1>12 DEF PutIds
<1>15. Lineage'
  <2>1. Copied(fork.child, fork.chain, fork.n, fork.at)'
    BY <1>11, <1>13 DEF Copied
  <2>2. Ascends(fork.chain)' /\ Known(fork.chain, fork.at)' /\ fork'.at \in PutIds'
    BY <1>5, <1>11, <1>14 DEF Ascends, Known
  <2> QED
    BY <1>11, <2>1, <2>2 DEF Lineage
<1> QED
  BY <1>9, <1>10, <1>15 DEF x

\* Steps that put nothing and do not move on in the chain.
LEMMA KeepsLineage ==
  ASSUME Lineage, UNCHANGED put_history,
         \/ fork' = fork
         \/ fork'.phase \in {"done", "raised"}
         \/ /\ fork'.phase = "copy" /\ fork.phase = "copy" /\ fork'.chain = fork.chain
            /\ fork'.n = fork.n /\ fork'.at = fork.at /\ fork'.child = fork.child
  PROVE  Lineage'
<1>1. PutIds' = PutIds
  BY DEF PutIds
<1>2. CASE fork' = fork
  BY <1>2, SameLineage
<1>3. CASE fork'.phase \in {"done", "raised"}
  BY <1>3 DEF Lineage
<1>4. CASE /\ fork'.phase = "copy" /\ fork.phase = "copy" /\ fork'.chain = fork.chain
           /\ fork'.n = fork.n /\ fork'.at = fork.at /\ fork'.child = fork.child
  BY <1>1, <1>4 DEF Lineage, Ascends, Known, Copied
<1> QED
  BY <1>2, <1>3, <1>4

LEMMA WritesPlaces ==
  ASSUME CPTyped, Places, NEW c \in Callers, NEW t, NEW ns, NEW id, NEW k, NEW l,
         InnerPutWrites(c, t, ns, id, k, l)
  PROVE  Places' /\ UNCHANGED put_history
<1>1. UNCHANGED <<store, log, recorders, wrapper, put_history, raced>>
  BY DEF InnerPutWrites, ledger, history
<1>2. \A d \in Callers : call'[d] = call[d] \/ call'[d].op = "writes"
  BY DEF InnerPutWrites, CPTyped, Progresses
<1> QED
  BY <1>1, <1>2, SamePlaces DEF RecordersMade

LEMMA FailPlaces ==
  ASSUME CPTyped, Places, NEW c \in Callers, InnerFail(c)
  PROVE  Places' /\ UNCHANGED put_history
<1>1. UNCHANGED <<store, call, log, recorders, wrapper, put_history, raced>>
  BY DEF InnerFail, saver, ledger
<1> QED
  BY <1>1, SamePlaces DEF RecordersMade

LEMMA ForkEventType ==
  ASSUME IInv, ForkLog
  PROVE  fork_event \in Events /\ fork_event.kind = "fork"
<1>1. fork.phase = "copy" /\ fork \in Running /\ fork.chain # <<>>
  BY IsRunning DEF ForkLog, copying, IInv, Progress
<1>2. Len(fork.chain) \in Nat \ {0}
  BY <1>1, EmptySeq, LenProperties DEF Running
<1> QED
  BY <1>1, <1>2 DEF fork_event, Events, Running

LEMMA ForkBodyPlaces ==
  ASSUME IInv, Places, Lineage, ForkBody
  PROVE  Places' /\ Lineage'
<1>1. CASE ForkRead
  <2>1. UNCHANGED <<store, call, log, recorders, wrapper, put_history, raced>>
    BY <1>1 DEF ForkRead, cpvars, saver, ledger, history
  <2> QED
    BY <1>1, <2>1, ReadLineage, SamePlaces DEF IInv, RecordersMade
<1>2. CASE ForkWrite
  <2>1. fork.phase = "copy" /\ fork \in Running
    BY <1>2, IsRunning DEF ForkWrite, copying, IInv
  <2>2. /\ fork'.phase = "copy" /\ fork'.chain = fork.chain
        /\ fork'.n = fork.n /\ fork'.at = fork.at /\ fork'.child = fork.child
    BY <1>2, <2>1 DEF ForkWrite, Running
  <2> QED
    BY <1>2, <2>1, <2>2, WriteType, WritesPlaces, KeepsLineage, ForkerAssumption DEF IInv
<1>3. CASE ForkFail \/ ForkLog
  <2>1. fork.phase = "copy" /\ fork \in Running
    BY <1>3, IsRunning DEF ForkFail, ForkLog, copying, IInv
  <2>2. PICK phase \in {"done", "raised"} : fork' = [fork EXCEPT !.phase = phase]
    BY <1>3 DEF ForkFail, ForkLog
  <2>3. fork' \in Running /\ fork'.phase = phase
    BY <2>1, <2>2 DEF Running
  <2>4. Places' /\ UNCHANGED put_history
    <3>1. CASE InnerFail(Forker)
      BY <3>1, FailPlaces, ForkerAssumption DEF IInv
    <3>2. CASE UNCHANGED cpvars
      <4>1. UNCHANGED <<store, call, log, recorders, wrapper, put_history, raced>>
        BY <3>2 DEF cpvars, saver, ledger, history
      <4> QED
        BY <4>1, SamePlaces DEF IInv, RecordersMade
    <3>3. CASE ForkLog
      <4>1. UNCHANGED <<store, call, recorders, wrapper, put_history, raced>>
        BY <3>3 DEF ForkLog, saver
      <4>2. \A t \in Threads : \A n \in DOMAIN log'[t] :
              \/ n \in DOMAIN log[t] /\ log'[t][n] = log[t][n]
              \/ log'[t][n].kind # "snapshot"
        <5>1. CASE log' = log
          BY <5>1
        <5>2. CASE log' # log
          <6>1. /\ fork.logged
                /\ log' = [log EXCEPT ![recorders[fork.child].log] = Append(@, fork_event)]
            BY <3>3, <5>2 DEF ForkLog
          <6>2. fork_event \in Events /\ fork_event.kind = "fork"
            BY <3>3, ForkEventType
          <6> DEFINE u == recorders[fork.child].log
          <6>3. CASE u \in Threads
            BY <6>1, <6>2, <6>3, LogGrows DEF IInv, CPTyped
          <6>4. CASE u \notin Threads
            BY <6>1, <6>4 DEF IInv, CPTyped, Logs
          <6> QED
            BY <6>3, <6>4
        <5> QED
          BY <5>1, <5>2
      <4> QED
        BY <4>1, <4>2, SamePlaces DEF IInv, RecordersMade
    <3> QED
      BY <1>3, <3>1, <3>2, <3>3 DEF ForkFail
  <2> QED
    BY <2>1, <2>3, <2>4, KeepsLineage
<1>4. CASE ForkReadFail
  <2>1. /\ fork'.phase = "raised"
        /\ UNCHANGED <<store, call, log, recorders, wrapper, put_history, raced>>
    BY <1>4, ReadFails
  <2> QED
    BY <2>1, SamePlaces, KeepsLineage DEF IInv, RecordersMade
<1> QED
  BY <1>1, <1>2, <1>3, <1>4, CopyPlaces DEF ForkBody

LEMMA PlacesInit == Init => Places /\ Lineage
<1> SUFFICES ASSUME Init PROVE Places /\ Lineage
  OBVIOUS
<1>1. PICK w \in Wrappers :
        wrapper = [enabled |-> w.enabled, bound |-> w.bound] /\ recorders = w.opened
  BY DEF Init, CPInit
<1>2. WrapperTyped /\ OwnRecorders
  BY <1>1, WrapperAssumption DEF WrapperTyped, OwnRecorders
<1>3. put_history = {} /\ PutIds = 1..0 /\ 0 \in Nat
  BY DEF Init, CPInit, PutIds
<1>4. PutsTyped /\ Numbered /\ OncePut
  BY <1>3 DEF PutsTyped, Numbered, OncePut
<1>5. \A t \in Threads : DOMAIN log[t] = {}
  BY DEF Init, CPInit
<1>6. Stored /\ InFlight /\ OnRecord
  BY <1>5 DEF Stored, InFlight, OnRecord, Init, CPInit
<1>7. Lineage
  BY DEF Init, Lineage
<1> QED
  BY <1>2, <1>4, <1>6, <1>7 DEF Places

LEMMA PlacesNext == IInv /\ Places /\ Lineage /\ [Next]_vars => Places' /\ Lineage'
<1> SUFFICES ASSUME IInv, Places, Lineage, [Next]_vars PROVE Places' /\ Lineage'
  OBVIOUS
<1>1. ASSUME NEW c \in Callers, CPStep(c), UNCHANGED fork PROVE Places' /\ Lineage'
  <2>1. ASSUME NEW t \in AppThreads, AppPutWrites(c, t) PROVE Places' /\ Lineage'
    <3>1. PICK ns, k, l, id : InnerPutWrites(c, t, ns, id, k, l)
      BY <2>1 DEF AppPutWrites
    <3> QED
      BY <1>1, <3>1, WritesPlaces, SameLineage DEF IInv
  <2> QED
    BY <1>1, <2>1, AppPutPlaces, FailPlaces, SameLineage DEF CPStep, IInv
<1>2. ASSUME NEW c \in Callers, CPTracing(c), UNCHANGED fork PROVE Places' /\ Lineage'
  BY <1>2, TracingPlaces, TracingEffect, SameLineage DEF IInv
<1>3. CASE CPEnvironment /\ UNCHANGED fork
  <2>1. UNCHANGED put_history
    BY <1>3 DEF CPEnvironment, DeleteThread, Drift
  <2> QED
    BY <1>3, <2>1, EnvironmentPlaces, SameLineage DEF IInv
<1>4. CASE ForkStep
  BY <1>4, BeginPlaces, ForkBodyPlaces DEF ForkStep
<1>5. CASE UNCHANGED vars
  <2>1. UNCHANGED <<store, call, log, recorders, wrapper, put_history, raced, fork>>
    BY <1>5 DEF vars, cpvars, saver, ledger, history
  <2> QED
    BY <2>1, SamePlaces, SameLineage DEF IInv, RecordersMade
<1> QED
  BY <1>1, <1>2, <1>3, <1>4, <1>5 DEF Next

-----------------------------------------------------------------------------
(***************************************************************************)
(* The theorems.                                                           *)
(***************************************************************************)
\* verify_thread finds what was put under an id, and no other checkpoint: the
\* snapshot claims that one put, and the saver holds its checkpoint or none.
LEMMA ExactByPlaces == CPTyped /\ Places => VerifyExact
<1> SUFFICES ASSUME CPTyped, Places, NEW t \in Threads, OwnLog(t),
                    NEW p \in put_history,
                    p.thread = t, <<t, p.id>> \notin raced, p.content \notin Unhashable,
                    NEW m \in DOMAIN log[t],
                    log[t][m].kind = "snapshot", log[t][m].id = p.id
             PROVE  p.id \in verify_thread(t, Root)
                      <=> (store[t][p.id] = None \/ store[t][p.id].content # p.content)
  BY DEF VerifyExact
<1> DEFINE id == p.id
           f == log[t][m]
<1>1. id \in Ids /\ p.content \in Contents /\ p.ns = Root
  BY DEF Places, PutsTyped, Puts, OwnLog
<1>2. ASSUME NEW n \in DOMAIN log[t], log[t][n].kind = "snapshot", log[t][n].id = id
      PROVE  log[t][n].digest = <<id, p.content>>
  <2>1. claimed(t, log[t][n])
    BY <1>2 DEF Places, OnRecord
  <2>2. PICK q \in put_history :
          /\ q.id = id /\ q.thread = t
          /\ <<t, q.id>> \notin raced => log[t][n].digest = digest(q.id, q.content)
    BY <1>2, <2>1 DEF claimed
  <2>3. q = p
    BY <2>2 DEF Places, OncePut
  <2> QED
    BY <2>2, <2>3 DEF digest
<1>3. <<id, p.content>> # NoDigest
  BY <1>1, SaverAssumption, WrapperAssumption
<1>4. S!get_tuple(t, Root, id) = store[t][id]
  <2>1. store[t][id] # None => store[t][id].ns = Root
    BY <1>1 DEF Places, Stored, OncePut
  <2> QED
    BY <2>1 DEF S!get_tuple
<1>5. store[t][id] # None => store[t][id].content \in Contents
  BY <1>1 DEF CPTyped, Stores, S!Checkpoints
<1>6. ASSUME NEW n \in DOMAIN log[t], log[t][n].kind = "snapshot", log[t][n].id = id
      PROVE  problem(t, Root, log[t][n]) # "none"
               <=> (store[t][id] = None \/ store[t][id].content # p.content)
  <2>1. CASE store[t][id] = None
    BY <1>4, <1>6, <2>1 DEF problem
  <2>2. CASE store[t][id] # None /\ store[t][id].content \in Unhashable
    BY <1>4, <1>6, <2>2 DEF problem
  <2>3. CASE store[t][id] # None /\ store[t][id].content \notin Unhashable
    <3>1. digest(id, store[t][id].content) = <<id, store[t][id].content>>
      BY <2>3 DEF digest
    <3>2. <<id, store[t][id].content>> = <<id, p.content>>
            <=> store[t][id].content = p.content
      OBVIOUS
    <3> QED
      BY <1>2, <1>4, <1>6, <2>3, <3>1, <3>2 DEF problem
  <2> QED
    BY <2>1, <2>2, <2>3
<1>7. id \in verify_thread(t, Root)
        <=> \E n \in DOMAIN log[t] :
              /\ log[t][n].kind = "snapshot" /\ log[t][n].id = id
              /\ log[t][n].digest # NoDigest
              /\ problem(t, Root, log[t][n]) # "none"
  BY DEF verify_thread
<1>8. CASE store[t][id] = None \/ store[t][id].content # p.content
  BY <1>2, <1>3, <1>6, <1>7, <1>8
<1>9. CASE ~(store[t][id] = None \/ store[t][id].content # p.content)
  BY <1>6, <1>7, <1>9
<1> QED
  BY <1>8, <1>9

\* State drift is caught, and nothing else is: about a checkpoint on record
\* verify_thread complains exactly if the saver no longer holds what was put.
THEOREM DriftCaught == Spec => []VerifyExact
<1>1. Init => IInv /\ Places /\ Lineage
  BY IInvInit, PlacesInit
<1>2. IInv /\ Places /\ Lineage /\ [Next]_vars => IInv' /\ Places' /\ Lineage'
  BY IInvNext, PlacesNext
<1>3. IInv /\ Places => VerifyExact
  BY ExactByPlaces DEF IInv
<1> QED
  BY <1>1, <1>2, <1>3, PTL DEF Spec

\* The checkpoint that was copied last, the parent of the next one, is there.
LastCopied ==
  fork.phase = "copy" /\ fork.n # 0 =>
    \/ store[fork.child][fork.chain[fork.n].id] # None
    \/ <<fork.child, fork.chain[fork.n].id>> \in changed

\* What is in the store stays there, except for what is noted as changed.
Noted ==
  /\ changed \subseteq changed'
  /\ \A t \in Threads, id \in Ids :
       store[t][id] # None => store'[t][id] # None \/ <<t, id>> \in changed'

\* No new checkpoint appears, and no parent link changes.
NoneNew ==
  \A t \in Threads, id \in Ids : store'[t][id] # None =>
    store[t][id] # None /\ store'[t][id].parent = store[t][id].parent

LEMMA ClosedStays ==
  ASSUME CPTyped, ParentClosed, Noted, NoneNew
  PROVE  ParentClosed'
<1> SUFFICES ASSUME NEW t \in Threads, NEW id \in Ids,
                    store'[t][id] # None, store'[t][id].parent # None
             PROVE  \/ store'[t][store'[t][id].parent] # None
                    \/ <<t, store'[t][id].parent>> \in changed'
  BY DEF ParentClosed
<1>1. store[t][id] # None /\ store'[t][id].parent = store[t][id].parent
  BY DEF NoneNew
<1>2. store[t][id].parent \in Ids
  BY <1>1 DEF CPTyped, Stores, S!Checkpoints
<1> QED
  BY <1>1, <1>2 DEF ParentClosed, Noted

LEMMA PutNoted ==
  ASSUME CPTyped, NEW c \in Callers, NEW t \in Threads, NEW ns \in Namespaces,
         NEW id \in Ids, NEW o \in Objects, NEW parent \in Ids \cup {None},
         NEW async \in BOOLEAN, InnerPut(c, t, ns, id, o, parent, async)
  PROVE  /\ store'[t][id] # None /\ store'[t][id].parent = parent
         /\ \A u \in Threads, i \in Ids : u # t \/ i # id => store'[u][i] = store[u][i]
         /\ changed' = changed /\ Noted
<1> DEFINE cell == [ns |-> ns, content |-> Survives[o], parent |-> parent]
<1>1. /\ store'[t][id] = cell
      /\ \A u \in Threads, i \in Ids : u # t \/ i # id => store'[u][i] = store[u][i]
  BY DEF InnerPut, S!stored_put, CPTyped, Stores
<1>2. cell \in S!Checkpoints /\ cell # None /\ cell.parent = parent
  BY SaverAssumption, CallAssumption DEF S!Checkpoints
<1>3. changed' = changed
  BY DEF InnerPut
<1> HIDE DEF cell
<1>4. Noted
  BY <1>1, <1>2, <1>3 DEF Noted
<1> QED
  BY <1>1, <1>2, <1>3, <1>4

LEMMA EnvironmentNoted ==
  ASSUME CPTyped, CPEnvironment
  PROVE  Noted /\ NoneNew
<1>1. \E places \in SUBSET (Threads \X Ids) : Disturbed(places)
  BY EnvironmentEffect
<1>2. PICK places \in SUBSET (Threads \X Ids) : Disturbed(places)
  BY <1>1
<1>3. changed' = changed \cup places
  BY <1>2 DEF Disturbed, note_change
<1>4. ASSUME NEW t \in Threads, NEW id \in Ids, store[t][id] # None
      PROVE  store'[t][id] # None \/ <<t, id>> \in changed'
  BY <1>2, <1>3, <1>4 DEF Disturbed
<1>5. ASSUME NEW t \in Threads, NEW id \in Ids, store'[t][id] # None
      PROVE  store[t][id] # None /\ store'[t][id].parent = store[t][id].parent
  BY <1>2, <1>5 DEF Disturbed
<1> QED
  BY <1>3, <1>4, <1>5 DEF Noted, NoneNew

\* A put behind a checkpoint that is in the store, or was.
LEMMA PutCloses ==
  ASSUME CPTyped, ParentClosed, NEW c \in Callers, NEW t \in Threads,
         NEW ns \in Namespaces, NEW id \in Ids, NEW o \in Objects,
         NEW parent \in Ids \cup {None}, NEW async \in BOOLEAN,
         InnerPut(c, t, ns, id, o, parent, async),
         parent # None => store[t][parent] # None \/ <<t, parent>> \in changed
  PROVE  ParentClosed' /\ Noted
<1>1. /\ store'[t][id] # None /\ store'[t][id].parent = parent
      /\ \A u \in Threads, i \in Ids : u # t \/ i # id => store'[u][i] = store[u][i]
      /\ changed' = changed /\ Noted
  BY PutNoted
<1> SUFFICES ASSUME NEW u \in Threads, NEW i \in Ids,
                    store'[u][i] # None, store'[u][i].parent # None
             PROVE  \/ store'[u][store'[u][i].parent] # None
                    \/ <<u, store'[u][i].parent>> \in changed'
  BY <1>1 DEF ParentClosed
<1>2. CASE u = t /\ i = id
  BY <1>1, <1>2 DEF Noted
<1>3. CASE u # t \/ i # id
  <2>1. store[u][i] # None /\ store'[u][i].parent = store[u][i].parent
    BY <1>1, <1>3
  <2>2. store[u][i].parent \in Ids
    BY <2>1 DEF CPTyped, Stores, S!Checkpoints
  <2> QED
    BY <1>1, <2>1, <2>2 DEF ParentClosed, Noted
<1> QED
  BY <1>2, <1>3

LEMMA CopiedStays ==
  ASSUME IInv, LastCopied, Noted,
         \/ fork' = fork
         \/ fork'.phase # "copy"
         \/ fork.phase # "copy" /\ fork'.n = 0
         \/ /\ fork.phase = "copy" /\ fork'.chain = fork.chain
            /\ fork'.n = fork.n /\ fork'.child = fork.child
  PROVE  LastCopied'
<1>1. CASE fork' = fork \/ ( /\ fork.phase = "copy" /\ fork'.chain = fork.chain
                            /\ fork'.n = fork.n /\ fork'.child = fork.child )
  <2> SUFFICES ASSUME fork'.phase = "copy", fork'.n # 0
               PROVE  \/ store'[fork'.child][fork'.chain[fork'.n].id] # None
                      \/ <<fork'.child, fork'.chain[fork'.n].id>> \in changed'
    BY DEF LastCopied
  <2>1. /\ fork.phase = "copy" /\ fork.n # 0 /\ fork'.chain = fork.chain
        /\ fork'.n = fork.n /\ fork'.child = fork.child
    BY <1>1
  <2>2. fork \in Running /\ fork.n \in 1..Len(fork.chain)
    <3>1. fork \in Running
      BY <2>1, IsRunning DEF IInv
    <3>2. fork.n \in Nat /\ Len(fork.chain) \in Nat
      BY <3>1, LenProperties DEF Running
    <3> QED
      BY <2>1, <3>1, <3>2 DEF IInv, Progress
  <2>3. fork.child \in Threads /\ fork.chain[fork.n].id \in Ids
    <3>1. fork.chain[fork.n] \in Tuples
      BY <2>2, ElementOfSeq DEF Running
    <3> QED
      BY <2>2, <3>1 DEF Running, Tuples
  <2> QED
    BY <2>1, <2>3 DEF LastCopied, Noted
<1> QED
  BY <1>1 DEF LastCopied

LEMMA ClosedNext ==
  IInv /\ LastCopied /\ ParentClosed /\ [Next]_vars => LastCopied' /\ ParentClosed'
<1> SUFFICES ASSUME IInv, LastCopied, ParentClosed, [Next]_vars
             PROVE  LastCopied' /\ ParentClosed'
  OBVIOUS
<1>1. CPTyped
  BY DEF IInv
<1>2. ASSUME UNCHANGED <<store, changed>> PROVE Noted /\ NoneNew
  BY <1>2 DEF Noted, NoneNew
<1>3. ASSUME NEW c \in Callers, NEW t, NEW ns, NEW id, NEW k, NEW l,
             InnerPutWrites(c, t, ns, id, k, l)
      PROVE  Noted /\ NoneNew
  BY <1>2, <1>3 DEF InnerPutWrites, history
<1>4. ASSUME NEW c \in Callers, InnerFail(c) PROVE Noted /\ NoneNew
  BY <1>2, <1>4 DEF InnerFail, saver
<1>5. ASSUME NEW c \in Callers, CPStep(c), UNCHANGED fork
      PROVE  LastCopied' /\ ParentClosed'
  <2>1. ASSUME NEW t \in AppThreads, AppPut(c, t) PROVE LastCopied' /\ ParentClosed'
    <3>1. t \in Threads /\ Root \in Namespaces /\ AppObjects \subseteq Objects
      BY WrapperAssumption
    <3>2. PICK ns \in Namespaces, o \in Objects, async \in BOOLEAN,
               parent \in Ids \cup {None} :
            /\ InnerPut(c, t, ns, fresh, o, parent, async)
            /\ parent = None \/ parent \in S!ids(t, ns)
      BY <2>1, <3>1 DEF AppPut, S!ids
    <3>3. PICK id \in Ids : id = fresh
      BY <2>1 DEF AppPut
    <3>4. parent # None => store[t][parent] # None
      BY <3>2 DEF S!ids, S!get_tuple
    <3> QED
      BY <1>1, <1>5, <3>1, <3>2, <3>3, <3>4, PutCloses, CopiedStays
  <2>2. ASSUME NEW t \in AppThreads, AppPutWrites(c, t) PROVE Noted /\ NoneNew
    BY <1>3, <2>2 DEF AppPutWrites
  <2> QED
    BY <1>1, <1>4, <1>5, <2>1, <2>2, ClosedStays, CopiedStays DEF CPStep
<1>6. ASSUME NEW c \in Callers, CPTracing(c), UNCHANGED fork
      PROVE  LastCopied' /\ ParentClosed'
  <2>1. Noted /\ NoneNew
    BY <1>1, <1>2, <1>6, TracingEffect
  <2> QED
    BY <1>1, <1>6, <2>1, ClosedStays, CopiedStays
<1>7. CASE CPEnvironment /\ UNCHANGED fork
  BY <1>1, <1>7, EnvironmentNoted, ClosedStays, CopiedStays
<1>8. ASSUME NEW src \in Threads, NEW child \in Threads, NEW ns \in Namespaces,
             NEW logged \in BOOLEAN, ForkBegin(src, child, ns, logged)
      PROVE  LastCopied' /\ ParentClosed'
  <2>1. fork'.phase # "copy"
    BY <1>8 DEF ForkBegin
  <2>2. UNCHANGED <<store, changed>>
    BY <1>8 DEF ForkBegin, saver, history
  <2> QED
    BY <1>1, <1>2, <2>1, <2>2, ClosedStays, CopiedStays
<1>9. CASE ForkRead
  <2>1. fork \in Running /\ fork.phase = "read" /\ fork.n = 0
    BY <1>9, IsRunning DEF ForkRead, IInv, Progress
  <2>2. fork'.n = 0
    BY <1>9, <2>1 DEF ForkRead, Running
  <2>3. UNCHANGED <<store, changed>>
    BY <1>9 DEF ForkRead, cpvars, saver, history
  <2> QED
    BY <1>1, <1>2, <2>1, <2>2, <2>3, ClosedStays, CopiedStays
<1>10. CASE ForkPut
  <2> DEFINE x == fork.chain[fork.n + 1]
             parent == IF fork.n = 0 THEN None ELSE fork.chain[fork.n].id
  <2>1. /\ fork.phase = "copy" /\ fork.n < Len(fork.chain)
        /\ InnerPut(Forker, fork.child, fork.ns, x.id, x.cell.content, parent, FALSE)
    BY <1>10 DEF ForkPut, copying
  <2>2. /\ fork \in Running /\ fork.child \in Threads /\ fork.ns \in Namespaces
        /\ fork.chain \in Seq(Tuples) /\ fork.n \in Nat /\ Len(fork.chain) \in Nat
    BY <2>1, IsRunning, LenProperties DEF IInv, Running
  <2>3. x \in Tuples
    BY <2>1, <2>2, ElementOfSeq
  <2>4. x.id \in Ids /\ x.cell.content \in Objects
    BY <2>3, SaverAssumption DEF Tuples, S!Checkpoints
  <2>5. parent \in Ids \cup {None}
    <3>1. CASE fork.n # 0
      <4>1. fork.chain[fork.n] \in Tuples
        BY <2>1, <2>2, <3>1, ElementOfSeq
      <4> QED
        BY <3>1, <4>1 DEF Tuples
    <3> QED
      BY <3>1
  <2>6. parent # None =>
          store[fork.child][parent] # None \/ <<fork.child, parent>> \in changed
    BY <2>1 DEF LastCopied
  <2>7. /\ fork'.chain = fork.chain /\ fork'.n = fork.n + 1
        /\ fork'.child = fork.child
    BY <1>10, <2>2 DEF ForkPut, Running
  <2>8. x.id = fork'.chain[fork'.n].id
    BY <2>7
  <2> HIDE DEF x, parent
  <2>9. ParentClosed' /\ Noted
    BY <1>1, <2>1, <2>2, <2>4, <2>5, <2>6, PutCloses, ForkerAssumption
  <2>10. store'[fork.child][x.id] # None
    <3>1. PICK async \in BOOLEAN :
            InnerPut(Forker, fork.child, fork.ns, x.id, x.cell.content, parent, async)
      BY <2>1
    <3> QED
      BY <1>1, <2>2, <2>4, <2>5, <3>1, PutNoted, ForkerAssumption
  <2>11. LastCopied'
    BY <2>7, <2>8, <2>10 DEF LastCopied
  <2> QED
    BY <2>9, <2>11
<1>11. CASE ForkWrite
  <2>1. fork \in Running /\ fork.phase = "copy"
    BY <1>11, IsRunning DEF ForkWrite, copying, IInv
  <2>2. fork'.chain = fork.chain /\ fork'.n = fork.n /\ fork'.child = fork.child
    BY <1>11, <2>1 DEF ForkWrite, Running
  <2>3. Noted /\ NoneNew
    BY <1>3, <1>11, ForkerAssumption DEF ForkWrite
  <2> QED
    BY <1>1, <2>1, <2>2, <2>3, ClosedStays, CopiedStays
<1>12. CASE ForkFail \/ ForkLog
  <2>1. fork \in Running
    BY <1>12, IsRunning DEF ForkFail, ForkLog, copying, IInv
  <2>2. PICK phase \in {"done", "raised"} : fork' = [fork EXCEPT !.phase = phase]
    BY <1>12 DEF ForkFail, ForkLog
  <2>3. fork'.phase # "copy"
    BY <2>1, <2>2 DEF Running
  <2>4. Noted /\ NoneNew
    <3>1. CASE UNCHANGED cpvars
      BY <1>2, <3>1 DEF cpvars, saver, history
    <3>2. CASE ForkLog
      BY <1>2, <3>2 DEF ForkLog, saver
    <3> QED
      BY <1>4, <1>12, <3>1, <3>2, ForkerAssumption DEF ForkFail
  <2> QED
    BY <1>1, <2>3, <2>4, ClosedStays, CopiedStays
<1>13. CASE UNCHANGED vars
  <2>1. UNCHANGED <<store, changed, fork>>
    BY <1>13 DEF vars, cpvars, saver, history
  <2> QED
    BY <1>1, <1>2, <2>1, ClosedStays, CopiedStays
<1>14. CASE ForkReadFail
  <2>1. fork'.phase # "copy" /\ UNCHANGED <<store, changed>>
    BY <1>14, ReadFails
  <2> QED
    BY <1>1, <1>2, <2>1, ClosedStays, CopiedStays
<1> QED
  BY <1>5, <1>6, <1>7, <1>8, <1>9, <1>10, <1>11, <1>12, <1>13, <1>14
  DEF Next, ForkStep, ForkBody

\* A copy that is broken off leaves a thread to go on from: fork_thread puts the
\* checkpoints oldest first, so none is ever without its parent.
THEOREM NoOrphans == Spec => []ParentClosed
<1>1. Init => LastCopied /\ ParentClosed
  BY DEF Init, CPInit, LastCopied, ParentClosed
<1> QED
  BY IInvInit, IInvNext, <1>1, ClosedNext, PTL DEF Spec

-----------------------------------------------------------------------------
(***************************************************************************)
(* Behind a strict recorder every call is on record.  The recorder of a    *)
(* thread never changes and its log only grows, so that an answer once     *)
(* given stays true; and a put that returns without an event has not found *)
(* its checkpoint, which was then changed while it was in progress.        *)
(***************************************************************************)
says(e, x) ==
  CASE x.op = "put" -> e.kind = "snapshot" /\ e.id = x.id
    [] x.op = "writes" -> e.kind = "writes" /\ e.id = x.id /\ e.task = x.task

\* The answer x is on record if it has to be.
kept(x) ==
  x.how = "returned" /\ enforced(x.thread) /\ <<x.thread, x.id>> \notin raced =>
    \E n \in DOMAIN log[rec_for(x.thread).log] : says(log[rec_for(x.thread).log][n], x)

AnswersKept == \A x \in answered : x.thread \in Threads /\ kept(x)

LEMMA AnswersStrict == AnswersKept => StrictRecordsAll
  BY DEF AnswersKept, StrictRecordsAll, kept, says

LEMMA SameEnforced ==
  ASSUME RecordersMade, UNCHANGED wrapper, NEW t \in Threads
  PROVE  enforced(t)' <=> enforced(t)
<1>1. rec_for(t)' = rec_for(t)
  BY RecForSame
<1> QED
  BY <1>1 DEF enforced

\* What is on record stays on record.
LEMMA KeptStays ==
  ASSUME CPTyped, WrapperTyped, RecordersMade, UNCHANGED wrapper, raced \subseteq raced',
         \A t \in Threads : \A n \in DOMAIN log[t] :
           n \in DOMAIN log'[t] /\ log'[t][n] = log[t][n],
         NEW x, x.thread \in Threads, kept(x)
  PROVE  kept(x)'
<1>1. rec_for(x.thread)' = rec_for(x.thread) /\ (enforced(x.thread)' <=> enforced(x.thread))
  BY RecForSame, SameEnforced
<1>2. enforced(x.thread) => rec_for(x.thread).log \in Threads
  BY RecForType DEF enforced, Recorders
<1> QED
  BY <1>1, <1>2 DEF kept, says

LEMMA SameAnswers ==
  ASSUME CPTyped, WrapperTyped, RecordersMade, AnswersKept,
         UNCHANGED <<wrapper, answered>>, raced \subseteq raced',
         \A t \in Threads : \A n \in DOMAIN log[t] :
           n \in DOMAIN log'[t] /\ log'[t][n] = log[t][n]
  PROVE  AnswersKept'
<1>1. ASSUME NEW x \in answered PROVE x.thread \in Threads /\ kept(x)'
  BY KeptStays DEF AnswersKept
<1> QED
  BY <1>1 DEF AnswersKept

LEMMA TracingKept ==
  ASSUME CPTyped, Places, AnswersKept, NEW c \in Callers, CPTracing(c)
  PROVE  AnswersKept'
<1>1. /\ call[c] # None /\ call[c] \in Calls /\ call[c].thread \in Threads
      /\ UNCHANGED <<store, pending, wrapper, put_history, changed, raced>>
      /\ RecordersMade /\ WrapperTyped
  BY TracingEffect, CallType DEF Places
<1>2. ASSUME NEW how, NEW k, k = key(call[c], how),
             \A t \in Threads : \A n \in DOMAIN log[t] :
               n \in DOMAIN log'[t] /\ log'[t][n] = log[t][n],
             leave(c, how), kept(k)'
      PROVE  AnswersKept'
  <2>1. answered' = answered \cup {k} /\ k.thread \in Threads
    BY <1>1, <1>2 DEF leave, key
  <2>2. ASSUME NEW x \in answered PROVE x.thread \in Threads /\ kept(x)'
    BY <1>1, <1>2, KeptStays DEF AnswersKept
  <2> QED
    BY <1>2, <2>1, <2>2 DEF AnswersKept
<1>3. CASE Unrecorded(c)
  <2>1. PICK how \in {"returned", "raised"} :
          /\ leave(c, how)
          /\ how = "returned" /\ enforced(call[c].thread) =>
               /\ call[c].op = "put" /\ call[c].tup = None
               /\ S!get_tuple(call[c].thread, call[c].ns, call[c].id) = None
    BY <1>3 DEF Unrecorded
  <2>2. PICK k : k = key(call[c], how)
    OBVIOUS
  <2>3. k.how = how /\ k.thread = call[c].thread /\ k.id = call[c].id
    BY <2>2 DEF key
  <2>4. ASSUME how = "returned", enforced(call[c].thread)
        PROVE  <<call[c].thread, call[c].id>> \in raced
    <3>1. <<call[c].thread, call[c].id>> \in raced \/ at_hand(call[c])
      BY <1>1, <2>1, <2>4 DEF Places, InFlight
    <3>2. ~at_hand(call[c])
      BY <2>1, <2>4 DEF at_hand, S!get_tuple
    <3> QED
      BY <3>1, <3>2
  <2>5. enforced(k.thread)' <=> enforced(call[c].thread)
    BY <1>1, <2>3, SameEnforced
  <2>6. kept(k)'
    BY <1>1, <2>3, <2>4, <2>5 DEF kept
  <2>7. log' = log
    BY <1>3 DEF Unrecorded
  <2> QED
    BY <1>2, <2>1, <2>2, <2>6, <2>7
<1>4. CASE Recorded(c)
  <2>1. PICK r, e, k : /\ r = rec_for(call[c].thread) /\ e = event(call[c])
                       /\ k = key(call[c], "returned")
    OBVIOUS
  <2>2. /\ r # None /\ (call[c].op = "writes" \/ call[c].tup # None)
        /\ log' = [log EXCEPT ![r.log] = Append(@, e)] /\ leave(c, "returned")
    BY <1>4, <2>1 DEF Recorded
  <2>3. e \in Events /\ r \in Recorders /\ r.log \in Threads
    BY <1>1, <2>1, <2>2, EventType, RecForType DEF Recorders
  <2>4. /\ \A t \in Threads : \A n \in DOMAIN log[t] :
             n \in DOMAIN log'[t] /\ log'[t][n] = log[t][n]
        /\ \E n \in DOMAIN log'[r.log] : log'[r.log][n] = e
    <3>1. PICK u \in Threads : u = r.log
      BY <2>3
    <3>2. log' = [log EXCEPT ![u] = Append(@, e)] /\ log \in Logs
      BY <2>2, <3>1 DEF CPTyped
    <3>3. \A t \in Threads : \A n \in DOMAIN log[t] :
            n \in DOMAIN log'[t] /\ log'[t][n] = log[t][n]
      BY <2>3, <3>2, LogGrows
    <3>4. \E n \in DOMAIN log'[u] : log'[u][n] = e
      <4>1. log'[u] = Append(log[u], e) /\ log[u] \in Seq(Events)
        BY <3>2 DEF Logs
      <4>2. Len(log[u]) + 1 \in DOMAIN Append(log[u], e)
            /\ Append(log[u], e)[Len(log[u]) + 1] = e
        BY <2>3, <4>1, AppendProperties, LenProperties
      <4> QED
        BY <4>1, <4>2
    <3> QED
      BY <3>1, <3>3, <3>4
  <2>5. k.thread = call[c].thread /\ k.id = call[c].id /\ k.op = call[c].op
        /\ k.task = call[c].task
    BY <2>1 DEF key
  <2>6. says(e, k)
    <3>1. CASE call[c].op = "put"
      <4>1. e.kind = "snapshot" /\ e.id = call[c].id
        BY <2>1, <3>1 DEF event, snapshot
      <4> QED
        BY <2>5, <3>1, <4>1 DEF says
    <3>2. CASE call[c].op = "writes"
      <4>1. e.kind = "writes" /\ e.id = call[c].id /\ e.task = call[c].task
        BY <2>1, <3>2 DEF event, checkpoint_writes
      <4> QED
        BY <2>5, <3>2, <4>1 DEF says
    <3> QED
      BY <1>1, <3>1, <3>2 DEF Calls
  <2>7. rec_for(k.thread)' = r
    BY <1>1, <2>1, <2>5, RecForSame
  <2>8. kept(k)'
    BY <2>4, <2>6, <2>7 DEF kept, says
  <2> QED
    BY <1>2, <2>1, <2>2, <2>4, <2>8
<1>5. CASE ReadAgain(c)
  BY <1>1, <1>5, SameAnswers DEF ReadAgain
<1> QED
  BY <1>3, <1>4, <1>5, TracingEffect

LEMMA KeptNext == IInv /\ Places /\ AnswersKept /\ [Next]_vars => AnswersKept'
<1> SUFFICES ASSUME IInv, Places, AnswersKept, [Next]_vars PROVE AnswersKept'
  OBVIOUS
<1>1. CPTyped /\ WrapperTyped
  BY DEF IInv, Places
<1>2. ASSUME UNCHANGED <<log, recorders, wrapper, answered>>, raced \subseteq raced'
      PROVE  AnswersKept'
  BY <1>1, <1>2, SameAnswers DEF RecordersMade
<1>3. ASSUME NEW c, NEW t, NEW ns, NEW id, NEW o, NEW parent, NEW async \in BOOLEAN,
             InnerPut(c, t, ns, id, o, parent, async)
      PROVE  AnswersKept'
  BY <1>2, <1>3 DEF InnerPut, ledger
<1>4. ASSUME NEW c, NEW t, NEW ns, NEW id, NEW k, NEW l, InnerPutWrites(c, t, ns, id, k, l)
      PROVE  AnswersKept'
  BY <1>2, <1>4 DEF InnerPutWrites, ledger, history
<1>5. ASSUME NEW c, InnerFail(c) PROVE AnswersKept'
  BY <1>2, <1>5 DEF InnerFail, ledger
<1>6. ASSUME NEW c \in Callers, CPStep(c) PROVE AnswersKept'
  BY <1>3, <1>4, <1>5, <1>6 DEF CPStep, AppPut, AppPutWrites
<1>7. ASSUME NEW c \in Callers, CPTracing(c) PROVE AnswersKept'
  BY <1>1, <1>7, TracingKept
<1>8. CASE CPEnvironment
  <2>1. raced \subseteq raced'
    BY <1>8 DEF CPEnvironment, DeleteThread, Drift, note_change
  <2> QED
    BY <1>1, <1>2, <1>8, <2>1, EnvironmentEffect
<1>9. ASSUME NEW src \in Threads, NEW child \in Threads, NEW ns \in Namespaces,
             NEW logged \in BOOLEAN, ForkBegin(src, child, ns, logged)
      PROVE  AnswersKept'
  <2>1. RecordersMade
    BY <1>1, <1>9 DEF ForkBegin, RecordersMade, CPTyped, Caches
  <2> QED
    BY <1>1, <1>9, <2>1, SameAnswers DEF ForkBegin, history
<1>10. CASE ForkLog
  <2>1. UNCHANGED <<recorders, wrapper, answered, raced>>
    BY <1>10 DEF ForkLog
  <2>2. log' = log \/ \E u : log' = [log EXCEPT ![u] = Append(@, fork_event)]
    BY <1>10 DEF ForkLog
  <2>3. \A t \in Threads : \A n \in DOMAIN log[t] :
          n \in DOMAIN log'[t] /\ log'[t][n] = log[t][n]
    <3>1. CASE log' = log
      BY <3>1
    <3>2. ASSUME NEW u, log' = [log EXCEPT ![u] = Append(@, fork_event)] 
               PROVE  \A t \in Threads : \A n \in DOMAIN log[t] :
                        n \in DOMAIN log'[t] /\ log'[t][n] = log[t][n]
      <4>1. CASE u \in Threads
        <5>1. fork_event \in Events
          BY <1>10, ForkEventType
        <5> QED
          BY <1>1, <3>2, <4>1, <5>1, LogGrows DEF CPTyped
      <4>2. CASE u \notin Threads
        BY <1>1, <3>2, <4>2 DEF CPTyped, Logs
      <4> QED
        BY <4>1, <4>2
    <3> QED
      BY <2>2, <3>1, <3>2
  <2> QED
    BY <1>1, <2>1, <2>3, SameAnswers DEF RecordersMade
<1>11. CASE UNCHANGED cpvars
  BY <1>2, <1>11 DEF cpvars, ledger, history
<1>14. CASE ForkReadFail
  BY <1>2, <1>14, ReadFails
<1>12. CASE ForkBody
  BY <1>3, <1>4, <1>5, <1>10, <1>11, <1>12, <1>14
  DEF ForkBody, ForkRead, ForkPut, ForkWrite, ForkFail
<1>13. CASE UNCHANGED vars
  BY <1>11, <1>13 DEF vars
<1> QED
  BY <1>6, <1>7, <1>8, <1>9, <1>12, <1>13 DEF Next, ForkStep

\* Behind a strict recorder a put or put_writes that returned is on record, unless
\* its checkpoint was deleted or replaced before it was read again.
THEOREM StrictIsComplete == Spec => []StrictRecordsAll
<1>1. Init => IInv /\ Places /\ Lineage /\ AnswersKept
  <2>1. Init => AnswersKept
    BY DEF Init, CPInit, AnswersKept
  <2> QED
    BY <2>1, IInvInit, PlacesInit
<1>2. IInv /\ Places /\ Lineage /\ AnswersKept /\ [Next]_vars
        => IInv' /\ Places' /\ Lineage' /\ AnswersKept'
  BY IInvNext, PlacesNext, KeptNext
<1> QED
  BY <1>1, <1>2, AnswersStrict, PTL DEF Spec

-----------------------------------------------------------------------------
(***************************************************************************)
(* A fork is faithful.  As at most one checkpoint is ever put at a place,  *)
(* what fork_thread has read and copied stays as it was, or is noted as    *)
(* changed; and the first write of a task finds no other one of that task  *)
(* in the new thread, as long as the application leaves the copy alone.    *)
(***************************************************************************)
PutAt(t, id, ns) == \E p \in put_history : p.thread = t /\ p.id = id /\ p.ns = ns

\* Only the first write of a task has index 1.
Indexed(ws) ==
  \A i, j \in DOMAIN ws : i < j /\ ws[i].task = ws[j].task => ws[j].idx # 1

\* What was put is there or noted as changed; parents and pending writes belong
\* to checkpoints that were put.
Grounded ==
  /\ \A p \in put_history :
       \/ store[p.thread][p.id] # None /\ store[p.thread][p.id].ns = p.ns
       \/ <<p.thread, p.id>> \in changed
  /\ \A t \in Threads, id \in Ids :
       /\ store[t][id] # None /\ store[t][id].parent # None =>
            PutAt(t, store[t][id].parent, store[t][id].ns)
       /\ pending[t][id] # <<>> => \E ns \in Namespaces : PutAt(t, id, ns)
       /\ Indexed(pending[t][id])

\* A step leaves what was put as it was, up to later writes, or notes the change.
Steady ==
  /\ changed \subseteq changed' /\ put_history \subseteq put_history'
  /\ \A p \in put_history :
       \/ <<p.thread, p.id>> \in changed'
       \/ /\ store'[p.thread][p.id] = store[p.thread][p.id]
          /\ firsts(pending[p.thread][p.id]) \subseteq firsts(pending'[p.thread][p.id])

\* new is ws with writes of task k behind it, the first with index 1 if there was none.
Extended(ws, k, l, new) ==
  /\ new \in Seq(S!Write)
  /\ \A i \in DOMAIN ws : i \in DOMAIN new /\ new[i] = ws[i]
  /\ \A i \in DOMAIN new \ DOMAIN ws :
       /\ new[i].task = k
       /\ new[i].idx = 1 => (\A m \in DOMAIN ws : ws[m].task # k) /\ i = Len(ws) + 1
  /\ (\A m \in DOMAIN ws : ws[m].task # k) /\ Len(l) # 0 =>
       /\ Len(ws) + 1 \in DOMAIN new
       /\ new[Len(ws) + 1] = [task |-> k, idx |-> 1, chan |-> l[1]]

\* What put_writes adds: the writes of the task behind those that it has.
LEMMA AddedEntries ==
  ASSUME NEW ws \in Seq(S!Write), NEW k \in Tasks, NEW l \in WriteLists
  PROVE  Extended(ws, k, l, S!added(ws, k, l))
<1> DEFINE mine == {m \in DOMAIN ws : ws[m].task = k}
           had == S!Cardinality(mine)
           new == [n \in 1..(Len(l) - had) |->
                   [task |-> k, idx |-> had + n, chan |-> l[had + n]]]
           all == S!added(ws, k, l)
<1>1. DOMAIN ws = 1..Len(ws) /\ Len(ws) \in Nat
  BY LenProperties
<1>2. IsFiniteSet(mine)
  <2>1. IsFiniteSet(DOMAIN ws)
    BY <1>1, FS_Interval
  <2> QED
    BY <2>1, FS_Subset
<1>3. had \in Nat /\ (had = 0 <=> mine = {})
  BY <1>2, FS_CardinalityType, FS_EmptySet, SameCardinality
<1>4. Len(l) \in Nat /\ DOMAIN l = 1..Len(l)
  BY SaverAssumption
<1>5. all \in Seq(S!Write) /\ all = ws \o new
  BY AddedType DEF S!added
<1>6. DOMAIN all = 1..Len(all) /\ Len(all) \in Nat
  BY <1>5, LenProperties
<1> HIDE DEF had
<1>7. DOMAIN new = 1..(Len(l) - had)
  OBVIOUS
<1>8. new \in Seq(S!Write)
  <2>1. ASSUME NEW n \in 1..(Len(l) - had)
        PROVE  [task |-> k, idx |-> had + n, chan |-> l[had + n]] \in S!Write
    <3>1. had + n \in DOMAIN l /\ had + n \in Nat
      BY <1>3, <1>4
    <3>2. l[had + n] \in S!Channels
      BY <3>1 DEF S!Channels
    <3> QED
      BY <3>1, <3>2 DEF S!Write
  <2>2. CASE Len(l) - had < 0
    <3>1. 1..(Len(l) - had) = {}
      BY <2>2, <1>3, <1>4
    <3>2. new = <<>>
      BY <3>1
    <3> QED
      BY <3>2, EmptySeq
  <2>3. CASE Len(l) - had >= 0
    <3>1. Len(l) - had \in Nat
      BY <2>3, <1>3, <1>4
    <3>2. new \in [1..(Len(l) - had) -> S!Write]
      BY <2>1
    <3> QED
      BY <3>1, <3>2, FunctionIsSeq
  <2> QED
    BY <2>2, <2>3, <1>3, <1>4
<1>9. \A n \in DOMAIN new :
        /\ n \in 1..(Len(l) - had)
        /\ new[n].task = k /\ new[n].idx = had + n /\ new[n].chan = l[had + n]
        /\ new[n] = [task |-> k, idx |-> had + n, chan |-> l[had + n]]
  OBVIOUS
<1>10. DOMAIN new = 1..Len(new) /\ Len(new) \in Nat
  BY <1>8, LenProperties
<1> HIDE DEF new, all
<1>11. /\ Len(all) = Len(ws) + Len(new)
       /\ \A i \in 1..Len(ws) : all[i] = ws[i]
       /\ \A i \in 1..Len(all) : i > Len(ws) =>
            i - Len(ws) \in DOMAIN new /\ all[i] = new[i - Len(ws)]
  BY <1>5, <1>8, <1>10, ConcatProperties
<1>12. \A i \in DOMAIN ws : i \in DOMAIN all /\ all[i] = ws[i]
  BY <1>1, <1>6, <1>10, <1>11
<1>13. ASSUME NEW i \in DOMAIN all, i \notin DOMAIN ws
       PROVE  /\ all[i].task = k
              /\ all[i].idx = 1 => (\A m \in DOMAIN ws : ws[m].task # k) /\ i = Len(ws) + 1
  <2>1. i > Len(ws) /\ i \in Nat
    BY <1>1, <1>6, <1>13
  <2>2. i - Len(ws) \in DOMAIN new /\ all[i] = new[i - Len(ws)]
    BY <1>6, <1>11, <2>1
  <2>3. all[i].task = k /\ all[i].idx = had + (i - Len(ws))
    BY <1>9, <2>2
  <2>4. all[i].idx = 1 => had = 0 /\ i = Len(ws) + 1
    BY <1>1, <1>3, <2>1, <2>3
  <2> QED
    BY <1>3, <2>3, <2>4
<1>14. ASSUME \A m \in DOMAIN ws : ws[m].task # k, Len(l) # 0
       PROVE  /\ Len(ws) + 1 \in DOMAIN all
              /\ all[Len(ws) + 1] = [task |-> k, idx |-> 1, chan |-> l[1]]
  <2>1. had = 0
    BY <1>3, <1>14
  <2>2. 1 \in DOMAIN new /\ Len(new) = Len(l)
    BY <1>4, <1>7, <1>10, <1>14, <2>1
  <2>3. new[1] = [task |-> k, idx |-> 1, chan |-> l[1]]
    BY <1>9, <2>1, <2>2
  <2>4. Len(ws) + 1 \in 1..Len(all) /\ (Len(ws) + 1) - Len(ws) = 1
    BY <1>1, <1>4, <1>11, <1>14, <2>2
  <2>5. all[Len(ws) + 1] = new[1]
    BY <1>1, <1>11, <2>4
  <2> QED
    BY <1>6, <2>3, <2>4, <2>5
<1> QED
  BY <1>5, <1>12, <1>13, <1>14 DEF all, Extended

\* Indexed stays, and so do the first writes.
LEMMA AddedKeeps ==
  ASSUME NEW ws \in Seq(S!Write), NEW k \in Tasks, NEW l \in WriteLists
  PROVE  /\ Indexed(ws) => Indexed(S!added(ws, k, l))
         /\ firsts(ws) \subseteq firsts(S!added(ws, k, l))
<1> DEFINE new == S!added(ws, k, l)
<1>1. Extended(ws, k, l, new)
  BY AddedEntries
<1> HIDE DEF new
<1>2. /\ new \in Seq(S!Write)
      /\ \A i \in DOMAIN ws : i \in DOMAIN new /\ new[i] = ws[i]
      /\ \A i \in DOMAIN new \ DOMAIN ws :
           /\ new[i].task = k
           /\ new[i].idx = 1 => (\A m \in DOMAIN ws : ws[m].task # k) /\ i = Len(ws) + 1
  BY <1>1 DEF Extended
<1>3. /\ DOMAIN ws = 1..Len(ws) /\ Len(ws) \in Nat
      /\ DOMAIN new = 1..Len(new) /\ Len(new) \in Nat
  BY <1>2, LenProperties
<1>4. firsts(ws) \subseteq firsts(new)
  BY <1>2 DEF firsts
<1>5. ASSUME Indexed(ws), NEW i \in DOMAIN new, NEW j \in DOMAIN new,
             i < j, new[i].task = new[j].task, new[j].idx = 1
      PROVE  FALSE
  <2>1. CASE j \in DOMAIN ws
    <3>1. i \in DOMAIN ws
      BY <1>3, <1>5, <2>1
    <3> QED
      BY <1>2, <1>5, <2>1, <3>1 DEF Indexed
  <2>2. CASE j \notin DOMAIN ws
    <3>1. new[j].task = k /\ j = Len(ws) + 1 /\ \A m \in DOMAIN ws : ws[m].task # k
      BY <1>2, <1>5, <2>2
    <3>2. i \in DOMAIN ws
      BY <1>3, <1>5, <3>1
    <3> QED
      BY <1>2, <1>5, <3>1, <3>2
  <2> QED
    BY <2>1, <2>2
<1>6. Indexed(ws) => Indexed(new)
  BY <1>5 DEF Indexed
<1> QED
  BY <1>4, <1>6 DEF new

\* A step that keeps the store and the writes.
LEMMA SameGround ==
  ASSUME Grounded, UNCHANGED <<store, pending, put_history, changed>>
  PROVE  Grounded' /\ Steady
  BY DEF Grounded, Steady, PutAt

\* A put at a place of its own, behind a parent that was put.
LEMMA PutGround ==
  ASSUME CPTyped, Places, Grounded, NEW c \in Callers, NEW t \in Threads,
         NEW ns \in Namespaces, NEW id \in Ids, NEW o \in Objects,
         NEW parent \in Ids \cup {None}, NEW async \in BOOLEAN,
         InnerPut(c, t, ns, id, o, parent, async),
         \A p \in put_history : p.thread = t => p.id # id,
         parent # None => PutAt(t, parent, ns)
  PROVE  /\ Grounded' /\ Steady /\ PutAt(t, id, ns)' /\ UNCHANGED pending
         /\ store'[t][id] = [ns |-> ns, content |-> Survives[o], parent |-> parent]
         /\ pending[t][id] = <<>>
<1> DEFINE new == [thread |-> t, ns |-> ns, id |-> id, content |-> Survives[o]]
           cell == [ns |-> ns, content |-> Survives[o], parent |-> parent]
<1>1. /\ store'[t][id] = cell /\ cell # None /\ cell.ns = ns /\ cell.parent = parent
      /\ \A u \in Threads, i \in Ids : u # t \/ i # id => store'[u][i] = store[u][i]
  <2>1. /\ store'[t][id] = cell
        /\ \A u \in Threads, i \in Ids : u # t \/ i # id => store'[u][i] = store[u][i]
    BY DEF InnerPut, S!stored_put, CPTyped, Stores
  <2>2. cell \in S!Checkpoints
    BY SaverAssumption DEF S!Checkpoints
  <2> QED
    BY <2>1, <2>2, CallAssumption
<1>2. /\ put_history' = put_history \cup {new} /\ UNCHANGED <<pending, changed>>
  BY DEF InnerPut
<1>3. new.thread = t /\ new.id = id /\ new.ns = ns
  OBVIOUS
<1>4. PutAt(t, id, ns)'
  BY <1>2, <1>3 DEF PutAt
<1>5. \A u, i, m : PutAt(u, i, m) => PutAt(u, i, m)'
  BY <1>2 DEF PutAt
<1>6. \A p \in put_history : p.thread \in Threads /\ p.id \in Ids
  BY DEF Places, PutsTyped, Puts
<1> HIDE DEF new, cell
<1>7. \A p \in put_history : store'[p.thread][p.id] = store[p.thread][p.id]
  BY <1>1, <1>6
<1>8. pending[t][id] = <<>>
  BY DEF Grounded, PutAt
<1>9. Steady
  BY <1>2, <1>7 DEF Steady
<1>10. \A p \in put_history' :
         \/ store'[p.thread][p.id] # None /\ store'[p.thread][p.id].ns = p.ns
         \/ <<p.thread, p.id>> \in changed'
  BY <1>1, <1>2, <1>3, <1>7 DEF Grounded
<1>11. ASSUME NEW u \in Threads, NEW i \in Ids
       PROVE  /\ store'[u][i] # None /\ store'[u][i].parent # None =>
                   \E p \in put_history' :
                     p.thread = u /\ p.id = store'[u][i].parent /\ p.ns = store'[u][i].ns
              /\ pending'[u][i] # <<>> => \E m \in Namespaces : PutAt(u, i, m)'
              /\ Indexed(pending'[u][i])
  <2>1. /\ pending[u][i] # <<>> => \E m \in Namespaces : PutAt(u, i, m)
        /\ Indexed(pending[u][i])
    BY DEF Grounded
  <2>2. ASSUME store'[u][i] # None, store'[u][i].parent # None
        PROVE  \E p \in put_history :
                 p.thread = u /\ p.id = store'[u][i].parent /\ p.ns = store'[u][i].ns
    BY <1>1, <2>2 DEF Grounded, PutAt
  <2> QED
    BY <1>2, <1>5, <2>1, <2>2
<1>12. Grounded'
  BY <1>10, <1>11 DEF Grounded, PutAt
<1> QED
  BY <1>1, <1>2, <1>4, <1>8, <1>9, <1>12 DEF cell

\* Pending writes of a checkpoint that was put.
LEMMA WritesGround ==
  ASSUME CPTyped, Places, Grounded, NEW c \in Callers, NEW t \in Threads, NEW ns, NEW id \in Ids,
         NEW k \in Tasks, NEW l \in WriteLists, InnerPutWrites(c, t, ns, id, k, l),
         NEW m \in Namespaces, PutAt(t, id, m)
  PROVE  /\ Grounded' /\ Steady /\ UNCHANGED <<store, put_history, changed>>
         /\ pending'[t][id] = S!added(pending[t][id], k, l)
         /\ \A u \in Threads, i \in Ids : u # t \/ i # id => pending'[u][i] = pending[u][i]
<1> DEFINE new == S!added(pending[t][id], k, l)
<1>1. UNCHANGED <<store, put_history, changed>>
  BY DEF InnerPutWrites, history
<1>2. /\ pending'[t][id] = new
      /\ \A u \in Threads, i \in Ids : u # t \/ i # id => pending'[u][i] = pending[u][i]
  BY DEF InnerPutWrites, CPTyped, Pendings
<1>3. pending[t][id] \in Seq(S!Write)
  BY DEF CPTyped, Pendings
<1>4. /\ Indexed(pending[t][id]) => Indexed(new)
      /\ firsts(pending[t][id]) \subseteq firsts(new)
  BY <1>3, AddedKeeps
<1> HIDE DEF new
<1>5. ASSUME NEW u \in Threads, NEW i \in Ids
      PROVE  /\ pending'[u][i] # <<>> => \E j \in Namespaces : PutAt(u, i, j)
             /\ Indexed(pending'[u][i])
             /\ firsts(pending[u][i]) \subseteq firsts(pending'[u][i])
  <2>1. CASE u = t /\ i = id
    BY <1>2, <1>4, <2>1 DEF Grounded
  <2>2. CASE u # t \/ i # id
    BY <1>2, <2>2 DEF Grounded
  <2> QED
    BY <2>1, <2>2
<1>6. Grounded'
  BY <1>1, <1>5 DEF Grounded, PutAt
<1>7. \A p \in put_history : p.thread \in Threads /\ p.id \in Ids
  BY DEF Places, PutsTyped, Puts
<1>8. Steady
  BY <1>1, <1>5, <1>7 DEF Steady
<1> QED
  BY <1>1, <1>2, <1>6, <1>8 DEF new

\* A deletion or a drift is noted; it leaves no writes of a task behind.
LEMMA EnvironmentGround ==
  ASSUME CPTyped, Places, Grounded, CPEnvironment
  PROVE  /\ Grounded' /\ Steady
         /\ \A t \in Threads, id \in Ids :
              pending'[t][id] = pending[t][id] \/ pending'[t][id] = <<>>
<1>1. /\ UNCHANGED put_history
      /\ \E places \in SUBSET (Threads \X Ids) : Disturbed(places)
  BY EnvironmentEffect
<1>2. PICK places \in SUBSET (Threads \X Ids) : Disturbed(places)
  BY <1>1
<1>3. changed' = changed \cup places
  BY <1>2 DEF Disturbed, note_change
<1>4. \A p \in put_history : p.thread \in Threads /\ p.id \in Ids
  BY DEF Places, PutsTyped, Puts
<1>5. /\ \A t \in Threads, id \in Ids :
           pending'[t][id] = pending[t][id] \/ pending'[t][id] = <<>>
      /\ \A p \in put_history : \/ <<p.thread, p.id>> \in changed'
                                \/ pending'[p.thread][p.id] = pending[p.thread][p.id]
  <2>1. ASSUME NEW t \in Threads, DeleteThread(t)
        PROVE  /\ \A u \in Threads, id \in Ids : pending'[u][id] =
                    IF u = t THEN <<>> ELSE pending[u][id]
               /\ \A id \in Ids : store[t][id] # None => <<t, id>> \in changed'
    <3>1. note_change({<<t, id>> : id \in {i \in Ids : store[t][i] # None}})
      BY <2>1 DEF DeleteThread
    <3>2. \A id \in Ids : store[t][id] # None => <<t, id>> \in changed'
      BY <3>1 DEF note_change
    <3> QED
      BY <2>1, <3>2 DEF DeleteThread, CPTyped, Pendings
  <2>2. ASSUME NEW t \in Threads, DeleteThread(t), NEW p \in put_history
        PROVE  \/ <<p.thread, p.id>> \in changed'
               \/ pending'[p.thread][p.id] = pending[p.thread][p.id]
    <3>1. CASE p.thread = t
      BY <1>3, <1>4, <2>1, <2>2, <3>1 DEF Grounded
    <3>2. CASE p.thread # t
      BY <1>4, <2>1, <2>2, <3>2
    <3> QED
      BY <3>1, <3>2
  <2>3. ASSUME NEW t \in Threads, NEW id \in Ids, NEW x \in Tampered[id], Drift(t, id, x)
        PROVE  pending' = pending
    BY <2>3 DEF Drift
  <2> QED
    BY <2>1, <2>2, <2>3 DEF CPEnvironment
<1>6. Steady
  <2>1. \A p \in put_history : \/ <<p.thread, p.id>> \in changed'
                               \/ store'[p.thread][p.id] = store[p.thread][p.id]
    BY <1>2, <1>3, <1>4 DEF Disturbed
  <2> QED
    BY <1>1, <1>3, <1>5, <2>1 DEF Steady
<1>7. ASSUME NEW t \in Threads, NEW id \in Ids
      PROVE  /\ store'[t][id] # None /\ store'[t][id].parent # None =>
                  \E p \in put_history :
                    /\ p.thread = t /\ p.id = store'[t][id].parent
                    /\ p.ns = store'[t][id].ns
             /\ pending'[t][id] # <<>> => \E ns \in Namespaces : PutAt(t, id, ns)
             /\ Indexed(pending'[t][id])
  <2>1. store'[t][id] # None =>
          /\ store[t][id] # None /\ store'[t][id].ns = store[t][id].ns
          /\ store'[t][id].parent = store[t][id].parent
    BY <1>2 DEF Disturbed
  <2>2. Indexed(<<>>)
    BY DEF Indexed
  <2> QED
    BY <1>5, <2>1, <2>2 DEF Grounded, PutAt
<1>8. \A p \in put_history :
        \/ store'[p.thread][p.id] # None /\ store'[p.thread][p.id].ns = p.ns
        \/ <<p.thread, p.id>> \in changed'
  BY <1>3, <1>6 DEF Grounded, Steady
<1>9. Grounded'
  BY <1>1, <1>7, <1>8 DEF Grounded, PutAt
<1> QED
  BY <1>5, <1>6, <1>9

\* The tuple x is what the fork f was to read at its place.
Original(f, x) ==
  /\ PutAt(f.src, x.id, f.ns) /\ x.cell.ns = f.ns /\ Indexed(x.writes)
  /\ store[f.src][x.id] = x.cell \/ <<f.src, x.id>> \in changed

Linked(chain) ==
  \A m \in 1..Len(chain) : m # 1 => chain[m].cell.parent = chain[m - 1].id

\* The chain ends with the checkpoint to fork at; it begins with one that has no
\* parent, or has lost it, when there is nothing more to read.
Ends(f) ==
  IF f.chain = <<>> THEN f.phase = "read" /\ f.current = f.at
  ELSE /\ f.chain[Len(f.chain)].id = f.at
       /\ LET parent == f.chain[1].cell.parent IN
          IF f.phase = "read" THEN f.current = parent /\ PutAt(f.src, parent, f.ns)
          ELSE parent = None \/ <<f.src, parent>> \in changed

ReadSoFar ==
  fork.phase \in {"read", "copy", "done"} =>
    /\ \A m \in 1..Len(fork.chain) : Original(fork, fork.chain[m])
    /\ Linked(fork.chain) /\ Ends(fork)

LEMMA PutAtStays ==
  ASSUME Steady, NEW t, NEW id, NEW ns, PutAt(t, id, ns)
  PROVE  PutAt(t, id, ns)'
  BY DEF Steady, PutAt

LEMMA OriginalStays ==
  ASSUME Steady, NEW f, NEW x, Original(f, x)
  PROVE  Original(f, x)'
<1>1. PutAt(f.src, x.id, f.ns)'
  BY PutAtStays DEF Original
<1>2. store'[f.src][x.id] = x.cell \/ <<f.src, x.id>> \in changed'
  BY DEF Original, PutAt, Steady
<1> QED
  BY <1>1, <1>2 DEF Original

LEMMA ReadStays ==
  ASSUME ReadSoFar, Steady, NEW f, f = fork',
         f.phase \in {"read", "copy", "done"} =>
           /\ fork.phase \in {"read", "copy", "done"}
           /\ f.src = fork.src /\ f.ns = fork.ns /\ f.at = fork.at
           /\ f.chain = fork.chain /\ f.current = fork.current
           /\ f.phase = "read" <=> fork.phase = "read"
  PROVE  ReadSoFar'
<1> SUFFICES ASSUME f.phase \in {"read", "copy", "done"}
             PROVE  /\ \A m \in 1..Len(f.chain) : Original(f, f.chain[m])'
                    /\ Linked(f.chain) /\ Ends(f)'
  BY DEF ReadSoFar, Original, Linked, Ends, PutAt
<1>1. \A x : Original(fork, x) => Original(f, x)
  BY DEF Original
<1>2. \A m \in 1..Len(f.chain) : Original(f, f.chain[m])
  BY <1>1 DEF ReadSoFar
<1>3. Linked(f.chain) /\ Ends(f)
  BY DEF ReadSoFar, Ends
<1>4. Ends(f)'
  <2>1. \A t, id, ns : PutAt(t, id, ns) => PutAt(t, id, ns)'
    BY PutAtStays
  <2>2. changed \subseteq changed'
    BY DEF Steady
  <2> QED
    BY <1>3, <2>1, <2>2 DEF Ends
<1> QED
  BY <1>2, <1>3, <1>4, OriginalStays

\* The next checkpoint is the one that the last one names as its parent.
LEMMA ReadReads ==
  ASSUME IInv, Places, Grounded, ReadSoFar, ForkRead
  PROVE  ReadSoFar'
<1> DEFINE id == fork.current
           got == S!get_tuple(fork.src, fork.ns, id)
           tuple == [id |-> id, cell |-> got, writes |-> pending[fork.src][id]]
           chain == IF got = None THEN fork.chain ELSE <<tuple>> \o fork.chain
           next == IF got = None THEN None ELSE got.parent
<1>1. /\ fork \in Running /\ id \in Ids /\ fork.src \in Threads /\ fork.ns \in Namespaces
      /\ fork.chain \in Seq(Tuples) /\ fork.phase = "read"
  BY IsRunning DEF ForkRead, IInv, Progress, Running
<1>2. PICK f \in {fork'} :
        /\ f.src = fork.src /\ f.ns = fork.ns /\ f.at = fork.at
        /\ f.chain = chain /\ f.current = next
        /\ f.phase = IF next # None THEN "read"
                     ELSE IF chain = <<>> THEN "raised" ELSE "copy"
  <2>1. fork' = [fork EXCEPT !.chain = chain, !.current = next,
                   !.phase = IF next # None THEN "read"
                             ELSE IF chain = <<>> THEN "raised" ELSE "copy"]
    BY DEF ForkRead
  <2> HIDE DEF chain, next
  <2> QED
    BY <1>1, <2>1 DEF Running
<1>3. UNCHANGED <<store, pending, put_history, changed>>
  BY DEF ForkRead, cpvars, saver, history
<1>4. /\ \A m \in 1..Len(fork.chain) : Original(fork, fork.chain[m])
      /\ Linked(fork.chain) /\ Ends(fork)
  BY <1>1 DEF ReadSoFar
<1>5. Len(fork.chain) \in Nat /\ (fork.chain = <<>> <=> Len(fork.chain) = 0)
  BY <1>1, LenProperties, EmptySeq
<1> SUFFICES ASSUME f.phase # "raised"
             PROVE  /\ \A m \in 1..Len(f.chain) : Original(f, f.chain[m])
                    /\ Linked(f.chain) /\ Ends(f)
  <2> HIDE DEF chain, next
  <2> QED
    BY <1>3 DEF ReadSoFar, Original, Linked, Ends, PutAt
<1>6. CASE got = None
  <2>1. chain = fork.chain /\ next = None /\ fork.chain # <<>> /\ f.phase = "copy"
    BY <1>2, <1>6
  <2>2. /\ id = fork.chain[1].cell.parent /\ PutAt(fork.src, id, fork.ns)
        /\ fork.chain[Len(fork.chain)].id = fork.at
    BY <1>1, <1>4, <2>1 DEF Ends
  <2>3. <<fork.src, id>> \in changed
    BY <1>6, <2>2 DEF Grounded, PutAt, S!get_tuple
  <2>4. Ends(f)
    BY <1>2, <2>1, <2>2, <2>3 DEF Ends
  <2> QED
    BY <1>2, <1>4, <2>1, <2>4 DEF Original
<1>7. CASE got # None
  <2>1. store[fork.src][id] = got /\ got.ns = fork.ns
    BY <1>7 DEF S!get_tuple
  <2>2. got \in S!Checkpoints
    BY <1>1, <1>7, GetTupleType DEF IInv, CPTyped
  <2>3. PutAt(fork.src, id, fork.ns)
    BY <1>1, <1>7, <2>1 DEF Places, Stored, PutAt
  <2>4. Indexed(pending[fork.src][id])
    BY <1>1 DEF Grounded
  <2>5. got.parent # None => PutAt(fork.src, got.parent, fork.ns)
    BY <1>1, <1>7, <2>1 DEF Grounded
  <2>6. tuple \in Tuples /\ tuple.id = id /\ tuple.cell = got
        /\ tuple.writes = pending[fork.src][id]
    BY <1>1, <2>2 DEF Tuples, IInv, CPTyped, Pendings
  <2>7. Original(f, tuple)
    BY <1>2, <2>1, <2>3, <2>4, <2>6 DEF Original
  <2> HIDE DEF tuple, got
  <2>8. /\ Len(chain) = Len(fork.chain) + 1 /\ chain[1] = tuple
        /\ \A m \in 1..Len(chain) : m # 1 =>
             m - 1 \in 1..Len(fork.chain) /\ chain[m] = fork.chain[m - 1]
    <3>1. /\ chain = <<tuple>> \o fork.chain /\ <<tuple>> \in Seq(Tuples)
          /\ Len(<<tuple>>) = 1 /\ <<tuple>>[1] = tuple
      BY <1>7, <2>6
    <3> QED
      BY <1>1, <1>5, <3>1, ConcatProperties
  <2>9. next = got.parent
    BY <1>7
  <2> HIDE DEF chain, next
  <2>10. \A m \in 1..Len(chain) : Original(f, chain[m])
    <3>1. \A x : Original(fork, x) => Original(f, x)
      BY <1>2 DEF Original
    <3> QED
      BY <1>4, <2>7, <2>8, <3>1
  <2>11. fork.chain # <<>> => id = fork.chain[1].cell.parent
    BY <1>1, <1>4 DEF Ends
  <2>12. Linked(chain)
    <3> SUFFICES ASSUME NEW m \in 1..Len(chain), m # 1
                 PROVE  chain[m].cell.parent = chain[m - 1].id
      BY DEF Linked
    <3>1. m - 1 \in 1..Len(fork.chain) /\ chain[m] = fork.chain[m - 1]
      BY <2>8
    <3>2. CASE m = 2
      BY <1>5, <2>6, <2>8, <2>11, <3>1, <3>2
    <3>3. CASE m # 2
      <4>1. m - 1 \in 1..Len(chain) /\ m - 1 # 1 /\ chain[m - 1] = fork.chain[(m - 1) - 1]
        BY <1>5, <2>8, <3>1, <3>3
      <4> QED
        BY <1>4, <3>1, <4>1 DEF Linked
    <3> QED
      BY <3>2, <3>3
  <2>13. chain # <<>> /\ chain[Len(chain)].id = fork.at
    <3>1. Len(chain) # 0 /\ Len(chain) \in 1..Len(chain)
      BY <1>5, <2>8
    <3>2. chain # <<>>
      BY <3>1, EmptySeq
    <3>3. CASE fork.chain = <<>>
      BY <1>4, <1>5, <2>6, <2>8, <3>2, <3>3 DEF Ends
    <3>4. CASE fork.chain # <<>>
      BY <1>4, <1>5, <2>8, <3>1, <3>2, <3>4 DEF Ends
    <3> QED
      BY <3>2, <3>3, <3>4
  <2>14. Ends(f)
    BY <1>2, <2>5, <2>6, <2>8, <2>9, <2>13 DEF Ends
  <2> QED
    BY <1>2, <2>10, <2>12, <2>14
<1> QED
  BY <1>6, <1>7

\* What the fork f makes of the m-th checkpoint of its chain.
copy_of(f, m) ==
  [ns |-> f.ns, content |-> f.chain[m].cell.content,
   parent |-> IF m = 1 THEN None ELSE f.chain[m - 1].id]

\* The m-th checkpoint was copied, with the first k of its pending writes.
CopiedTo(f, m, k) ==
  LET x == f.chain[m] IN
  /\ PutAt(f.child, x.id, f.ns)
  /\ \/ <<f.child, x.id>> \in changed
     \/ /\ store[f.child][x.id] = copy_of(f, m)
        /\ \A j \in 1..k :
             x.writes[j].idx = 1 => x.writes[j] \in firsts(pending[f.child][x.id])

\* The writes that the m-th copy has are of tasks whose writes were copied.
OnlyCopied(f, m, k) ==
  LET x == f.chain[m]  ws == pending[f.child][x.id] IN
  \A i \in DOMAIN ws : \E j \in 1..k : ws[i].task = x.writes[j].task

CopiedSoFar ==
  fork.phase \in {"copy", "done"} =>
    /\ \A m \in 1..fork.n :
         CopiedTo(fork, m, IF m = fork.n THEN fork.w ELSE Len(fork.chain[m].writes))
    /\ fork.phase = "done" =>
         /\ fork.n = Len(fork.chain) /\ fork.chain # <<>>
         /\ fork.w = Len(fork.chain[fork.n].writes)
    /\ fork.phase = "copy" /\ fork.n # 0 => OnlyCopied(fork, fork.n, fork.w)

\* No other call writes to the copy while it is made.
Alone ==
  LET id == fork.chain[fork.n].id IN
  fork.phase = "copy" /\ fork.n # 0 =>
    \/ pending'[fork.child][id] = pending[fork.child][id]
    \/ pending'[fork.child][id] = <<>>

LEMMA CopiedToStays ==
  ASSUME Steady, NEW f, NEW m, NEW k, CopiedTo(f, m, k)
  PROVE  CopiedTo(f, m, k)'
<1> DEFINE x == f.chain[m]
<1>1. PutAt(f.child, x.id, f.ns)'
  BY PutAtStays DEF CopiedTo
<1>2. \/ <<f.child, x.id>> \in changed'
      \/ /\ store'[f.child][x.id] = store[f.child][x.id]
         /\ firsts(pending[f.child][x.id]) \subseteq firsts(pending'[f.child][x.id])
  BY DEF Steady, CopiedTo, PutAt
<1>3. changed \subseteq changed'
  BY DEF Steady
<1> QED
  BY <1>1, <1>2, <1>3 DEF CopiedTo, copy_of

LEMMA OnlyCopiedStays ==
  ASSUME NEW f, NEW m, NEW k, OnlyCopied(f, m, k),
         LET id == f.chain[m].id IN
         pending'[f.child][id] = pending[f.child][id] \/ pending'[f.child][id] = <<>>
  PROVE  OnlyCopied(f, m, k)'
<1> DEFINE id == f.chain[m].id
<1>1. CASE pending'[f.child][id] = pending[f.child][id]
  BY <1>1 DEF OnlyCopied
<1>2. CASE pending'[f.child][id] = <<>>
  BY <1>2 DEF OnlyCopied
<1> QED
  BY <1>1, <1>2

\* fork_thread does not move on in its copy.
LEMMA CopyStays ==
  ASSUME CopiedSoFar, Steady, Alone, NEW f, f = fork',
         f.phase \in {"copy", "done"} =>
           /\ fork.phase \in {"copy", "done"}
           /\ f.child = fork.child /\ f.ns = fork.ns /\ f.chain = fork.chain
           /\ f.n = fork.n /\ f.w = fork.w
           /\ f.phase = "copy" => fork.phase = "copy"
           /\ f.phase = "done" /\ fork.phase = "copy" =>
                /\ f.n = Len(f.chain) /\ f.chain # <<>>
                /\ f.w = Len(f.chain[f.n].writes)
  PROVE  CopiedSoFar'
<1>1. \A m, k : /\ CopiedTo(f, m, k)' => CopiedTo(fork, m, k)'
                /\ OnlyCopied(f, m, k)' => OnlyCopied(fork, m, k)'
  BY DEF CopiedTo, copy_of, PutAt, OnlyCopied
<1> SUFFICES ASSUME f.phase \in {"copy", "done"}
             PROVE  /\ \A m \in 1..f.n :
                         CopiedTo(f, m, IF m = f.n THEN f.w ELSE Len(f.chain[m].writes))'
                    /\ f.phase = "done" =>
                         /\ f.n = Len(f.chain) /\ f.chain # <<>>
                         /\ f.w = Len(f.chain[f.n].writes)
                    /\ f.phase = "copy" /\ f.n # 0 => OnlyCopied(f, f.n, f.w)'
  BY <1>1 DEF CopiedSoFar
<1>2. \A m, k : /\ CopiedTo(fork, m, k) => CopiedTo(f, m, k)
                /\ OnlyCopied(fork, m, k) => OnlyCopied(f, m, k)
  <2>1. f.child = fork.child /\ f.ns = fork.ns /\ f.chain = fork.chain
    OBVIOUS
  <2> QED
    BY ONLY <2>1 DEF CopiedTo, copy_of, OnlyCopied
<1>3. \A m \in 1..f.n :
        CopiedTo(f, m, IF m = f.n THEN f.w ELSE Len(f.chain[m].writes))
  BY <1>2 DEF CopiedSoFar
<1>4. f.phase = "copy" /\ f.n # 0 => OnlyCopied(f, f.n, f.w)
  BY <1>2 DEF CopiedSoFar
<1>5. f.phase = "copy" /\ f.n # 0 => OnlyCopied(f, f.n, f.w)'
  BY <1>4, OnlyCopiedStays DEF Alone
<1>6. \A m \in 1..f.n :
        CopiedTo(f, m, IF m = f.n THEN f.w ELSE Len(f.chain[m].writes))'
  BY <1>3, CopiedToStays
<1>7. f.phase = "done" => /\ f.n = Len(f.chain) /\ f.chain # <<>>
                          /\ f.w = Len(f.chain[f.n].writes)
  BY DEF CopiedSoFar
<1> QED
  BY <1>5, <1>6, <1>7

\* Where the copy stands.
LEMMA CopyTypes ==
  ASSUME IInv, fork.phase = "copy"
  PROVE  /\ fork \in Running /\ fork.child \in Threads /\ fork.ns \in Namespaces
         /\ fork.chain \in Seq(Tuples) /\ fork.n \in Nat /\ fork.w \in Nat
         /\ Len(fork.chain) \in Nat /\ fork.n <= Len(fork.chain)
         /\ \A m \in 1..Len(fork.chain) :
              /\ fork.chain[m] \in Tuples /\ fork.chain[m].id \in Ids
              /\ fork.chain[m].cell.content \in Objects
              /\ Survives[fork.chain[m].cell.content] = fork.chain[m].cell.content
              /\ fork.chain[m].writes \in Seq(S!Write)
              /\ Len(fork.chain[m].writes) \in Nat
<1>1. /\ fork \in Running /\ fork.child \in Threads /\ fork.ns \in Namespaces
      /\ fork.chain \in Seq(Tuples) /\ fork.n \in Nat /\ fork.w \in Nat
      /\ Len(fork.chain) \in Nat /\ fork.n <= Len(fork.chain)
  BY IsRunning, LenProperties DEF IInv, Running, Progress
<1>2. ASSUME NEW m \in 1..Len(fork.chain)
      PROVE  /\ fork.chain[m] \in Tuples /\ fork.chain[m].id \in Ids
             /\ fork.chain[m].cell.content \in Objects
             /\ Survives[fork.chain[m].cell.content] = fork.chain[m].cell.content
             /\ fork.chain[m].writes \in Seq(S!Write)
             /\ Len(fork.chain[m].writes) \in Nat
  <2>1. fork.chain[m] \in Tuples
    BY <1>1, ElementOfSeq
  <2> QED
    BY <2>1, SaverAssumption, LenProperties DEF Tuples, S!Checkpoints
<1> QED
  BY <1>1, <1>2

\* The next checkpoint, behind the one before it.
LEMMA PutCopies ==
  ASSUME IInv, Places, Lineage, Grounded, ReadSoFar, CopiedSoFar, ForkPut
  PROVE  Grounded' /\ ReadSoFar' /\ CopiedSoFar'
<1> SUFFICES ASSUME NEW g, g = fork, NEW f, f = fork'
             PROVE  Grounded' /\ ReadSoFar' /\ CopiedSoFar'
  OBVIOUS
<1> DEFINE n == g.n
           x == g.chain[n + 1]
           parent == IF n = 0 THEN None ELSE g.chain[n].id
           cell == [ns |-> g.ns, content |-> x.cell.content, parent |-> parent]
<1>1. /\ g.phase = "copy" /\ n < Len(g.chain) /\ written
      /\ InnerPut(Forker, g.child, g.ns, x.id, x.cell.content, parent, FALSE)
  BY DEF ForkPut, copying
<1>2. /\ g \in Running /\ g.child \in Threads /\ g.ns \in Namespaces
      /\ n \in Nat /\ Len(g.chain) \in Nat
      /\ n + 1 \in 1..Len(g.chain) /\ (n # 0 => n \in 1..Len(g.chain) /\ n \in 1..n)
  BY <1>1, CopyTypes
<1>3. /\ x.id \in Ids /\ x.cell.content \in Objects
      /\ Survives[x.cell.content] = x.cell.content
      /\ parent \in Ids \cup {None}
  BY <1>1, <1>2, CopyTypes
<1>4. \A m \in 1..n : CopiedTo(g, m, Len(g.chain[m].writes))
  BY <1>1, <1>2 DEF CopiedSoFar, written
<1>5. parent # None => PutAt(g.child, parent, g.ns)
  <2>1. n # 0 => PutAt(g.child, g.chain[n].id, g.ns)
    BY <1>2, <1>4 DEF CopiedTo
  <2> QED
    BY <2>1
<1>6. \A p \in put_history : p.thread = g.child => p.id # x.id
  BY CopyPlaces
<1>7. /\ f.phase = "copy" /\ f.chain = g.chain /\ f.n = n + 1 /\ f.w = 0
      /\ f.src = g.src /\ f.child = g.child /\ f.ns = g.ns
      /\ f.at = g.at /\ f.current = g.current
  BY <1>1, <1>2 DEF ForkPut, Running
<1> HIDE DEF parent, x
<1>8. /\ Grounded' /\ Steady /\ PutAt(g.child, x.id, g.ns)'
      /\ store'[g.child][x.id] = cell
      /\ UNCHANGED pending /\ pending[g.child][x.id] = <<>>
  <2>1. PICK async \in BOOLEAN :
          InnerPut(Forker, g.child, g.ns, x.id, x.cell.content, parent, async)
    BY <1>1
  <2> HIDE DEF n
  <2> QED
    BY <1>2, <1>3, <1>5, <1>6, <2>1, PutGround, ForkerAssumption DEF IInv
<1>9. ReadSoFar'
  BY <1>1, <1>7, <1>8, ReadStays
<1>10. \A m \in 1..n : CopiedTo(f, m, Len(f.chain[m].writes))'
  <2>1. \A m, k : CopiedTo(g, m, k) => CopiedTo(f, m, k)
    BY ONLY <1>7 DEF CopiedTo, copy_of
  <2>2. \A m \in 1..n : CopiedTo(f, m, Len(f.chain[m].writes))
    BY <1>4, <1>7, <2>1
  <2> QED
    BY <1>8, <2>2, CopiedToStays
<1>11. /\ f.chain[n + 1] = x /\ f.child = g.child /\ f.ns = g.ns
       /\ cell = copy_of(f, n + 1)
  <2>1. parent = IF n + 1 = 1 THEN None ELSE g.chain[(n + 1) - 1].id
    BY <1>2 DEF parent
  <2> QED
    BY <1>7, <2>1 DEF copy_of, x
<1>12. CopiedTo(f, n + 1, 0)'
  <2> HIDE DEF n, cell
  <2>1. PutAt(f.child, f.chain[n + 1].id, f.ns)'
    BY <1>8, <1>11
  <2>2. store'[f.child][f.chain[n + 1].id] = copy_of(f, n + 1)
    BY <1>8, <1>11
  <2>3. \A j \in 1..0 : FALSE
    OBVIOUS
  <2> QED
    BY <2>1, <2>2, <2>3 DEF CopiedTo, copy_of
<1>13. OnlyCopied(f, n + 1, 0)'
  BY <1>8, <1>11 DEF OnlyCopied
<1>14. CopiedSoFar'
  <2>1. ASSUME NEW m \in 1..(n + 1)
        PROVE  CopiedTo(f, m, IF m = n + 1 THEN 0 ELSE Len(f.chain[m].writes))'
    <3>1. CASE m = n + 1
      BY <1>12, <3>1
    <3>2. CASE m # n + 1
      <4>1. m \in 1..n
        BY <1>2, <3>2
      <4> QED
        BY <1>10, <3>2, <4>1
    <3> QED
      BY <3>1, <3>2
  <2>2. \A m, k : /\ CopiedTo(f, m, k)' => CopiedTo(fork, m, k)'
                  /\ OnlyCopied(f, m, k)' => OnlyCopied(fork, m, k)'
    BY DEF CopiedTo, copy_of, PutAt, OnlyCopied
  <2>3. /\ fork'.phase = "copy" /\ fork'.n = n + 1 /\ fork'.w = 0
        /\ fork'.chain = f.chain
    BY <1>7
  <2> HIDE DEF n
  <2> QED
    BY <1>13, <2>1, <2>2, <2>3 DEF CopiedSoFar
<1> QED
  BY <1>8, <1>9, <1>14

\* The next write of the checkpoint that was copied last: if it is the first of
\* its task, then the copy has none of that task, and it gets index 1 there too.
LEMMA WriteCopies ==
  ASSUME IInv, Places, Grounded, ReadSoFar, CopiedSoFar, ForkWrite
  PROVE  Grounded' /\ ReadSoFar' /\ CopiedSoFar'
<1> SUFFICES ASSUME NEW g, g = fork, NEW f, f = fork'
             PROVE  Grounded' /\ ReadSoFar' /\ CopiedSoFar'
  OBVIOUS
<1> DEFINE n == g.n
           w == g.w
           x == g.chain[n]
           write == x.writes[w + 1]
           old == pending[g.child][x.id]
           new == S!added(old, write.task, <<write.chan>>)
<1>1. /\ g.phase = "copy" /\ n # 0 /\ w # Len(x.writes)
      /\ InnerPutWrites(Forker, g.child, g.ns, x.id, write.task, <<write.chan>>)
  BY DEF ForkWrite, copying, written
<1>2. /\ g \in Running /\ g.child \in Threads /\ g.ns \in Namespaces
      /\ n \in Nat /\ w \in Nat /\ Len(g.chain) \in Nat
      /\ n \in 1..Len(g.chain) /\ n \in 1..n
  BY <1>1, CopyTypes
<1>3. /\ x.id \in Ids /\ x.writes \in Seq(S!Write) /\ Len(x.writes) \in Nat
      /\ w <= Len(x.writes)
  BY <1>1, <1>2, CopyTypes DEF IInv, Progress
<1>4. w + 1 \in 1..Len(x.writes) /\ DOMAIN x.writes = 1..Len(x.writes)
  BY <1>1, <1>2, <1>3, LenProperties
<1>5. write \in S!Write
  BY <1>3, <1>4, ElementOfSeq
<1>6. write.task \in Tasks /\ <<write.chan>> \in WriteLists
  BY <1>5, ForkerAssumption DEF S!Write
<1>7. /\ \A m \in 1..n : CopiedTo(g, m, IF m = n THEN w ELSE Len(g.chain[m].writes))
      /\ OnlyCopied(g, n, w)
  BY <1>1, <1>2 DEF CopiedSoFar
<1>8. PutAt(g.child, x.id, g.ns)
  BY <1>2, <1>7 DEF CopiedTo
<1>9. /\ Grounded' /\ Steady /\ UNCHANGED <<store, put_history, changed>>
      /\ pending'[g.child][x.id] = new
  <2>1. PICK k \in Tasks, l \in WriteLists :
          /\ k = write.task /\ l = <<write.chan>>
          /\ InnerPutWrites(Forker, g.child, g.ns, x.id, k, l)
    BY <1>1, <1>6
  <2>2. CPTyped /\ Forker \in Callers
    BY ForkerAssumption DEF IInv
  <2>3. PICK t \in Threads, ns \in Namespaces, id \in Ids :
          t = g.child /\ ns = g.ns /\ id = x.id
    BY <1>2, <1>3
  <2>4. InnerPutWrites(Forker, t, ns, id, k, l) /\ PutAt(t, id, ns)
    BY <1>8, <2>1, <2>3
  <2>5. /\ Grounded' /\ Steady /\ UNCHANGED <<store, put_history, changed>>
        /\ pending'[t][id] = S!added(pending[t][id], k, l)
    BY <2>2, <2>4, WritesGround
  <2> QED
    BY <2>1, <2>3, <2>5
<1>10. /\ f.phase = "copy" /\ f.chain = g.chain /\ f.n = n /\ f.w = w + 1
       /\ f.src = g.src /\ f.child = g.child /\ f.ns = g.ns
       /\ f.at = g.at /\ f.current = g.current
  BY <1>1, <1>2 DEF ForkWrite, Running
<1>11. ReadSoFar'
  BY <1>1, <1>9, <1>10, ReadStays
<1>12. old \in Seq(S!Write)
  BY <1>2, <1>3 DEF IInv, CPTyped, Pendings
<1>13. Extended(old, write.task, <<write.chan>>, new)
  BY <1>6, <1>12, AddedEntries
<1>14. Indexed(x.writes)
  BY <1>1, <1>2 DEF ReadSoFar, Original
<1> HIDE DEF write, new, old
<1>15. write.idx = 1 => write \in firsts(new)
  <2> SUFFICES ASSUME write.idx = 1 PROVE write \in firsts(new)
    OBVIOUS
  <2>1. ASSUME NEW i \in DOMAIN old, old[i].task = write.task PROVE FALSE
    <3>1. PICK j \in 1..w : old[i].task = x.writes[j].task
      BY <1>7 DEF OnlyCopied, old
    <3>2. j \in DOMAIN x.writes /\ w + 1 \in DOMAIN x.writes /\ j < w + 1
      BY <1>2, <1>4
    <3> QED
      BY <1>14, <2>1, <3>1, <3>2 DEF Indexed, write
  <2>2. Len(<<write.chan>>) # 0 /\ <<write.chan>>[1] = write.chan
    OBVIOUS
  <2>3. /\ Len(old) + 1 \in DOMAIN new
        /\ new[Len(old) + 1] = [task |-> write.task, idx |-> 1, chan |-> write.chan]
    BY <1>13, <2>1, <2>2 DEF Extended
  <2>4. write = [task |-> write.task, idx |-> 1, chan |-> write.chan]
    BY <1>5 DEF S!Write
  <2> QED
    BY <2>3, <2>4 DEF firsts
<1>16. \A i \in DOMAIN new : \E j \in 1..(w + 1) : new[i].task = x.writes[j].task
  <2> TAKE i \in DOMAIN new
  <2>1. CASE i \in DOMAIN old
    <3>1. new[i] = old[i]
      BY <1>13, <2>1 DEF Extended
    <3>2. PICK j \in 1..w : old[i].task = x.writes[j].task
      BY <1>7, <2>1 DEF OnlyCopied, old
    <3>3. j \in 1..(w + 1)
      BY <1>2
    <3> QED
      BY <3>1, <3>2, <3>3
  <2>2. CASE i \notin DOMAIN old
    <3>1. new[i].task = write.task
      BY <1>13, <2>2 DEF Extended
    <3>2. w + 1 \in 1..(w + 1)
      BY <1>2
    <3> QED
      BY <3>1, <3>2 DEF write
  <2> QED
    BY <2>1, <2>2
<1>17. \A m, k : /\ CopiedTo(g, m, k) => CopiedTo(f, m, k)
                 /\ CopiedTo(f, m, k)' => CopiedTo(fork, m, k)'
                 /\ OnlyCopied(f, m, k)' => OnlyCopied(fork, m, k)'
  <2>1. \A m, k : CopiedTo(g, m, k) => CopiedTo(f, m, k)
    BY ONLY <1>10 DEF CopiedTo, copy_of
  <2>2. \A m, k : /\ CopiedTo(f, m, k)' => CopiedTo(fork, m, k)'
                  /\ OnlyCopied(f, m, k)' => OnlyCopied(fork, m, k)'
    BY DEF CopiedTo, copy_of, PutAt, OnlyCopied
  <2> QED
    BY <2>1, <2>2
<1>18. \A m \in 1..n :
         CopiedTo(f, m, IF m = n THEN w ELSE Len(f.chain[m].writes))'
  <2>1. \A m \in 1..n :
          CopiedTo(f, m, IF m = n THEN w ELSE Len(f.chain[m].writes))
    BY <1>7, <1>10, <1>17
  <2> QED
    BY <1>9, <2>1, CopiedToStays
<1>19. f.chain[n] = x
  BY <1>10
<1>20. CopiedTo(f, n, w + 1)'
  <2>1. CopiedTo(f, n, w)'
    BY <1>2, <1>18
  <2> HIDE DEF n, w, x
  <2>2. pending'[f.child][f.chain[n].id] = new /\ f.chain[n].writes[w + 1] = write
    BY <1>9, <1>10, <1>19 DEF write
  <2>3. \A j \in 1..(w + 1) : j \in 1..w \/ j = w + 1
    BY <1>2
  <2> QED
    BY <1>15, <2>1, <2>2, <2>3 DEF CopiedTo, copy_of
<1>21. OnlyCopied(f, n, w + 1)'
  <2> HIDE DEF n, w, x
  <2>1. pending'[f.child][f.chain[n].id] = new
    BY <1>9, <1>10, <1>19
  <2> QED
    BY <1>16, <1>19, <2>1 DEF OnlyCopied
<1>22. CopiedSoFar'
  <2>1. \A m \in 1..n :
          CopiedTo(f, m, IF m = n THEN w + 1 ELSE Len(f.chain[m].writes))'
    BY <1>18, <1>20
  <2>2. /\ fork'.phase = "copy" /\ fork'.n = n /\ fork'.w = w + 1
        /\ fork'.chain = f.chain
    BY <1>10
  <2> HIDE DEF n, w
  <2> QED
    BY <1>17, <1>21, <2>1, <2>2 DEF CopiedSoFar
<1> QED
  BY <1>9, <1>11, <1>22

\* The application leaves the pending writes of the new thread alone.
ChildLeftAlone ==
  fork.phase = "copy" => \A c \in Callers \ {Forker} : ~AppPutWrites(c, fork.child)

\* Another step, while fork_thread stands still.
LEMMA StandsStill ==
  ASSUME ReadSoFar, CopiedSoFar, Steady, Alone, fork' = fork
  PROVE  ReadSoFar' /\ CopiedSoFar'
<1> SUFFICES ASSUME NEW f, f = fork' PROVE ReadSoFar' /\ CopiedSoFar'
  OBVIOUS
<1>1. ReadSoFar'
  BY ReadStays
<1>2. CopiedSoFar'
  <2>1. f.phase = "done" /\ fork.phase = "copy" => FALSE
    OBVIOUS
  <2> QED
    BY <2>1, CopyStays
<1> QED
  BY <1>1, <1>2

LEMMA AppCopies ==
  ASSUME IInv, Places, Lineage, Grounded, ReadSoFar, CopiedSoFar, [ChildLeftAlone]_vars,
         NEW c \in Callers \ {Forker}, CPStep(c), fork' = fork
  PROVE  Grounded' /\ ReadSoFar' /\ CopiedSoFar'
<1> SUFFICES Grounded' /\ Steady /\ Alone
  BY StandsStill
<1>1. CPTyped /\ c \in Callers
  BY DEF IInv
<1>2. ASSUME NEW t \in AppThreads, AppPut(c, t) PROVE Grounded' /\ Steady /\ Alone
  <2>1. t \in Threads /\ Root \in Namespaces /\ AppObjects \subseteq Objects
    BY WrapperAssumption
  <2>2. PICK ns \in Namespaces, o \in Objects, async \in BOOLEAN,
             parent \in Ids \cup {None} :
          /\ InnerPut(c, t, ns, fresh, o, parent, async)
          /\ parent = None \/ parent \in S!ids(t, ns)
    BY <1>2, <2>1 DEF AppPut, S!ids
  <2>3. PICK id \in Ids : id = fresh
    BY <1>2 DEF AppPut
  <2>4. \A p \in put_history : p.id # id
    BY <2>3, FreshIsNew, SaverAssumption DEF Places
  <2>5. parent # None => PutAt(t, parent, ns)
    BY <2>1, <2>2 DEF S!ids, S!get_tuple, Places, Stored, PutAt
  <2>6. InnerPut(c, t, ns, id, o, parent, async)
    BY <2>2, <2>3
  <2>7. \A p \in put_history : p.thread = t => p.id # id
    BY <2>4
  <2>8. /\ ns \in Namespaces /\ id \in Ids /\ o \in Objects
        /\ parent \in Ids \cup {None} /\ async \in BOOLEAN
    BY <2>2, <2>3
  <2>9. /\ Grounded' /\ Steady /\ PutAt(t, id, ns)' /\ UNCHANGED pending
        /\ store'[t][id] = [ns |-> ns, content |-> Survives[o], parent |-> parent]
        /\ pending[t][id] = <<>>
    BY <1>1, <2>1, <2>5, <2>6, <2>7, <2>8, PutGround
  <2> QED
    BY <2>9 DEF Alone
<1>3. ASSUME NEW t \in AppThreads, AppPutWrites(c, t) PROVE Grounded' /\ Steady /\ Alone
  <2>1. t \in Threads /\ AppWrites \subseteq WriteLists
    BY WrapperAssumption
  <2>2. PICK ns \in Namespaces, k \in Tasks, l \in WriteLists, id \in Ids :
          /\ InnerPutWrites(c, t, ns, id, k, l)
          /\ S!get_tuple(t, ns, id) # None
    BY <1>3, <2>1 DEF AppPutWrites, S!ids
  <2>3. PutAt(t, id, ns)
    BY <2>1, <2>2 DEF S!get_tuple, Places, Stored, PutAt
  <2>4. /\ Grounded' /\ Steady
        /\ \A u \in Threads, i \in Ids : u # t \/ i # id => pending'[u][i] = pending[u][i]
    BY <1>1, <2>1, <2>2, <2>3, WritesGround
  <2>5. Alone
    <3> SUFFICES ASSUME fork.phase = "copy", fork.n # 0
                 PROVE  pending'[fork.child][fork.chain[fork.n].id]
                          = pending[fork.child][fork.chain[fork.n].id]
      BY DEF Alone
    <3>1. fork.child \in Threads /\ fork.chain[fork.n].id \in Ids
      BY CopyTypes
    <3>2. ~UNCHANGED vars
      <4>1. call[c] = None /\ call'[c] # None
        <5>1. call[c] = None /\ call'[c].op = "writes" /\ call'[c] \in Calls
          BY <1>1, <2>1, <2>2, InnerPutWritesType DEF InnerPutWrites, CPTyped, Progresses, Calls
        <5> QED
          BY <5>1, CallAssumption
      <4> QED
        BY <4>1 DEF vars, cpvars
    <3>3. fork.child # t
      BY <1>3, <3>2 DEF ChildLeftAlone
    <3> QED
      BY <2>4, <3>1, <3>3
  <2> QED
    BY <2>4, <2>5
<1>4. CASE InnerFail(c)
  <2>1. UNCHANGED <<store, pending, put_history, changed>>
    BY <1>4 DEF InnerFail, saver
  <2> QED
    BY <2>1, SameGround DEF Alone
<1> QED
  BY <1>2, <1>3, <1>4 DEF CPStep

LEMMA FaithfulNext ==
  /\ IInv /\ Places /\ Lineage /\ Grounded /\ ReadSoFar /\ CopiedSoFar
  /\ [Next]_vars /\ [ChildLeftAlone]_vars
  => Grounded' /\ ReadSoFar' /\ CopiedSoFar'
<1> SUFFICES ASSUME IInv, Places, Lineage, Grounded, ReadSoFar, CopiedSoFar,
                    [Next]_vars, [ChildLeftAlone]_vars
             PROVE  Grounded' /\ ReadSoFar' /\ CopiedSoFar'
  OBVIOUS
<1>1. ASSUME UNCHANGED <<store, pending, put_history, changed>>
      PROVE  Grounded' /\ Steady /\ Alone
  BY <1>1, SameGround DEF Alone
<1>2. ASSUME NEW c \in Callers \ {Forker}, CPStep(c), UNCHANGED fork
      PROVE  Grounded' /\ ReadSoFar' /\ CopiedSoFar'
  BY <1>2, AppCopies
<1>3. ASSUME NEW c \in Callers, CPTracing(c), UNCHANGED fork
      PROVE  Grounded' /\ ReadSoFar' /\ CopiedSoFar'
  BY <1>1, <1>3, TracingEffect, StandsStill DEF IInv
<1>4. CASE CPEnvironment /\ UNCHANGED fork
  <2>1. /\ Grounded' /\ Steady
        /\ \A t \in Threads, id \in Ids :
             pending'[t][id] = pending[t][id] \/ pending'[t][id] = <<>>
    BY <1>4, EnvironmentGround DEF IInv
  <2>2. Alone
    BY <2>1, CopyTypes DEF Alone
  <2> QED
    BY <1>4, <2>1, <2>2, StandsStill
<1>5. ASSUME NEW src \in Threads, NEW child \in Threads, NEW ns \in Namespaces,
             NEW logged \in BOOLEAN, ForkBegin(src, child, ns, logged)
      PROVE  Grounded' /\ ReadSoFar' /\ CopiedSoFar'
  <2>1. /\ fork'.phase = "read" /\ fork'.chain = <<>> /\ fork'.current = fork'.at
    BY <1>5 DEF ForkBegin
  <2>2. UNCHANGED <<store, pending, put_history, changed>>
    BY <1>5 DEF ForkBegin, saver, history
  <2>3. Len(fork'.chain) = 0 /\ 1..0 = {}
    BY <2>1
  <2>4. ReadSoFar' /\ CopiedSoFar'
    BY <2>1, <2>3 DEF ReadSoFar, CopiedSoFar, Linked, Ends
  <2> QED
    BY <1>1, <2>2, <2>4
<1>6. CASE ForkRead
  <2>1. UNCHANGED <<store, pending, put_history, changed>>
    BY <1>6 DEF ForkRead, cpvars, saver, history
  <2>2. fork \in Running /\ fork.phase = "read" /\ fork.n = 0
    BY <1>6, IsRunning DEF ForkRead, IInv, Progress
  <2>3. fork'.phase # "done" /\ fork'.n = 0
    BY <1>6, <2>2 DEF ForkRead, Running
  <2>4. CopiedSoFar'
    BY <2>3 DEF CopiedSoFar
  <2> QED
    BY <1>1, <1>6, <2>1, <2>4, ReadReads
<1>7. CASE ForkFail \/ ForkLog
  <2>1. fork.phase = "copy" /\ fork \in Running
    BY <1>7, IsRunning DEF ForkFail, ForkLog, copying, IInv
  <2>2. PICK f \in {fork'} :
          /\ f.phase \in {"done", "raised"}
          /\ f.src = fork.src /\ f.child = fork.child /\ f.ns = fork.ns /\ f.at = fork.at
          /\ f.chain = fork.chain /\ f.current = fork.current
          /\ f.n = fork.n /\ f.w = fork.w
    <3>1. PICK phase \in {"done", "raised"} : fork' = [fork EXCEPT !.phase = phase]
      BY <1>7 DEF ForkFail, ForkLog
    <3> QED
      BY <2>1, <3>1 DEF Running
  <2>3. UNCHANGED <<store, pending, put_history, changed>>
    BY <1>7 DEF ForkFail, ForkLog, InnerFail, cpvars, saver, history
  <2>4. Grounded' /\ Steady /\ Alone
    BY <1>1, <2>3
  <2>5. f.phase = "done" => /\ f.n = Len(f.chain) /\ f.chain # <<>>
                            /\ f.w = Len(f.chain[f.n].writes)
    <3> SUFFICES ASSUME f.phase = "done"
                 PROVE  /\ f.n = Len(f.chain) /\ f.chain # <<>>
                        /\ f.w = Len(f.chain[f.n].writes)
      OBVIOUS
    <3>1. ForkLog
      BY <1>7, <2>1 DEF ForkFail, Running
    <3>2. fork.n = Len(fork.chain) /\ written /\ fork.chain # <<>>
      BY <2>1, <3>1 DEF ForkLog, IInv, Progress
    <3>3. Len(fork.chain) # 0
      BY <2>1, <3>2, EmptySeq DEF Running
    <3> QED
      BY <2>2, <3>2, <3>3 DEF written
  <2>6. ReadSoFar'
    BY <2>1, <2>2, <2>4, ReadStays
  <2>7. CopiedSoFar'
    BY <2>1, <2>2, <2>4, <2>5, CopyStays
  <2> QED
    BY <2>4, <2>6, <2>7
<1>8. CASE UNCHANGED vars
  <2>1. UNCHANGED <<store, pending, put_history, changed, fork>>
    BY <1>8 DEF vars, cpvars, saver, history
  <2> QED
    BY <1>1, <2>1, StandsStill
<1>9. CASE ForkReadFail
  <2>1. fork'.phase = "raised" /\ UNCHANGED <<store, pending, put_history, changed>>
    BY <1>9, ReadFails
  <2>2. ReadSoFar' /\ CopiedSoFar'
    BY <2>1 DEF ReadSoFar, CopiedSoFar
  <2> QED
    BY <1>1, <2>1, <2>2
<1> QED
  BY <1>2, <1>3, <1>4, <1>5, <1>6, <1>7, <1>8, <1>9, PutCopies, WriteCopies
  DEF Next, ForkStep, ForkBody

LEMMA FaithfulInit == Init => Grounded /\ ReadSoFar /\ CopiedSoFar
<1> SUFFICES ASSUME Init PROVE Grounded /\ ReadSoFar /\ CopiedSoFar
  OBVIOUS
<1>1. /\ put_history = {} /\ fork.phase = "idle"
      /\ \A t \in Threads, id \in Ids : store[t][id] = None /\ pending[t][id] = <<>>
  BY DEF Init, CPInit
<1>2. Indexed(<<>>)
  BY DEF Indexed
<1> QED
  BY <1>1, <1>2 DEF Grounded, ReadSoFar, CopiedSoFar

LEMMA FaithfulHolds == IInv /\ ReadSoFar /\ CopiedSoFar => ForkFaithful
<1> SUFFICES ASSUME IInv, ReadSoFar, CopiedSoFar, fork.phase = "done",
                    ({fork.src, fork.child} \X lineage) \cap changed = {},
                    NEW chain, chain = fork.chain
             PROVE  /\ chain[Len(chain)].id = fork.at
                    /\ store[fork.src][chain[1].id].parent = None
                    /\ \A m \in DOMAIN chain :
                         LET id == chain[m].id IN
                         /\ store[fork.child][id] = store[fork.src][id]
                         /\ firsts(chain[m].writes) \subseteq firsts(pending[fork.child][id])
  BY DEF ForkFaithful
<1>1. /\ fork \in Running /\ chain \in Seq(Tuples) /\ DOMAIN chain = 1..Len(chain)
      /\ Len(chain) \in Nat
  BY IsRunning, LenProperties DEF IInv, Running
<1>2. /\ fork.n = Len(chain) /\ chain # <<>> /\ fork.w = Len(chain[Len(chain)].writes)
      /\ Linked(chain) /\ Ends(fork)
  BY DEF ReadSoFar, CopiedSoFar
<1>3. 1 \in DOMAIN chain
  BY <1>1, <1>2, EmptySeq
<1>4. \A m \in DOMAIN chain :
        \A id \in {chain[m].id, chain[m].cell.parent} :
          <<fork.src, id>> \notin changed /\ <<fork.child, id>> \notin changed
  BY DEF lineage
<1>5. chain[Len(chain)].id = fork.at /\ chain[1].cell.parent = None
  BY <1>2, <1>3, <1>4 DEF Ends
<1>6. ASSUME NEW m \in DOMAIN chain
      PROVE  store[fork.src][chain[m].id] = chain[m].cell /\ chain[m].cell.ns = fork.ns
  BY <1>1, <1>4, <1>6 DEF ReadSoFar, Original
<1>7. ASSUME NEW m \in DOMAIN chain
      PROVE  LET id == chain[m].id IN
             /\ store[fork.child][id] = store[fork.src][id]
             /\ firsts(chain[m].writes) \subseteq firsts(pending[fork.child][id])
  <2> DEFINE x == chain[m]
  <2>1. CopiedTo(fork, m, Len(x.writes))
    BY <1>1, <1>2 DEF CopiedSoFar
  <2>2. /\ store[fork.child][x.id] = copy_of(fork, m)
        /\ \A j \in 1..Len(x.writes) :
             x.writes[j].idx = 1 => x.writes[j] \in firsts(pending[fork.child][x.id])
    BY <1>4, <2>1 DEF CopiedTo
  <2>3. x \in Tuples /\ m \in 1..Len(chain)
    BY <1>1, ElementOfSeq
  <2>4. x.cell.parent = IF m = 1 THEN None ELSE chain[m - 1].id
    BY <1>2, <1>5, <2>3 DEF Linked
  <2>5. copy_of(fork, m) = x.cell
    BY <1>6, <2>3, <2>4 DEF copy_of, Tuples, S!Checkpoints
  <2>6. DOMAIN x.writes = 1..Len(x.writes)
    BY <2>3, LenProperties DEF Tuples
  <2>7. firsts(x.writes) \subseteq firsts(pending[fork.child][x.id])
    BY <2>2, <2>6 DEF firsts
  <2> QED
    BY <1>6, <2>2, <2>5, <2>7
<1> QED
  BY <1>3, <1>5, <1>6, <1>7

\* What fork_thread returned from is a faithful copy: the whole lineage of the
\* checkpoint, each with the contents, the parent and the first pending write of
\* each task that the original has.  An application that writes to the new
\* thread while it is copied could take the place of a first write.
THEOREM ForkCopies == Spec /\ [][ChildLeftAlone]_vars => []ForkFaithful
<1> QED
  BY IInvInit, IInvNext, PlacesInit, PlacesNext, FaithfulInit, FaithfulNext,
     FaithfulHolds, PTL DEF Spec
=============================================================================
