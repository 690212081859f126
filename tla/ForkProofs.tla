----------------------------- MODULE ForkProofs -----------------------------
(***************************************************************************)
(* Theorems about Fork and the tracing checkpointer below it, for any      *)
(* threads, checkpoints, callers and failures.                             *)
(***************************************************************************)
EXTENDS Fork, SequenceTheorems, FiniteSetTheorems, TLAPS

-----------------------------------------------------------------------------
(***************************************************************************)
(* Lemmas about the store and the pending writes.                          *)
(***************************************************************************)
Stores == [Threads -> [Ids -> S!Checkpoints \cup {None}]]
Pendings == [Threads -> [Ids -> Seq(S!Write)]]

LEMMA StoredPutType ==
  ASSUME store \in Stores, NEW t \in Threads, NEW ns \in Namespaces, NEW id \in Ids,
         NEW o \in Objects, NEW parent \in Ids \cup {None}
  PROVE  S!stored_put(t, ns, id, o, parent) \in Stores
<1>1. [ns |-> ns, content |-> Survives[o], parent |-> parent] \in S!Checkpoints
  BY SaverAssumption DEF S!Checkpoints
<1> QED
  BY <1>1 DEF S!stored_put, Stores

LEMMA GetTupleType ==
  ASSUME store \in Stores, NEW t \in Threads, NEW ns, NEW id \in Ids
  PROVE  S!get_tuple(t, ns, id) \in S!Checkpoints \cup {None}
  BY DEF S!get_tuple, Stores

LEMMA FunctionIsSeq ==
  ASSUME NEW X, NEW n \in Nat, NEW f \in [1..n -> X]
  PROVE  f \in Seq(X)
  BY SeqDef

\* Saver's Cardinality is that of FiniteSets.
LEMMA SameCardinality == \A X : S!Cardinality(X) = Cardinality(X)
  BY DEF S!Cardinality, Cardinality

\* The writes of a task that are new are a sequence of writes.
LEMMA AddedType ==
  ASSUME NEW ws \in Seq(S!Write), NEW k \in Tasks, NEW l \in WriteLists
  PROVE  S!added(ws, k, l) \in Seq(S!Write)
<1> DEFINE had == S!Cardinality({m \in DOMAIN ws : ws[m].task = k})
           new == [n \in 1..(Len(l) - had) |->
                   [task |-> k, idx |-> had + n, chan |-> l[had + n]]]
<1>1. had \in Nat
  <2>1. DOMAIN ws = 1..Len(ws) /\ Len(ws) \in Nat
    BY LenProperties
  <2>2. IsFiniteSet(DOMAIN ws)
    BY <2>1, FS_Interval
  <2>3. IsFiniteSet({m \in DOMAIN ws : ws[m].task = k})
    BY <2>2, FS_Subset
  <2> QED
    BY <2>3, FS_CardinalityType, SameCardinality
<1>2. Len(l) \in Nat /\ DOMAIN l = 1..Len(l)
  BY SaverAssumption
<1> HIDE DEF had
<1>3. ASSUME NEW n \in 1..(Len(l) - had)
      PROVE  [task |-> k, idx |-> had + n, chan |-> l[had + n]] \in S!Write
  <2>1. had + n \in DOMAIN l /\ had + n \in Nat
    BY <1>1, <1>2
  <2>2. l[had + n] \in S!Channels
    BY <2>1 DEF S!Channels
  <2> QED
    BY <2>1, <2>2 DEF S!Write
<1>4. new \in Seq(S!Write)
  <2>1. CASE Len(l) - had < 0
    <3>1. 1..(Len(l) - had) = {}
      BY <2>1, <1>1, <1>2
    <3>2. new = <<>>
      BY <3>1
    <3> QED
      BY <3>2, EmptySeq
  <2>2. CASE Len(l) - had >= 0
    <3>1. Len(l) - had \in Nat
      BY <2>2, <1>1, <1>2
    <3>2. new \in [1..(Len(l) - had) -> S!Write]
      BY <1>3
    <3> QED
      BY <3>1, <3>2, FunctionIsSeq
  <2> QED
    BY <2>1, <2>2, <1>1, <1>2
<1>5. ws \o new \in Seq(S!Write)
  BY <1>4, ConcatProperties
<1> QED
  BY <1>5 DEF S!added, had

-----------------------------------------------------------------------------
(***************************************************************************)
(* Types of the checkpointer: every step of a call, whoever makes it.      *)
(***************************************************************************)
Answers == [Callers -> {"none", "returned", "raised"}]
Progresses == [Callers -> Calls \cup {None}]
Logs == [Threads -> Seq(Events)]
Caches == [Threads -> Recorders \cup {None}]

CPTyped ==
  /\ store \in Stores /\ pending \in Pendings
  /\ answer \in Answers /\ call \in Progresses
  /\ log \in Logs /\ recorders \in Caches
  /\ raced \subseteq changed /\ changed \subseteq Threads \X Ids

LEMMA LeaveType ==
  ASSUME answer \in Answers, call \in Progresses, NEW c \in Callers,
         NEW how \in {"returned", "raised"}, leave(c, how)
  PROVE  answer' \in Answers /\ call' \in Progresses
  BY DEF leave, Answers, Progresses

\* recorder_for makes a recorder, or finds one.
LEMMA KeepType ==
  ASSUME recorders \in Caches, NEW t \in Threads,
         keep(t) \/ UNCHANGED recorders
  PROVE  recorders' \in Caches
<1>1. made(t) \in Recorders
  BY DEF made, Recorders
<1> QED
  BY <1>1 DEF keep, Caches

LEMMA HandleType ==
  ASSUME CPTyped, NEW c \in Callers, call[c].thread \in Threads, handle(c)
  PROVE  /\ answer' \in Answers /\ call' \in Progresses
         /\ recorders' \in Caches /\ log' \in Logs
<1>1. PICK how \in {"returned", "raised"} : leave(c, how)
  BY DEF handle
<1>2. keep(call[c].thread) \/ UNCHANGED recorders
  BY DEF handle
<1> QED
  BY <1>1, <1>2, LeaveType, KeepType DEF CPTyped, handle

LEMMA EmitType ==
  ASSUME CPTyped, NEW c \in Callers, call[c].thread \in Threads,
         NEW r, NEW e \in Events, emit(c, r, e)
  PROVE  /\ answer' \in Answers /\ call' \in Progresses
         /\ recorders' \in Caches /\ log' \in Logs
<1>1. CASE handle(c)
  BY <1>1, HandleType
<1>2. CASE /\ leave(c, "returned") /\ keep(call[c].thread)
           /\ UNCHANGED log \/ log' = [log EXCEPT ![r.log] = Append(@, e)]
  <2>1. [log EXCEPT ![r.log] = Append(@, e)] \in Logs
    <3>1. \A t \in Threads : Append(log[t], e) \in Seq(Events)
      BY AppendProperties DEF CPTyped, Logs
    <3> QED
      BY <3>1 DEF CPTyped, Logs
  <2>2. log' \in Logs
    BY <1>2, <2>1 DEF CPTyped
  <2> QED
    BY <1>2, <2>2, LeaveType, KeepType DEF CPTyped
<1> QED
  BY <1>1, <1>2 DEF emit

\* What a call says of itself.
LEMMA CallType ==
  ASSUME CPTyped, NEW c \in Callers, call[c] # None
  PROVE  /\ call[c] \in Calls
         /\ call[c].thread \in Threads /\ call[c].id \in Ids
  BY DEF CPTyped, Progresses, Calls

LEMMA InnerPutType ==
  ASSUME CPTyped, NEW c \in Callers, NEW t \in Threads, NEW ns \in Namespaces,
         NEW id \in Ids, NEW o \in Objects, NEW parent \in Ids \cup {None},
         NEW async \in BOOLEAN, InnerPut(c, t, ns, id, o, parent, async)
  PROVE  CPTyped'
<1>1. store' \in Stores
  BY StoredPutType DEF InnerPut, CPTyped
<1>2. call' \in Progresses
  BY DEF InnerPut, CPTyped, Progresses, Calls
<1>3. answer' \in Answers
  BY DEF InnerPut, CPTyped, Answers
<1> QED
  BY <1>1, <1>2, <1>3 DEF InnerPut, CPTyped, ledger, Stores, Pendings, Logs, Caches

LEMMA InnerPutWritesType ==
  ASSUME CPTyped, NEW c \in Callers, NEW t \in Threads, NEW ns \in Namespaces,
         NEW id \in Ids, NEW k \in Tasks, NEW l \in WriteLists,
         InnerPutWrites(c, t, ns, id, k, l)
  PROVE  CPTyped'
<1>1. pending' \in Pendings
  <2>1. S!added(pending[t][id], k, l) \in Seq(S!Write)
    BY AddedType DEF CPTyped, Pendings
  <2>2. pending' = [pending EXCEPT ![t][id] = S!added(pending[t][id], k, l)]
    BY DEF InnerPutWrites, CPTyped, Pendings
  <2> QED
    BY <2>1, <2>2 DEF CPTyped, Pendings
<1>2. call' \in Progresses
  BY DEF InnerPutWrites, CPTyped, Progresses, Calls
<1>3. answer' \in Answers
  BY DEF InnerPutWrites, CPTyped, Answers
<1> QED
  BY <1>1, <1>2, <1>3 DEF InnerPutWrites, CPTyped, ledger, history

LEMMA InnerFailType ==
  ASSUME CPTyped, NEW c \in Callers, InnerFail(c)
  PROVE  CPTyped'
<1>1. answer' \in Answers
  BY DEF InnerFail, CPTyped, Answers
<1> QED
  BY <1>1 DEF InnerFail, CPTyped, saver, ledger

\* The checkpoint that was read again goes into the call.
LEMMA RereadType ==
  ASSUME CPTyped, NEW c \in Callers, Reread(c)
  PROVE  CPTyped'
<1> DEFINE t == call[c].thread
           got == S!get_tuple(t, call[c].ns, call[c].id)
<1>1. call[c] \in Calls /\ call[c].op = "put" /\ t \in Threads /\ call[c].id \in Ids
  BY CallType DEF Reread
<1>2. UNCHANGED <<store, pending, raced, changed>>
  BY DEF Reread, saver
<1> SUFFICES /\ answer' \in Answers /\ call' \in Progresses
             /\ recorders' \in Caches /\ log' \in Logs
  BY <1>2 DEF CPTyped
<1>3. CASE leave(c, "returned") /\ UNCHANGED <<ledger, faults>>
  BY <1>3, LeaveType DEF CPTyped, ledger
<1>4. CASE handle(c)
  BY <1>1, <1>4, HandleType
<1>5. CASE /\ reread(c, got) /\ UNCHANGED log
           /\ UNCHANGED recorders \/ keep(t)
  <2>1. recorders' \in Caches
    BY <1>1, <1>5, KeepType DEF CPTyped
  <2>2. answer' \in Answers /\ call' \in Progresses
    <3>1. CASE got = None
      BY <1>5, <3>1, LeaveType DEF reread, CPTyped
    <3>2. CASE got # None
      <4>1. got \in S!Checkpoints
        BY <1>1, <3>2, GetTupleType DEF CPTyped
      <4>2. [call[c] EXCEPT !.tup = got] \in Calls
        BY <1>1, <4>1 DEF Calls
      <4>3. call' = [call EXCEPT ![c] = [call[c] EXCEPT !.tup = got]]
        BY <1>5, <3>2 DEF reread, CPTyped, Progresses
      <4> QED
        BY <1>5, <3>2, <4>2, <4>3 DEF reread, CPTyped, Progresses
    <3> QED
      BY <3>1, <3>2
  <2> QED
    BY <1>5, <2>1, <2>2 DEF CPTyped
<1> QED
  BY <1>3, <1>4, <1>5 DEF Reread

\* The event of a call is an event.
LEMMA EventType ==
  ASSUME CPTyped, NEW c \in Callers, call[c] # None,
         call[c].op = "writes" \/ call[c].tup # None
  PROVE  event(call[c]) \in Events
<1>1. call[c] \in Calls
  BY CallType
<1>2. CASE call[c].op = "put"
  <2>1. call[c].id \in Ids /\ call[c].tup \in S!Checkpoints
    BY <1>1, <1>2 DEF Calls
  <2>2. call[c].tup.content \in Contents /\ call[c].tup.parent \in Ids \cup {None}
    BY <2>1 DEF S!Checkpoints
  <2>3. digest(call[c].id, call[c].tup.content) \in (Ids \X Contents) \cup {NoDigest}
    BY <2>1, <2>2 DEF digest
  <2> QED
    BY <1>2, <2>1, <2>2, <2>3 DEF event, snapshot, Events
<1>3. CASE call[c].op = "writes"
  <2>1. call[c].id \in Ids /\ call[c].task \in Tasks /\ call[c].list \in WriteLists
    BY <1>1, <1>3 DEF Calls
  <2> QED
    BY <1>3, <2>1 DEF event, checkpoint_writes, Events
<1> QED
  BY <1>1, <1>2, <1>3 DEF Calls

LEMMA TraceType ==
  ASSUME CPTyped, NEW c \in Callers, Trace(c)
  PROVE  CPTyped'
<1>1. call[c] # None /\ (call[c].op = "writes" \/ call[c].tup # None)
  BY DEF Trace
<1>2. call[c].thread \in Threads /\ event(call[c]) \in Events
  BY <1>1, CallType, EventType
<1>3. UNCHANGED <<store, pending, raced, changed>>
  BY DEF Trace, saver
<1> SUFFICES /\ answer' \in Answers /\ call' \in Progresses
             /\ recorders' \in Caches /\ log' \in Logs
  BY <1>3 DEF CPTyped
<1>4. CASE leave(c, "returned") /\ UNCHANGED <<ledger, faults>>
  BY <1>4, LeaveType DEF CPTyped, ledger
<1>5. CASE emit(c, rec_for(call[c].thread), event(call[c]))
  BY <1>2, <1>5, EmitType
<1>6. CASE handle(c)
  BY <1>2, <1>6, HandleType
<1> QED
  BY <1>4, <1>5, <1>6 DEF Trace

\* Deletions and drift.
LEMMA EnvironmentType ==
  ASSUME CPTyped, CPEnvironment
  PROVE  CPTyped'
<1>1. ASSUME NEW places \in SUBSET (Threads \X Ids), note_change(places)
      PROVE  raced' \subseteq changed' /\ changed' \subseteq Threads \X Ids
  BY <1>1 DEF note_change, CPTyped
<1>2. ASSUME NEW t \in Threads, DeleteThread(t) PROVE CPTyped'
  <2>1. store' \in Stores /\ pending' \in Pendings
    BY <1>2, EmptySeq DEF DeleteThread, CPTyped, Stores, Pendings
  <2>2. {<<t, id>> : id \in {i \in Ids : store[t][i] # None}} \in SUBSET (Threads \X Ids)
    OBVIOUS
  <2>3. raced' \subseteq changed' /\ changed' \subseteq Threads \X Ids
    BY <1>1, <1>2, <2>2 DEF DeleteThread
  <2> QED
    BY <1>2, <2>1, <2>3 DEF DeleteThread, CPTyped, ledger
<1>3. ASSUME NEW t \in Threads, NEW id \in Ids, NEW x \in Tampered[id], Drift(t, id, x)
      PROVE  CPTyped'
  <2>1. x \in Contents
    BY WrapperAssumption
  <2>2. store' \in Stores
    <3>1. store[t][id] \in S!Checkpoints
      BY <1>3 DEF Drift, CPTyped, Stores
    <3>2. [store[t][id] EXCEPT !.content = x] \in S!Checkpoints
      BY <2>1, <3>1 DEF S!Checkpoints
    <3>3. store' = [store EXCEPT ![t] = [store[t] EXCEPT ![id] =
                      [store[t][id] EXCEPT !.content = x]]]
      BY <1>3 DEF Drift, CPTyped, Stores
    <3> QED
      BY <3>2, <3>3 DEF CPTyped, Stores
  <2>3. raced' \subseteq changed' /\ changed' \subseteq Threads \X Ids
    BY <1>1, <1>3 DEF Drift
  <2> QED
    BY <1>3, <2>2, <2>3 DEF Drift, CPTyped, ledger
<1> QED
  BY <1>2, <1>3 DEF CPEnvironment

\* What the application does.
LEMMA StepType ==
  ASSUME CPTyped, NEW c \in Callers, CPStep(c)
  PROVE  CPTyped'
<1>1. ASSUME NEW t \in AppThreads, AppPut(c, t) PROVE CPTyped'
  <2>1. t \in Threads /\ Root \in Namespaces /\ AppObjects \subseteq Objects
    BY WrapperAssumption
  <2>2. PICK ns \in Namespaces, o \in Objects, async \in BOOLEAN,
             parent \in Ids \cup {None} : InnerPut(c, t, ns, fresh, o, parent, async)
    BY <1>1, <2>1 DEF AppPut, S!ids
  <2>3. fresh \in Ids
    BY <1>1 DEF AppPut
  <2> QED
    BY <2>1, <2>2, <2>3, InnerPutType
<1>2. ASSUME NEW t \in AppThreads, AppPutWrites(c, t) PROVE CPTyped'
  <2>1. t \in Threads /\ AppWrites \subseteq WriteLists
    BY WrapperAssumption
  <2>2. PICK ns \in Namespaces, k \in Tasks, l \in WriteLists, id \in Ids :
             InnerPutWrites(c, t, ns, id, k, l)
    BY <1>2, <2>1 DEF AppPutWrites, S!ids
  <2> QED
    BY <2>1, <2>2, InnerPutWritesType
<1> QED
  BY <1>1, <1>2, InnerFailType DEF CPStep

-----------------------------------------------------------------------------
(***************************************************************************)
(* Types of fork_thread.  They need to know how far it got: there is a     *)
(* checkpoint to read while it reads, and one to put, or a write of the    *)
(* last one, while it copies.                                              *)
(***************************************************************************)
Running == [phase : {"read", "copy", "done", "raised"}, src : Threads, child : Threads,
            ns : Namespaces, at : Ids, logged : BOOLEAN, current : Ids \cup {None},
            chain : Seq(Tuples), n : Nat, w : Nat]

Progress ==
  /\ fork.phase = "read" => fork.current # None /\ fork.n = 0
  /\ fork.phase = "copy" =>
       /\ fork.chain # <<>> /\ fork.n <= Len(fork.chain)
       /\ fork.n # 0 => fork.w <= Len(fork.chain[fork.n].writes)

IInv == CPTyped /\ fork \in Forks /\ Progress

LEMMA ForksRunning == Forks = [phase : {"idle"}] \cup Running
  BY DEF Forks, Running

LEMMA IsRunning ==
  ASSUME fork \in Forks, fork.phase # "idle"
  PROVE  fork \in Running
  BY ForksRunning

LEMMA IInvInit == Init => IInv
<1> SUFFICES ASSUME Init PROVE IInv
  OBVIOUS
<1>1. \E w \in Wrappers : recorders = w.opened
  BY DEF Init, CPInit
<1>2. recorders \in Caches
  BY <1>1, WrapperAssumption DEF Caches
<1>3. store \in Stores /\ pending \in Pendings /\ log \in Logs
  BY EmptySeq DEF Init, CPInit, Stores, Pendings, Logs
<1>4. answer \in Answers /\ call \in Progresses
  BY DEF Init, CPInit, Answers, Progresses
<1>5. fork \in Forks /\ Progress
  BY DEF Init, Forks, Progress
<1> QED
  BY <1>2, <1>3, <1>4, <1>5 DEF IInv, CPTyped, Init, CPInit

LEMMA BeginType ==
  ASSUME IInv, NEW src \in Threads, NEW child \in Threads, NEW ns \in Namespaces,
         NEW logged \in BOOLEAN, ForkBegin(src, child, ns, logged)
  PROVE  IInv'
<1>1. PICK at \in latest(src, ns)
                   \cup UNION {find_checkpoint_by_label(src, x) : x \in labels(src)} :
        fork' = [phase |-> "read", src |-> src, child |-> child, ns |-> ns, at |-> at,
                 logged |-> logged, current |-> at, chain |-> <<>>, n |-> 0, w |-> 0]
  BY DEF ForkBegin
<1>2. at \in Ids
  <2>1. CASE at \in latest(src, ns)
    BY <2>1 DEF latest, S!ids
  <2>2. ASSUME NEW x, at \in find_checkpoint_by_label(src, x) PROVE at \in Ids
    <3>1. PICK n \in DOMAIN log[src] : log[src][n].kind = "snapshot" /\ at = log[src][n].id
      BY <2>2 DEF find_checkpoint_by_label
    <3>2. log[src][n] \in Events
      BY ElementOfSeq, LenProperties DEF IInv, CPTyped, Logs
    <3> QED
      BY <3>1, <3>2 DEF Events
  <2> QED
    BY <1>1, <2>1, <2>2
<1>3. fork' \in Forks
  BY <1>1, <1>2, EmptySeq DEF Forks
<1>4. Progress'
  BY <1>1, <1>2, SaverAssumption DEF Progress
<1>5. recorders' \in Caches
  <2>1. made(child) \in Recorders
    BY DEF made, Recorders
  <2> QED
    BY <2>1 DEF ForkBegin, IInv, CPTyped, Caches
<1>6. CPTyped'
  BY <1>5 DEF ForkBegin, IInv, CPTyped, saver, history
<1> QED
  BY <1>3, <1>4, <1>6 DEF IInv

LEMMA ReadType ==
  ASSUME IInv, ForkRead
  PROVE  IInv'
<1> DEFINE got == S!get_tuple(fork.src, fork.ns, fork.current)
           tuple == [id |-> fork.current, cell |-> got,
                     writes |-> pending[fork.src][fork.current]]
           chain == IF got = None THEN fork.chain ELSE <<tuple>> \o fork.chain
           next == IF got = None THEN None ELSE got.parent
<1>1. fork \in Running /\ fork.current \in Ids /\ fork.src \in Threads
      /\ fork.chain \in Seq(Tuples) /\ fork.n = 0
  BY IsRunning DEF ForkRead, IInv, Progress, Running
<1>2. fork' = [fork EXCEPT !.chain = chain, !.current = next,
                 !.phase = IF next # None THEN "read"
                           ELSE IF chain = <<>> THEN "raised" ELSE "copy"]
  BY DEF ForkRead
<1>3. got \in S!Checkpoints \cup {None}
  BY <1>1, GetTupleType DEF IInv, CPTyped
<1>4. next \in Ids \cup {None}
  BY <1>3 DEF S!Checkpoints
<1>5. chain \in Seq(Tuples)
  <2>1. CASE got # None
    <3>1. tuple \in Tuples
      BY <1>1, <1>3, <2>1 DEF Tuples, IInv, CPTyped, Pendings
    <3>2. <<tuple>> \in Seq(Tuples)
      BY <3>1
    <3> HIDE DEF tuple
    <3> QED
      BY <1>1, <2>1, <3>2, ConcatProperties
  <2> QED
    BY <1>1, <2>1
<1> HIDE DEF got, chain, next
<1>6. fork' \in Running
  BY <1>1, <1>2, <1>4, <1>5 DEF Running
<1>7. /\ fork'.chain = chain /\ fork'.current = next /\ fork'.n = 0
      /\ fork'.phase = IF next # None THEN "read"
                       ELSE IF chain = <<>> THEN "raised" ELSE "copy"
  BY <1>1, <1>2 DEF Running
<1>8. Progress'
  <2>1. Len(chain) \in Nat
    BY <1>5, LenProperties
  <2> QED
    BY <1>7, <2>1 DEF Progress
<1>9. CPTyped'
  BY DEF ForkRead, IInv, CPTyped, cpvars, saver, ledger, history
<1> QED
  BY <1>6, <1>8, <1>9, ForksRunning DEF IInv

\* The copy: what it puts are checkpoints and writes that were read.
LEMMA PutType ==
  ASSUME IInv, ForkPut
  PROVE  IInv' /\ \E t \in Threads, ns \in Namespaces, id \in Ids, o \in Objects,
                     parent \in Ids \cup {None} : InnerPut(Forker, t, ns, id, o, parent, FALSE)
<1> DEFINE x == fork.chain[fork.n + 1]
           parent == IF fork.n = 0 THEN None ELSE fork.chain[fork.n].id
<1>1. fork.phase = "copy" /\ fork.n < Len(fork.chain)
  BY DEF ForkPut, copying
<1>2. fork \in Running /\ fork.child \in Threads /\ fork.ns \in Namespaces
      /\ fork.chain \in Seq(Tuples) /\ fork.n \in Nat
  BY <1>1, IsRunning DEF IInv, Running
<1>3. Len(fork.chain) \in Nat
  BY <1>2, LenProperties
<1>4. x \in Tuples
  BY <1>1, <1>2, <1>3, ElementOfSeq
<1>5. parent \in Ids \cup {None}
  <2>1. CASE fork.n # 0
    <3>1. fork.n \in 1..Len(fork.chain)
      BY <1>1, <1>2, <1>3, <2>1
    <3>2. fork.chain[fork.n] \in Tuples
      BY <1>2, <3>1, ElementOfSeq
    <3> QED
      BY <2>1, <3>2 DEF Tuples
  <2> QED
    BY <2>1
<1>6. x.id \in Ids /\ x.cell.content \in Objects /\ Len(x.writes) \in Nat
  BY <1>4, SaverAssumption, LenProperties DEF Tuples, S!Checkpoints
<1>7. InnerPut(Forker, fork.child, fork.ns, x.id, x.cell.content, parent, FALSE)
  BY DEF ForkPut
<1>8. CPTyped'
  BY <1>2, <1>5, <1>6, <1>7, InnerPutType, ForkerAssumption DEF IInv
<1>9. fork' = [fork EXCEPT !.n = fork.n + 1, !.w = 0]
  BY <1>2 DEF ForkPut, Running
<1>10. fork' \in Running
  <2>1. fork.n + 1 \in Nat /\ 0 \in Nat
    BY <1>2
  <2> HIDE DEF x, parent
  <2> QED
    BY <1>2, <1>9, <2>1 DEF Running
<1>11. /\ fork'.n = fork.n + 1 /\ fork'.w = 0 /\ fork'.chain = fork.chain
       /\ fork'.phase = "copy"
  BY <1>1, <1>2, <1>9 DEF Running
<1>12. Progress'
  BY <1>1, <1>2, <1>3, <1>6, <1>11 DEF Progress, IInv
<1>13. IInv'
  BY <1>8, <1>10, <1>12, ForksRunning DEF IInv
<1> QED
  BY <1>2, <1>5, <1>6, <1>7, <1>13

LEMMA WriteType ==
  ASSUME IInv, ForkWrite
  PROVE  IInv' /\ \E t \in Threads, ns \in Namespaces, id \in Ids, k \in Tasks,
                     l \in WriteLists : InnerPutWrites(Forker, t, ns, id, k, l)
<1> DEFINE x == fork.chain[fork.n]
           write == x.writes[fork.w + 1]
<1>1. fork.phase = "copy" /\ fork.n # 0 /\ fork.w # Len(x.writes)
  BY DEF ForkWrite, copying, written
<1>2. fork \in Running /\ fork.child \in Threads /\ fork.ns \in Namespaces
      /\ fork.chain \in Seq(Tuples) /\ fork.n \in Nat /\ fork.w \in Nat
  BY <1>1, IsRunning DEF IInv, Running
<1>3. fork.n \in 1..Len(fork.chain) /\ fork.w <= Len(x.writes)
  <2>1. Len(fork.chain) \in Nat
    BY <1>2, LenProperties
  <2> QED
    BY <1>1, <1>2, <2>1 DEF IInv, Progress
<1>4. x \in Tuples
  BY <1>2, <1>3, ElementOfSeq
<1>5. x.id \in Ids /\ x.writes \in Seq(S!Write) /\ Len(x.writes) \in Nat
  BY <1>4, LenProperties DEF Tuples
<1>6. write \in S!Write
  BY <1>1, <1>2, <1>3, <1>5, ElementOfSeq
<1>7. write.task \in Tasks /\ <<write.chan>> \in WriteLists
  BY <1>6, ForkerAssumption DEF S!Write
<1>8. InnerPutWrites(Forker, fork.child, fork.ns, x.id, write.task, <<write.chan>>)
  BY DEF ForkWrite
<1>9. CPTyped'
  BY <1>2, <1>5, <1>7, <1>8, InnerPutWritesType, ForkerAssumption DEF IInv
<1>10. fork' = [fork EXCEPT !.w = fork.w + 1]
  BY <1>2 DEF ForkWrite, Running
<1>11. fork' \in Running
  BY <1>2, <1>10 DEF Running
<1>12. /\ fork'.n = fork.n /\ fork'.w = fork.w + 1 /\ fork'.chain = fork.chain
       /\ fork'.phase = "copy"
  BY <1>1, <1>2, <1>10 DEF Running
<1>13. Progress'
  BY <1>1, <1>2, <1>3, <1>5, <1>12 DEF Progress, IInv
<1>14. IInv'
  BY <1>9, <1>11, <1>13, ForksRunning DEF IInv
<1> QED
  BY <1>2, <1>5, <1>7, <1>8, <1>14

\* fork_thread leaves the copy.
LEMMA LeaveCopyType ==
  ASSUME IInv, fork.phase \in {"read", "copy"}, NEW phase \in {"done", "raised"},
         fork' = [fork EXCEPT !.phase = phase]
  PROVE  fork' \in Forks /\ Progress'
<1>1. fork \in Running
  BY IsRunning DEF IInv
<1>2. fork' \in Running /\ fork'.phase = phase
  BY <1>1 DEF Running
<1> QED
  BY <1>2, ForksRunning DEF Progress

LEMMA FailType ==
  ASSUME IInv, ForkFail
  PROVE  IInv'
<1>1. CASE copying /\ InnerFail(Forker) /\ fork' = [fork EXCEPT !.phase = "raised"]
  BY <1>1, LeaveCopyType, InnerFailType, ForkerAssumption DEF IInv, copying
<1>2. CASE /\ fork.phase = "copy" /\ fork' = [fork EXCEPT !.phase = "raised"]
           /\ UNCHANGED cpvars
  BY <1>2, LeaveCopyType DEF IInv, CPTyped, cpvars, saver, ledger, history
<1> QED
  BY <1>1, <1>2 DEF ForkFail

LEMMA ReadFailType ==
  ASSUME IInv, ForkReadFail
  PROVE  IInv'
  BY LeaveCopyType DEF ForkReadFail, IInv, CPTyped, saver, ledger

\* A read that fails changes nothing but the progress of the fork.
LEMMA ReadFails ==
  ASSUME IInv, ForkReadFail
  PROVE  /\ fork \in Running /\ fork' \in Running /\ fork'.phase = "raised"
         /\ fork'.n = fork.n
         /\ UNCHANGED <<store, pending, answer, call, log, recorders, wrapper,
                        put_history, answered, changed, raced>>
<1>1. fork \in Running /\ fork' = [fork EXCEPT !.phase = "raised"]
  BY IsRunning DEF ForkReadFail, IInv
<1>2. fork' \in Running /\ fork'.phase = "raised" /\ fork'.n = fork.n
  BY <1>1 DEF Running
<1> QED
  BY <1>1, <1>2 DEF ForkReadFail, saver, ledger

LEMMA LogType ==
  ASSUME IInv, ForkLog
  PROVE  IInv'
<1>1. fork.phase = "copy" /\ fork \in Running /\ fork.chain # <<>>
  BY IsRunning DEF ForkLog, copying, IInv, Progress
<1>2. fork_event \in Events
  <2>1. Len(fork.chain) \in Nat \ {0}
    BY <1>1, EmptySeq DEF Running
  <2> QED
    BY <1>1, <2>1 DEF fork_event, Events, Running
<1>3. fork' \in Forks /\ Progress'
  <2>1. PICK phase \in {"done", "raised"} : fork' = [fork EXCEPT !.phase = phase]
    BY DEF ForkLog
  <2> QED
    BY <1>1, <2>1, LeaveCopyType
<1>4. log' \in Logs
  <2>1. \A t \in Threads : Append(log[t], fork_event) \in Seq(Events)
    BY <1>2, AppendProperties DEF IInv, CPTyped, Logs
  <2>2. \A t : [log EXCEPT ![t] = Append(@, fork_event)] \in Logs
    BY <2>1 DEF IInv, CPTyped, Logs
  <2> QED
    BY <2>2 DEF ForkLog, IInv, CPTyped
<1> QED
  BY <1>3, <1>4 DEF ForkLog, IInv, CPTyped, saver

\* Nothing else moves fork_thread.
LEMMA SameFork ==
  ASSUME fork \in Forks, Progress, fork' = fork
  PROVE  fork' \in Forks /\ Progress'
  BY DEF Progress

LEMMA IInvNext == IInv /\ [Next]_vars => IInv'
<1> SUFFICES ASSUME IInv, [Next]_vars PROVE IInv'
  OBVIOUS
<1>1. ASSUME NEW c \in Callers, CPStep(c), UNCHANGED fork PROVE IInv'
  BY <1>1, StepType, SameFork DEF IInv
<1>2. ASSUME NEW c \in Callers, CPTracing(c), UNCHANGED fork PROVE IInv'
  BY <1>2, RereadType, TraceType, SameFork DEF IInv, CPTracing
<1>3. CASE CPEnvironment /\ UNCHANGED fork
  BY <1>3, EnvironmentType, SameFork DEF IInv
<1>4. CASE ForkStep
  BY <1>4, BeginType, ReadType, ReadFailType, PutType, WriteType, FailType, LogType
  DEF ForkStep, ForkBody
<1>5. CASE UNCHANGED vars
  BY <1>5, SameFork DEF IInv, CPTyped, vars, cpvars, saver, ledger, history
<1> QED
  BY <1>1, <1>2, <1>3, <1>4, <1>5 DEF Next

\* Type correctness of the checkpointer and fork_thread.
THEOREM TypeCorrect == Spec => []TypeOK
<1>1. IInv => TypeOK
  BY DEF IInv, CPTyped, TypeOK, Stores, Pendings, Answers, Progresses, Logs, Caches
<1> QED
  BY IInvInit, IInvNext, <1>1, PTL DEF Spec

-----------------------------------------------------------------------------
(***************************************************************************)
(* The wrapper is the saver it wraps.  A step that has its effect on the   *)
(* store is a Call, one that answers is an Answer, and the steps between   *)
(* them change nothing that the callers of a saver see.  A call is refused *)
(* only if some recorder is strict, which no step changes.                 *)
(***************************************************************************)
wrapped_status == [c \in Callers |-> IF call[c] = None THEN "idle" ELSE "stored"]
fail_closed == \E t \in Threads : strict_for(t)

\* Recorders that are made on the way are not strict.
LEMMA StrictSame ==
  ASSUME UNCHANGED wrapper,
         \A t \in Threads : \/ recorders'[t] = recorders[t]
                            \/ recorders[t] = None /\ recorders'[t] = made(t)
  PROVE  UNCHANGED fail_closed
<1>1. ASSUME NEW t \in Threads PROVE strict_for(t)' <=> strict_for(t)
  <2>1. CASE recorders'[t] = recorders[t]
    BY <2>1 DEF strict_for
  <2>2. CASE recorders[t] = None /\ recorders'[t] = made(t)
    <3>1. made(t).strict = FALSE
      BY DEF made
    <3> QED
      BY <2>2, <3>1 DEF strict_for
  <2> QED
    BY <2>1, <2>2
<1>2. fail_closed' <=> fail_closed
  BY <1>1 DEF fail_closed
<1> QED
  BY <1>2 DEF fail_closed

LEMMA KeepStrict ==
  ASSUME recorders \in Caches, UNCHANGED wrapper, NEW t \in Threads,
         keep(t) \/ UNCHANGED recorders
  PROVE  UNCHANGED fail_closed
<1>1. \A u \in Threads : \/ recorders'[u] = recorders[u]
                         \/ recorders[u] = None /\ recorders'[u] = made(u)
  BY DEF keep, constructs, Caches
<1> QED
  BY <1>1, StrictSame

\* A call that leaves is a saver that answers.
LEMMA LeaveRefines ==
  ASSUME CPTyped, NEW c \in Callers, call[c] # None,
         NEW how \in {"returned", "raised"}, leave(c, how),
         how = "raised" => fail_closed,
         UNCHANGED <<store, pending>>, UNCHANGED fail_closed
  PROVE  S!Answer(c, how)
<1>1. wrapped_status[c] = "stored"
  BY DEF wrapped_status
<1>2. wrapped_status' = [wrapped_status EXCEPT ![c] = "idle"]
  BY DEF wrapped_status, leave, CPTyped, Progresses
<1>3. answer' = [answer EXCEPT ![c] = how]
  BY DEF leave
<1> QED
  BY <1>1, <1>2, <1>3 DEF S!Answer, wrapped_status, fail_closed

LEMMA InnerPutRefines ==
  ASSUME CPTyped, NEW c \in Callers, NEW t \in Threads, NEW ns \in Namespaces,
         NEW id \in Ids, NEW o \in Objects, NEW parent \in Ids \cup {None},
         NEW async \in BOOLEAN, InnerPut(c, t, ns, id, o, parent, async)
  PROVE  S!Call(c)
<1>1. call'[c] \in Calls /\ \A d \in Callers \ {c} : call'[d] = call[d]
  BY DEF InnerPut, CPTyped, Progresses, Calls
<1>2. wrapped_status[c] = "idle" /\ wrapped_status' = [wrapped_status EXCEPT ![c] = "stored"]
  BY <1>1, CallAssumption DEF wrapped_status, InnerPut
<1>3. answer' = [answer EXCEPT ![c] = "none"]
  BY DEF InnerPut
<1>4. S!Put(t, ns, id, o, parent)
  BY DEF InnerPut, S!Put
<1>5. UNCHANGED fail_closed
  BY DEF InnerPut, ledger, fail_closed, strict_for
<1> QED
  BY <1>2, <1>3, <1>4, <1>5 DEF S!Call, wrapped_status, fail_closed

LEMMA InnerPutWritesRefines ==
  ASSUME CPTyped, NEW c \in Callers, NEW t \in Threads, NEW ns \in Namespaces,
         NEW id \in Ids, NEW k \in Tasks, NEW l \in WriteLists,
         InnerPutWrites(c, t, ns, id, k, l)
  PROVE  S!Call(c)
<1>1. call'[c] \in Calls /\ \A d \in Callers \ {c} : call'[d] = call[d]
  BY DEF InnerPutWrites, CPTyped, Progresses, Calls
<1>2. wrapped_status[c] = "idle" /\ wrapped_status' = [wrapped_status EXCEPT ![c] = "stored"]
  BY <1>1, CallAssumption DEF wrapped_status, InnerPutWrites
<1>3. answer' = [answer EXCEPT ![c] = "none"]
  BY DEF InnerPutWrites
<1>4. S!PutWrites(t, id, k, l)
  BY DEF InnerPutWrites, S!PutWrites
<1>5. UNCHANGED fail_closed
  BY DEF InnerPutWrites, ledger, fail_closed, strict_for
<1> QED
  BY <1>2, <1>3, <1>4, <1>5 DEF S!Call, wrapped_status, fail_closed

LEMMA InnerFailRefines ==
  ASSUME NEW c \in Callers, InnerFail(c)
  PROVE  S!Fail(c)
<1>1. wrapped_status[c] = "idle" /\ UNCHANGED wrapped_status
  BY DEF InnerFail, wrapped_status
<1>2. UNCHANGED fail_closed
  BY DEF InnerFail, ledger, fail_closed, strict_for
<1> QED
  BY <1>1, <1>2 DEF InnerFail, S!Fail, saver, wrapped_status, fail_closed

\* The exception of the second construction is the only one that leaks.
LEMMA HandleRefines ==
  ASSUME CPTyped, "handler" \notin ConstructorFaults,
         NEW c \in Callers, call[c] # None, handle(c),
         UNCHANGED <<store, pending, wrapper>>
  PROVE  \E how \in {"returned", "raised"} : S!Answer(c, how)
<1> DEFINE t == call[c].thread
<1>1. t \in Threads
  BY CallType
<1>2. keep(t)
  BY DEF handle, cannot_construct
<1>3. UNCHANGED fail_closed
  BY <1>1, <1>2, KeepStrict DEF CPTyped
<1>4. PICK how \in {"returned", "raised"} :
        leave(c, how) /\ (how = "raised" => fail_closed)
  <2>1. CASE strict_for(t)
    BY <1>1, <2>1 DEF handle, fail_closed, cannot_construct
  <2>2. CASE ~strict_for(t)
    BY <2>2 DEF handle, cannot_construct
  <2> QED
    BY <2>1, <2>2
<1>5. S!Answer(c, how)
  BY <1>3, <1>4, LeaveRefines
<1> QED
  BY <1>5

LEMMA TracingRefines ==
  ASSUME CPTyped, "handler" \notin ConstructorFaults, NEW c \in Callers, CPTracing(c)
  PROVE  (\E how \in {"returned", "raised"} : S!Answer(c, how)) \/ UNCHANGED S!vars
<1> DEFINE t == call[c].thread
<1>1. call[c] # None /\ t \in Threads /\ UNCHANGED <<store, pending, wrapper>>
  BY CallType DEF CPTracing, Reread, Trace, saver
<1>2. CASE handle(c)
  BY <1>1, <1>2, HandleRefines
<1>3. CASE leave(c, "returned") /\ (keep(t) \/ UNCHANGED recorders)
  <2>1. UNCHANGED fail_closed
    BY <1>1, <1>3, KeepStrict DEF CPTyped
  <2> QED
    BY <1>1, <1>3, <2>1, LeaveRefines
<1>4. ASSUME NEW got \in S!Checkpoints, answer' = answer,
             call' = [call EXCEPT ![c].tup = got], call[c].op = "put",
             keep(t) \/ UNCHANGED recorders
      PROVE  UNCHANGED S!vars
  <2>1. UNCHANGED fail_closed
    BY <1>1, <1>4, KeepStrict DEF CPTyped
  <2>2. call[c] \in Calls
    BY <1>1, CallType
  <2>3. [call[c] EXCEPT !.tup = got] \in Calls
    BY <1>4, <2>2 DEF Calls
  <2>4. call'[c] # None /\ \A d \in Callers \ {c} : call'[d] = call[d]
    BY <1>4, <2>3, CallAssumption DEF CPTyped, Progresses
  <2>5. UNCHANGED wrapped_status
    BY <1>1, <2>4 DEF wrapped_status
  <2> QED
    BY <1>1, <1>4, <2>1, <2>5 DEF S!vars, wrapped_status, fail_closed
<1>5. CASE Reread(c)
  <2> DEFINE got == S!get_tuple(t, call[c].ns, call[c].id)
  <2>1. CASE leave(c, "returned") /\ UNCHANGED <<ledger, faults>>
    BY <1>3, <2>1 DEF ledger
  <2>2. CASE reread(c, got) /\ (keep(t) \/ UNCHANGED recorders)
    <3>1. CASE got = None
      BY <1>3, <2>2, <3>1 DEF reread
    <3>2. CASE got # None
      <4>1. got \in S!Checkpoints
        BY <1>1, <3>2, CallType, GetTupleType DEF CPTyped
      <4>2. answer' = answer /\ call' = [call EXCEPT ![c].tup = got]
        BY <2>2, <3>2 DEF reread
      <4>3. call[c].op = "put"
        BY <1>5 DEF Reread
      <4> QED
        BY <1>4, <2>2, <4>1, <4>2, <4>3
    <3> QED
      BY <3>1, <3>2
  <2> QED
    BY <1>2, <1>5, <2>1, <2>2 DEF Reread
<1>6. CASE Trace(c)
  <2>1. CASE leave(c, "returned") /\ UNCHANGED <<ledger, faults>>
    BY <1>3, <2>1 DEF ledger
  <2>2. CASE emit(c, rec_for(t), event(call[c]))
    BY <1>2, <1>3, <2>2 DEF emit
  <2> QED
    BY <1>2, <1>6, <2>1, <2>2 DEF Trace
<1> QED
  BY <1>5, <1>6 DEF CPTracing

LEMMA RefinementStep ==
  ASSUME IInv, "handler" \notin ConstructorFaults, [Next]_vars
  PROVE  S!Next \/ UNCHANGED S!vars
<1>1. ASSUME NEW c \in Callers, CPStep(c) PROVE S!Next
  <2>1. ASSUME NEW t \in AppThreads, AppPut(c, t) PROVE S!Call(c)
    <3>1. t \in Threads /\ Root \in Namespaces /\ AppObjects \subseteq Objects
      BY WrapperAssumption
    <3>2. PICK ns \in Namespaces, o \in Objects, async \in BOOLEAN,
               parent \in Ids \cup {None} : InnerPut(c, t, ns, fresh, o, parent, async)
      BY <2>1, <3>1 DEF AppPut, S!ids
    <3>3. fresh \in Ids
      BY <2>1 DEF AppPut
    <3>4. PICK id \in Ids : InnerPut(c, t, ns, id, o, parent, async)
      BY <3>2, <3>3
    <3> QED
      BY <3>1, <3>4, InnerPutRefines DEF IInv
  <2>2. ASSUME NEW t \in AppThreads, AppPutWrites(c, t) PROVE S!Call(c)
    <3>1. t \in Threads /\ AppWrites \subseteq WriteLists
      BY WrapperAssumption
    <3>2. PICK ns \in Namespaces, k \in Tasks, l \in WriteLists, id \in Ids :
               InnerPutWrites(c, t, ns, id, k, l)
      BY <2>2, <3>1 DEF AppPutWrites, S!ids
    <3> QED
      BY <3>1, <3>2, InnerPutWritesRefines DEF IInv
  <2> QED
    BY <1>1, <2>1, <2>2, InnerFailRefines DEF CPStep, S!Next
<1>2. ASSUME NEW c \in Callers, CPTracing(c) PROVE S!Next \/ UNCHANGED S!vars
  BY <1>2, TracingRefines DEF IInv, S!Next
<1>3. CASE CPEnvironment
  <2>1. UNCHANGED <<answer, call, wrapper, recorders>>
    BY <1>3 DEF CPEnvironment, DeleteThread, Drift, ledger
  <2>2. UNCHANGED wrapped_status /\ UNCHANGED fail_closed
    BY <2>1 DEF wrapped_status, fail_closed, strict_for
  <2>3. ASSUME NEW t \in Threads, DeleteThread(t) PROVE S!DeleteThread(t)
    BY <2>1, <2>2, <2>3 DEF DeleteThread, S!DeleteThread, wrapped_status, fail_closed
  <2>4. ASSUME NEW t \in Threads, NEW id \in Ids, NEW x \in Tampered[id], Drift(t, id, x)
        PROVE  x \in Contents /\ S!Drift(t, id, x)
    BY <2>1, <2>2, <2>4, WrapperAssumption
    DEF Drift, S!Drift, wrapped_status, fail_closed
  <2> QED
    BY <1>3, <2>3, <2>4 DEF CPEnvironment, S!Next
<1>4. CASE ForkStep
  <2>1. ASSUME UNCHANGED <<saver, answer, call, wrapper>>, UNCHANGED fail_closed
        PROVE  UNCHANGED S!vars
    BY <2>1 DEF S!vars, saver, fail_closed
  <2>2. ASSUME NEW src \in Threads, NEW child \in Threads, NEW ns \in Namespaces,
               NEW logged \in BOOLEAN, ForkBegin(src, child, ns, logged)
        PROVE  UNCHANGED S!vars
    <3>1. \A t \in Threads : \/ recorders'[t] = recorders[t]
                             \/ recorders[t] = None /\ recorders'[t] = made(t)
      BY <2>2 DEF ForkBegin, IInv, CPTyped, Caches
    <3> QED
      BY <2>1, <2>2, <3>1, StrictSame DEF ForkBegin
  <2>3. ASSUME UNCHANGED cpvars PROVE UNCHANGED S!vars
    BY <2>1, <2>3 DEF cpvars, ledger, fail_closed, strict_for
  <2>4. CASE ForkPut
    BY <2>4, PutType, InnerPutRefines, ForkerAssumption DEF IInv, S!Next
  <2>5. CASE ForkWrite
    BY <2>5, WriteType, InnerPutWritesRefines, ForkerAssumption DEF IInv, S!Next
  <2>6. CASE ForkFail
    BY <2>3, <2>6, InnerFailRefines, ForkerAssumption DEF ForkFail, S!Next
  <2>7. CASE ForkLog
    BY <2>1, <2>7 DEF ForkLog, fail_closed, strict_for
  <2>8. CASE ForkRead
    BY <2>3, <2>8 DEF ForkRead
  <2>9. CASE ForkReadFail
    BY <2>1, <2>9, ReadFails DEF saver, fail_closed, strict_for
  <2> QED
    BY <1>4, <2>2, <2>4, <2>5, <2>6, <2>7, <2>8, <2>9 DEF ForkStep, ForkBody
<1>5. CASE UNCHANGED vars
  BY <1>5 DEF vars, cpvars, saver, ledger, S!vars, strict_for
<1> QED
  BY <1>1, <1>2, <1>3, <1>4, <1>5 DEF Next

LEMMA RefinementInit == Init => S!Init
<1> SUFFICES ASSUME Init PROVE S!Init
  OBVIOUS
<1>1. wrapped_status = [c \in Callers |-> "idle"]
  BY DEF Init, CPInit, wrapped_status
<1>2. fail_closed \in BOOLEAN
  BY DEF fail_closed
<1> QED
  BY <1>1, <1>2 DEF Init, CPInit, S!Init, wrapped_status, fail_closed

\* To its callers the tracing saver is the saver it wraps, with fork_thread as one
\* of them: whatever fails in the tracing, a call has the effect of the inner saver
\* and is refused after it only behind a strict recorder (put, put_writes, aput,
\* aput_writes).  The assumption leaves out the one known exception, a recorder
\* that cannot be constructed twice (_raise_if_strict).
THEOREM Transparency ==
  ASSUME "handler" \notin ConstructorFaults
  PROVE  Spec => RefinesSaver
<1>1. IInv /\ [Next]_vars => [S!Next]_(S!vars)
  BY RefinementStep
<1>2. Init => S!Init
  BY RefinementInit
<1> QED
  BY IInvInit, IInvNext, <1>1, <1>2, PTL DEF Spec, RefinesSaver, S!Spec

=============================================================================
