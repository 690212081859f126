---------------------------- MODULE Checkpointer ----------------------------
(***************************************************************************)
(* checkpointer.py: TracingCheckpointSaver passes put, put_writes and      *)
(* delete_thread on to the saver it wraps and records what was stored in   *)
(* the ledger; verify.py: verify_thread compares the two.                  *)
(*                                                                         *)
(* A traced call is three steps, because others may act in between: the    *)
(* inner saver has its effect; the stored checkpoint is read again (after  *)
(* an await, in aput); it is digested and recorded, and the call answers.  *)
(* An append is one step (Recorder shows that it is to an observer) and    *)
(* the log a sequence of events.  Each thing that can raise may do so at   *)
(* any time.                                                               *)
(***************************************************************************)
EXTENDS Naturals, Sequences, FiniteSets

CONSTANTS Threads, Namespaces, Ids, Contents, Objects, Survives, Tasks,
          WriteLists, Callers, None,
          Root,          \* the namespace "" of the top-level graph
          Unhashable,    \* the contents that the serializer raises on
          NoDigest,      \* the digest "" of such a content
          Wrappers,      \* how the application may have set up the wrapper
          ConstructorFaults,  \* where TraceRecorder() may raise: in the "tracing"
                              \* of a call, in the "handler" of its failure
          AppThreads, AppObjects, AppWrites,  \* bounds for TLC: where the application
                              \* runs, the objects and the lists it writes,
          Tampered,           \* what a checkpoint may drift to, by its id,
          MaxTrouble          \* how often one may, or be deleted, or a call raise

Recorders == [log : Threads, enabled : BOOLEAN, strict : BOOLEAN]

ASSUME SaverAssumption ==
  /\ Ids \subseteq Nat \ {0}
  /\ Contents \subseteq Objects
  /\ Survives \in [Objects -> Contents]
  /\ \A o \in Contents : Survives[o] = o
  /\ None \notin Threads \cup Ids \cup Objects \cup Tasks \cup Callers
  /\ \A l \in WriteLists : DOMAIN l = 1..Len(l) /\ Len(l) \in Nat

ASSUME WrapperAssumption ==
  /\ Root \in Namespaces
  /\ Unhashable \subseteq Contents
  /\ NoDigest \notin Ids \X Objects
  /\ Wrappers \subseteq [enabled : BOOLEAN, bound : Recorders \cup {None},
                         opened : [Threads -> Recorders \cup {None}]]
  /\ \A w \in Wrappers, t \in Threads : w.opened[t] # None => w.opened[t].log = t
  /\ ConstructorFaults \subseteq {"tracing", "handler"}
  /\ AppThreads \subseteq Threads /\ AppObjects \subseteq Objects
  /\ AppWrites \subseteq WriteLists
  /\ Tampered \in [Ids -> SUBSET Contents] /\ MaxTrouble \in Nat

VARIABLES store, pending, answer,   \* as in Saver
          call,      \* per caller: its call in progress, or None
          log,       \* per thread: the events of its log
          recorders, \* the cache of recorder_for, per thread
          wrapper,   \* enabled and bound: the wrapper's own state, never changed
          put_history,  \* history: the checkpoints that were put
          answered,     \* history: the traced calls and how they answered
          changed,      \* history: the checkpoints that were deleted or that drifted
          raced,        \* history: those of them whose put was in progress
          faults        \* history: how often the saver or the recorder raised

saver == <<store, pending>>
ledger == <<log, recorders>>
history == <<put_history, answered, changed, raced, faults>>
cpvars == <<saver, answer, call, ledger, wrapper, history>>

\* The recorders somebody needs strictly: then a call may be refused.
strict_for(t) ==
  IF wrapper.bound # None THEN wrapper.bound.strict
  ELSE wrapper.enabled /\ recorders[t] # None /\ recorders[t].strict

S == INSTANCE Saver WITH
       status <- [c \in Callers |-> IF call[c] = None THEN "idle" ELSE "stored"],
       failclosed <- \E t \in Threads : strict_for(t)

\* A traced call: what it was called with, and the checkpoint it has read again.
Calls ==
  [op : {"put"}, thread : Threads, ns : Namespaces, id : Ids, async : BOOLEAN,
   object : Objects, tup : S!Checkpoints \cup {None}, task : {None}, list : {<<>>}]
    \cup [op : {"writes"}, thread : Threads, ns : Namespaces, id : Ids, async : {FALSE},
          object : {None}, tup : {None}, task : Tasks, list : WriteLists]

ASSUME CallAssumption == None \notin Calls \cup S!Checkpoints

CPInit ==
  /\ store = [t \in Threads |-> [id \in Ids |-> None]]
  /\ pending = [t \in Threads |-> [id \in Ids |-> <<>>]]
  /\ answer = [c \in Callers |-> "none"]
  /\ call = [c \in Callers |-> None]
  /\ log = [t \in Threads |-> <<>>]
  /\ \E w \in Wrappers :
       /\ wrapper = [enabled |-> w.enabled, bound |-> w.bound]
       /\ recorders = w.opened
  /\ put_history = {} /\ answered = {} /\ changed = {} /\ raced = {}
  /\ faults = 0

-----------------------------------------------------------------------------
(***************************************************************************)
(* Digests and events.                                                     *)
(***************************************************************************)
\* normalized_checkpoint_digest: what it is a digest of, or "".
digest(id, x) == IF x \in Unhashable THEN NoDigest ELSE <<id, x>>

snapshot(id, cell) ==
  [kind |-> "snapshot", id |-> id, digest |-> digest(id, cell.content),
   parent |-> cell.parent]

checkpoint_writes(id, k, l) == [kind |-> "writes", id |-> id, task |-> k, writes |-> l]

\* The event of the call x, as far as it got.
event(x) ==
  IF x.op = "put" THEN snapshot(x.id, x.tup) ELSE checkpoint_writes(x.id, x.task, x.list)

-----------------------------------------------------------------------------
(***************************************************************************)
(* Which recorder a call uses.                                             *)
(***************************************************************************)
\* recorder_for would construct the recorder of thread t.
constructs(t) == wrapper.bound = None /\ wrapper.enabled /\ recorders[t] = None

made(t) == [log |-> t, enabled |-> TRUE, strict |-> FALSE]

\* _rec_for.
rec_for(t) ==
  IF wrapper.bound # None THEN IF wrapper.bound.enabled THEN wrapper.bound ELSE None
  ELSE IF ~wrapper.enabled THEN None
  ELSE IF recorders[t] # None THEN recorders[t] ELSE made(t)

\* recorder_for keeps the recorder it made.
keep(t) ==
  recorders' = IF constructs(t) THEN [recorders EXCEPT ![t] = made(t)] ELSE recorders

quiet == faults + Cardinality(changed) < MaxTrouble   \* TLC's bound on trouble

\* Something raises.
fault == quiet /\ faults' = faults + 1

cannot_construct(t, where) == where \in ConstructorFaults /\ constructs(t)

-----------------------------------------------------------------------------
(***************************************************************************)
(* A traced call.                                                          *)
(***************************************************************************)
key(x, how) ==
  [op |-> x.op, thread |-> x.thread, id |-> x.id, task |-> x.task, how |-> how]

\* The call of c answers its caller.
leave(c, how) ==
  /\ call' = [call EXCEPT ![c] = None]
  /\ answer' = [answer EXCEPT ![c] = how]
  /\ answered' = answered \cup {key(call[c], how)}

\* A mutant of handle: a strict recorder is not asked for.
handle_soft(c) ==
  leave(c, "returned") /\ keep(call[c].thread) /\ UNCHANGED log

\* A mutant of handle: every failure of the tracing is raised.
handle_hard(c) ==
  leave(c, "raised") /\ keep(call[c].thread) /\ UNCHANGED log

\* The except clause around the tracing, with _raise_if_strict: it makes the
\* recorder again if there is none, which may raise on its own account.
handle(c) ==
  LET t == call[c].thread IN
  /\ \E raises \in IF cannot_construct(t, "handler") THEN BOOLEAN ELSE {FALSE} :
       /\ leave(c, IF raises \/ strict_for(t) THEN "raised" ELSE "returned")
       /\ IF raises THEN UNCHANGED recorders ELSE keep(t)
  /\ UNCHANGED log

\* TraceRecorder.emit of e with r, for the call of c: on record, or lost
\* because r is disabled or the append failed.
emit(c, r, e) ==
  \/ /\ r.enabled
     /\ log' = [log EXCEPT ![r.log] = Append(@, e)]
     /\ leave(c, "returned") /\ keep(call[c].thread)
     /\ UNCHANGED faults
  \/ /\ IF r.enabled THEN fault ELSE UNCHANGED faults
     /\ IF r.strict THEN handle(c)
        ELSE leave(c, "returned") /\ keep(call[c].thread) /\ UNCHANGED log

\* put, aput: the inner saver stores the checkpoint.
InnerPut(c, t, ns, id, o, parent, async) ==
  /\ call[c] = None
  /\ store' = S!stored_put(t, ns, id, o, parent)
  /\ call' = [call EXCEPT ![c] =
       [op |-> "put", thread |-> t, ns |-> ns, id |-> id, async |-> async,
        object |-> o, tup |-> None, task |-> None, list |-> <<>>]]
  /\ answer' = [answer EXCEPT ![c] = "none"]
  /\ put_history' = put_history \cup
       {[thread |-> t, ns |-> ns, id |-> id, content |-> Survives[o]]}
  /\ UNCHANGED <<pending, ledger, wrapper, answered, changed, raced, faults>>

\* put_writes, aput_writes: the inner saver keeps the writes of a task.
InnerPutWrites(c, t, ns, id, k, l) ==
  /\ call[c] = None
  /\ pending' = [pending EXCEPT ![t][id] = S!added(@, k, l)]
  /\ call' = [call EXCEPT ![c] =
       [op |-> "writes", thread |-> t, ns |-> ns, id |-> id, async |-> FALSE,
        object |-> None, tup |-> None, task |-> k, list |-> l]]
  /\ answer' = [answer EXCEPT ![c] = "none"]
  /\ UNCHANGED <<store, ledger, wrapper, history>>

\* The inner saver raises, and so does the wrapper.
InnerFail(c) ==
  /\ call[c] = None
  /\ fault
  /\ answer' = [answer EXCEPT ![c] = "raised"]
  /\ UNCHANGED <<saver, call, ledger, wrapper, put_history, answered, changed, raced>>

\* A mutant of reread: what is recorded is the object that put was handed.
reread_object(c, got) ==
  /\ call' = [call EXCEPT ![c].tup = [got EXCEPT !.content = call[c].object]]
  /\ UNCHANGED <<answer, answered>>

\* The checkpoint as stored is at hand, if it is still there.
reread(c, got) ==
  IF got = None THEN leave(c, "returned")
  ELSE call' = [call EXCEPT ![c].tup = got] /\ UNCHANGED <<answer, answered>>

\* The re-read of put (after it looked for a recorder) and of aput (before).
Reread(c) ==
  /\ call[c] # None /\ call[c].op = "put" /\ call[c].tup = None
  /\ LET x == call[c]  t == x.thread IN
     \/ /\ ~x.async /\ rec_for(t) = None
        /\ leave(c, "returned") /\ UNCHANGED <<ledger, faults>>
     \/ ~x.async /\ cannot_construct(t, "tracing") /\ fault /\ handle(c)
     \/ /\ x.async \/ rec_for(t) # None
        /\ reread(c, S!get_tuple(t, x.ns, x.id))
        /\ IF x.async THEN UNCHANGED recorders ELSE keep(t)
        /\ UNCHANGED <<log, faults>>
     \/ /\ x.async \/ rec_for(t) # None
        /\ fault /\ handle(c)                                      \* get_tuple raised
  /\ UNCHANGED <<saver, wrapper, put_history, changed, raced>>

\* The rest of a put, and the tracing of put_writes.
Trace(c) ==
  /\ call[c] # None /\ (call[c].op = "writes" \/ call[c].tup # None)
  /\ LET t == call[c].thread  r == rec_for(t) IN
     \/ r = None /\ leave(c, "returned") /\ UNCHANGED <<ledger, faults>>
     \/ r # None /\ emit(c, r, event(call[c]))
     \/ cannot_construct(t, "tracing") /\ fault /\ handle(c)
  /\ UNCHANGED <<saver, wrapper, put_history, changed, raced>>

\* The checkpoint at some place is deleted or replaced: a note for the history.
note_change(places) ==
  /\ changed' = changed \cup places
  /\ raced' = raced \cup {p \in places : \E c \in Callers :
                 /\ call[c] # None /\ call[c].op = "put" /\ call[c].tup = None
                 /\ p = <<call[c].thread, call[c].id>>}

\* delete_thread, adelete_thread.
DeleteThread(t) ==
  /\ store' = [store EXCEPT ![t] = [id \in Ids |-> None]]
  /\ pending' = [pending EXCEPT ![t] = [id \in Ids |-> <<>>]]
  /\ note_change({<<t, id>> : id \in {i \in Ids : store[t][i] # None}})
  /\ UNCHANGED <<answer, call, ledger, wrapper, put_history, answered, faults>>

\* The stored checkpoint is changed, not through the wrapper.
Drift(t, id, x) ==
  /\ store[t][id] # None /\ store[t][id].content # x
  /\ store' = [store EXCEPT ![t][id].content = x]
  /\ note_change({<<t, id>>})
  /\ UNCHANGED <<pending, answer, call, ledger, wrapper, put_history, answered, faults>>

-----------------------------------------------------------------------------
(***************************************************************************)
(* The application: a run of the graph on thread t.                        *)
(***************************************************************************)
\* LangGraph gives a checkpoint a new id, greater than all others.
fresh == Cardinality({p.id : p \in put_history}) + 1

\* The parent of a new checkpoint is the latest one, or an earlier one after
\* time_travel_config.  The first checkpoint is one of the top-level graph.
AppPut(c, t) ==
  /\ fresh \in Ids
  /\ \E ns \in IF S!ids(t, Root) = {} THEN {Root} ELSE Namespaces,
        o \in AppObjects, async \in BOOLEAN :
       \E parent \in IF S!ids(t, ns) = {} THEN {None} ELSE S!ids(t, ns) :
         InnerPut(c, t, ns, fresh, o, parent, async)

\* A task writes once to the latest checkpoint (TLC's bound on writes).
AppPutWrites(c, t) ==
  \E ns \in Namespaces, k \in Tasks, l \in AppWrites :
    \E id \in S!ids(t, ns) :
      /\ \A m \in DOMAIN pending[t][id] : pending[t][id][m].task # k
      /\ InnerPutWrites(c, t, ns, id, k, l)

CPStep(c) ==
  \/ \E t \in AppThreads : AppPut(c, t) \/ AppPutWrites(c, t)
  \/ InnerFail(c)

CPTracing(c) == Reread(c) \/ Trace(c)

CPEnvironment ==
  /\ quiet
  /\ \E t \in Threads :
       DeleteThread(t) \/ \E id \in Ids : \E x \in Tampered[id] : Drift(t, id, x)

-----------------------------------------------------------------------------
(***************************************************************************)
(* verify_thread, on a log whose chain verify_log accepts.                 *)
(***************************************************************************)
\* A mutant of problem: a checkpoint that is gone is passed over.
problem_lenient(t, ns, e) ==
  LET cell == S!get_tuple(t, ns, e.id) IN
  IF cell # None /\ digest(e.id, cell.content) # e.digest THEN "drifted" ELSE "none"

\* What is wrong with the checkpoint that the snapshot e claims.
problem(t, ns, e) ==
  LET cell == S!get_tuple(t, ns, e.id) IN
  CASE cell = None -> "missing"
    [] cell # None /\ cell.content \in Unhashable -> "unhashable"
    [] OTHER -> IF digest(e.id, cell.content) = e.digest THEN "none" ELSE "drifted"

\* The errors of verify_thread, by the id of the checkpoint.
verify_thread(t, ns) ==
  {e.id : e \in {f \in {log[t][n] : n \in DOMAIN log[t]} :
                   /\ f.kind = "snapshot" /\ f.digest # NoDigest
                   /\ problem(t, ns, f) # "none"}}
=============================================================================
