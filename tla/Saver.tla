------------------------------- MODULE Saver -------------------------------
(***************************************************************************)
(* A LangGraph checkpointer as its callers see it: the saver that          *)
(* TracingCheckpointSaver wraps and promises to behave like.  A call has   *)
(* its effect on the store in one step and answers in a later one.         *)
(*                                                                         *)
(* A checkpoint is read back as it survives serialization (Survives).  The *)
(* pending writes of a checkpoint are keyed by task and position, as in    *)
(* InMemorySaver: a second write under a key is ignored.                   *)
(***************************************************************************)
EXTENDS Naturals, Sequences, FiniteSets

CONSTANTS Threads, Namespaces,
          Ids,                 \* checkpoint ids, in the order they are created
          Contents,            \* what a stored checkpoint can hold
          Objects, Survives,   \* what put is handed, and what is left of it
          Tasks, WriteLists,   \* tasks, and the channels one of them writes
          Callers, None

VARIABLES store,      \* per thread and id: a checkpoint, or None
          pending,    \* per thread and id: the pending writes
          status,     \* per caller: "idle", or "stored" until the call answers
          answer,     \* per caller: how its last call ended, "none" during a call
          failclosed  \* a caller may be refused after its effect

vars == <<store, pending, status, answer, failclosed>>

Checkpoints == [ns : Namespaces, content : Contents, parent : Ids \cup {None}]

Channels == UNION {{l[n] : n \in DOMAIN l} : l \in WriteLists}

Write == [task : Tasks, idx : Nat, chan : Channels]

\* get_tuple of one checkpoint.
get_tuple(t, ns, id) ==
  IF store[t][id] # None /\ store[t][id].ns = ns THEN store[t][id] ELSE None

\* The ids of a thread and namespace; the greatest one is the latest.
ids(t, ns) == {id \in Ids : get_tuple(t, ns, id) # None}

stored_put(t, ns, id, o, parent) ==
  [store EXCEPT ![t][id] = [ns |-> ns, content |-> Survives[o], parent |-> parent]]

\* The pending writes ws after task k also wrote the channels of the list l:
\* the positions it had written before, an initial segment, stay as they are.
added(ws, k, l) ==
  LET had == Cardinality({m \in DOMAIN ws : ws[m].task = k}) IN
  ws \o [n \in 1..(Len(l) - had) |->
          [task |-> k, idx |-> had + n, chan |-> l[had + n]]]

Init ==
  /\ store = [t \in Threads |-> [id \in Ids |-> None]]
  /\ pending = [t \in Threads |-> [id \in Ids |-> <<>>]]
  /\ status = [c \in Callers |-> "idle"]
  /\ answer = [c \in Callers |-> "none"]
  /\ failclosed \in BOOLEAN

-----------------------------------------------------------------------------
Put(t, ns, id, o, parent) ==
  store' = stored_put(t, ns, id, o, parent) /\ UNCHANGED pending

PutWrites(t, id, k, l) ==
  pending' = [pending EXCEPT ![t][id] = added(@, k, l)] /\ UNCHANGED store

\* A call has its effect.
Call(c) ==
  /\ status[c] = "idle"
  /\ status' = [status EXCEPT ![c] = "stored"]
  /\ answer' = [answer EXCEPT ![c] = "none"]
  /\ \E t \in Threads, id \in Ids :
       \/ \E ns \in Namespaces, o \in Objects, parent \in Ids \cup {None} :
            Put(t, ns, id, o, parent)
       \/ \E k \in Tasks, l \in WriteLists : PutWrites(t, id, k, l)
  /\ UNCHANGED failclosed

\* The saver itself fails: an exception and no effect.
Fail(c) ==
  /\ status[c] = "idle"
  /\ answer' = [answer EXCEPT ![c] = "raised"]
  /\ UNCHANGED <<store, pending, status, failclosed>>

Answer(c, how) ==
  /\ status[c] = "stored"
  /\ how = "raised" => failclosed
  /\ answer' = [answer EXCEPT ![c] = how]
  /\ status' = [status EXCEPT ![c] = "idle"]
  /\ UNCHANGED <<store, pending, failclosed>>

DeleteThread(t) ==
  /\ store' = [store EXCEPT ![t] = [id \in Ids |-> None]]
  /\ pending' = [pending EXCEPT ![t] = [id \in Ids |-> <<>>]]
  /\ UNCHANGED <<status, answer, failclosed>>

\* Somebody changes a stored checkpoint behind the callers' backs.
Drift(t, id, x) ==
  /\ store[t][id] # None
  /\ store' = [store EXCEPT ![t][id].content = x]
  /\ UNCHANGED <<pending, status, answer, failclosed>>

Next ==
  \/ \E c \in Callers :
       Call(c) \/ Fail(c) \/ \E how \in {"returned", "raised"} : Answer(c, how)
  \/ \E t \in Threads :
       DeleteThread(t) \/ \E id \in Ids, x \in Contents : Drift(t, id, x)

Spec == Init /\ [][Next]_vars
=============================================================================
