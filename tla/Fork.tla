-------------------------------- MODULE Fork --------------------------------
(***************************************************************************)
(* rollback.py on top of Checkpointer: fork_thread copies the ancestry of  *)
(* a checkpoint of one thread into a new thread, through the tracing       *)
(* checkpointer, while the application goes on using both threads.  The    *)
(* checkpoint to fork at is the latest one, or the one that                *)
(* find_checkpoint_by_label finds for a recorded label.                    *)
(*                                                                         *)
(* _ancestry follows metadata["parents"] or else the parent link of the    *)
(* checkpoint; a checkpoint here has one link for both.                    *)
(***************************************************************************)
EXTENDS Checkpointer

CONSTANT Forker   \* the caller that runs fork_thread

\* fork_thread writes one channel at a time.
ASSUME ForkerAssumption ==
  /\ Forker \in Callers
  /\ \A x \in S!Channels : <<x>> \in WriteLists

VARIABLE fork     \* the progress of fork_thread

vars == <<cpvars, fork>>

Init == CPInit /\ fork = [phase |-> "idle"]

-----------------------------------------------------------------------------
\* find_checkpoint_by_label: the first snapshot on record with this label, if any.
find_checkpoint_by_label(t, label) ==
  LET hits == {n \in DOMAIN log[t] : /\ log[t][n].kind = "snapshot"
                                     /\ log[t][n].digest = label}
  IN  {log[t][n].id : n \in {m \in hits : \A k \in hits : m <= k}}

labels(t) == {e.digest : e \in {f \in {log[t][n] : n \in DOMAIN log[t]} : f.kind = "snapshot"}}

latest(t, ns) == {id \in S!ids(t, ns) : \A j \in S!ids(t, ns) : j <= id}

\* fork_thread finds the checkpoint to fork at.  The new thread is one nobody
\* used.  Its recorder, if one is passed, is that of recorder_for.
ForkBegin(src, child, ns, logged) ==
  /\ fork.phase \in {"idle", "done"}
  /\ src # child /\ \A p \in put_history : p.thread # child
  /\ \E at \in latest(src, ns)
                 \cup UNION {find_checkpoint_by_label(src, x) : x \in labels(src)} :
       fork' = [phase |-> "read", src |-> src, child |-> child, ns |-> ns, at |-> at,
                logged |-> logged, current |-> at, chain |-> <<>>, n |-> 0, w |-> 0]
  /\ recorders' = IF logged /\ recorders[child] = None
                    THEN [recorders EXCEPT ![child] = made(child)] ELSE recorders
  /\ UNCHANGED <<saver, answer, call, log, wrapper, history>>

\* A mutant of ForkRead: the chain is not turned around.
ForkRead_newest ==
  /\ fork.phase = "read"
  /\ LET got == S!get_tuple(fork.src, fork.ns, fork.current)
         tuple == [id |-> fork.current, cell |-> got,
                   writes |-> pending[fork.src][fork.current]]
         chain == IF got = None THEN fork.chain ELSE fork.chain \o <<tuple>>
         next == IF got = None THEN None ELSE got.parent
     IN fork' = [fork EXCEPT !.chain = chain, !.current = next,
                   !.phase = IF next # None THEN "read"
                             ELSE IF chain = <<>> THEN "raised" ELSE "copy"]
  /\ UNCHANGED cpvars

\* A mutant of ForkRead: the loop does not move on.
ForkRead_stuck ==
  /\ fork.phase = "read"
  /\ LET got == S!get_tuple(fork.src, fork.ns, fork.current) IN
     fork' = [fork EXCEPT !.phase = IF got = None THEN "raised" ELSE "read"]
  /\ UNCHANGED cpvars

\* One turn of the loop of _ancestry, and what follows the last one.
ForkRead ==
  /\ fork.phase = "read"
  /\ LET got == S!get_tuple(fork.src, fork.ns, fork.current)
         tuple == [id |-> fork.current, cell |-> got,
                   writes |-> pending[fork.src][fork.current]]
         chain == IF got = None THEN fork.chain ELSE <<tuple>> \o fork.chain
         next == IF got = None THEN None ELSE got.parent
     IN fork' = [fork EXCEPT !.chain = chain, !.current = next,
                   !.phase = IF next # None THEN "read"
                             ELSE IF chain = <<>> THEN "raised" ELSE "copy"]
  /\ UNCHANGED cpvars

\* The saver raises instead: so does fork_thread, and nothing was copied.
ForkReadFail ==
  /\ fork.phase = "read" /\ fault
  /\ fork' = [fork EXCEPT !.phase = "raised"]
  /\ UNCHANGED <<saver, answer, call, ledger, wrapper,
                 put_history, answered, changed, raced>>

-----------------------------------------------------------------------------
(***************************************************************************)
(* The copy: fork.n checkpoints were put, and fork.w pending writes of the *)
(* last of them.                                                           *)
(***************************************************************************)
copying == /\ fork.phase = "copy"
           /\ call[Forker] = None /\ answer[Forker] # "raised"

written == IF fork.n = 0 THEN TRUE ELSE fork.w = Len(fork.chain[fork.n].writes)

\* A mutant of ForkPut: newest first, with the parent of the original.
ForkPut_newest ==
  /\ copying /\ written /\ fork.n < Len(fork.chain)
  /\ LET x == fork.chain[Len(fork.chain) - fork.n] IN
     InnerPut(Forker, fork.child, fork.ns, x.id, x.cell.content, x.cell.parent, FALSE)
  /\ fork' = [fork EXCEPT !.n = @ + 1, !.w = Len(fork.chain[fork.n + 1].writes)]

\* The next checkpoint goes behind the one before it.
ForkPut ==
  /\ copying /\ written /\ fork.n < Len(fork.chain)
  /\ LET x == fork.chain[fork.n + 1] IN
     InnerPut(Forker, fork.child, fork.ns, x.id, x.cell.content,
              IF fork.n = 0 THEN None ELSE fork.chain[fork.n].id, FALSE)
  /\ fork' = [fork EXCEPT !.n = @ + 1, !.w = 0]

\* One pending write is one put_writes with one channel.
ForkWrite ==
  /\ copying /\ ~written
  /\ LET x == fork.chain[fork.n]  write == x.writes[fork.w + 1] IN
     InnerPutWrites(Forker, fork.child, fork.ns, x.id, write.task, <<write.chan>>)
  /\ fork' = [fork EXCEPT !.w = @ + 1]

\* The saver raises, or the wrapper raised: so does fork_thread.
ForkFail ==
  \/ copying /\ InnerFail(Forker) /\ fork' = [fork EXCEPT !.phase = "raised"]
  \/ /\ fork.phase = "copy"
     /\ call[Forker] = None /\ answer[Forker] = "raised"
     /\ fork' = [fork EXCEPT !.phase = "raised"]
     /\ UNCHANGED cpvars

fork_event == [kind |-> "fork", from |-> fork.src, id |-> fork.at,
               seeds |-> Len(fork.chain), child |-> fork.child]

\* The lineage is recorded, if a recorder was passed, and fork_thread returns.
ForkLog ==
  /\ copying /\ written /\ fork.n = Len(fork.chain)
  /\ LET r == recorders[fork.child] IN
     \/ /\ fork.logged /\ r.enabled
        /\ log' = [log EXCEPT ![r.log] = Append(@, fork_event)]
        /\ fork' = [fork EXCEPT !.phase = "done"]
        /\ UNCHANGED faults
     \/ /\ fork.logged /\ r.enabled /\ fault    \* the append failed
        /\ fork' = [fork EXCEPT !.phase = IF r.strict THEN "raised" ELSE "done"]
        /\ UNCHANGED log
     \/ /\ fork.logged => ~r.enabled
        /\ fork' = [fork EXCEPT !.phase = "done"]
        /\ UNCHANGED <<log, faults>>
  /\ UNCHANGED <<saver, answer, call, recorders, wrapper,
                 put_history, answered, changed, raced>>

ForkBody ==
  ForkRead \/ ForkReadFail \/ ForkPut \/ ForkWrite \/ ForkFail \/ ForkLog

ForkStep ==
  \/ \E src, child \in Threads, ns \in Namespaces, logged \in BOOLEAN :
       ForkBegin(src, child, ns, logged)
  \/ ForkBody

Next ==
  \/ \E c \in Callers \ {Forker} : CPStep(c) /\ UNCHANGED fork
  \/ \E c \in Callers : CPTracing(c) /\ UNCHANGED fork
  \/ CPEnvironment /\ UNCHANGED fork
  \/ ForkStep

Spec == Init /\ [][Next]_vars

\* fork_thread and the calls it makes run on; no step of them waits for others.
FairSpec ==
  /\ Spec
  /\ WF_vars(ForkBody)
  /\ WF_vars(CPTracing(Forker) /\ UNCHANGED fork)

-----------------------------------------------------------------------------
(***************************************************************************)
(* Properties.                                                             *)
(***************************************************************************)
Events ==
  [kind : {"snapshot"}, id : Ids, digest : (Ids \X Contents) \cup {NoDigest},
   parent : Ids \cup {None}]
    \cup [kind : {"writes"}, id : Ids, task : Tasks, writes : WriteLists]
    \cup [kind : {"fork"}, from : Threads, id : Ids, seeds : Nat \ {0}, child : Threads]

Tuples == [id : Ids, cell : S!Checkpoints, writes : Seq(S!Write)]

Forks ==
  [phase : {"idle"}]
    \cup [phase : {"read", "copy", "done", "raised"}, src : Threads, child : Threads,
          ns : Namespaces, at : Ids, logged : BOOLEAN, current : Ids \cup {None},
          chain : Seq(Tuples), n : Nat, w : Nat]

\* The types of the variables.
TypeOK ==
  /\ store \in [Threads -> [Ids -> S!Checkpoints \cup {None}]]
  /\ pending \in [Threads -> [Ids -> Seq(S!Write)]]
  /\ answer \in [Callers -> {"none", "returned", "raised"}]
  /\ call \in [Callers -> Calls \cup {None}]
  /\ log \in [Threads -> Seq(Events)]
  /\ recorders \in [Threads -> Recorders \cup {None}]
  /\ raced \subseteq changed /\ changed \subseteq Threads \X Ids
  /\ fork \in Forks

\* "Behavioral contract of the wrapped saver is preserved exactly": to its
\* callers the wrapper is the saver it wraps; a trace failure reaches them only
\* when a recorder is strict.
RefinesSaver == S!Spec

\* "Trace failures are fail-soft and never reach the caller": a call raises
\* only behind a strict recorder, or when the saver itself did.
SoftNeverRaises ==
  \A x \in answered : x.how = "raised" => strict_for(x.thread)

\* The recorder that calls for thread t write to is strict and enabled.
enforced(t) ==
  rec_for(t) # None /\ rec_for(t).enabled /\ rec_for(t).strict

\* "A run that cannot record must not proceed": behind a strict recorder a put
\* or put_writes that returned is on record, unless its checkpoint was deleted
\* or replaced before it was read again.
StrictRecordsAll ==
  \A x \in answered :
    x.how = "returned" /\ enforced(x.thread) /\ <<x.thread, x.id>> \notin raced =>
      \E n \in DOMAIN log[rec_for(x.thread).log] :
        LET e == log[rec_for(x.thread).log][n] IN
        CASE x.op = "put" -> e.kind = "snapshot" /\ e.id = x.id
          [] x.op = "writes" -> e.kind = "writes" /\ e.id = x.id /\ e.task = x.task

\* Log t is about the top-level graph of thread t and nothing else.
OwnLog(t) ==
  \A p \in put_history :
    /\ p.thread = t => p.ns = Root
    /\ wrapper.bound # None /\ wrapper.bound.log = t => p.thread = t

\* "state drift is caught": verify_thread complains about a checkpoint on record
\* exactly if the saver no longer holds what was put under its id.
VerifyExact ==
  \A t \in Threads : OwnLog(t) =>
    \A p \in put_history :
      /\ p.thread = t /\ <<t, p.id>> \notin raced /\ p.content \notin Unhashable
      /\ \E n \in DOMAIN log[t] : log[t][n].kind = "snapshot" /\ log[t][n].id = p.id
      => (p.id \in verify_thread(t, Root)
            <=> (store[t][p.id] = None \/ store[t][p.id].content # p.content))

\* The first write of every task among ws.
firsts(ws) == {ws[m] : m \in {j \in DOMAIN ws : ws[j].idx = 1}}

\* The checkpoints that were read, and the ones that their parent links name.
lineage == UNION {{fork.chain[n].id, fork.chain[n].cell.parent} : n \in DOMAIN fork.chain}

\* After a fork the new thread has the lineage of the checkpoint back to the first
\* one, each equal to the original, unless a checkpoint of the lineage was deleted
\* or changed.  Of the pending writes of a task the first is there: each is copied
\* by a put_writes of its own, so all of them go to the position of the first.
ForkFaithful ==
  fork.phase = "done" /\ ({fork.src, fork.child} \X lineage) \cap changed = {} =>
    /\ fork.chain[Len(fork.chain)].id = fork.at
    /\ store[fork.src][fork.chain[1].id].parent = None
    /\ \A n \in DOMAIN fork.chain :
         LET id == fork.chain[n].id IN
         /\ store[fork.child][id] = store[fork.src][id]
         /\ firsts(fork.chain[n].writes) \subseteq firsts(pending[fork.child][id])

\* "Copies the ancestry chain (checkpoints + their pending writes) into the new
\* thread": after a fork every pending write that was read is in the new thread,
\* unless a checkpoint of the lineage was deleted or changed.
PendingWritesCopied ==
  fork.phase = "done" /\ ({fork.src, fork.child} \X lineage) \cap changed = {} =>
    \A n \in DOMAIN fork.chain :
      LET x == fork.chain[n]  copied == pending[fork.child][x.id] IN
      \A m \in DOMAIN x.writes : \E k \in DOMAIN copied :
        copied[k].task = x.writes[m].task /\ copied[k].chan = x.writes[m].chan

\* A copy that is broken off (an exception, the death of the process) leaves a
\* thread to go on from: no checkpoint without its parent.
ParentClosed ==
  \A t \in Threads, id \in Ids :
    store[t][id] # None /\ store[t][id].parent # None =>
      \/ store[t][store[t][id].parent] # None
      \/ <<t, store[t][id].parent>> \in changed

\* fork_thread ends: the parent links it follows lead to a checkpoint without
\* one, or to one that is gone, and every call of it answers.
ForkEnds == fork.phase = "read" ~> fork.phase \in {"done", "raised"}
=============================================================================
