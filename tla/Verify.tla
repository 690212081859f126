------------------------------- MODULE Verify -------------------------------
(***************************************************************************)
(* verify.py: verify_log reads a log file line by line, and chain_head     *)
(* gives the value to keep outside of it.                                  *)
(*                                                                         *)
(* A log is recorded under write_key, its head is anchored, the file is    *)
(* edited by somebody else (lines deleted, swapped, duplicated, modified,  *)
(* torn, or everything behind a line rewritten and chained again), and     *)
(* verify_log runs on the result with hmac_key.                            *)
(***************************************************************************)
EXTENDS Chain, FiniteSets

CONSTANTS Starts, Ends,   \* the contents of kind run/start and run/end
          Unsupported,    \* the contents whose v is not FORMAT_VERSION
          EditKeys,       \* the keys known to who edits the file
          MaxEvents, MaxEdits                          \* bounds for TLC

ASSUME KindsAssumption ==
  /\ Starts \subseteq Contents /\ Ends \subseteq Contents
  /\ Starts \cap Ends = {}
  /\ Unsupported \subseteq Contents
  /\ EditKeys \subseteq Keys
  /\ MaxEvents \in Nat /\ MaxEdits \in Nat

VARIABLES
  write_key,   \* the key of the recorder
  honest,      \* the log as recorded
  file,        \* the log file
  edits,       \* how many edits were made to the file
  phase,       \* "record", "edit", "loop" or "done"
  hmac_key,    \* the key verify_log is given
  i,           \* the line verify_log is at
  expected_seq, expected_prev, run_open_at, first_id_mismatch_at, errors, ok

log == <<write_key, honest>>
loop == <<i, expected_seq, expected_prev, run_open_at, first_id_mismatch_at, errors>>
vars == <<log, file, edits, phase, hmac_key, loop, ok>>

\* No line number: the None of run_open_at and first_id_mismatch_at.
NoLine == -1

Init ==
  /\ write_key \in Keys
  /\ honest = <<>> /\ file = <<>>
  /\ edits = 0
  /\ phase = "record"
  /\ hmac_key \in Keys
  /\ i = 1
  /\ expected_seq = 0 /\ expected_prev = GENESIS_PREV
  /\ run_open_at = NoLine /\ first_id_mismatch_at = NoLine
  /\ errors = {} /\ ok = FALSE

-----------------------------------------------------------------------------
\* The recorder appends the next event.
Record(c) ==
  /\ phase = "record" /\ Len(honest) < MaxEvents
  /\ honest' = Append(honest, checked_envelope(Len(honest), c,
                                head_id(honest, Len(honest)), write_key))
  /\ UNCHANGED <<write_key, file, edits, phase, hmac_key, loop, ok>>

\* Recording is over; the file holds the log.
Close ==
  /\ phase = "record"
  /\ phase' = "edit"
  /\ file' = honest
  /\ UNCHANGED <<log, edits, hmac_key, loop, ok>>

\* chain_head of a log that parses: the position and id of its last event.
chain_head(ls) ==
  IF ls = <<>> THEN [seq |-> -1, id |-> GENESIS_PREV]
  ELSE [seq |-> ls[Len(ls)].seq, id |-> ls[Len(ls)].id]

-----------------------------------------------------------------------------
(***************************************************************************)
(* Edits of the file.                                                      *)
(***************************************************************************)
without(ls, k) == SubSeq(ls, 1, k - 1) \o SubSeq(ls, k + 1, Len(ls))

\* The first k lines, and behind them the contents cs chained on under key.
rechained(ls, k, cs, key) ==
  LET link(m) == [seq |-> k + m - 1, content |-> cs[m], key |-> key]
      hist(m) == head_id(ls, k) \o [n \in 1..m |-> link(n)]
  IN  SubSeq(ls, 1, k)
        \o [m \in 1..Len(cs) |-> [seq |-> k + m - 1, content |-> cs[m],
                                  prev |-> hist(m - 1), id |-> hist(m)]]

Delete == \E k \in 1..Len(file) : file' = without(file, k)

Swap ==
  \E k, m \in 1..Len(file) :
    k < m /\ file' = [file EXCEPT ![k] = file[m], ![m] = file[k]]

Duplicate ==
  \E k \in 1..Len(file) :
    file' = SubSeq(file, 1, k) \o SubSeq(file, k, Len(file))

Tear == \E k \in 1..Len(file) : file' = [file EXCEPT ![k] = Torn]

\* Another content in a line, with or without a fresh id for that line.
Modify ==
  \E k \in 1..Len(file), c \in Contents :
    /\ file[k] # Torn
    /\ \/ file' = [file EXCEPT ![k].content = c]
       \/ \E key \in EditKeys :
            file' = [file EXCEPT ![k].content = c,
                                 ![k].id = event_id(file[k].seq, c, file[k].prev, key)]

\* The log is rewritten from some line on, as a valid chain.
Rechain ==
  \E k \in 0..Len(file), n \in 1..MaxEvents, key \in EditKeys :
    /\ Parses(file, k)
    /\ \E cs \in [1..n -> Contents] : file' = rechained(file, k, cs, key)

Edit ==
  /\ phase = "edit" /\ edits < MaxEdits
  /\ Delete \/ Swap \/ Duplicate \/ Tear \/ Modify \/ Rechain
  /\ Len(file') <= MaxEvents
  /\ edits' = edits + 1
  /\ UNCHANGED <<log, phase, hmac_key, loop, ok>>

-----------------------------------------------------------------------------
(***************************************************************************)
(* verify_log.                                                             *)
(***************************************************************************)
report(what) == [at |-> i, what |-> what]

\* list(read_log(path)) raises, or the loop begins.
Read ==
  /\ phase = "edit"
  /\ IF Readable(file)
       THEN phase' = "loop" /\ UNCHANGED errors
       ELSE phase' = "done" /\ errors' = {report("unreadable")}
  /\ UNCHANGED <<log, file, edits, hmac_key, i, expected_seq, expected_prev,
                 run_open_at, first_id_mismatch_at, ok>>

\* A mutant of line_errors: the prev link is not compared.
line_errors_noprev(e) ==
  IF e.seq # expected_seq THEN {report("seq")}
  ELSE IF e.id # event_id(e.seq, e.content, e.prev, hmac_key) THEN {report("id")}
  ELSE {}

\* A mutant of line_errors: the id is not recomputed.
line_errors_noid(e) ==
  (IF e.seq # expected_seq THEN {report("seq")} ELSE {})
    \cup (IF e.prev # expected_prev THEN {report("prev")} ELSE {})

\* The errors verify_log reports for the line it is at.
line_errors(e) ==
  (IF e.content \in Unsupported THEN {report("version")} ELSE {})
    \cup (IF e.seq # expected_seq THEN {report("seq")} ELSE {})
    \cup (IF e.prev # expected_prev THEN {report("prev")} ELSE {})
    \cup (IF e.id # event_id(e.seq, e.content, e.prev, hmac_key)
            THEN {report("id")} ELSE {})

\* A mutant of CheckLine: a run/end does not close the bracket.
CheckLine_noend ==
  /\ phase = "loop" /\ i <= Len(file)
  /\ LET e == file[i] IN
     /\ errors' = errors \cup line_errors(e)
     /\ expected_seq' = e.seq + 1
     /\ expected_prev' = e.id
     /\ run_open_at' = IF e.content \in Starts THEN e.seq ELSE run_open_at
     /\ first_id_mismatch_at' = first_id_mismatch_at
     /\ i' = i + 1
  /\ UNCHANGED <<log, file, edits, phase, hmac_key, ok>>

\* A mutant of CheckLine: the seq expected next is not advanced past this one.
CheckLine_sameseq ==
  /\ phase = "loop" /\ i <= Len(file)
  /\ LET e == file[i] IN
     /\ errors' = errors \cup line_errors(e)
     /\ expected_seq' = e.seq
     /\ expected_prev' = e.id
     /\ UNCHANGED <<run_open_at, first_id_mismatch_at>>
     /\ i' = i + 1
  /\ UNCHANGED <<log, file, edits, phase, hmac_key, ok>>

\* One turn of the loop.
CheckLine ==
  /\ phase = "loop" /\ i <= Len(file)
  /\ LET e == file[i] IN
     /\ errors' = errors \cup line_errors(e)
     /\ expected_seq' = e.seq + 1
     /\ expected_prev' = e.id
     /\ run_open_at' = IF e.content \in Starts THEN e.seq
                       ELSE IF e.content \in Ends THEN NoLine ELSE run_open_at
     /\ first_id_mismatch_at' =
          IF report("id") \in line_errors(e) /\ first_id_mismatch_at = NoLine
            THEN e.seq ELSE first_id_mismatch_at
     /\ i' = i + 1
  /\ UNCHANGED <<log, file, edits, phase, hmac_key, ok>>

\* After the loop: the key hint, the open run, the verdict.
Conclude ==
  /\ phase = "loop" /\ i > Len(file)
  /\ phase' = "done"
  /\ errors' = errors
       \cup (IF first_id_mismatch_at = 0 THEN {report("key")} ELSE {})
       \cup (IF run_open_at # NoLine THEN {report("open run")} ELSE {})
  /\ ok' = (errors' = {})
  /\ UNCHANGED <<log, file, edits, hmac_key, i, expected_seq, expected_prev,
                 run_open_at, first_id_mismatch_at>>

Next ==
  \/ \E c \in Contents \ Unsupported : Record(c)
  \/ Close
  \/ Edit
  \/ Read
  \/ CheckLine
  \/ Conclude

Spec == Init /\ [][Next]_vars

-----------------------------------------------------------------------------
(***************************************************************************)
(* Properties.                                                             *)
(***************************************************************************)
\* The wordings of an entry of the report.
ErrorKinds == {"unreadable", "version", "seq", "prev", "id", "key", "open run"}

\* The types of the variables.
TypeOK ==
  /\ write_key \in Keys /\ hmac_key \in Keys
  /\ honest \in Seq(Envelope) /\ file \in Seq(Line)
  /\ edits \in Nat
  /\ phase \in {"record", "edit", "loop", "done"}
  /\ i \in Nat \ {0}
  /\ expected_seq \in Nat /\ expected_prev \in Digest
  /\ run_open_at \in Nat \cup {NoLine} /\ first_id_mismatch_at \in Nat \cup {NoLine}
  /\ \A x \in errors : x.what \in ErrorKinds
  /\ ok \in BOOLEAN

\* chain_head's docstring: "given the head, any deletion, reorder or edit of
\* any line is detectable".  A file that verifies and has the anchored head is
\* the log as recorded, even if it was chained again under the right key.
EditDetected ==
  phase = "done" /\ ok /\ hmac_key = write_key
    /\ chain_head(file) = chain_head(honest) => file = honest

\* A keyed log needs no anchor: whoever does not know the key can only cut
\* lines off its end.
KeyedLogOnlyTruncated ==
  phase = "done" /\ ok /\ hmac_key = write_key /\ write_key \notin EditKeys =>
    Len(file) <= Len(honest) /\ file = SubSeq(honest, 1, Len(file))

\* The last run of a log is not closed.
LastRunOpen(ls) ==
  \E k \in 1..Len(ls) :
    ls[k].content \in Starts /\ \A m \in k..Len(ls) : ls[m].content \notin Ends

\* A log that nobody touched fails only for what it says itself: a last run
\* without an end.
NoFalseAlarm ==
  phase = "done" /\ file = honest /\ hmac_key = write_key => ok = ~LastRunOpen(honest)

\* "Both directions of a mismatch fail closed": under another key no log with
\* an event in it verifies.
WrongKeyFails ==
  phase = "done" /\ file = honest /\ hmac_key # write_key /\ honest # <<>> => ~ok

\* A chain error never blames a line before the first one that was edited.
BlameNotEarlier ==
  hmac_key = write_key =>
    \A x \in errors : x.what \in {"version", "seq", "prev", "id"} =>
      x.at > Len(honest) \/ SubSeq(file, 1, x.at) # SubSeq(honest, 1, x.at)

\* The hint about a wrong key says "every id mismatches from genesis".
HintMeansEveryId ==
  phase = "done" /\ (\E x \in errors : x.what = "key") =>
    \A k \in 1..Len(file) : [at |-> k, what |-> "id"] \in errors
=============================================================================
