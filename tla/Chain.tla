------------------------------- MODULE Chain -------------------------------
(***************************************************************************)
(* The hash chain of one ledger log: what hashing.py computes and what the *)
(* JSONL lines of recorder.py carry.                                       *)
(*                                                                         *)
(* An event id is a SHA-256 (or an HMAC-SHA256) over the position, the     *)
(* content and the id of the previous event.  Collisions are left out: an  *)
(* id is represented by the history it hashes, the sequence of all links   *)
(* up to and including this event, so two ids are equal exactly when their *)
(* histories are.  A "content" stands for the hashed fields that no        *)
(* property tells apart: version, timestamp, kind and payload.             *)
(***************************************************************************)
EXTENDS Integers, Sequences

CONSTANTS Contents,   \* what an event says (v, ts, kind, payload)
          Keys,       \* chain keys; one of them stands for "no key"
          Torn        \* a line of the file that json.loads rejects

\* One link of a history: a position, a content, and the key it was hashed with.
Link == [seq : Nat, content : Contents, key : Keys]

Digest == Seq(Link)

\* hashing.GENESIS_PREV, the prev of the first event of a log.
GENESIS_PREV == <<>>

\* A mutant of event_id: the position is hashed off by one.
event_id_early(seq, content, prev, key) ==
  Append(prev, [seq |-> seq - 1, content |-> content, key |-> key])

\* hashing.event_id: the history so far and the link of this event.
event_id(seq, content, prev, key) ==
  Append(prev, [seq |-> seq, content |-> content, key |-> key])

Envelope == [seq : Nat, content : Contents, prev : Digest, id : Digest]

Line == Envelope \cup {Torn}

ASSUME TornAssumption == Torn \notin Envelope

\* recorder._checked_envelope: the envelope of one event.
checked_envelope(seq, content, prev, key) ==
  [seq |-> seq, content |-> content, prev |-> prev,
   id |-> event_id(seq, content, prev, key)]

-----------------------------------------------------------------------------
(***************************************************************************)
(* One step of verify_log's loop over the parsed lines: what it expects of *)
(* line i follows from the line before it.                                 *)
(***************************************************************************)
seq_at(ls, i) == IF i = 1 THEN 0 ELSE ls[i - 1].seq + 1

prev_at(ls, i) == IF i = 1 THEN GENESIS_PREV ELSE ls[i - 1].id

\* The three comparisons of verify_log on line i.
LineOK(ls, i, key) ==
  /\ ls[i].seq = seq_at(ls, i)
  /\ ls[i].prev = prev_at(ls, i)
  /\ ls[i].id = event_id(ls[i].seq, ls[i].content, ls[i].prev, key)

\* The first k lines parse.
Parses(ls, k) == \A i \in 1..k : ls[i] # Torn

\* k is the number of lines before the first one that does not parse.
IsValidLen(ls, k) == Parses(ls, k) /\ (k < Len(ls) => ls[k + 1] = Torn)

ValidLen(ls) == CHOOSE k \in 0..Len(ls) : IsValidLen(ls, k)

\* read_log parses every line or raises.
Readable(ls) == Parses(ls, Len(ls))

\* verify_log reports no chain error.
ChainOK(ls, key) ==
  Readable(ls) /\ \A i \in 1..Len(ls) : LineOK(ls, i, key)

\* The lines before the first unreadable one form a chain from the genesis on,
\* and the seq of a line is its place in the file.
Linked(ls, key) ==
  \A i \in 1..Len(ls) :
    Parses(ls, i) => LineOK(ls, i, key) /\ ls[i].seq = i - 1

\* The chain head after the first k lines, for the next event to link to.
head_id(ls, k) == IF k = 0 THEN GENESIS_PREV ELSE ls[k].id
=============================================================================
