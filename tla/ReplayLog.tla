----------------------------- MODULE ReplayLog -----------------------------
(***************************************************************************)
(* The replay log of a gateway session (gateway/session.go): the newest    *)
(* recorded dispatch frames, kept so that a RESUME can send them again.    *)
(* The operators do not look into a frame.                                 *)
(*                                                                         *)
(* The log is bounded by a number of frames (replayLimit) and by a number  *)
(* of bytes (replayBytes).  The count bound is here; the byte bound is     *)
(* here only as "some oldest frames go, the newest stays", and SessionLog  *)
(* computes which.                                                         *)
(***************************************************************************)
EXTENDS Integers, Sequences

CONSTANT ReplayLimit  \* replayLimit: the most frames a log retains

ASSUME ReplayLimitAssumption == ReplayLimit \in Nat \ {0}

\* Mutant: the trim lets one frame too many stay.
TrimToLimitLoose(events) ==
    IF Len(events) > ReplayLimit + 1
    THEN SubSeq(events, Len(events) - ReplayLimit, Len(events))
    ELSE events

\* The last ReplayLimit frames; the byte count has no part in this trim.
TrimToLimit(events) ==
    IF Len(events) > ReplayLimit
    THEN SubSeq(events, Len(events) - ReplayLimit + 1, Len(events))
    ELSE events

\* The log after ev was recorded and the byte bound took the k oldest frames:
\* append, evict from the front, trim by count.
Record(events, ev, k) ==
    LET appended == Append(events, ev)
    IN  TrimToLimit(SubSeq(appended, k + 1, Len(appended)))

\* How many frames the byte bound may take: any number but the newest.
Evictable(events) == 0..Len(events)
=============================================================================
