----------------------------- MODULE SessionLog -----------------------------
(***************************************************************************)
(* One gateway session seen from its replay log (gateway/session.go): the  *)
(* sequence counter, the log and its byte count, changed by dispatchRaw    *)
(* and by the reaper.  Every step holds Session.mu.  Frames have lengths   *)
(* here, which is what module Gateway leaves out.                          *)
(***************************************************************************)
EXTENDS ReplayLog, FiniteSets

CONSTANTS
    ReplayBytes,  \* replayBytes: the most bytes a log retains
    Sizes,        \* the frame lengths that occur
    MaxSeq        \* bound on the sequence counter

ASSUME ReplayBytesAssumption == ReplayBytes \in Nat
ASSUME SizesAssumption == Sizes \subseteq Nat \ {0}
ASSUME MaxSeqAssumption == MaxSeq \in Nat

VARIABLES
    seq,          \* Session.seq
    events,       \* Session.events
    eventsBytes,  \* Session.eventsBytes
    recorded      \* history: sequence numbers recorded since the last clear

vars == <<seq, events, eventsBytes, recorded>>

\* A recorded frame: its sequence number and its length.
Event == [seq : Nat, size : Nat]

\* The types of everything but the byte count.
LogTypeOK ==
    /\ seq \in 0..MaxSeq
    /\ events \in Seq(Event)
    /\ recorded \subseteq 1..MaxSeq

TypeOK == LogTypeOK /\ eventsBytes \in Nat

-----------------------------------------------------------------------------
\* Bytes of the first k frames of a log.
PrefixBytes(log, k) ==
    LET upTo[j \in 0..Len(log)] ==
            IF j = 0 THEN 0 ELSE upTo[j - 1] + log[j].size
    IN  upTo[k]

RetainedBytes(log) == PrefixBytes(log, Len(log))

\* Mutant: the loop stops one byte above the bound.
EvictCountLate(log, total) ==
    Cardinality({k \in 0..(Len(log) - 2) :
                    total - PrefixBytes(log, k) > ReplayBytes + 1})

\* How often the loop "for eventsBytes > replayBytes && len(events) > 1"
\* goes round: it drops one frame and its length at a time, so it runs once
\* for each proper prefix whose removal still leaves the count too high.
EvictCount(log, total) ==
    Cardinality({k \in 0..(Len(log) - 2) :
                    total - PrefixBytes(log, k) > ReplayBytes})

Init ==
    /\ seq = 0
    /\ events = <<>>
    /\ eventsBytes = 0
    /\ recorded = {}

\* dispatchRaw(record = true): every event but RESUMED.
DispatchRecorded(size) ==
    /\ seq < MaxSeq
    /\ seq' = seq + 1
    /\ LET ev       == [seq |-> seq + 1, size |-> size]
           appended == Append(events, ev)
           total    == eventsBytes + size
           dropped  == EvictCount(appended, total)
       IN  /\ events' = Record(events, ev, dropped)
           /\ eventsBytes' = total - PrefixBytes(appended, dropped)
    /\ recorded' = recorded \cup {seq + 1}

\* dispatchRaw(record = false): RESUMED takes a number and is not kept.
DispatchUnrecorded ==
    /\ seq < MaxSeq
    /\ seq' = seq + 1
    /\ UNCHANGED <<events, eventsBytes, recorded>>

\* reapStaleLocked: the log is dropped, the counter stays.  A dispatcher that
\* took its snapshot before may still record into the session afterwards.
Reap ==
    /\ events' = <<>>
    /\ eventsBytes' = 0
    /\ recorded' = {}
    /\ UNCHANGED seq

Next ==
    \/ \E size \in Sizes : DispatchRecorded(size)
    \/ DispatchUnrecorded
    \/ Reap

Spec == Init /\ [][Next]_vars

-----------------------------------------------------------------------------
\* The log is the newest part of what was recorded: in order, without a hole,
\* up to the last recorded frame (session.go, dispatchRaw: both evictions
\* take from the front).  A RESUME replays a contiguous stretch because of it.
RetainedSuffix ==
    LET kept == {events[i].seq : i \in DOMAIN events}
    IN  /\ \A i, j \in DOMAIN events : i < j => events[i].seq < events[j].seq
        /\ kept \subseteq recorded
        /\ \A n \in recorded :
              (\E i \in DOMAIN events : events[i].seq <= n) => n \in kept
        /\ recorded # {} => kept # {}

\* The log stays inside both bounds, whatever the running count says: at
\* most ReplayLimit frames, and at most ReplayBytes bytes unless a single
\* frame alone is longer (session.go:11-14, 135-141).
WithinBounds ==
    /\ Len(events) <= ReplayLimit
    /\ RetainedBytes(events) <= ReplayBytes \/ Len(events) = 1

\* The running count never falls below the bytes retained: the byte bound is
\* only safe because the count errs on the high side (session.go:134-141).
NeverUndercounted == eventsBytes >= RetainedBytes(events)

\* The replay log is the newest gap-free suffix within both bounds, however
\* far its byte counter drifts (dispatchRaw).
LogSound ==
  TypeOK /\ RetainedSuffix /\ WithinBounds /\ NeverUndercounted

=============================================================================
