----------------------------- MODULE Snowflake -----------------------------
(***************************************************************************)
(* The id generator of internal/util/id.go, shared by every goroutine and  *)
(* used under its mutex: one call is one step.                             *)
(*                                                                         *)
(* An id is written here as the pair of its fields, <<millisecond, number  *)
(* within the millisecond>>: the worker and process bits between them are  *)
(* the same in every id, so pairs compare as the 64-bit integers do.       *)
(*                                                                         *)
(* Next stamps with the wall clock, which may jump either way.  NewAt and  *)
(* NewBelow stamp with the time of a message of the past; they count per   *)
(* millisecond in aux, from 1.                                             *)
(***************************************************************************)
EXTENDS Integers

CONSTANTS
    Top,    \* largest number within a millisecond (0xFFF)
    MaxMs,  \* bound on milliseconds
    NoId    \* no ceiling

ASSUME TopAssumption == Top \in Nat \ {0}
ASSUME MaxMsAssumption == MaxMs \in Nat

VARIABLES
    lastMs,   \* Snowflake.lastMs
    seq,      \* Snowflake.seq
    aux,      \* Snowflake.aux; 0 where the map has no entry
    nextIds,  \* history: ids Next returned
    oldIds,   \* history: ids NewAt and NewBelow returned
    worn,     \* history: milliseconds whose entry was deleted when used up
    minted    \* history: the last call and its result

vars == <<lastMs, seq, aux, nextIds, oldIds, worn, minted>>

Ms == 0..MaxMs
Id == Ms \X (0..Top)

\* The order of ids as integers.
Before(a, b) == a[1] < b[1] \/ (a[1] = b[1] /\ a[2] < b[2])

\* The id 0, NewBelow's answer when no millisecond fits.
Zero == <<0, 0>>

Mint == [op : {"none", "Next", "NewAt", "NewBelow"}, id : Id, at : Ms,
         ceiling : Id \cup {NoId}, again : BOOLEAN]

TypeOK ==
    /\ lastMs \in Ms
    /\ seq \in 0..Top
    /\ aux \in [Ms -> 0..Top]
    /\ nextIds \subseteq Id
    /\ oldIds \subseteq Id
    /\ worn \subseteq Ms
    /\ minted \in Mint

Init ==
    /\ lastMs = 0
    /\ seq = 0
    /\ aux = [m \in Ms |-> 0]
    /\ nextIds = {} /\ oldIds = {} /\ worn = {}
    /\ minted = [op |-> "none", id |-> Zero, at |-> 0, ceiling |-> NoId, again |-> FALSE]

-----------------------------------------------------------------------------
\* A time before the epoch counts as the epoch.
Clamp(t) == IF t < 0 THEN 0 ELSE t

\* Mutant: a full millisecond starts over instead of moving on.
NextIdStays(now) ==
    LET number == IF now <= lastMs THEN (seq + 1) % (Top + 1) ELSE 0
        ms     == IF now <= lastMs THEN lastMs ELSE now
    IN  /\ lastMs' = ms
        /\ seq' = number
        /\ nextIds' = nextIds \cup {<<ms, number>>}
        /\ minted' = [op |-> "Next", id |-> <<ms, number>>, at |-> now,
                      ceiling |-> NoId, again |-> <<ms, number>> \in nextIds]
        /\ UNCHANGED <<aux, oldIds, worn>>

\* Next, at wall clock time now: a clock that stands still or steps back
\* counts on in the last millisecond, and into the next one when it is full.
NextId(now) ==
    LET number == IF now <= lastMs THEN (seq + 1) % (Top + 1) ELSE 0
        ms     == IF now > lastMs THEN now
                  ELSE IF number = 0 THEN lastMs + 1 ELSE lastMs
    IN  /\ ms \in Ms
        /\ lastMs' = ms
        /\ seq' = number
        /\ nextIds' = nextIds \cup {<<ms, number>>}
        /\ minted' = [op |-> "Next", id |-> <<ms, number>>, at |-> now,
                      ceiling |-> NoId, again |-> <<ms, number>> \in nextIds]
        /\ UNCHANGED <<aux, oldIds, worn>>

\* Mutant: the number taken is not stored.
TakeUnstored(op, t, ceil, m, passed) ==
    LET id == <<m, aux[m] + 1>>
    IN  /\ aux' = [k \in Ms |-> IF k \in passed THEN 0 ELSE aux[k]]
        /\ worn' = worn \cup passed
        /\ oldIds' = oldIds \cup {id}
        /\ minted' = [op |-> op, id |-> id, at |-> Clamp(t), ceiling |-> ceil,
                      again |-> id \in oldIds]
        /\ UNCHANGED <<lastMs, seq, nextIds>>

\* NewAt and NewBelow return number aux[m] + 1 of millisecond m and forget the
\* counters they passed over because they were used up.
Take(op, t, ceil, m, passed) ==
    LET id == <<m, aux[m] + 1>>
    IN  /\ aux' = [k \in Ms |-> IF k = m THEN aux[m] + 1
                                ELSE IF k \in passed THEN 0 ELSE aux[k]]
        /\ worn' = worn \cup passed
        /\ oldIds' = oldIds \cup {id}
        /\ minted' = [op |-> op, id |-> id, at |-> Clamp(t), ceiling |-> ceil,
                      again |-> id \in oldIds]
        /\ UNCHANGED <<lastMs, seq, nextIds>>

\* aux[m] + 1 > 0xFFF
UsedUp(m) == aux[m] = Top

\* NewAt: the first millisecond from t on with a number left.
NewAt(t) ==
    \E m \in Ms :
        /\ m >= Clamp(t) /\ ~UsedUp(m)
        /\ \A k \in Clamp(t)..(m - 1) : UsedUp(k)
        /\ Take("NewAt", t, NoId, m, Clamp(t)..(m - 1))

\* The next number of m is left and sorts below the ceiling.
Fits(m, ceil) == ~UsedUp(m) /\ (ceil # NoId => Before(<<m, aux[m] + 1>>, ceil))

\* NewBelow: the last millisecond up to t that fits; the answer 0 if none does.
NewBelow(t, ceil) ==
    LET walked(m) == {k \in (m + 1)..Clamp(t) : UsedUp(k)}
    IN  \/ \E m \in 0..Clamp(t) :
              /\ Fits(m, ceil)
              /\ \A k \in (m + 1)..Clamp(t) : ~Fits(k, ceil)
              /\ Take("NewBelow", t, ceil, m, walked(m))
        \/ /\ \A k \in 0..Clamp(t) : ~Fits(k, ceil)
           /\ aux' = [k \in Ms |-> IF k \in walked(-1) THEN 0 ELSE aux[k]]
           /\ worn' = worn \cup walked(-1)
           /\ minted' = [op |-> "NewBelow", id |-> Zero, at |-> Clamp(t),
                         ceiling |-> ceil, again |-> FALSE]
           /\ UNCHANGED <<lastMs, seq, nextIds, oldIds>>

\* The clock is past the epoch.  A ceiling is the id of a stored message; the
\* empty string is none.
Next ==
    \/ \E now \in Ms \ {0} : NextId(now)
    \/ \E t \in -1..MaxMs : NewAt(t)
    \/ \E t \in -1..MaxMs : \E ceil \in nextIds \cup oldIds \cup {NoId} : NewBelow(t, ceil)

Spec == Init /\ [][Next]_vars

-----------------------------------------------------------------------------
\* Next never repeats an id and never goes back, whatever the clock does: what
\* the storage order and every client's message order rest on (id.go:28-43).
NextIncreases ==
    [][minted'.op = "Next" => \A old \in nextIds : Before(old, minted'.id)]_vars

\* NewBelow keeps its guarantee against any history of calls: its id "sorts
\* strictly below the ceiling id" (id.go:78-79), and no further below than a
\* millisecond unless the counters there were used up (id.go:83-85).
BelowCeiling ==
    (minted.op = "NewBelow" /\ minted.ceiling # NoId /\ minted.ceiling # Zero) =>
        LET c    == minted.ceiling
            near == IF minted.at < c[1] THEN minted.at ELSE c[1]
        IN  /\ Before(minted.id, c)
            /\ \A m \in Ms : (minted.id[1] < m /\ m < near) => m \in worn

\* NewAt and NewBelow together only ever repeat an id in a millisecond whose
\* counter was used up and deleted (id.go:68-73, 103-107).
RepeatsOnlyWorn == minted.again => minted.id[1] \in worn

\* Ids are sound for every mix of calls and every clock: counters in range, no
\* early repeats, ceilings kept (NewAt, NewBelow).
IdsSound ==
  TypeOK /\ RepeatsOnlyWorn /\ BelowCeiling

=============================================================================
