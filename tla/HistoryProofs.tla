--------------------------- MODULE HistoryProofs ---------------------------
(***************************************************************************)
(* The chat history of a channel stays faithful, for any number of         *)
(* messages, any of them without a msgid or sent in multiline batches, any *)
(* capacity of the buffer and any limits of prefill and page.              *)
(***************************************************************************)
EXTENDS History, FiniteSetTheorems, SequenceTheorems, WellFoundedInduction, TLAPS

-----------------------------------------------------------------------------
(* Numbers and the ring *)

\* A set of numbers with something in it has a least number.
LEMMA LeastNumber ==
  ASSUME NEW D \in SUBSET Nat, D # {}
  PROVE  \E d \in D : \A y \in D : d <= y
<1> DEFINE R == OpToRel(<, Nat)
<1>1. IsWellFoundedOn(R, Nat) BY NatLessThanWellFounded
<1>2. \A x, y \in Nat : x < y => <<x, y>> \in R BY DEF OpToRel
<1> HIDE DEF R
<1>3. PICK d \in D : \A y \in D : ~(<<y, d>> \in R) BY <1>1, WFMin
<1>4. ASSUME NEW y \in D PROVE d <= y
  <2>1. d \in Nat /\ y \in Nat /\ ~(y < d) BY <1>2, <1>3
  <2> QED BY <2>1
<1> QED BY <1>4

\* A bounded one has a greatest number.
LEMMA GreatestNumber ==
  ASSUME NEW n \in Nat, NEW D \in SUBSET (0..n), D # {}
  PROVE  \E d \in D : \A y \in D : y <= d
<1> DEFINE E == {n - y : y \in D}
<1>1. E \in SUBSET Nat /\ E # {}
  <2>1. \A y \in D : y \in 0..n OBVIOUS
  <2>2. \A y \in 0..n : n - y \in Nat OBVIOUS
  <2> QED BY <2>1, <2>2
<1>2. PICK e \in E : \A z \in E : e <= z
  <2> HIDE DEF E
  <2> QED BY <1>1, LeastNumber
<1>3. PICK d \in D : e = n - d BY <1>2
<1>4. ASSUME NEW y \in D PROVE y <= d
  <2>1. n - y \in E BY DEF E
  <2>2. e <= n - y /\ y \in 0..n /\ d \in 0..n BY <1>2, <2>1
  <2> QED BY <1>3, <2>2
<1> QED BY <1>4

\* Of the ids R those are trimmed that BufferCap others exceed: they are the
\* lowest ones, and the ring stays full.
LEMMA TrimFact ==
  ASSUME NEW n \in Nat, NEW R \in SUBSET (0..n), NEW O,
         O = {i \in R : Cardinality({j \in R : j > i}) >= BufferCap}
  PROVE  /\ \A i \in O, j \in R \ O : i < j
         /\ O = {} \/ Cardinality(R \ O) >= BufferCap
         /\ IsFiniteSet(R)
         /\ \A b \in Int : (Cardinality({j \in R : j >= b}) >= BufferCap) =>
              \A i \in R \ O : i >= b
<1> DEFINE Above(i) == {j \in R : j > i}
<1>1. IsFiniteSet(R)
  <2>1. IsFiniteSet(0..n) BY FS_Interval
  <2> QED BY <2>1, FS_Subset
<1>2. \A i : IsFiniteSet(Above(i)) /\ Cardinality(Above(i)) \in Nat
  <2>1. ASSUME NEW i PROVE IsFiniteSet(Above(i)) /\ Cardinality(Above(i)) \in Nat
    <3>1. Above(i) \in SUBSET R OBVIOUS
    <3>2. IsFiniteSet(Above(i)) BY <1>1, <3>1, FS_Subset
    <3> QED BY <3>2, FS_CardinalityType
  <2> QED BY <2>1
<1>3. BufferCap \in Nat BY BufferAssumption
<1>4. \A i \in R : i \in O <=> Cardinality(Above(i)) >= BufferCap OBVIOUS
<1>5. O \subseteq R OBVIOUS
<1>6. R \subseteq Int OBVIOUS
<1>7. ASSUME NEW i \in O, NEW j \in R \ O PROVE i < j
  <2>1. SUFFICES ASSUME j < i PROVE FALSE BY <1>5, <1>6
  <2>2. Above(i) \in SUBSET Above(j)
    <3>1. i \in Int /\ j \in Int BY <1>5, <1>6
    <3>2. ASSUME NEW x \in R, x > i PROVE x > j BY <1>6, <2>1, <3>1, <3>2
    <3> QED BY <3>2
  <2>3. Cardinality(Above(i)) <= Cardinality(Above(j))
    <3> HIDE DEF Above
    <3> QED BY <1>2, <2>2, FS_Subset
  <2>4. Cardinality(Above(i)) >= BufferCap BY <1>4, <1>5
  <2>5. Cardinality(Above(j)) >= BufferCap
    <3> HIDE DEF Above
    <3> QED BY <1>2, <1>3, <2>3, <2>4
  <2> QED BY <1>4, <2>5
<1>8. ASSUME O # {} PROVE Cardinality(R \ O) >= BufferCap
  <2>1. PICK m \in O : \A y \in O : y <= m
    <3>1. O \in SUBSET (0..n) BY <1>5
    <3> HIDE DEF Above
    <3> QED BY <1>8, <3>1, GreatestNumber
  <2>2. Above(m) = R \ O
    <3>1. ASSUME NEW j \in R \ O PROVE j \in Above(m) BY <1>5, <1>6, <1>7, <2>1, <3>1
    <3>2. ASSUME NEW j \in Above(m) PROVE j \notin O BY <1>5, <1>6, <2>1, <3>2
    <3> QED BY <3>1, <3>2
  <2> QED BY <1>4, <1>5, <2>1, <2>2
<1>9. ASSUME NEW b \in Int, Cardinality({j \in R : j >= b}) >= BufferCap, NEW i \in R \ O
      PROVE  i >= b
  <2>1. SUFFICES ASSUME i < b PROVE FALSE BY <1>6
  <2> DEFINE T == {j \in R : j >= b}
  <2>2. T \in SUBSET Above(i)
    <3>1. i \in Int BY <1>6
    <3>2. ASSUME NEW x \in R, x >= b PROVE x > i BY <1>6, <2>1, <3>1, <3>2
    <3> QED BY <3>2
  <2>3. Cardinality(T) <= Cardinality(Above(i)) /\ IsFiniteSet(T)
    <3> HIDE DEF Above, T
    <3> QED BY <1>2, <2>2, FS_Subset
  <2>4. Cardinality(T) \in Nat
    <3> HIDE DEF Above, T
    <3> QED BY <2>3, FS_CardinalityType
  <2>5. Cardinality(Above(i)) >= BufferCap
    <3>1. Cardinality(T) >= BufferCap BY <1>9
    <3> HIDE DEF Above, T
    <3> QED BY <1>2, <1>3, <2>3, <2>4, <3>1
  <2> QED BY <1>4, <2>5
<1> QED BY <1>1, <1>7, <1>8, <1>9

\* The row is put, rows below all that stay are trimmed, and a full ring stays
\* full of ids as high as before.
Appended(R, id, row, S) ==
  /\ DOMAIN S \subseteq DOMAIN R \cup {id}
  /\ \A i \in DOMAIN S : S[i] = IF i = id THEN row ELSE R[i]
  /\ \A i \in (DOMAIN R \cup {id}) \ DOMAIN S, j \in DOMAIN S : i < j
  /\ DOMAIN S = DOMAIN R \cup {id} \/ Cardinality(DOMAIN S) >= BufferCap
  /\ \A b \in Int : Cardinality(DOMAIN R) >= BufferCap /\ (\A i \in DOMAIN R : i >= b)
       => Cardinality(DOMAIN S) >= BufferCap /\ \A i \in DOMAIN S : i >= b

\* AppendMessage on the ring of one channel.
LEMMA AppendFact ==
  ASSUME NEW n \in Nat, NEW R, DOMAIN R \in SUBSET (0..n), NEW id \in 0..n, NEW row,
         row.ch = Channel, \A i \in DOMAIN R : R[i].ch = Channel,
         NEW S, S = AppendMessage(R, id, row)
  PROVE  Appended(R, id, row, S)
<1>1. PICK all : all = Put(R, id, row) OBVIOUS
<1>2. PICK D : D = DOMAIN R \cup {id} OBVIOUS
<1>3. DOMAIN all = D /\ all[id] = row /\ \A i \in DOMAIN R : i # id => all[i] = R[i]
  BY <1>1, <1>2 DEF Put
<1>4. \A i \in D : all[i].ch = Channel BY <1>2, <1>3
<1>5. PICK O : O = Overflow(all, Channel) OBVIOUS
<1>6. Ring(all, Channel) = D BY <1>3, <1>4 DEF Ring
<1>7. O = {i \in D : Cardinality({j \in D : j > i}) >= BufferCap} BY <1>5, <1>6 DEF Overflow
<1>8. S = Without(all, O) BY <1>1, <1>5 DEF AppendMessage
<1>9. DOMAIN S = D \ O /\ \A i \in D \ O : S[i] = all[i] BY <1>3, <1>8 DEF Without
<1>10. D \in SUBSET (0..n) BY <1>2
<1>11. /\ \A i \in O, j \in D \ O : i < j
       /\ O = {} \/ Cardinality(D \ O) >= BufferCap
       /\ IsFiniteSet(D)
       /\ \A b \in Int : (Cardinality({j \in D : j >= b}) >= BufferCap) =>
            \A i \in D \ O : i >= b
  BY <1>7, <1>10, TrimFact
<1>12. ASSUME NEW b \in Int, Cardinality(DOMAIN R) >= BufferCap, \A i \in DOMAIN R : i >= b
       PROVE  Cardinality(DOMAIN S) >= BufferCap /\ \A i \in DOMAIN S : i >= b
  <2>1. PICK T : T = {j \in D : j >= b} OBVIOUS
  <2>2. DOMAIN R \in SUBSET T /\ T \in SUBSET D /\ DOMAIN R \in SUBSET D BY <1>2, <1>12, <2>1
  <2>3. IsFiniteSet(T) BY <1>11, <2>2, FS_Subset
  <2>4. Cardinality(DOMAIN R) <= Cardinality(T) /\ Cardinality(DOMAIN R) <= Cardinality(D)
        /\ IsFiniteSet(DOMAIN R)
    BY <1>11, <2>2, <2>3, FS_Subset
  <2>5. Cardinality(DOMAIN R) \in Nat /\ Cardinality(T) \in Nat /\ Cardinality(D) \in Nat
    BY <1>11, <2>3, <2>4, FS_CardinalityType
  <2>6. BufferCap \in Nat BY BufferAssumption
  <2>7. Cardinality(T) >= BufferCap /\ Cardinality(D) >= BufferCap BY <1>12, <2>4, <2>5, <2>6
  <2>8. \A i \in D \ O : i >= b BY <1>11, <2>1, <2>7
  <2>9. Cardinality(D \ O) >= BufferCap
    <3>1. CASE O = {}
      <4>1. D \ O = D BY <3>1
      <4> QED BY <2>7, <4>1
    <3> QED BY <1>11, <3>1
  <2> QED BY <1>9, <2>8, <2>9
<1>13. DOMAIN S = D \/ Cardinality(DOMAIN S) >= BufferCap
  <2>1. CASE O = {} BY <1>9, <2>1
  <2> QED BY <1>9, <1>11, <2>1
<1>14. \A i \in D \ DOMAIN S, j \in DOMAIN S : i < j BY <1>9, <1>11
<1> QED BY <1>2, <1>3, <1>9, <1>12, <1>13, <1>14 DEF Appended

-----------------------------------------------------------------------------
(* The inductive invariant *)

Workers == {"handler", "rest"}
Batches == [frames : SUBSET Messages, ask : Asks]
Requests == [ask : Asks, below : Nat, limit : Nat, id : Nat]
Waiters == [id : Nat, old : BOOLEAN]
Pages == [at : {"idle", "ask", "wait", "flush"}, need : Nat, round : 0..3, got : Nat,
          ceiling : Nat \cup {None}]

\* A buffered row.
RowOK(i) == i \in Nat /\ rows[i].said \in Messages /\ rows[i].ch = Channel

BufferTypeOK ==
  /\ \A i \in DOMAIN rows : RowOK(i)
  /\ DOMAIN idx \subseteq Messages /\ \A k \in DOMAIN idx : idx[k] \in Nat
  /\ aux \in [0..Ms(Upstream) -> 0..(Slots - 1)]

StoreTypeOK ==
  /\ BufferTypeOK
  /\ said \in Nat /\ Earlier <= said /\ said <= Upstream
  /\ work \in [Workers -> Jobs \cup {None}]
  /\ page \in Pages /\ scrolls \in Nat

WireTypeOK ==
  /\ reqs \in Seq(Requests) /\ answer \in Answers \cup {None} /\ refs \in Nat
  /\ \A ref \in DOMAIN chatBatches : chatBatches[ref] \in Batches
  /\ chatStack \in Seq(Nat) /\ lineBatch \in LineBatches \cup {None}
  /\ pageCh \in Waiters \cup {None} /\ pageBatch \in Batches \cup {None}

HistoryTypeOK == StoreTypeOK /\ WireTypeOK

\* Nobody holds what was not said yet, or the multiline message being received.
Spoken(S) == S \subseteq 1..said /\ (lineBatch # None => lineBatch.msg \notin S)

HeldInv ==
  /\ lineBatch # None => lineBatch.msg \in 1..said
  /\ \A i \in DOMAIN rows : Spoken({rows[i].said})
  /\ \A w \in Workers : work[w] # None => Spoken(work[w].left) /\ work[w].left # {}
  /\ answer # None => Spoken(answer.left)
  /\ \A ref \in DOMAIN chatBatches : Spoken(chatBatches[ref].frames)
  /\ pageBatch # None => Spoken(pageBatch.frames)
  /\ \A n \in 1..Len(reqs) : reqs[n].ask = "before" => reqs[n].below \in 1..(said + 1)

\* A batch left open by a link that died is the only reason for the stack to
\* name another batch than the one being received.
StackInv ==
  /\ cut \/ chatStack = << >> \/ (answer # None /\ answer.open /\ chatStack = <<answer.ref>>)
  /\ answer # None /\ answer.open =>
       answer.ref \in DOMAIN chatBatches /\ chatBatches[answer.ref].ask = answer.ask
  /\ lineBatch # None => lineBatch.chatRef = None \/ lineBatch.msg \in bound
  /\ work["rest"] # None => page.at = "flush"

\* The id of a row lies in no later millisecond than its message, among the
\* numbers handed out; number 0 is left to the message of that millisecond.
RowAt(i) ==
  /\ i < Slots * (Ms(rows[i].said) + 1)
  /\ \A t \in 0..Ms(Upstream) : i <= Slots * t + aux[t] \/ i >= Slots * (t + 1)
  /\ \A t \in 0..Ms(Upstream) : i = Slots * t => t = Ms(rows[i].said)

RowInv == \A i \in DOMAIN rows : RowAt(i)

\* The msgid index knows every row, and while only one goroutine flushes, what
\* it has just looked up is still not stored.
Fresh(w) ==
  work[w] # None /\ work[w].fresh =>
    Earliest(work[w].left) \in Untagged \/ Earliest(work[w].left) \notin DOMAIN idx

OnceInv ==
  /\ \A i \in DOMAIN rows : rows[i].said \notin Untagged => rows[i].said \in DOMAIN idx
  /\ ~overlapped => work["handler"] = None \/ work["rest"] = None
  /\ ~overlapped => \A w \in Workers : Fresh(w)
  /\ StoredOnce

\* The numbers of the page requests: those on their way, or whose waiter still
\* stands, are not newer than the REST request's own.
Now == scrolls * 4 + page.round

Asked(id) ==
  /\ id <= scrolls * 4 + 3
  /\ page.at = "ask" => id < Now
  /\ page.at \in {"wait", "flush"} => id <= Now

AskedInv ==
  /\ page.at = "idle" <=> page.round = 0
  /\ \A n \in 1..Len(reqs) : Asked(reqs[n].id)
  /\ answer # None => Asked(answer.id)
  /\ pageCh # None => Asked(pageCh.id)
  /\ page.at = "wait" /\ pageCh # None => pageCh.id = Now

\* The millisecond of k ends below the ceiling, so that k keeps its place there.
Below(k, c) == c = None \/ Slots * (Ms(k) + 1) <= c

AllBelow(S, c) == \A k \in S : k \in bound \/ Below(k, c)

\* A row has an id of its message's own millisecond.
Home(i) == rows[i].said \in bound \/ i >= Slots * Ms(rows[i].said)

Receiving == answer.left \cup (IF answer.open THEN chatBatches[answer.ref].frames ELSE {})

\* Whatever is flushed under a ceiling was said before the row above it.
PlaceInv ==
  /\ \A i \in DOMAIN rows : Home(i)
  /\ \A w \in Workers : work[w] # None => AllBelow(work[w].left, work[w].ceiling)
  /\ page.at = "wait" /\ pageBatch # None => AllBelow(pageBatch.frames, page.ceiling)
  /\ \A n \in 1..Len(reqs) : page.at = "wait" /\ reqs[n].ask = "before" /\ reqs[n].id = Now =>
       AllBelow(1..(reqs[n].below - 1), page.ceiling)
  /\ page.at = "wait" /\ answer # None /\ answer.ask = "before" /\ answer.id = Now =>
       AllBelow(Receiving, page.ceiling)

\* The buffer is full of rows that are no older than message k.
Trimmed(k) ==
  Cardinality(DOMAIN rows) >= BufferCap /\ \A i \in DOMAIN rows : i >= Slots * Ms(k)

\* Nothing is amiss about message k: it is buffered, or its absence explained.
Kept(k) ==
  \/ k \in missed \cup bound
  \/ lineBatch # None /\ lineBatch.msg = k
  \/ \E i \in DOMAIN rows : rows[i].said = k
  \/ Trimmed(k)

\* ... or somebody is about to store it.
Solid(k) == Kept(k) \/ \E w \in Workers : work[w] # None /\ k \in work[w].left

\* With a message of S come all later ones of those said before the first JOIN.
Closed(S) == \A k \in S : \A j \in (k + 1)..Earlier : j \in S \/ Solid(j)

KeptInv ==
  /\ lineBatch # None => lineBatch.msg > Earlier
  /\ \A k \in (Earlier + 1)..said : Kept(k)
  /\ \A k \in DOMAIN idx : Kept(k)
  /\ Closed({rows[i].said : i \in DOMAIN rows})
  /\ \A w \in Workers : work[w] # None => Closed(work[w].left)
  /\ pageBatch # None => Closed(pageBatch.frames)
  /\ answer # None => Closed(Receiving)
  /\ \A n \in 1..Len(reqs) : reqs[n].ask = "before" => \A j \in reqs[n].below..Earlier : Solid(j)

\* The strengthening of HistoryFaithful that every step preserves.
HistoryInv ==
  /\ HistoryTypeOK /\ HeldInv /\ StackInv /\ RowInv /\ OnceInv /\ AskedInv
  /\ ~misrouted => PlaceInv /\ KeptInv

-----------------------------------------------------------------------------
(* Storing a message *)

\* No id lies above those of the last message's millisecond.
Top == Slots * (Ms(Upstream) + 1)

LEMMA MsFact ==
  /\ Upstream \in Nat /\ Earlier \in Nat /\ Earlier <= Upstream /\ None \notin Nat
  /\ \A k \in Messages : k \in Nat /\ k >= 1 /\ k <= Upstream /\ Ms(k) = k + 4
                         /\ Ms(k) \in 0..Ms(Upstream)
  /\ Ms(Upstream) = Upstream + 4 /\ Top \in Nat
BY HistoryAssumption DEF Messages, Ms, Top, Slots

\* What Store does to the buffer and the index.
Stored(id, k) ==
  /\ DOMAIN rows' \subseteq DOMAIN rows \cup {id}
  /\ \A i \in DOMAIN rows' : i # id => rows'[i] = rows[i]
  /\ id \in DOMAIN rows' => rows'[id].said = k /\ rows'[id].ch = Channel
  /\ \A i \in (DOMAIN rows \cup {id}) \ DOMAIN rows', j \in DOMAIN rows' : i < j
  /\ DOMAIN rows' = DOMAIN rows \cup {id} \/ Cardinality(DOMAIN rows') >= BufferCap
  /\ \A b \in Int : Cardinality(DOMAIN rows) >= BufferCap /\ (\A i \in DOMAIN rows : i >= b)
       => Cardinality(DOMAIN rows') >= BufferCap /\ \A i \in DOMAIN rows' : i >= b
  /\ DOMAIN idx \subseteq DOMAIN idx' /\ DOMAIN idx' \subseteq DOMAIN idx \cup {k}
  /\ id \in DOMAIN rows' /\ k \notin Untagged => k \in DOMAIN idx'
  /\ k \in DOMAIN idx' => k \in DOMAIN idx \/ id \in DOMAIN rows'
  /\ \A j \in DOMAIN idx' : idx'[j] = id \/ (j \in DOMAIN idx /\ idx'[j] = idx[j])

\* The rows of a typed state have bounded ids.
LEMMA RowIds ==
  ASSUME StoreTypeOK, RowInv
  PROVE  DOMAIN rows \in SUBSET (0..Top)
<1>1. ASSUME NEW i \in DOMAIN rows PROVE i \in 0..Top
  <2>1. i \in Nat /\ rows[i].said \in Messages BY DEF StoreTypeOK, BufferTypeOK, RowOK
  <2>2. i < Slots * (Ms(rows[i].said) + 1) BY DEF RowInv, RowAt
  <2>3. rows[i].said \in Nat /\ rows[i].said <= Upstream /\ Ms(rows[i].said) = rows[i].said + 4
    BY <2>1, MsFact
  <2> QED BY <2>1, <2>2, <2>3, MsFact DEF Top, Slots
<1> QED BY <1>1

LEMMA StoreFact ==
  ASSUME StoreTypeOK, RowInv, NEW id \in 0..Top, NEW k \in Messages, Store(id, k)
  PROVE  Stored(id, k)
<1>0. PICK row : row = [ch |-> Channel, msgid |-> MsgidOf(k), said |-> k] OBVIOUS
<1>1. rows' = AppendMessage(rows, id, row) BY <1>0 DEF Store
<1>2. DOMAIN rows \in SUBSET (0..Top) BY RowIds
<1>3. row.ch = Channel /\ row.said = k BY <1>0
<1>4. \A i \in DOMAIN rows : rows[i].ch = Channel BY DEF StoreTypeOK, BufferTypeOK, RowOK
<1>5. Top \in Nat BY MsFact
<1>6. /\ DOMAIN rows' \subseteq DOMAIN rows \cup {id}
      /\ \A i \in DOMAIN rows' : rows'[i] = IF i = id THEN row ELSE rows[i]
      /\ \A i \in (DOMAIN rows \cup {id}) \ DOMAIN rows', j \in DOMAIN rows' : i < j
      /\ DOMAIN rows' = DOMAIN rows \cup {id} \/ Cardinality(DOMAIN rows') >= BufferCap
      /\ \A b \in Int : Cardinality(DOMAIN rows) >= BufferCap /\ (\A i \in DOMAIN rows : i >= b)
           => Cardinality(DOMAIN rows') >= BufferCap /\ \A i \in DOMAIN rows' : i >= b
  <2>1. PICK R : R = rows OBVIOUS
  <2>2. PICK S : S = rows' OBVIOUS
  <2>3. DOMAIN R \in SUBSET (0..Top) BY <1>2, <2>1
  <2>4. S = AppendMessage(R, id, row) BY <1>1, <2>1, <2>2
  <2>5. \A i \in DOMAIN R : R[i].ch = Channel BY <1>4, <2>1
  <2>6. Appended(R, id, row, S) BY <1>3, <1>5, <2>3, <2>4, <2>5, AppendFact
  <2> QED BY <2>1, <2>2, <2>6 DEF Appended
<1>7. idx' = IF k \in Untagged THEN idx ELSE IF id \in DOMAIN rows' THEN Put(idx, k, id) ELSE idx
  BY <1>0, <1>1 DEF Store, IndexRow, IndexMessageMsgID
<1>8. /\ DOMAIN Put(idx, k, id) = DOMAIN idx \cup {k}
      /\ \A j \in DOMAIN idx \cup {k} : Put(idx, k, id)[j] = IF j = k THEN id ELSE idx[j]
  BY DEF Put
<1>9. /\ DOMAIN idx \subseteq DOMAIN idx' /\ DOMAIN idx' \subseteq DOMAIN idx \cup {k}
      /\ id \in DOMAIN rows' /\ k \notin Untagged => k \in DOMAIN idx'
      /\ k \in DOMAIN idx' => k \in DOMAIN idx \/ id \in DOMAIN rows'
      /\ \A j \in DOMAIN idx' : idx'[j] = id \/ (j \in DOMAIN idx /\ idx'[j] = idx[j])
  <2>1. CASE k \in Untagged \/ id \notin DOMAIN rows' BY <1>7, <2>1
  <2>2. CASE k \notin Untagged /\ id \in DOMAIN rows' BY <1>7, <1>8, <2>2
  <2> QED BY <2>1, <2>2
<1> QED BY <1>3, <1>6, <1>9 DEF Stored

LEMMA EarliestFact ==
  ASSUME NEW S \in SUBSET Messages, S # {}
  PROVE  Earliest(S) \in S
<1>1. S \in SUBSET Nat BY MsFact
<1>2. \E k \in S : \A j \in S : k <= j BY <1>1, LeastNumber
<1> QED BY <1>2 DEF Earliest

LEMMA MintFact ==
  ASSUME StoreTypeOK, NEW k \in Messages, NEW c, Fits(k, c) # {}
  PROVE  MintMs(k, c) \in Fits(k, c) /\ \A u \in Fits(k, c) : u <= MintMs(k, c)
<1>1. Fits(k, c) \in SUBSET (0..Ms(k)) BY DEF Fits
<1>2. Ms(k) \in Nat BY MsFact
<1>3. \E t \in Fits(k, c) : \A u \in Fits(k, c) : u <= t BY <1>1, <1>2, GreatestNumber
<1> QED BY <1>3 DEF MintMs

\* Message k gets the id: one of its millisecond or an earlier one, that no row
\* of another message has and no number will have again.
Minted(id, k) ==
  /\ id \in 0..Top /\ Stored(id, k) /\ id < Slots * (Ms(k) + 1)
  /\ id \in DOMAIN rows => rows[id].said = k
  /\ aux' \in [0..Ms(Upstream) -> 0..(Slots - 1)]
  /\ \A t \in 0..Ms(Upstream) : aux[t] <= aux'[t]
  /\ \A t \in 0..Ms(Upstream) : id <= Slots * t + aux'[t] \/ id >= Slots * (t + 1)
  /\ \A t \in 0..Ms(Upstream) : id = Slots * t => t = Ms(k)

\* A message relayed as it is spoken gets the first id of its millisecond.
LEMMA LiveFact ==
  ASSUME StoreTypeOK, RowInv, NEW k \in Messages, Store(Slots * Ms(k), k), UNCHANGED aux
  PROVE  Minted(Slots * Ms(k), k)
<1>1. PICK id : id = Slots * Ms(k) OBVIOUS
<1>2. Ms(k) \in 0..Ms(Upstream) /\ Ms(k) \in Nat /\ Ms(Upstream) \in Nat BY MsFact
<1>3. id \in 0..Top /\ id < Slots * (Ms(k) + 1) BY <1>1, <1>2 DEF Top, Slots
<1>4. Stored(id, k) BY <1>1, <1>3, StoreFact
<1>5. ASSUME id \in DOMAIN rows PROVE rows[id].said = k
  <2>1. PICK j : j = rows[id].said OBVIOUS
  <2>2. j \in Messages BY <1>5, <2>1 DEF StoreTypeOK, BufferTypeOK, RowOK
  <2>3. Ms(k) = Ms(j) BY <1>1, <1>2, <1>5, <2>1 DEF RowInv, RowAt
  <2>4. Ms(k) = k + 4 /\ Ms(j) = j + 4 /\ k \in Nat /\ j \in Nat BY <2>2, MsFact
  <2>5. j = k BY <2>3, <2>4 DEF Ms
  <2> QED BY <2>1, <2>5
<1>6. aux' \in [0..Ms(Upstream) -> 0..(Slots - 1)] /\ \A t \in 0..Ms(Upstream) : aux[t] \in Nat /\ aux'[t] = aux[t]
  BY DEF StoreTypeOK, BufferTypeOK
<1>7. ASSUME NEW t \in 0..Ms(Upstream)
      PROVE  /\ id <= Slots * t + aux[t] \/ id >= Slots * (t + 1)
             /\ id = Slots * t => t = Ms(k)
  <2>1. t \in Nat /\ aux[t] \in Nat BY <1>2, <1>6
  <2> QED BY <1>1, <1>2, <2>1 DEF Slots
<1>8. \A t \in 0..Ms(Upstream) : aux[t] <= aux'[t] BY <1>6
<1>9. Minted(id, k) BY <1>3, <1>4, <1>5, <1>6, <1>7, <1>8 DEF Minted
<1> QED BY <1>1, <1>9

\* What a goroutine is left with when it is through with message k.
Passes(w, k) ==
  /\ \A v \in Workers : v # w => work'[v] = work[v]
  /\ work'[w] # None =>
       work'[w].left = work[w].left \ {k} /\ work'[w].left # {} /\ ~work'[w].fresh /\ work'[w].ceiling = work[w].ceiling
  /\ work'[w] = None => work[w].left = {k}

\* flushChatBatch stores a frame, in its own millisecond when that ends below
\* the ceiling.
LEMMA FlushAppendFact ==
  ASSUME StoreTypeOK, HeldInv, RowInv, NEW w \in Workers, FlushAppend(w)
  PROVE  \E k \in Messages : \E t \in 0..Ms(k) :
           /\ k = Earliest(work[w].left) /\ k \in work[w].left
           /\ work[w] # None /\ work[w].fresh
           /\ Slots * t + aux[t] + 1 \notin DOMAIN rows
           /\ Minted(Slots * t + aux[t] + 1, k) /\ aux[t] \in Nat
           /\ Below(k, work[w].ceiling) => t = Ms(k)
           /\ work' \in [Workers -> Jobs \cup {None}] /\ Passes(w, k)
           /\ page' = IF w = "rest" THEN [page EXCEPT !.got = @ + 1] ELSE page
<1>1. PICK job : job = work[w] OBVIOUS
<1>2. job # None /\ job.fresh /\ NumbersLeft BY <1>1 DEF FlushAppend
<1>3. job \in Jobs BY <1>1, <1>2 DEF StoreTypeOK
<1>4. job.left \in SUBSET Messages /\ job.left # {} BY <1>1, <1>2, <1>3 DEF Jobs, HeldInv
<1>5. PICK k : k = Earliest(job.left) OBVIOUS
<1>6. k \in job.left /\ k \in Messages BY <1>4, <1>5, EarliestFact
<1>7. PICK t : t = MintMs(k, job.ceiling) OBVIOUS
<1>8. PICK id : id = Slots * t + aux[t] + 1 OBVIOUS
<1>9. /\ Fits(k, job.ceiling) # {} /\ Store(id, k)
      /\ aux' = [aux EXCEPT ![t] = @ + 1]
      /\ page' = IF w = "rest" THEN [page EXCEPT !.got = @ + 1] ELSE page
      /\ work' = [work EXCEPT ![w] = IF job.left \ {k} = {} THEN None
                                     ELSE [job EXCEPT !.left = job.left \ {k}, !.fresh = FALSE]]
  BY <1>1, <1>5, <1>7, <1>8 DEF FlushAppend
<1>10. t \in Fits(k, job.ceiling) /\ \A u \in Fits(k, job.ceiling) : u <= t
  BY <1>6, <1>7, <1>9, MintFact
<1>11. t \in 0..Ms(k) /\ t \in 0..Ms(Upstream) BY <1>6, <1>10, MsFact DEF Fits
<1>12. \A u \in 0..Ms(Upstream) : aux[u] \in Nat /\ aux[u] + 1 < Slots
  BY <1>2 DEF NumbersLeft, StoreTypeOK, BufferTypeOK
<1>13. id \in 0..Top
  <2>1. t <= Ms(Upstream) /\ t \in Nat /\ aux[t] \in Nat /\ aux[t] + 1 < Slots BY <1>11, <1>12, MsFact
  <2> QED BY <1>8, <2>1, MsFact DEF Top, Slots
<1>14. id \notin DOMAIN rows
  <2>1. SUFFICES ASSUME id \in DOMAIN rows PROVE FALSE OBVIOUS
  <2>2. id <= Slots * t + aux[t] \/ id >= Slots * (t + 1) BY <1>11, <2>1 DEF RowInv, RowAt
  <2>3. t \in Nat /\ aux[t] \in Nat /\ aux[t] + 1 < Slots BY <1>11, <1>12
  <2> QED BY <1>8, <2>2, <2>3 DEF Slots
<1>15. Stored(id, k) BY <1>6, <1>9, <1>13, StoreFact
<1>22. Minted(id, k)
  <2>1. aux' = [aux EXCEPT ![t] = @ + 1] /\ aux \in [0..Ms(Upstream) -> 0..(Slots - 1)]
    BY <1>9 DEF StoreTypeOK, BufferTypeOK
  <2>2. aux[t] + 1 \in 0..(Slots - 1)
    <3>1. PICK n : n = aux[t] + 1 OBVIOUS
    <3>2. n \in Nat /\ n <= Slots - 1
      <4>1. aux[t] \in Nat /\ aux[t] + 1 < Slots BY <1>11, <1>12
      <4> QED BY <3>1, <4>1 DEF Slots
    <3>3. n \in 0..(Slots - 1) BY <3>2 DEF Slots
    <3> QED BY <3>1, <3>3
  <2>3. /\ aux' \in [0..Ms(Upstream) -> 0..(Slots - 1)]
        /\ \A u \in 0..Ms(Upstream) : aux'[u] = IF u = t THEN aux[t] + 1 ELSE aux[u]
    BY <1>11, <2>1, <2>2
  <2>4. ASSUME NEW u \in 0..Ms(Upstream)
        PROVE  /\ aux[u] <= aux'[u] /\ id # Slots * u
               /\ id <= Slots * u + aux'[u] \/ id >= Slots * (u + 1)
    <3>1. u \in Nat /\ t \in Nat /\ aux[u] \in Nat /\ aux[t] \in Nat /\ aux[t] + 1 < Slots
      BY <1>11, <1>12, MsFact
    <3>2. aux'[u] = IF u = t THEN aux[t] + 1 ELSE aux[u] BY <2>3
    <3> QED BY <1>8, <3>1, <3>2 DEF Slots
  <2>5. id < Slots * (Ms(k) + 1)
    <3>1. t \in Nat /\ t <= Ms(k) /\ Ms(k) \in Nat /\ aux[t] \in Nat /\ aux[t] + 1 < Slots
      BY <1>6, <1>11, <1>12, MsFact
    <3> QED BY <1>8, <3>1 DEF Slots
  <2> QED BY <1>13, <1>14, <1>15, <2>3, <2>4, <2>5 DEF Minted
<1>16. ASSUME Below(k, job.ceiling) PROVE t = Ms(k)
  <2>1. Ms(k) \in 0..Ms(Upstream) /\ Ms(k) \in 0..Ms(k) BY <1>6, MsFact
  <2>2. aux[Ms(k)] \in Nat /\ aux[Ms(k)] + 1 < Slots BY <1>12, <2>1
  <2>3. job.ceiling = None \/ Slots * Ms(k) + aux[Ms(k)] + 1 < job.ceiling
    <3>1. CASE job.ceiling = None BY <3>1
    <3>2. CASE job.ceiling # None
      <4>1. job.ceiling \in Nat BY <1>3, <3>2 DEF Jobs
      <4>2. Slots * (Ms(k) + 1) <= job.ceiling BY <1>16, <3>2 DEF Below
      <4>3. Ms(k) \in Nat BY <2>1
      <4> QED BY <2>2, <4>1, <4>2, <4>3 DEF Slots
    <3> QED BY <3>1, <3>2
  <2>4. Ms(k) \in Fits(k, job.ceiling) BY <2>1, <2>3 DEF Fits
  <2>5. Ms(k) \in Nat /\ Ms(k) <= t /\ t <= Ms(k) BY <1>10, <1>11, <2>1, <2>4
  <2> QED BY <1>11, <2>5
<1> DEFINE after == IF job.left \ {k} = {} THEN None
                    ELSE [job EXCEPT !.left = job.left \ {k}, !.fresh = FALSE]
<1>17. after \in Jobs \cup {None} BY <1>3, <1>4 DEF Jobs
<1>18. after = None <=> job.left \ {k} = {} BY <1>3, <1>4, HistoryAssumption DEF Jobs
<1>19. after # None =>
         after.left = job.left \ {k} /\ after.left # {} /\ ~after.fresh /\ after.ceiling = job.ceiling
  BY <1>3 DEF Jobs
<1>20. /\ work' \in [Workers -> Jobs \cup {None}] /\ work'[w] = after
       /\ \A v \in Workers : v # w => work'[v] = work[v]
  <2>1. work' = [work EXCEPT ![w] = after] BY <1>9
  <2>2. work \in [Workers -> Jobs \cup {None}] BY DEF StoreTypeOK
  <2> HIDE DEF after
  <2> QED BY <1>17, <2>1, <2>2
<1>21. Passes(w, k) BY <1>1, <1>6, <1>18, <1>19, <1>20 DEF Passes
<1> HIDE DEF after
<1> QED BY <1>1, <1>2, <1>5, <1>6, <1>8, <1>9, <1>11, <1>12, <1>14, <1>16, <1>20, <1>21, <1>22

\* flushChatBatch asks the index: the frame is fresh, or it is skipped.
LEMMA FlushLookupFact ==
  ASSUME StoreTypeOK, HeldInv, NEW w \in Workers, FlushLookup(w)
  PROVE  \E k \in Messages :
           /\ k = Earliest(work[w].left) /\ k \in work[w].left /\ work[w] # None
           /\ work' \in [Workers -> Jobs \cup {None}]
           /\ \/ /\ k \in Untagged \/ k \notin DOMAIN idx
                 /\ \A v \in Workers : v # w => work'[v] = work[v]
                 /\ work'[w] # None /\ work'[w].left = work[w].left /\ work'[w].ceiling = work[w].ceiling
              \/ k \in DOMAIN idx /\ Passes(w, k)
<1>1. PICK job : job = work[w] OBVIOUS
<1>2. job # None /\ ~job.fresh BY <1>1 DEF FlushLookup
<1>3. job \in Jobs BY <1>1, <1>2 DEF StoreTypeOK
<1>4. job.left \in SUBSET Messages /\ job.left # {} BY <1>1, <1>2, <1>3 DEF Jobs, HeldInv
<1>5. PICK k : k = Earliest(job.left) OBVIOUS
<1>6. k \in job.left /\ k \in Messages BY <1>4, <1>5, EarliestFact
<1>7. PICK dup \in BOOLEAN : dup <=> MsgidOf(k) # None /\ LookupMessageByMsgID(idx, k) # None
  OBVIOUS
<1> DEFINE after == IF ~dup THEN [job EXCEPT !.fresh = TRUE]
                    ELSE IF job.left \ {k} = {} THEN None
                    ELSE [job EXCEPT !.left = job.left \ {k}]
<1>8. work' = [work EXCEPT ![w] = after] BY <1>1, <1>5, <1>7 DEF FlushLookup
<1>9. after \in Jobs \cup {None} BY <1>3, <1>4 DEF Jobs
<1>10. dup => k \in DOMAIN idx BY <1>7 DEF LookupMessageByMsgID
<1>11. ~dup => k \in Untagged \/ k \notin DOMAIN idx
  <2>1. k \in Nat /\ None \notin Nat BY <1>6, MsFact
  <2>2. k \in DOMAIN idx => idx[k] \in Nat BY DEF StoreTypeOK, BufferTypeOK
  <2> QED BY <1>7, <2>1, <2>2 DEF MsgidOf, LookupMessageByMsgID
<1>12. /\ ~dup => after # None /\ after.left = job.left /\ after.ceiling = job.ceiling
       /\ dup => (after = None <=> job.left \ {k} = {})
       /\ dup /\ after # None =>
            after.left = job.left \ {k} /\ ~after.fresh /\ after.ceiling = job.ceiling
  BY <1>2, <1>3, <1>4, HistoryAssumption DEF Jobs
<1> HIDE DEF after
<1>13. /\ work' \in [Workers -> Jobs \cup {None}] /\ work'[w] = after
       /\ \A v \in Workers : v # w => work'[v] = work[v]
  <2>1. work \in [Workers -> Jobs \cup {None}] BY DEF StoreTypeOK
  <2> QED BY <1>8, <1>9, <2>1
<1>14. dup => Passes(w, k) BY <1>1, <1>6, <1>12, <1>13 DEF Passes
<1> QED BY <1>1, <1>2, <1>5, <1>6, <1>10, <1>11, <1>12, <1>13, <1>14

\* A goroutine begins with a batch, unless it is empty.
Takes(w, frames, ceiling) ==
  /\ \A v \in Workers : v # w => work'[v] = work[v]
  /\ work'[w] = None <=> frames = {}
  /\ work'[w] # None =>
       work'[w].left = frames /\ ~work'[w].fresh /\ work'[w].ceiling = ceiling
  /\ overlapped' = (overlapped \/ \E v \in Workers : v # w /\ work[v] # None)

LEMMA StartFact ==
  ASSUME StoreTypeOK, NEW w \in Workers, NEW batch \in Batches, NEW c \in Nat \cup {None},
         StartFlush(w, Job(batch, c))
  PROVE  work' \in [Workers -> Jobs \cup {None}] /\ Takes(w, batch.frames, c)
<1>1. PICK job : job = Job(batch, c) OBVIOUS
<1>2. job \in Jobs /\ job.left = batch.frames /\ ~job.fresh /\ job.ceiling = c
  BY <1>1 DEF Job, Jobs, Batches
<1>3. PICK after : after = IF job.left = {} THEN None ELSE job OBVIOUS
<1>4. work' = [work EXCEPT ![w] = after] BY <1>1, <1>3 DEF StartFlush
<1>5. work \in [Workers -> Jobs \cup {None}] /\ DOMAIN work = Workers BY DEF StoreTypeOK
<1>6. after \in Jobs \cup {None} /\ (after = None <=> job.left = {})
  BY <1>2, <1>3, HistoryAssumption
<1>7. work' \in [Workers -> Jobs \cup {None}] /\ work'[w] = after
      /\ \A v \in Workers : v # w => work'[v] = work[v]
  BY <1>4, <1>5, <1>6
<1>8. overlapped' = (overlapped \/ \E v \in Workers : v # w /\ work[v] # None)
  BY <1>5 DEF StartFlush
<1> QED BY <1>2, <1>3, <1>6, <1>7, <1>8 DEF Takes

\* A new row keeps the types of the buffer, and its ids in their milliseconds.
LEMMA MintedRows ==
  ASSUME StoreTypeOK, RowInv, NEW k \in Messages, NEW id, Minted(id, k)
  PROVE  BufferTypeOK' /\ RowInv'
<1>1. Stored(id, k) /\ id \in Nat BY DEF Minted
<1>2. ASSUME NEW i \in DOMAIN rows' PROVE RowOK(i)' /\ RowAt(i)'
  <2>1. CASE i = id
    <3>1. rows'[i].said = k /\ rows'[i].ch = Channel BY <1>1, <1>2, <2>1 DEF Stored
    <3> QED BY <1>1, <2>1, <3>1 DEF Minted, RowOK, RowAt
  <2>2. CASE i # id
    <3>1. i \in DOMAIN rows /\ rows'[i] = rows[i] BY <1>1, <1>2, <2>2 DEF Stored
    <3>2. RowOK(i) /\ RowAt(i) BY <3>1 DEF StoreTypeOK, BufferTypeOK, RowInv
    <3>3. ASSUME NEW t \in 0..Ms(Upstream) PROVE i <= Slots * t + aux'[t] \/ i >= Slots * (t + 1)
      <4>1. i <= Slots * t + aux[t] \/ i >= Slots * (t + 1) BY <3>2 DEF RowAt
      <4>2. aux[t] <= aux'[t] BY DEF Minted
      <4>3. aux[t] \in Nat /\ aux'[t] \in Nat /\ t \in Nat /\ i \in Nat
        BY <3>2 DEF Minted, StoreTypeOK, BufferTypeOK, RowOK
      <4> QED BY <4>1, <4>2, <4>3 DEF Slots
    <3> QED BY <3>1, <3>2, <3>3 DEF RowOK, RowAt
  <2> QED BY <2>1, <2>2
<1>3. DOMAIN idx' \subseteq Messages /\ \A j \in DOMAIN idx' : idx'[j] \in Nat
  BY <1>1 DEF Stored, StoreTypeOK, BufferTypeOK
<1>4. aux' \in [0..Ms(Upstream) -> 0..(Slots - 1)] BY DEF Minted
<1> QED BY <1>2, <1>3, <1>4 DEF BufferTypeOK, RowInv

-----------------------------------------------------------------------------
(* Types, and the ids of rows *)

\* What a step that stores nothing leaves alone.
Still == UNCHANGED <<rows, idx, aux>>

\* A live message: one relayed at once, or one whose multiline batch is complete.
Relays(k) == Store(Slots * Ms(k), k) /\ UNCHANGED <<aux, work>> /\ Minted(Slots * Ms(k), k)

\* Someone speaks: while the link is down, in one line, or in a batch of lines.
LEMMA SayFact ==
  ASSUME StoreTypeOK, RowInv, Say
  PROVE  /\ said' = said + 1 /\ said' \in Messages
         /\ UNCHANGED <<linkUp, reqs, answer, cut, pageCh, pageBatch, page, scrolls, work,
                        overlapped, misrouted, refs, chatBatches, chatStack>>
         /\ \/ /\ Still /\ missed' = missed \cup {said'} /\ UNCHANGED <<bound, lineBatch>>
            \/ Relays(said') /\ UNCHANGED <<missed, bound, lineBatch>>
            \/ Still /\ MultilineOpen(said') /\ UNCHANGED missed
<1>1. said < Upstream /\ said' = said + 1 BY DEF Say
<1>2. said' \in Messages BY <1>1, MsFact DEF StoreTypeOK, Messages
<1>3. UNCHANGED <<linkUp, reqs, answer, cut, pageCh, pageBatch, page, scrolls, work,
                  overlapped, misrouted, refs>>
  BY DEF Say, waiter, paging, flushing
<1>4. CASE ~linkUp BY <1>1, <1>2, <1>3, <1>4 DEF Say, store, batches, Still
<1>5. CASE linkUp /\ said' \notin Multi
  <2>1. LiveMessage(said') /\ UNCHANGED missed BY <1>5 DEF Say
  <2>2. Store(Slots * Ms(said'), said') /\ UNCHANGED aux BY <2>1 DEF LiveMessage
  <2>3. Minted(Slots * Ms(said'), said') BY <1>2, <2>2, LiveFact
  <2> QED BY <1>1, <1>2, <1>3, <2>1, <2>2, <2>3 DEF LiveMessage, batches, Relays
<1>6. CASE linkUp /\ said' \in Multi
  <2>1. MultilineOpen(said') /\ UNCHANGED missed BY <1>6 DEF Say
  <2> QED BY <1>1, <1>2, <1>3, <2>1 DEF MultilineOpen, store, Still
<1> QED BY <1>4, <1>5, <1>6

\* A multiline batch is complete: it is relayed, or joins a history batch.
LEMMA FlushLineFact ==
  ASSUME StoreTypeOK, WireTypeOK, RowInv, FlushLineBatch
  PROVE  /\ lineBatch # None /\ lineBatch \in LineBatches /\ lineBatch' = None
         /\ UNCHANGED <<said, linkUp, reqs, answer, refs, missed, cut, chatStack, bound, pageCh,
                        pageBatch, misrouted, page, scrolls, work, overlapped>>
         /\ \/ /\ lineBatch.chatRef = None /\ Relays(lineBatch.msg) /\ UNCHANGED chatBatches
            \/ /\ lineBatch.chatRef # None /\ Still
               /\ chatBatches' = appendChatFrame(lineBatch.chatRef, lineBatch.msg)
<1>1. lineBatch # None /\ lineBatch \in LineBatches BY DEF FlushLineBatch, WireTypeOK
<1>2. lineBatch.msg \in Messages BY <1>1 DEF LineBatches
<1>3. UNCHANGED <<said, linkUp, reqs, answer, refs, missed, cut, chatStack, bound, pageCh,
                  pageBatch, misrouted, page, scrolls, work, overlapped, aux>> /\ lineBatch' = None
  BY DEF FlushLineBatch, server, waiter, paging, flushing
<1>4. CASE lineBatch.chatRef = None
  <2>1. Store(Slots * Ms(lineBatch.msg), lineBatch.msg) /\ UNCHANGED chatBatches
    BY <1>4 DEF FlushLineBatch
  <2>2. Minted(Slots * Ms(lineBatch.msg), lineBatch.msg)
    <3>1. PICK k \in Messages : k = lineBatch.msg BY <1>2
    <3>2. Minted(Slots * Ms(k), k) BY <1>3, <2>1, <3>1, LiveFact
    <3> QED BY <3>1, <3>2
  <2> QED BY <1>1, <1>3, <1>4, <2>1, <2>2 DEF Relays
<1>5. CASE lineBatch.chatRef # None
  BY <1>1, <1>3, <1>5 DEF FlushLineBatch, Still
<1> QED BY <1>4, <1>5

\* Only a spoken message, a multiline batch or a flush adds a row.
LEMMA Buffering ==
  ASSUME StoreTypeOK, WireTypeOK, HeldInv, RowInv, HistoryNext
  PROVE  \/ Still
         \/ Say /\ Relays(said') /\ UNCHANGED <<lineBatch, missed, bound>>
         \/ FlushLineBatch /\ Relays(lineBatch.msg)
         \/ \E w \in Workers : FlushAppend(w)
<1>1. ASSUME NEW w \in Workers, FlushLookup(w) PROVE Still BY <1>1 DEF FlushLookup, store, Still
<1>2. CASE FlushLineBatch BY <1>2, FlushLineFact
<1>3. CASE ChatBatchOpen \/ ChatBatchFrame \/ ChatBatchClose
  BY <1>3 DEF ChatBatchOpen, ChatBatchFrame, ChatBatchClose, store, Still
<1>4. CASE FetchOlder \/ PageWoken \/ PageTimeout \/ PageFlushed
  BY <1>4 DEF FetchOlder, PageWoken, PageTimeout, PageFlushed, store, Still
<1>5. CASE Say BY <1>5, SayFact
<1>6. CASE WaiterAges \/ LinkDies \/ Join BY <1>6 DEF WaiterAges, LinkDies, Join, store, Still
<1>7. ASSUME NEW need \in 1..PageLimit, GetMessages(need) PROVE Still
  BY <1>7 DEF GetMessages, store, Still
<1>8. ASSUME NEW refuse \in BOOLEAN, ServerAnswers(refuse) PROVE Still
  BY <1>8 DEF ServerAnswers, store, Still
<1> QED BY <1>1, <1>2, <1>3, <1>4, <1>5, <1>6, <1>7, <1>8
        DEF HistoryNext, HandlerNext, RestNext, Workers

LEMMA NextRows ==
  ASSUME StoreTypeOK, WireTypeOK, HeldInv, RowInv, HistoryNext
  PROVE  BufferTypeOK' /\ RowInv'
<1>1. CASE Still BY <1>1 DEF Still, StoreTypeOK, BufferTypeOK, RowOK, RowInv, RowAt
<1>2. CASE Say /\ Relays(said')
  <2>1. PICK k \in Messages : k = said' BY <1>2, SayFact
  <2>2. Minted(Slots * Ms(k), k) BY <1>2, <2>1 DEF Relays
  <2> QED BY <2>2, MintedRows
<1>3. CASE FlushLineBatch /\ Relays(lineBatch.msg)
  <2>1. PICK k \in Messages : k = lineBatch.msg BY <1>3, FlushLineFact DEF LineBatches
  <2>2. Minted(Slots * Ms(k), k) BY <1>3, <2>1 DEF Relays
  <2> QED BY <2>2, MintedRows
<1>4. CASE \E w \in Workers : FlushAppend(w)
  <2>1. PICK w \in Workers : FlushAppend(w) BY <1>4
  <2>2. PICK k \in Messages : \E t \in 0..Ms(k) : Minted(Slots * t + aux[t] + 1, k)
    BY <2>1, FlushAppendFact
  <2>3. PICK t \in 0..Ms(k) : Minted(Slots * t + aux[t] + 1, k) BY <2>2
  <2> QED BY <2>3, MintedRows
<1> QED BY <1>1, <1>2, <1>3, <1>4, Buffering

\* The oldest row of a buffer with rows.
LEMMA FloorFact ==
  ASSUME StoreTypeOK, DOMAIN rows # {}
  PROVE  \E i \in DOMAIN rows :
           i \in Nat /\ FloorId = i /\ Floor = rows[i].said /\ \A j \in DOMAIN rows : i <= j
<1>1. DOMAIN rows \in SUBSET Nat BY DEF StoreTypeOK, BufferTypeOK, RowOK
<1>2. PICK i : i = CHOOSE x \in DOMAIN rows : \A j \in DOMAIN rows : x <= j OBVIOUS
<1>3. i \in DOMAIN rows /\ \A j \in DOMAIN rows : i <= j BY <1>1, <1>2, LeastNumber
<1>4. FloorId = i /\ Floor = rows[i].said BY <1>2 DEF FloorId, Floor
<1> QED BY <1>1, <1>3, <1>4

\* The batch that is complete.
LEMMA CloseFact ==
  ASSUME StoreTypeOK, WireTypeOK, StackInv, ChatBatchClose
  PROVE  \E acc \in Batches :
           /\ answer # None /\ answer \in Answers /\ answer.open /\ answer.left = {}
           /\ acc = chatBatches[answer.ref] /\ answer.ref \in DOMAIN chatBatches /\ acc.ask = answer.ask
           /\ work["handler"] = None /\ answer' = None
           /\ chatBatches' = Without(chatBatches, {answer.ref})
           /\ chatStack' = popChatStack(chatStack, answer.ref)
           /\ UNCHANGED <<said, linkUp, reqs, refs, missed, cut, rows, idx, aux, lineBatch, bound, page, scrolls>>
           /\ \/ /\ pageCh # None /\ pageBatch' = acc /\ pageCh' = None /\ UNCHANGED <<work, overlapped>>
                 /\ misrouted' = (misrouted \/ acc.ask = "latest" \/ pageCh.id # answer.id)
              \/ /\ pageCh = None /\ UNCHANGED <<pageBatch, pageCh, misrouted>>
                 /\ work' \in [Workers -> Jobs \cup {None}] /\ Takes("handler", acc.frames, None)
<1>1. answer # None /\ answer.open /\ answer \in Answers /\ answer.left = {} /\ work["handler"] = None
  BY DEF ChatBatchClose, WireTypeOK, Listening
<1>2. PICK acc : acc = chatBatches[answer.ref] OBVIOUS
<1>3. acc \in Batches /\ acc.ask = answer.ask /\ answer.ref \in DOMAIN chatBatches
  BY <1>1, <1>2 DEF StackInv, WireTypeOK
<1>4. /\ answer' = None /\ chatBatches' = Without(chatBatches, {answer.ref})
      /\ chatStack' = popChatStack(chatStack, answer.ref)
      /\ UNCHANGED <<said, linkUp, reqs, refs, missed, cut, rows, idx, aux, lineBatch, bound, page, scrolls>>
  BY DEF ChatBatchClose, paging
<1>5. CASE pageCh # None
  <2>1. pageBatch' = acc /\ pageCh' = None /\ UNCHANGED <<work, overlapped>>
        /\ misrouted' = (misrouted \/ acc.ask = "latest" \/ pageCh.id # answer.id)
    BY <1>2, <1>5 DEF ChatBatchClose, flushing
  <2> QED BY <1>1, <1>2, <1>3, <1>4, <1>5, <2>1
<1>6. CASE pageCh = None
  <2>1. UNCHANGED <<pageBatch, pageCh, misrouted>> /\ StartFlush("handler", Job(acc, None))
    BY <1>2, <1>6 DEF ChatBatchClose
  <2>2. work' \in [Workers -> Jobs \cup {None}] /\ Takes("handler", acc.frames, None)
    <3>1. "handler" \in Workers /\ None \in Nat \cup {None} BY DEF Workers
    <3> QED BY <1>3, <2>1, <3>1, StartFact
  <2> QED BY <1>1, <1>2, <1>3, <1>4, <1>6, <2>1, <2>2
<1> QED BY <1>5, <1>6

\* The batch handed over is taken up by the REST request.
LEMMA WokenFact ==
  ASSUME StoreTypeOK, WireTypeOK, PageWoken
  PROVE  /\ pageBatch \in Batches /\ page.at = "wait" /\ pageBatch # None /\ pageBatch' = None
         /\ work' \in [Workers -> Jobs \cup {None}]
         /\ Takes("rest", pageBatch.frames, page.ceiling)
         /\ page' = IF pageBatch.frames = {} THEN Idle ELSE [page EXCEPT !.at = "flush"]
         /\ UNCHANGED <<said, linkUp, reqs, answer, refs, missed, cut, rows, idx, aux, chatBatches,
                        chatStack, lineBatch, bound, pageCh, misrouted, scrolls>>
<1>1. page.at = "wait" /\ pageBatch # None /\ pageBatch' = None /\ pageBatch \in Batches
  BY DEF PageWoken, WireTypeOK
<1>2. page.ceiling \in Nat \cup {None} BY DEF StoreTypeOK, Pages
<1>3. work' \in [Workers -> Jobs \cup {None}] /\ Takes("rest", pageBatch.frames, page.ceiling)
  <2>1. "rest" \in Workers BY DEF Workers
  <2>2. PICK c : c = page.ceiling OBVIOUS
  <2>3. PICK acc : acc = pageBatch OBVIOUS
  <2>4. StartFlush("rest", Job(acc, c)) BY <2>2, <2>3 DEF PageWoken
  <2>5. work' \in [Workers -> Jobs \cup {None}] /\ Takes("rest", acc.frames, c)
    BY <1>1, <1>2, <2>1, <2>2, <2>3, <2>4, StartFact
  <2> QED BY <2>2, <2>3, <2>5
<1> QED BY <1>1, <1>3 DEF PageWoken, server, store, batches

LEMMA NextWork ==
  ASSUME StoreTypeOK, WireTypeOK, HeldInv, StackInv, RowInv, HistoryNext
  PROVE  /\ said' \in Nat /\ Earlier <= said' /\ said' <= Upstream
         /\ work' \in [Workers -> Jobs \cup {None}] /\ page' \in Pages /\ scrolls' \in Nat
<1> DEFINE Goal == /\ said' \in Nat /\ Earlier <= said' /\ said' <= Upstream
                   /\ work' \in [Workers -> Jobs \cup {None}] /\ page' \in Pages /\ scrolls' \in Nat
<1>0. /\ said \in Nat /\ Earlier <= said /\ said <= Upstream /\ Earlier \in Nat /\ Upstream \in Nat
      /\ work \in [Workers -> Jobs \cup {None}] /\ page \in Pages /\ scrolls \in Nat
  BY MsFact DEF StoreTypeOK
<1>10. Idle \in Pages BY DEF Idle, Pages
<1>1. ASSUME NEW w \in Workers, FlushLookup(w) PROVE Goal
  <2>1. work' \in [Workers -> Jobs \cup {None}] BY <1>1, FlushLookupFact
  <2> QED BY <1>0, <1>1, <2>1 DEF FlushLookup, server, paging
<1>2. ASSUME NEW w \in Workers, FlushAppend(w) PROVE Goal
  <2>1. /\ work' \in [Workers -> Jobs \cup {None}]
        /\ page' = IF w = "rest" THEN [page EXCEPT !.got = @ + 1] ELSE page
    BY <1>2, FlushAppendFact
  <2>2. page' \in Pages BY <1>0, <2>1 DEF Pages
  <2> QED BY <1>0, <1>2, <2>1, <2>2 DEF FlushAppend, server
<1>3. CASE FlushLineBatch \/ ChatBatchOpen \/ ChatBatchFrame \/ WaiterAges \/ LinkDies \/ Join
  BY <1>0, <1>3 DEF FlushLineBatch, ChatBatchOpen, ChatBatchFrame, WaiterAges, LinkDies, Join, server,
    paging, flushing
<1>4. CASE ChatBatchClose
  <2>1. work' \in [Workers -> Jobs \cup {None}] /\ UNCHANGED <<said, page, scrolls>>
    BY <1>0, <1>4, CloseFact
  <2> QED BY <1>0, <2>1
<1>5. CASE FetchOlder
  <2>1. UNCHANGED <<said, scrolls, work>> BY <1>5 DEF FetchOlder, flushing
  <2>2. FloorId \in Nat \cup {None}
    <3>1. CASE DOMAIN rows = {} BY <3>1 DEF FloorId
    <3> QED BY <3>1, FloorFact
  <2>3. page' = Idle \/ page' = [page EXCEPT !.at = "wait", !.ceiling = FloorId]
    BY <1>5 DEF FetchOlder
  <2>4. [page EXCEPT !.at = "wait", !.ceiling = FloorId] \in Pages BY <1>0, <2>2 DEF Pages
  <2> QED BY <1>0, <1>10, <2>1, <2>3, <2>4
<1>6. CASE PageWoken
  <2>1. [page EXCEPT !.at = "flush"] \in Pages BY <1>0 DEF Pages
  <2> QED BY <1>0, <1>6, <1>10, <2>1, WokenFact
<1>7. CASE PageTimeout \/ PageFlushed
  <2>1. UNCHANGED <<said, scrolls, work>> BY <1>7 DEF PageTimeout, PageFlushed, server, flushing
  <2>2. page' \in Pages
    <3>1. CASE page' = Idle BY <1>10, <3>1
    <3>2. CASE page' # Idle
      <4>1. /\ page' = [Idle EXCEPT !.at = "ask", !.need = page.need - page.got, !.round = page.round + 1]
            /\ ~(page.got = 0 \/ page.got >= page.need \/ page.round = 3)
        BY <1>7, <3>2 DEF PageTimeout, PageFlushed
      <4>2. page.got \in Nat /\ page.need \in Nat /\ page.round \in 0..3 BY <1>0 DEF Pages
      <4>3. page.need - page.got \in Nat /\ page.round + 1 \in 0..3 BY <4>1, <4>2
      <4> QED BY <1>10, <4>1, <4>3 DEF Pages
    <3> QED BY <3>1, <3>2
  <2> QED BY <1>0, <2>1, <2>2
<1>8. CASE Say
  <2>1. said' = said + 1 /\ said' \in Messages /\ UNCHANGED <<page, scrolls, work>> BY <1>8, SayFact
  <2>2. said' <= Upstream BY <2>1, MsFact
  <2> QED BY <1>0, <2>1, <2>2
<1>9. ASSUME NEW need \in 1..PageLimit, GetMessages(need) PROVE Goal
  <2>1. /\ UNCHANGED <<said, work>> /\ scrolls' = scrolls + 1
        /\ page' = [Idle EXCEPT !.at = "ask", !.need = need, !.round = 1]
    BY <1>9 DEF GetMessages, server, flushing
  <2>2. need \in Nat BY HistoryAssumption
  <2>3. page' = [at |-> "ask", need |-> need, round |-> 1, got |-> 0, ceiling |-> None]
    BY <2>1 DEF Idle
  <2>4. page' \in Pages
    <3>1. 1 \in 0..3 /\ 0 \in Nat /\ None \in Nat \cup {None} OBVIOUS
    <3> QED BY <2>2, <2>3, <3>1 DEF Pages
  <2> QED BY <1>0, <2>1, <2>4
<1>11. ASSUME NEW refuse \in BOOLEAN, ServerAnswers(refuse) PROVE Goal
  BY <1>0, <1>11 DEF ServerAnswers, paging, flushing
<1> QED BY <1>1, <1>2, <1>3, <1>4, <1>5, <1>6, <1>7, <1>8, <1>9, <1>11
        DEF HistoryNext, HandlerNext, RestNext, Workers

\* The sequences the channel works with.
LEMMA SeqFact ==
  ASSUME NEW S, NEW q \in Seq(S)
  PROVE  /\ \A x \in S : /\ Append(q, x) \in Seq(S) /\ Len(Append(q, x)) = Len(q) + 1
                         /\ \A n \in 1..Len(q) : Append(q, x)[n] = q[n]
                         /\ Append(q, x)[Len(q) + 1] = x
         /\ q # << >> => /\ Head(q) \in S /\ Head(q) = q[1] /\ 1 \in 1..Len(q)
                         /\ Tail(q) \in Seq(S) /\ Len(Tail(q)) = Len(q) - 1
                         /\ \A n \in 1..Len(Tail(q)) : n + 1 \in 1..Len(q) /\ Tail(q)[n] = q[n + 1]
         /\ q # << >> => Front(q) \in Seq(S)
         /\ Len(q) \in Nat
<1>1. Len(q) \in Nat BY LenProperties
<1>2. ASSUME NEW x \in S
      PROVE  /\ Append(q, x) \in Seq(S) /\ Len(Append(q, x)) = Len(q) + 1
             /\ \A n \in 1..Len(q) : Append(q, x)[n] = q[n]
             /\ Append(q, x)[Len(q) + 1] = x
  BY AppendProperties
<1>3. ASSUME q # << >>
      PROVE  /\ Head(q) \in S /\ Head(q) = q[1] /\ 1 \in 1..Len(q)
             /\ Tail(q) \in Seq(S) /\ Len(Tail(q)) = Len(q) - 1
             /\ \A n \in 1..Len(Tail(q)) : n + 1 \in 1..Len(q) /\ Tail(q)[n] = q[n + 1]
  <2>1. Len(q) # 0 BY <1>3, EmptySeq
  <2>2. Head(q) = q[1] OBVIOUS
  <2>3. Head(q) \in S /\ Tail(q) \in Seq(S) /\ Len(Tail(q)) = Len(q) - 1
        /\ \A n \in 1..Len(Tail(q)) : Tail(q)[n] = q[n + 1]
    BY <1>3, HeadTailProperties
  <2> QED BY <1>1, <2>1, <2>2, <2>3
<1>4. ASSUME q # << >> PROVE Front(q) \in Seq(S)
  <2>1. Front(q) = SubSeq(q, 1, Len(q) - 1) BY DEF Front
  <2>2. \A n \in 1..(Len(q) - 1) : q[n] \in S BY <1>1, ElementOfSeq
  <2>3. 1 \in Int /\ Len(q) - 1 \in Int BY <1>1
  <2> QED BY <2>1, <2>2, <2>3, SubSeqProperties
<1> QED BY <1>1, <1>2, <1>3, <1>4

\* A batch takes a frame; without an open batch of that name it is lost.
LEMMA FrameFact ==
  ASSUME WireTypeOK, NEW ref, NEW k \in Messages, NEW after, after = appendChatFrame(ref, k)
  PROVE  /\ DOMAIN after = DOMAIN chatBatches
         /\ \A b \in DOMAIN chatBatches :
              /\ after[b] \in Batches /\ after[b].ask = chatBatches[b].ask
              /\ after[b].frames = IF b = ref THEN chatBatches[b].frames \cup {k} ELSE chatBatches[b].frames
<1>1. CASE ref \notin DOMAIN chatBatches BY <1>1 DEF appendChatFrame, WireTypeOK
<1>2. CASE ref \in DOMAIN chatBatches
  <2>1. PICK acc : acc = chatBatches[ref] OBVIOUS
  <2>2. acc \in Batches BY <1>2, <2>1 DEF WireTypeOK
  <2>3. PICK new : new = [acc EXCEPT !.frames = @ \cup {k}] OBVIOUS
  <2>4. new \in Batches /\ new.ask = acc.ask /\ new.frames = acc.frames \cup {k}
    BY <2>2, <2>3 DEF Batches
  <2>5. after = [chatBatches EXCEPT ![ref] = new] BY <1>2, <2>1, <2>3 DEF appendChatFrame
  <2>6. DOMAIN after = DOMAIN chatBatches
        /\ \A b \in DOMAIN chatBatches : after[b] = IF b = ref THEN new ELSE chatBatches[b]
    BY <2>5
  <2> QED BY <2>1, <2>4, <2>6 DEF WireTypeOK
<1> QED BY <1>1, <1>2

\* The server's answer, and what of the past it contains.
LEMMA AnswerFact ==
  ASSUME StoreTypeOK, WireTypeOK, HeldInv, NEW refuse \in BOOLEAN, ServerAnswers(refuse)
  PROVE  \E req \in Requests :
           /\ reqs # << >> /\ req = reqs[1] /\ reqs' = Tail(reqs) /\ lineBatch = None /\ answer = None
           /\ answer' = None \/
              \E below \in 1..(said + 1) :
                /\ answer' \in Answers /\ ~answer'.open /\ answer'.ask = req.ask /\ answer'.id = req.id
                /\ below = IF req.ask = "latest" THEN said + 1 ELSE req.below
                /\ answer'.left \subseteq 1..(below - 1)
                /\ \A k \in answer'.left : \A j \in (k + 1)..(below - 1) : j \in answer'.left
<1>1. reqs # << >> /\ reqs' = Tail(reqs) /\ refs' = refs + 1 /\ lineBatch = None /\ answer = None
  BY DEF ServerAnswers
<1>2. reqs \in Seq(Requests) /\ refs \in Nat /\ said \in Nat /\ said <= Upstream /\ Upstream \in Nat
  BY MsFact DEF WireTypeOK, StoreTypeOK
<1>3. PICK req : req = Head(reqs) OBVIOUS
<1>4. req \in Requests /\ req = reqs[1] /\ 1 \in 1..Len(reqs) BY <1>1, <1>2, <1>3, SeqFact
<1>5. PICK asked : asked = IF req.ask = "latest" THEN [req EXCEPT !.below = said + 1] ELSE req OBVIOUS
<1>6. asked \in Requests /\ asked.below = IF req.ask = "latest" THEN said + 1 ELSE req.below
  BY <1>2, <1>4, <1>5 DEF Requests
<1>7. asked.below \in 1..(said + 1)
  <2>1. CASE req.ask = "latest" BY <1>2, <1>6, <2>1
  <2>2. CASE req.ask = "before" BY <1>4, <1>6, <2>2 DEF HeldInv
  <2> QED BY <1>4, <2>1, <2>2 DEF Requests, Asks
<1>8. answer' = IF refuse THEN None ELSE
        [ref |-> refs', ask |-> req.ask, id |-> req.id, open |-> FALSE, left |-> Page(asked)]
  BY <1>3, <1>5 DEF ServerAnswers
<1>9. Page(asked) \subseteq 1..(asked.below - 1) BY DEF Page
<1>10. ASSUME NEW k \in Page(asked), NEW j \in (k + 1)..(asked.below - 1) PROVE j \in Page(asked)
  <2> DEFINE Newer(x) == {y \in 1..(asked.below - 1) : y > x}
  <2>1. k \in 1..(asked.below - 1) /\ Cardinality(Newer(k)) < asked.limit /\ asked.below \in Nat
        /\ asked.limit \in Nat
    BY <1>6 DEF Page, Requests
  <2>2. j \in 1..(asked.below - 1) /\ j > k BY <2>1
  <2>3. Newer(j) \in SUBSET Newer(k) BY <2>1, <2>2
  <2>4. IsFiniteSet(Newer(k))
    <3>1. IsFiniteSet(1..(asked.below - 1))
      <4>1. 1 \in Int /\ asked.below - 1 \in Int BY <2>1
      <4> QED BY <4>1, FS_Interval
    <3>2. Newer(k) \in SUBSET (1..(asked.below - 1)) OBVIOUS
    <3> HIDE DEF Newer
    <3> QED BY <3>1, <3>2, FS_Subset
  <2>5. Cardinality(Newer(j)) < asked.limit
    <3> HIDE DEF Newer
    <3>1. IsFiniteSet(Newer(j)) /\ Cardinality(Newer(j)) <= Cardinality(Newer(k)) BY <2>3, <2>4, FS_Subset
    <3>2. Cardinality(Newer(j)) \in Nat /\ Cardinality(Newer(k)) \in Nat BY <2>4, <3>1, FS_CardinalityType
    <3> QED BY <2>1, <3>1, <3>2
  <2> QED BY <2>2, <2>5 DEF Page
<1>11. CASE ~refuse
  <2>1. Page(asked) \in SUBSET Messages
    <3>1. asked.below \in Nat /\ asked.below - 1 <= Upstream BY <1>2, <1>7
    <3> QED BY <1>2, <1>9, <3>1 DEF Messages
  <2>2. PICK pg : pg = Page(asked) OBVIOUS
  <2>3. answer' = [ref |-> refs', ask |-> req.ask, id |-> req.id, open |-> FALSE, left |-> pg]
    BY <1>8, <1>11, <2>2
  <2>4. answer' \in Answers /\ ~answer'.open /\ answer'.ask = req.ask /\ answer'.id = req.id /\ answer'.left = pg
    BY <1>1, <1>2, <1>4, <2>1, <2>2, <2>3 DEF Answers, Requests
  <2> QED BY <1>1, <1>4, <1>6, <1>7, <1>9, <1>10, <2>2, <2>4
<1>12. CASE refuse BY <1>1, <1>4, <1>8, <1>12
<1> QED BY <1>11, <1>12

\* A request for a page goes out, or none.
LEMMA FetchFact ==
  ASSUME StoreTypeOK, WireTypeOK, RowInv, FetchOlder
  PROVE  /\ page.at = "ask"
         /\ UNCHANGED <<said, linkUp, answer, refs, missed, cut, rows, idx, aux, chatBatches, chatStack,
                        lineBatch, bound, scrolls, work, overlapped>>
         /\ \/ page' = Idle /\ UNCHANGED <<pageCh, pageBatch, reqs, misrouted>>
            \/ /\ pageCh' = [id |-> Now, old |-> FALSE] /\ pageBatch' = None
               /\ \E req \in Requests :
                    reqs' = Append(reqs, req) /\ req.ask = "before" /\ req.below = Floor /\ req.id = Now
               /\ page' = [page EXCEPT !.at = "wait", !.ceiling = FloorId]
               /\ misrouted' = (misrouted \/ (DOMAIN rows # {} /\ FloorId < Slots * Ms(Floor)))
<1>1. page.at = "ask" /\ page \in Pages /\ scrolls \in Nat /\ said \in Nat BY DEF FetchOlder, StoreTypeOK
<1>2. UNCHANGED <<said, linkUp, answer, refs, missed, cut, rows, idx, aux, chatBatches, chatStack,
                  lineBatch, bound, scrolls, work, overlapped>>
  BY DEF FetchOlder, store, batches, flushing
<1>3. PICK req : req = [ask |-> "before", below |-> Floor, limit |-> page.need, id |-> Now] OBVIOUS
<1>4. Now \in Nat /\ page.need \in Nat BY <1>1 DEF Now, Pages
<1>5. Floor \in Nat
  <2>1. CASE DOMAIN rows = {} BY <1>1, <2>1 DEF Floor
  <2>2. CASE DOMAIN rows # {}
    <3>1. PICK i \in DOMAIN rows : Floor = rows[i].said BY <2>2, FloorFact
    <3> QED BY <3>1, MsFact DEF StoreTypeOK, BufferTypeOK, RowOK
  <2> QED BY <2>1, <2>2
<1>6. req \in Requests /\ req.ask = "before" /\ req.below = Floor /\ req.id = Now
  BY <1>3, <1>4, <1>5 DEF Requests, Asks
<1>7. \/ page' = Idle /\ UNCHANGED <<pageCh, pageBatch, reqs, misrouted>>
      \/ /\ pageCh' = [id |-> Now, old |-> FALSE] /\ pageBatch' = None
         /\ reqs' = Append(reqs, req)
         /\ page' = [page EXCEPT !.at = "wait", !.ceiling = FloorId]
         /\ misrouted' = (misrouted \/ (DOMAIN rows # {} /\ FloorId < Slots * Ms(Floor)))
  BY <1>3 DEF FetchOlder, Now
<1> QED BY <1>1, <1>2, <1>6, <1>7

LEMMA NextWire ==
  ASSUME StoreTypeOK, WireTypeOK, HeldInv, StackInv, RowInv, HistoryNext
  PROVE  WireTypeOK'
<1>0. reqs \in Seq(Requests) /\ answer \in Answers \cup {None} /\ refs \in Nat /\ chatStack \in Seq(Nat)
  BY DEF WireTypeOK
<1>1. CASE UNCHANGED <<reqs, answer, refs, chatBatches, chatStack, lineBatch, pageCh, pageBatch>>
  BY <1>1 DEF WireTypeOK
<1>2. ASSUME NEW w \in Workers, FlushLookup(w) \/ FlushAppend(w) PROVE WireTypeOK'
  BY <1>1, <1>2 DEF FlushLookup, FlushAppend, server, batches, waiter
<1>3. CASE FlushLineBatch
  <2>1. /\ lineBatch' = None /\ lineBatch \in LineBatches
        /\ UNCHANGED <<reqs, answer, refs, chatStack, pageCh, pageBatch>>
        /\ chatBatches' = chatBatches \/ chatBatches' = appendChatFrame(lineBatch.chatRef, lineBatch.msg)
    BY <1>3, FlushLineFact
  <2>2. \A b \in DOMAIN chatBatches' : chatBatches'[b] \in Batches
    <3>1. CASE chatBatches' = chatBatches BY <3>1 DEF WireTypeOK
    <3>2. CASE chatBatches' = appendChatFrame(lineBatch.chatRef, lineBatch.msg)
      <4>1. PICK k \in Messages : k = lineBatch.msg BY <2>1 DEF LineBatches
      <4>2. chatBatches' = appendChatFrame(lineBatch.chatRef, k) BY <3>2, <4>1
      <4> QED BY <4>2, FrameFact
    <3> QED BY <2>1, <3>1, <3>2
  <2> QED BY <2>1, <2>2 DEF WireTypeOK
<1>4. CASE ChatBatchOpen
  <2>1. /\ answer # None /\ answer' = [answer EXCEPT !.open = TRUE]
        /\ chatBatches' = Put(chatBatches, answer.ref, [frames |-> {}, ask |-> answer.ask])
        /\ chatStack' = Append(chatStack, answer.ref)
        /\ UNCHANGED <<reqs, refs, lineBatch, pageCh, pageBatch>>
    BY <1>4 DEF ChatBatchOpen, waiter
  <2>2. answer \in Answers BY <1>0, <2>1
  <2>3. answer' \in Answers BY <2>1, <2>2 DEF Answers
  <2>4. [frames |-> {}, ask |-> answer.ask] \in Batches BY <2>2 DEF Answers, Batches
  <2>5. \A b \in DOMAIN chatBatches' : chatBatches'[b] \in Batches
    BY <2>1, <2>4 DEF Put, WireTypeOK
  <2>6. answer.ref \in Nat BY <2>2 DEF Answers
  <2>7. chatStack' \in Seq(Nat) BY <1>0, <2>1, <2>6, SeqFact
  <2> QED BY <2>1, <2>3, <2>5, <2>7 DEF WireTypeOK
<1>5. CASE ChatBatchFrame
  <2>1. PICK k : k = CHOOSE i \in answer.left : \A j \in answer.left : j <= i OBVIOUS
  <2>2. /\ answer # None /\ answer.left # {} /\ answer' = [answer EXCEPT !.left = @ \ {k}]
        /\ chatBatches' = appendChatFrame(answer.ref, k)
        /\ UNCHANGED <<reqs, refs, chatStack, lineBatch, pageCh, pageBatch>>
    BY <1>5, <2>1 DEF ChatBatchFrame, waiter
  <2>3. answer \in Answers BY <1>0, <2>2
  <2>4. answer.left \in SUBSET Messages BY <2>3 DEF Answers
  <2>5. k \in Messages
    <3>1. answer.left \in SUBSET (0..Upstream) /\ Upstream \in Nat BY <2>4, MsFact
    <3>2. \E i \in answer.left : \A j \in answer.left : j <= i BY <2>2, <3>1, GreatestNumber
    <3> QED BY <2>1, <2>4, <3>2
  <2>6. answer' \in Answers BY <2>2, <2>3 DEF Answers
  <2>7. \A b \in DOMAIN chatBatches' : chatBatches'[b] \in Batches BY <2>2, <2>5, FrameFact
  <2> QED BY <2>2, <2>6, <2>7 DEF WireTypeOK
<1>6. CASE ChatBatchClose
  <2>1. PICK acc \in Batches :
          /\ answer' = None /\ chatBatches' = Without(chatBatches, {answer.ref})
          /\ chatStack' = popChatStack(chatStack, answer.ref)
          /\ UNCHANGED <<reqs, refs, lineBatch>>
          /\ pageBatch' = acc \/ pageBatch' = pageBatch
          /\ pageCh' = None \/ pageCh' = pageCh
    BY <1>6, CloseFact
  <2>2. chatStack' \in Seq(Nat) BY <1>0, <2>1, SeqFact DEF popChatStack
  <2>3. \A b \in DOMAIN chatBatches' : chatBatches'[b] \in Batches BY <2>1 DEF Without, WireTypeOK
  <2> QED BY <2>1, <2>2, <2>3 DEF WireTypeOK
<1>7. CASE FetchOlder
  <2>1. UNCHANGED <<answer, refs, chatBatches, chatStack, lineBatch>> BY <1>7, FetchFact
  <2>2. CASE UNCHANGED <<pageCh, pageBatch, reqs>> BY <1>1, <2>1, <2>2
  <2>3. CASE ~UNCHANGED <<pageCh, pageBatch, reqs>>
    <3>1. /\ pageCh' = [id |-> Now, old |-> FALSE] /\ pageBatch' = None
          /\ \E req \in Requests : reqs' = Append(reqs, req)
      BY <1>7, <2>3, FetchFact
    <3>2. Now \in Nat BY DEF Now, StoreTypeOK, Pages
    <3>3. pageCh' \in Waiters BY <3>1, <3>2 DEF Waiters
    <3>4. reqs' \in Seq(Requests) BY <1>0, <3>1, SeqFact
    <3> QED BY <2>1, <3>1, <3>3, <3>4 DEF WireTypeOK
  <2> QED BY <2>2, <2>3
<1>8. CASE PageWoken
  BY <1>8, WokenFact DEF WireTypeOK
<1>9. CASE PageTimeout \/ PageFlushed
  BY <1>1, <1>9 DEF PageTimeout, PageFlushed, server, batches, waiter
<1>10. CASE Say
  <2>1. UNCHANGED <<reqs, answer, refs, chatBatches, chatStack, pageCh, pageBatch>> BY <1>10, SayFact
  <2>2. CASE UNCHANGED lineBatch BY <1>1, <2>1, <2>2
  <2>3. CASE ~UNCHANGED lineBatch
    <3>1. MultilineOpen(said') /\ said' \in Messages BY <1>10, <2>3, SayFact
    <3>2. chatStack # << >> => Last(chatStack) \in Nat
      <4>1. ASSUME chatStack # << >> PROVE Last(chatStack) \in Nat
        <5>1. Len(chatStack) \in 1..Len(chatStack) BY <1>0, <4>1, EmptySeq, LenProperties
        <5> QED BY <1>0, <5>1, ElementOfSeq DEF Last
      <4> QED BY <4>1
    <3>3. lineBatch' \in LineBatches BY <3>1, <3>2 DEF MultilineOpen, LineBatches
    <3> QED BY <2>1, <3>3 DEF WireTypeOK
  <2> QED BY <2>2, <2>3
<1>11. CASE WaiterAges
  <2>1. UNCHANGED <<reqs, answer, refs, chatBatches, chatStack, lineBatch, pageBatch>>
        /\ pageCh # None /\ pageCh' = [pageCh EXCEPT !.old = TRUE]
    BY <1>11 DEF WaiterAges, server, batches
  <2>2. pageCh' \in Waiters BY <2>1 DEF WireTypeOK, Waiters
  <2> QED BY <2>1, <2>2 DEF WireTypeOK
<1>12. CASE LinkDies
  <2>1. << >> \in Seq(Requests) BY EmptySeq
  <2> QED BY <1>12, <2>1 DEF LinkDies, WireTypeOK
<1>13. CASE Join
  <2>1. << >> \in Seq(Requests) BY EmptySeq
  <2>2. [ask |-> "latest", below |-> 0, limit |-> PrefillLimit, id |-> 0] \in Requests
    BY HistoryAssumption DEF Requests, Asks
  <2>3. <<[ask |-> "latest", below |-> 0, limit |-> PrefillLimit, id |-> 0]>> \in Seq(Requests)
    BY <2>2
  <2> QED BY <1>13, <2>1, <2>3 DEF Join, WireTypeOK, batches, waiter
<1>14. ASSUME NEW need \in 1..PageLimit, GetMessages(need) PROVE WireTypeOK'
  BY <1>1, <1>14 DEF GetMessages, server, batches, waiter
<1>15. ASSUME NEW refuse \in BOOLEAN, ServerAnswers(refuse) PROVE WireTypeOK'
  <2>1. reqs # << >> /\ reqs' = Tail(reqs) /\ answer' \in Answers \cup {None}
    BY <1>15, AnswerFact
  <2>2. refs' \in Nat /\ UNCHANGED <<chatBatches, chatStack, lineBatch, pageCh, pageBatch>>
    BY <1>0, <1>15 DEF ServerAnswers, batches, waiter
  <2>3. reqs' \in Seq(Requests) BY <1>0, <2>1, SeqFact
  <2> QED BY <2>1, <2>2, <2>3 DEF WireTypeOK
<1> QED BY <1>2, <1>3, <1>4, <1>5, <1>6, <1>7, <1>8, <1>9, <1>10, <1>11, <1>12, <1>13, <1>14, <1>15
        DEF HistoryNext, HandlerNext, RestNext, Workers

LEMMA NextTypes ==
  ASSUME HistoryTypeOK, HeldInv, StackInv, RowInv, HistoryNext
  PROVE  HistoryTypeOK' /\ RowInv'
<1>1. StoreTypeOK /\ WireTypeOK BY DEF HistoryTypeOK
<1>2. BufferTypeOK' /\ RowInv' BY <1>1, NextRows
<1>3. /\ said' \in Nat /\ Earlier <= said' /\ said' <= Upstream
      /\ work' \in [Workers -> Jobs \cup {None}] /\ page' \in Pages /\ scrolls' \in Nat
  BY <1>1, NextWork
<1>4. WireTypeOK' BY <1>1, NextWire
<1>5. StoreTypeOK' BY <1>2, <1>3 DEF StoreTypeOK
<1> QED BY <1>2, <1>4, <1>5 DEF HistoryTypeOK

-----------------------------------------------------------------------------
(* Who holds which messages *)

\* The steps that change each part of the state.
LEMMA Movers ==
  ASSUME HistoryNext
  PROVE  /\ work' = work \/ ChatBatchClose \/ PageWoken
            \/ \E w \in Workers : FlushLookup(w) \/ FlushAppend(w)
         /\ reqs' = reqs \/ FetchOlder \/ LinkDies \/ Join
            \/ \E refuse \in BOOLEAN : ServerAnswers(refuse)
         /\ answer' = answer \/ ChatBatchOpen \/ ChatBatchFrame \/ ChatBatchClose \/ LinkDies
            \/ \E refuse \in BOOLEAN : ServerAnswers(refuse)
         /\ chatBatches' = chatBatches \/ ChatBatchOpen \/ ChatBatchFrame \/ ChatBatchClose
            \/ FlushLineBatch
         /\ chatStack' = chatStack \/ ChatBatchOpen \/ ChatBatchClose
         /\ pageBatch' = pageBatch \/ FetchOlder \/ PageWoken \/ ChatBatchClose
         /\ pageCh' = pageCh \/ FetchOlder \/ WaiterAges \/ ChatBatchClose
         /\ page' = page \/ FetchOlder \/ PageWoken \/ PageTimeout \/ PageFlushed
            \/ (\E w \in Workers : FlushAppend(w)) \/ \E need \in 1..PageLimit : GetMessages(need)
         /\ scrolls' = scrolls \/ \E need \in 1..PageLimit : GetMessages(need)
         /\ overlapped' = overlapped \/ ChatBatchClose \/ PageWoken
         /\ misrouted' = misrouted \/ ChatBatchClose \/ FetchOlder
         /\ cut' = cut \/ LinkDies
         /\ missed' = missed \/ LinkDies \/ Say
         /\ bound' = bound \/ Say
         /\ said' = said \/ Say
         /\ lineBatch' = lineBatch \/ FlushLineBatch \/ LinkDies \/ Say
<1>1. ASSUME NEW w \in Workers, FlushLookup(w)
      PROVE  UNCHANGED <<reqs, answer, chatBatches, chatStack, pageBatch, pageCh, page, scrolls, overlapped,
                         misrouted, cut, missed, bound, said, lineBatch>>
  BY <1>1 DEF FlushLookup, server, batches, waiter, paging
<1>2. ASSUME NEW w \in Workers, FlushAppend(w)
      PROVE  UNCHANGED <<reqs, answer, chatBatches, chatStack, pageBatch, pageCh, scrolls, overlapped,
                         misrouted, cut, missed, bound, said, lineBatch>>
  BY <1>2 DEF FlushAppend, server, batches, waiter
<1>3. FlushLineBatch =>
        UNCHANGED <<work, reqs, answer, chatStack, pageBatch, pageCh, page, scrolls, overlapped, misrouted,
                    cut, missed, bound, said>>
  BY DEF FlushLineBatch, server, waiter, paging, flushing
<1>4. ChatBatchOpen \/ ChatBatchFrame =>
        UNCHANGED <<work, reqs, pageBatch, pageCh, page, scrolls, overlapped, misrouted, cut, missed, bound,
                    said, lineBatch>>
  BY DEF ChatBatchOpen, ChatBatchFrame, waiter, paging, flushing
<1>5. ChatBatchFrame => UNCHANGED chatStack BY DEF ChatBatchFrame
<1>6. ChatBatchClose => UNCHANGED <<reqs, page, scrolls, cut, missed, bound, said, lineBatch>>
  BY DEF ChatBatchClose, paging
<1>7. FetchOlder =>
        UNCHANGED <<work, answer, chatBatches, chatStack, scrolls, overlapped, cut, missed, bound, said, lineBatch>>
  BY DEF FetchOlder, batches, flushing
<1>8. PageWoken =>
        UNCHANGED <<reqs, answer, chatBatches, chatStack, pageCh, scrolls, misrouted, cut, missed, bound, said, lineBatch>>
  BY DEF PageWoken, server, batches
<1>9. PageTimeout \/ PageFlushed =>
        UNCHANGED <<work, reqs, answer, chatBatches, chatStack, pageBatch, pageCh, scrolls, overlapped,
                    misrouted, cut, missed, bound, said, lineBatch>>
  BY DEF PageTimeout, PageFlushed, server, batches, waiter, flushing
<1>10. Say =>
        UNCHANGED <<work, reqs, answer, chatBatches, chatStack, pageBatch, pageCh, page, scrolls, overlapped, misrouted, cut>>
  BY DEF Say, batches, waiter, paging, flushing, LiveMessage, MultilineOpen
<1>11. WaiterAges =>
        UNCHANGED <<work, reqs, answer, chatBatches, chatStack, pageBatch, page, scrolls, overlapped,
                    misrouted, cut, missed, bound, said, lineBatch>>
  BY DEF WaiterAges, server, batches, paging, flushing
<1>12. LinkDies =>
        UNCHANGED <<work, chatBatches, chatStack, pageBatch, pageCh, page, scrolls, overlapped, misrouted, bound, said>>
  BY DEF LinkDies, paging, flushing
<1>13. Join =>
        UNCHANGED <<work, answer, chatBatches, chatStack, pageBatch, pageCh, page, scrolls, overlapped,
                    misrouted, cut, missed, bound, said, lineBatch>>
  BY DEF Join, batches, waiter, paging, flushing
<1>14. ASSUME NEW need \in 1..PageLimit, GetMessages(need)
       PROVE  UNCHANGED <<work, reqs, answer, chatBatches, chatStack, pageBatch, pageCh, overlapped,
                          misrouted, cut, missed, bound, said, lineBatch>>
  BY <1>14 DEF GetMessages, server, batches, waiter, flushing
<1>15. ASSUME NEW refuse \in BOOLEAN, ServerAnswers(refuse)
       PROVE  UNCHANGED <<work, chatBatches, chatStack, pageBatch, pageCh, page, scrolls, overlapped,
                          misrouted, cut, missed, bound, said, lineBatch>>
  BY <1>15 DEF ServerAnswers, batches, waiter, paging, flushing
<1>16. \/ \E w \in Workers : FlushLookup(w) \/ FlushAppend(w)
       \/ FlushLineBatch \/ ChatBatchOpen \/ ChatBatchFrame \/ ChatBatchClose
       \/ FetchOlder \/ PageWoken \/ PageTimeout \/ PageFlushed
       \/ Say \/ WaiterAges \/ LinkDies \/ Join
       \/ \E need \in 1..PageLimit : GetMessages(need)
       \/ \E refuse \in BOOLEAN : ServerAnswers(refuse)
  BY DEF HistoryNext, HandlerNext, RestNext, Workers
<1>17. CASE \E w \in Workers : FlushLookup(w) \/ FlushAppend(w)
  BY <1>1, <1>2, <1>17
<1>18. CASE \E need \in 1..PageLimit : GetMessages(need) BY <1>14, <1>18
<1>19. CASE \E refuse \in BOOLEAN : ServerAnswers(refuse) BY <1>15, <1>19
<1>20. CASE FlushLineBatch \/ ChatBatchOpen \/ ChatBatchFrame \/ ChatBatchClose
  BY <1>3, <1>4, <1>5, <1>6, <1>20
<1>21. CASE FetchOlder \/ PageWoken \/ PageTimeout \/ PageFlushed
  BY <1>7, <1>8, <1>9, <1>21
<1>22. CASE Say \/ WaiterAges \/ LinkDies \/ Join BY <1>10, <1>11, <1>12, <1>13, <1>22
<1> QED BY <1>16, <1>17, <1>18, <1>19, <1>20, <1>21, <1>22

\* A frame of the answer goes to the batch of that answer.
LEMMA GetFrameFact ==
  ASSUME StoreTypeOK, WireTypeOK, ChatBatchFrame
  PROVE  \E k \in answer.left :
           /\ k \in Messages /\ answer # None /\ answer.open /\ answer \in Answers /\ answer' \in Answers
           /\ answer'.left = answer.left \ {k} /\ answer'.open
           /\ answer'.ref = answer.ref /\ answer'.ask = answer.ask /\ answer'.id = answer.id
           /\ DOMAIN chatBatches' = DOMAIN chatBatches
           /\ \A b \in DOMAIN chatBatches :
                /\ chatBatches'[b].ask = chatBatches[b].ask
                /\ chatBatches'[b].frames = IF b = answer.ref THEN chatBatches[b].frames \cup {k}
                                            ELSE chatBatches[b].frames
<1>1. PICK k : k = CHOOSE i \in answer.left : \A j \in answer.left : j <= i OBVIOUS
<1>2. /\ answer # None /\ answer.left # {} /\ answer' = [answer EXCEPT !.left = @ \ {k}] /\ answer.open
      /\ chatBatches' = appendChatFrame(answer.ref, k)
  BY <1>1 DEF ChatBatchFrame
<1>3. answer \in Answers BY <1>2 DEF WireTypeOK
<1>4. answer.left \in SUBSET Messages BY <1>3 DEF Answers
<1>5. k \in Messages /\ k \in answer.left
  <2>1. answer.left \in SUBSET (0..Upstream) /\ Upstream \in Nat BY <1>4, MsFact
  <2>2. \E i \in answer.left : \A j \in answer.left : j <= i BY <1>2, <2>1, GreatestNumber
  <2> QED BY <1>1, <1>4, <2>2
<1>6. /\ answer' \in Answers /\ answer'.left = answer.left \ {k} /\ answer'.open
      /\ answer'.ref = answer.ref /\ answer'.ask = answer.ask /\ answer'.id = answer.id
  BY <1>2, <1>3 DEF Answers
<1>7. /\ DOMAIN chatBatches' = DOMAIN chatBatches
      /\ \A b \in DOMAIN chatBatches :
           /\ chatBatches'[b].ask = chatBatches[b].ask
           /\ chatBatches'[b].frames = IF b = answer.ref THEN chatBatches[b].frames \cup {k}
                                       ELSE chatBatches[b].frames
  <2>1. PICK ref : ref = answer.ref OBVIOUS
  <2>2. PICK after : after = appendChatFrame(ref, k) OBVIOUS
  <2>3. /\ DOMAIN after = DOMAIN chatBatches
        /\ \A b \in DOMAIN chatBatches :
             /\ after[b].ask = chatBatches[b].ask
             /\ after[b].frames = IF b = ref THEN chatBatches[b].frames \cup {k}
                                  ELSE chatBatches[b].frames
    BY <1>5, <2>2, FrameFact
  <2>4. chatBatches' = after BY <1>2, <2>1, <2>2
  <2> QED BY <2>1, <2>3, <2>4
<1> QED BY <1>2, <1>3, <1>5, <1>6, <1>7

\* Where a goroutine's work comes from: it goes on with a part of what it had,
\* or begins with a batch that is complete.
WorksOn(w) ==
  \/ /\ work[w] # None /\ work'[w].left \subseteq work[w].left /\ work'[w].left # {}
     /\ work'[w].ceiling = work[w].ceiling
  \/ /\ ChatBatchClose /\ w = "handler" /\ answer # None /\ answer.ref \in DOMAIN chatBatches
     /\ work'[w].left = chatBatches[answer.ref].frames /\ work'[w].left # {}
     /\ work'[w].ceiling = None
  \/ /\ PageWoken /\ w = "rest" /\ pageBatch # None
     /\ work'[w].left = pageBatch.frames /\ work'[w].left # {}
     /\ work'[w].ceiling = page.ceiling

LEMMA WorkMoves ==
  ASSUME StoreTypeOK, WireTypeOK, HeldInv, StackInv, RowInv, HistoryNext, NEW w \in Workers, work'[w] # None
  PROVE  WorksOn(w)
<1>1. CASE work' = work
  <2>1. work[w] # None /\ work[w].left # {} BY <1>1 DEF HeldInv
  <2> QED BY <1>1, <2>1 DEF WorksOn
<1>2. CASE ChatBatchClose
  <2>1. CASE UNCHANGED work BY <1>1, <2>1
  <2>2. CASE ~UNCHANGED work
    <3>1. PICK acc \in Batches :
            /\ answer # None /\ acc = chatBatches[answer.ref] /\ answer.ref \in DOMAIN chatBatches
            /\ Takes("handler", acc.frames, None)
      BY <1>2, <2>2, CloseFact
    <3>2. CASE w = "handler" BY <1>2, <3>1, <3>2 DEF Takes, WorksOn
    <3>3. CASE w # "handler"
      <4>1. work'[w] = work[w] BY <3>1, <3>3 DEF Takes
      <4>2. work[w].left # {} BY <4>1 DEF HeldInv
      <4> QED BY <4>1, <4>2 DEF WorksOn
    <3> QED BY <3>2, <3>3
  <2> QED BY <2>1, <2>2
<1>3. CASE PageWoken
  <2>1. pageBatch # None /\ Takes("rest", pageBatch.frames, page.ceiling) BY <1>3, WokenFact
  <2>2. CASE w = "rest" BY <1>3, <2>1, <2>2 DEF Takes, WorksOn
  <2>3. CASE w # "rest"
    <3>1. work'[w] = work[w] BY <2>1, <2>3 DEF Takes
    <3>2. work[w].left # {} BY <3>1 DEF HeldInv
    <3> QED BY <3>1, <3>2 DEF WorksOn
  <2> QED BY <2>2, <2>3
<1>4. ASSUME NEW v \in Workers, FlushLookup(v) \/ FlushAppend(v) PROVE WorksOn(w)
  <2>1. PICK k \in Messages :
          /\ work[v] # None
          /\ \/ Passes(v, k)
             \/ /\ \A u \in Workers : u # v => work'[u] = work[u]
                /\ work'[v].left = work[v].left /\ work'[v].ceiling = work[v].ceiling
    <3>1. CASE FlushLookup(v) BY <3>1, FlushLookupFact
    <3>2. CASE FlushAppend(v) BY <3>2, FlushAppendFact
    <3> QED BY <1>4, <3>1, <3>2
  <2>2. CASE w = v
    <3>1. work[v].left # {} BY <2>1 DEF HeldInv
    <3> QED BY <2>1, <2>2, <3>1 DEF Passes, WorksOn
  <2>3. CASE w # v
    <3>1. work'[w] = work[w] BY <2>1, <2>3 DEF Passes
    <3>2. work[w].left # {} BY <3>1 DEF HeldInv
    <3> QED BY <3>1, <3>2 DEF WorksOn
  <2> QED BY <2>2, <2>3
<1> QED BY <1>1, <1>2, <1>3, <1>4, Movers

\* What an accumulated batch contains.
Gathers(b) ==
  \/ /\ b \in DOMAIN chatBatches /\ chatBatches'[b].frames = chatBatches[b].frames
     /\ chatBatches'[b].ask = chatBatches[b].ask
  \/ /\ ChatBatchOpen /\ answer # None /\ b = answer.ref /\ chatBatches'[b].frames = {}
     /\ chatBatches'[b].ask = answer.ask
  \/ /\ ChatBatchFrame /\ answer # None /\ b = answer.ref /\ b \in DOMAIN chatBatches
     /\ chatBatches'[b].ask = chatBatches[b].ask
     /\ \E k \in answer.left : chatBatches'[b].frames = chatBatches[b].frames \cup {k}
  \/ /\ FlushLineBatch /\ lineBatch # None /\ b \in DOMAIN chatBatches
     /\ lineBatch.chatRef # None /\ chatBatches'[b].ask = chatBatches[b].ask
     /\ chatBatches'[b].frames = chatBatches[b].frames \cup {lineBatch.msg}

LEMMA BatchMoves ==
  ASSUME StoreTypeOK, WireTypeOK, StackInv, RowInv, HistoryNext, NEW b \in DOMAIN chatBatches'
  PROVE  Gathers(b)
<1>1. CASE chatBatches' = chatBatches BY <1>1 DEF Gathers
<1>2. CASE ChatBatchOpen
  <2>1. answer # None
        /\ chatBatches' = Put(chatBatches, answer.ref, [frames |-> {}, ask |-> answer.ask])
    BY <1>2 DEF ChatBatchOpen
  <2> QED BY <1>2, <2>1 DEF Put, Gathers
<1>3. CASE ChatBatchFrame BY <1>3, GetFrameFact DEF Gathers
<1>4. CASE ChatBatchClose
  <2>1. chatBatches' = Without(chatBatches, {answer.ref}) BY <1>4 DEF ChatBatchClose
  <2> QED BY <2>1 DEF Without, Gathers
<1>5. CASE FlushLineBatch
  <2>1. CASE UNCHANGED chatBatches BY <2>1 DEF Gathers
  <2>2. CASE ~UNCHANGED chatBatches
    <3>1. PICK ref, k : ref = lineBatch.chatRef /\ k = lineBatch.msg OBVIOUS
    <3>2. lineBatch # None /\ ref # None /\ k \in Messages
      BY <1>5, <2>2, <3>1, FlushLineFact DEF LineBatches
    <3>3. PICK after : after = appendChatFrame(ref, k) OBVIOUS
    <3>4. chatBatches' = after BY <1>5, <2>2, <3>1, <3>3, FlushLineFact
    <3>5. /\ DOMAIN after = DOMAIN chatBatches
          /\ \A c \in DOMAIN chatBatches :
               /\ after[c].ask = chatBatches[c].ask
               /\ after[c].frames = IF c = ref THEN chatBatches[c].frames \cup {k}
                                    ELSE chatBatches[c].frames
      BY <3>2, <3>3, FrameFact
    <3> QED BY <1>5, <3>1, <3>2, <3>4, <3>5 DEF Gathers
  <2> QED BY <2>1, <2>2
<1> QED BY <1>1, <1>2, <1>3, <1>4, <1>5, Movers

\* The answer the server is sending.
LEMMA AnswerMoves ==
  ASSUME StoreTypeOK, WireTypeOK, HistoryNext, answer' # None
  PROVE  \/ answer' = answer
         \/ /\ ChatBatchOpen /\ answer # None /\ ~answer.open /\ answer \in Answers
            /\ answer' = [answer EXCEPT !.open = TRUE]
            /\ answer'.ref = answer.ref /\ answer'.ask = answer.ask /\ answer'.id = answer.id
            /\ answer'.left = answer.left /\ answer'.open
         \/ ChatBatchFrame
         \/ \E refuse \in BOOLEAN : ServerAnswers(refuse)
<1>1. CASE ChatBatchOpen
  <2>1. answer # None /\ ~answer.open /\ answer \in Answers /\ answer' = [answer EXCEPT !.open = TRUE]
    BY <1>1 DEF ChatBatchOpen, WireTypeOK
  <2>2. /\ answer'.ref = answer.ref /\ answer'.ask = answer.ask /\ answer'.id = answer.id
        /\ answer'.left = answer.left /\ answer'.open
    BY <2>1 DEF Answers
  <2> QED BY <1>1, <2>1, <2>2
<1>2. CASE ChatBatchClose \/ LinkDies BY <1>2 DEF ChatBatchClose, LinkDies
<1> QED BY <1>1, <1>2, Movers

\* A request on its way was so before, or has just been sent.
Sends(n) ==
  \/ \E m \in 1..Len(reqs) : reqs'[n] = reqs[m]
  \/ /\ FetchOlder /\ reqs'[n].ask = "before" /\ reqs'[n].below = Floor /\ reqs'[n].id = Now
     /\ page' = [page EXCEPT !.at = "wait", !.ceiling = FloorId]
     /\ misrouted' = (misrouted \/ (DOMAIN rows # {} /\ FloorId < Slots * Ms(Floor)))
  \/ Join /\ reqs'[n].ask = "latest" /\ reqs'[n].id = 0

LEMMA ReqMoves ==
  ASSUME StoreTypeOK, WireTypeOK, HeldInv, RowInv, HistoryNext, NEW n \in 1..Len(reqs')
  PROVE  Sends(n)
<1>0. reqs \in Seq(Requests) BY DEF WireTypeOK
<1>1. CASE reqs' = reqs BY <1>1 DEF Sends
<1>2. CASE FetchOlder
  <2>1. CASE UNCHANGED reqs BY <1>1, <2>1
  <2>2. CASE ~UNCHANGED reqs
    <3>1. PICK req \in Requests :
            /\ reqs' = Append(reqs, req) /\ req.ask = "before" /\ req.below = Floor /\ req.id = Now
            /\ page' = [page EXCEPT !.at = "wait", !.ceiling = FloorId]
            /\ misrouted' = (misrouted \/ (DOMAIN rows # {} /\ FloorId < Slots * Ms(Floor)))
      BY <1>2, <2>2, FetchFact
    <3>2. /\ Len(reqs') = Len(reqs) + 1 /\ \A m \in 1..Len(reqs) : reqs'[m] = reqs[m]
          /\ reqs'[Len(reqs) + 1] = req /\ Len(reqs) \in Nat
      BY <1>0, <3>1, SeqFact
    <3>3. n \in 1..Len(reqs) \/ n = Len(reqs) + 1 BY <3>2
    <3> QED BY <1>2, <3>1, <3>2, <3>3 DEF Sends
  <2> QED BY <2>1, <2>2
<1>3. CASE LinkDies \/ Join
  <2>1. CASE reqs' = << >> BY <2>1
  <2>2. CASE reqs' # << >>
    <3>1. Join /\ reqs' = <<[ask |-> "latest", below |-> 0, limit |-> PrefillLimit, id |-> 0]>>
      BY <1>3, <2>2 DEF LinkDies, Join
    <3> QED BY <3>1 DEF Sends
  <2> QED BY <2>1, <2>2
<1>4. ASSUME NEW refuse \in BOOLEAN, ServerAnswers(refuse) PROVE Sends(n)
  <2>1. reqs # << >> /\ reqs' = Tail(reqs) BY <1>4, AnswerFact
  <2>2. n + 1 \in 1..Len(reqs) /\ reqs'[n] = reqs[n + 1] BY <1>0, <2>1, SeqFact
  <2> QED BY <2>2 DEF Sends
<1> QED BY <1>1, <1>2, <1>3, <1>4, Movers

\* How a row gets into the buffer.
Buffers(id, k) ==
  /\ Minted(id, k)
  /\ \/ /\ Say /\ Relays(k) /\ k = said' /\ id = Slots * Ms(k)
        /\ UNCHANGED <<lineBatch, missed, bound>>
     \/ FlushLineBatch /\ Relays(k) /\ k = lineBatch.msg /\ id = Slots * Ms(k)
     \/ \E w \in Workers :
          /\ FlushAppend(w) /\ Passes(w, k) /\ work[w] # None /\ work[w].fresh
          /\ k \in work[w].left /\ k = Earliest(work[w].left) /\ id \notin DOMAIN rows
          /\ Below(k, work[w].ceiling) => id >= Slots * Ms(k)

\* A flush stores a frame.
LEMMA StoresFact ==
  ASSUME StoreTypeOK, HeldInv, RowInv, NEW w \in Workers, FlushAppend(w)
  PROVE  \E k \in Messages : \E id \in Nat : Buffers(id, k) /\ Passes(w, k)
<1>1. PICK k \in Messages : \E t \in 0..Ms(k) :
         /\ k = Earliest(work[w].left) /\ k \in work[w].left
         /\ work[w] # None /\ work[w].fresh
         /\ Slots * t + aux[t] + 1 \notin DOMAIN rows
         /\ Minted(Slots * t + aux[t] + 1, k) /\ aux[t] \in Nat
         /\ Below(k, work[w].ceiling) => t = Ms(k)
         /\ Passes(w, k)
  BY FlushAppendFact
<1>2. PICK t \in 0..Ms(k) :
         /\ k = Earliest(work[w].left) /\ k \in work[w].left
         /\ work[w] # None /\ work[w].fresh
         /\ Slots * t + aux[t] + 1 \notin DOMAIN rows
         /\ Minted(Slots * t + aux[t] + 1, k) /\ aux[t] \in Nat
         /\ Below(k, work[w].ceiling) => t = Ms(k)
         /\ Passes(w, k)
  BY <1>1
<1>3. t \in Nat /\ Ms(k) \in Nat BY MsFact
<1>4. PICK id : id = Slots * t + aux[t] + 1 OBVIOUS
<1>5. id \in Nat /\ (t = Ms(k) => id >= Slots * Ms(k)) BY <1>2, <1>3, <1>4 DEF Slots
<1>6. Minted(id, k) /\ id \notin DOMAIN rows BY <1>2, <1>4
<1>7. Buffers(id, k) BY <1>2, <1>5, <1>6 DEF Buffers
<1> QED BY <1>2, <1>5, <1>7

LEMMA BufferMoves ==
  ASSUME StoreTypeOK, WireTypeOK, HeldInv, RowInv, HistoryNext
  PROVE  Still \/ \E k \in Messages : \E id \in Nat : Buffers(id, k)
<1>1. CASE Say /\ Relays(said') /\ UNCHANGED <<lineBatch, missed, bound>>
  <2>1. PICK k \in Messages : k = said' BY <1>1, SayFact
  <2>2. PICK id \in Nat : id = Slots * Ms(k) BY <2>1, MsFact DEF Slots
  <2>3. Relays(k) BY <1>1, <2>1
  <2>4. Minted(id, k) BY <2>2, <2>3 DEF Relays
  <2>5. Buffers(id, k) BY <1>1, <2>1, <2>2, <2>3, <2>4 DEF Buffers
  <2> QED BY <2>5
<1>2. CASE FlushLineBatch /\ Relays(lineBatch.msg)
  <2>1. PICK k \in Messages : k = lineBatch.msg BY <1>2, FlushLineFact DEF LineBatches
  <2>2. PICK id \in Nat : id = Slots * Ms(k) BY <2>1, MsFact DEF Slots
  <2>3. Relays(k) BY <1>2, <2>1
  <2>4. Minted(id, k) BY <2>2, <2>3 DEF Relays
  <2>5. Buffers(id, k) BY <1>2, <2>1, <2>2, <2>3, <2>4 DEF Buffers
  <2> QED BY <2>5
<1>3. CASE \E w \in Workers : FlushAppend(w)
  <2>1. PICK w \in Workers : FlushAppend(w) BY <1>3
  <2> QED BY <2>1, StoresFact
<1> QED BY <1>1, <1>2, <1>3, Buffering

\* Spoken, of the next state.
Held(S) == S \subseteq 1..said' /\ (lineBatch' # None => lineBatch'.msg \notin S)

\* What was spoken stays so; the message received next is another one.
LEMMA SpokenStays ==
  ASSUME StoreTypeOK, WireTypeOK, RowInv, HistoryNext
  PROVE  /\ said \in Nat /\ said' \in Nat /\ said <= said'
         /\ \A S : Spoken(S) => Held(S)
         /\ lineBatch' # None => lineBatch' = lineBatch \/ (Say /\ lineBatch'.msg = said')
         /\ lineBatch' # lineBatch /\ lineBatch' # None => lineBatch = None /\ lineBatch'.msg = said + 1
<1>1. said \in Nat BY DEF StoreTypeOK
<1>2. said' = said \/ (Say /\ said' = said + 1) BY Movers, SayFact
<1>3. lineBatch' # None /\ lineBatch' # lineBatch =>
        Say /\ MultilineOpen(said') /\ said' = said + 1
  <2>1. FlushLineBatch \/ LinkDies => lineBatch' = None BY DEF FlushLineBatch, LinkDies
  <2> QED BY <2>1, Movers, SayFact
<1>4. lineBatch' # None /\ lineBatch' # lineBatch =>
        Say /\ lineBatch = None /\ lineBatch'.msg = said' /\ said' = said + 1
  BY <1>3 DEF MultilineOpen
<1>5. ASSUME NEW S, Spoken(S)
      PROVE  Held(S)
  <2>1. S \subseteq 1..said /\ (lineBatch # None => lineBatch.msg \notin S) BY <1>5 DEF Spoken
  <2>2. S \subseteq 1..said' BY <1>1, <1>2, <2>1
  <2>3. said + 1 \notin S BY <1>1, <2>1
  <2> QED BY <1>4, <2>1, <2>2, <2>3 DEF Held
<1> QED BY <1>1, <1>2, <1>4, <1>5

LEMMA NextHeld ==
  ASSUME HistoryTypeOK, HeldInv, StackInv, RowInv, HistoryNext
  PROVE  HeldInv'
<1>0. StoreTypeOK /\ WireTypeOK BY DEF HistoryTypeOK
<1>1. \A S : Spoken(S) => Held(S)
  BY <1>0, SpokenStays
<1>2. said \in Nat /\ said' \in Nat /\ said <= said' BY <1>0, SpokenStays
<1>3. lineBatch' # None => lineBatch'.msg \in 1..said'
  <2>1. lineBatch' = lineBatch \/ lineBatch'.msg = said + 1 \/ lineBatch' = None BY <1>0, SpokenStays
  <2>2. CASE lineBatch' = lineBatch BY <1>2, <2>2 DEF HeldInv
  <2>3. CASE lineBatch' # lineBatch /\ lineBatch' # None
    <3>1. Say /\ lineBatch'.msg = said' /\ said' = said + 1 BY <1>0, <2>3, SpokenStays, SayFact
    <3> QED BY <1>2, <3>1
  <2> QED BY <2>2, <2>3
<1>4. ASSUME NEW k \in Messages, NEW id \in Nat, Buffers(id, k)
      PROVE  k \in 1..said' /\ (lineBatch' # None => lineBatch'.msg # k)
  <2>1. CASE Say /\ k = said' /\ UNCHANGED lineBatch
    <3>1. said' = said + 1 BY <1>0, <2>1, SayFact
    <3>2. k \in 1..said' BY <1>2, <2>1, <3>1
    <3>3. lineBatch # None => lineBatch.msg \in 1..said BY DEF HeldInv
    <3> QED BY <1>2, <2>1, <3>1, <3>2, <3>3
  <2>2. CASE FlushLineBatch /\ Relays(k) /\ k = lineBatch.msg
    <3>1. lineBatch # None /\ lineBatch' = None BY <1>0, <2>2, FlushLineFact
    <3> QED BY <1>2, <2>2, <3>1 DEF HeldInv
  <2>3. ASSUME NEW w \in Workers, work[w] # None, k \in work[w].left
        PROVE  k \in 1..said' /\ (lineBatch' # None => lineBatch'.msg # k)
    BY <1>1, <2>3 DEF HeldInv, Held
  <2> QED BY <1>4, <2>1, <2>2, <2>3 DEF Buffers
<1>5. ASSUME NEW i \in DOMAIN rows' PROVE Held({rows'[i].said})
  <2>1. CASE rows' = rows
    <3>1. Spoken({rows[i].said}) BY <1>5, <2>1 DEF HeldInv
    <3> QED BY <1>1, <2>1, <3>1 DEF Spoken, Held
  <2>2. ASSUME NEW k \in Messages, NEW id \in Nat, Buffers(id, k) PROVE Held({rows'[i].said})
    <3>1. Stored(id, k) BY <2>2 DEF Buffers, Minted
    <3>2. CASE i = id
      <4>1. rows'[i].said = k BY <3>1, <3>2 DEF Stored
      <4> QED BY <1>4, <2>2, <4>1 DEF Spoken, Held
    <3>3. CASE i # id
      <4>1. i \in DOMAIN rows /\ rows'[i] = rows[i] BY <3>1, <3>3 DEF Stored
      <4>2. Spoken({rows[i].said}) BY <4>1 DEF HeldInv
      <4> QED BY <1>1, <4>1, <4>2 DEF Spoken, Held
    <3> QED BY <3>2, <3>3
  <2> QED BY <1>0, <2>1, <2>2, BufferMoves DEF Still
<1>6. ASSUME NEW w \in Workers, work'[w] # None PROVE Held(work'[w].left) /\ work'[w].left # {}
  <2>1. WorksOn(w) BY <1>0, <1>6, WorkMoves
  <2>2. \E S : Spoken(S) /\ work'[w].left \subseteq S
    <3>1. CASE work[w] # None /\ work'[w].left \subseteq work[w].left BY <3>1 DEF HeldInv
    <3>2. CASE answer.ref \in DOMAIN chatBatches /\ work'[w].left = chatBatches[answer.ref].frames
      BY <3>2 DEF HeldInv
    <3>3. CASE pageBatch # None /\ work'[w].left = pageBatch.frames BY <3>3 DEF HeldInv
    <3> QED BY <2>1, <3>1, <3>2, <3>3 DEF WorksOn
  <2>3. work'[w].left # {} BY <2>1 DEF WorksOn
  <2> QED BY <1>1, <2>2, <2>3 DEF Spoken, Held
<1>7. ASSUME answer' # None PROVE Held(answer'.left)
  <2>1. CASE answer' = answer BY <1>1, <1>7, <2>1 DEF HeldInv, Spoken, Held
  <2>2. CASE ChatBatchOpen
    <3>1. answer # None /\ answer'.left = answer.left BY <2>2 DEF ChatBatchOpen
    <3> QED BY <1>1, <3>1 DEF HeldInv, Spoken, Held
  <2>3. CASE ChatBatchFrame
    <3>1. answer # None /\ answer'.left \subseteq answer.left BY <1>0, <2>3, GetFrameFact
    <3> QED BY <1>1, <3>1 DEF HeldInv, Spoken, Held
  <2>4. ASSUME NEW refuse \in BOOLEAN, ServerAnswers(refuse) PROVE Held(answer'.left)
    <3>1. PICK below \in 1..(said + 1) : answer'.left \subseteq 1..(below - 1)
      BY <1>0, <1>7, <2>4, AnswerFact
    <3>2. lineBatch' = None /\ said' = said
      BY <1>0, <2>4, AnswerFact DEF ServerAnswers, batches
    <3>3. answer'.left \subseteq 1..said' BY <1>2, <3>1, <3>2
    <3> QED BY <3>2, <3>3 DEF Spoken, Held
  <2> QED BY <1>0, <1>7, <2>1, <2>2, <2>3, <2>4, AnswerMoves
<1>8. ASSUME NEW b \in DOMAIN chatBatches' PROVE Held(chatBatches'[b].frames)
  <2>1. Gathers(b) BY <1>0, <1>8, BatchMoves
  <2>2. CASE b \in DOMAIN chatBatches /\ chatBatches'[b].frames = chatBatches[b].frames
    BY <1>1, <2>2 DEF HeldInv, Spoken, Held
  <2>3. CASE chatBatches'[b].frames = {} BY <2>3 DEF Spoken, Held
  <2>4. CASE /\ ChatBatchFrame /\ answer # None /\ b \in DOMAIN chatBatches
             /\ \E k \in answer.left : chatBatches'[b].frames = chatBatches[b].frames \cup {k}
    <3>1. chatBatches'[b].frames \subseteq chatBatches[b].frames \cup answer.left BY <2>4
    <3>2. Spoken(chatBatches[b].frames) /\ Spoken(answer.left) BY <2>4 DEF HeldInv
    <3>3. Spoken(chatBatches[b].frames \cup answer.left) BY <3>2 DEF Spoken, Held
    <3> QED BY <1>1, <3>1, <3>3 DEF Spoken, Held
  <2>5. CASE /\ FlushLineBatch /\ lineBatch # None /\ b \in DOMAIN chatBatches
             /\ chatBatches'[b].frames = chatBatches[b].frames \cup {lineBatch.msg}
    <3>1. lineBatch' = None /\ lineBatch.msg \in 1..said' /\ chatBatches[b].frames \subseteq 1..said'
      BY <1>1, <1>2, <2>5 DEF FlushLineBatch, HeldInv, Held
    <3> QED BY <2>5, <3>1 DEF Spoken, Held
  <2> QED BY <2>1, <2>2, <2>3, <2>4, <2>5 DEF Gathers
<1>9. ASSUME pageBatch' # None PROVE Held(pageBatch'.frames)
  <2>1. CASE pageBatch' = pageBatch BY <1>1, <1>9, <2>1 DEF HeldInv, Spoken, Held
  <2>2. CASE FetchOlder
    <3>1. pageBatch' = pageBatch BY <1>0, <1>9, <2>2, FetchFact
    <3> QED BY <2>1, <3>1
  <2>3. CASE PageWoken BY <1>9, <2>3 DEF PageWoken
  <2>4. CASE ChatBatchClose
    <3>1. pageBatch' = pageBatch \/ (answer.ref \in DOMAIN chatBatches /\ pageBatch' = chatBatches[answer.ref])
      BY <1>0, <2>4, CloseFact
    <3>2. CASE answer.ref \in DOMAIN chatBatches /\ pageBatch' = chatBatches[answer.ref]
      <4>1. Spoken(chatBatches[answer.ref].frames) BY <3>2 DEF HeldInv
      <4> QED BY <1>1, <3>2, <4>1 DEF Spoken, Held
    <3> QED BY <2>1, <3>1, <3>2
  <2> QED BY <2>1, <2>2, <2>3, <2>4, Movers
<1>10. ASSUME NEW n \in 1..Len(reqs'), reqs'[n].ask = "before" PROVE reqs'[n].below \in 1..(said' + 1)
  <2>1. Sends(n) BY <1>0, <1>10, ReqMoves
  <2>2. ASSUME NEW m \in 1..Len(reqs), reqs'[n] = reqs[m] PROVE reqs'[n].below \in 1..(said' + 1)
    <3>1. reqs[m].below \in 1..(said + 1) BY <1>10, <2>2 DEF HeldInv
    <3> QED BY <1>2, <2>2, <3>1
  <2>3. 1..(said + 1) \subseteq 1..(said' + 1)
    <3>1. \A a, c \in Nat : a <= c => 1..(a + 1) \subseteq 1..(c + 1) OBVIOUS
    <3> QED BY <1>2, <3>1
  <2>4. CASE FetchOlder /\ reqs'[n].below = Floor
    <3>1. Floor \in 1..(said + 1)
      <4>1. CASE DOMAIN rows = {} BY <1>2, <4>1 DEF Floor
      <4>2. CASE DOMAIN rows # {}
        <5>1. PICK i \in DOMAIN rows : Floor = rows[i].said BY <1>0, <4>2, FloorFact
        <5>2. Spoken({rows[i].said}) BY DEF HeldInv
        <5> QED BY <1>2, <5>1, <5>2 DEF Spoken, Held
      <4> QED BY <4>1, <4>2
    <3> QED BY <2>4, <2>3, <3>1
  <2> QED BY <1>10, <2>1, <2>2, <2>4 DEF Sends
<1> QED BY <1>3, <1>5, <1>6, <1>7, <1>8, <1>9, <1>10 DEF HeldInv, Spoken, Held

\* The histories only grow.
LEMMA Histories ==
  ASSUME StoreTypeOK, RowInv, HistoryNext
  PROVE  /\ bound \subseteq bound' /\ missed \subseteq missed'
         /\ cut => cut'
         /\ overlapped => overlapped'
         /\ misrouted => misrouted'
<1>1. Say => bound \subseteq bound' /\ missed \subseteq missed'
  <2>1. MultilineOpen(said') => bound \subseteq bound' BY DEF MultilineOpen
  <2> QED BY <2>1, SayFact
<1>2. LinkDies => missed \subseteq missed' /\ (cut => cut') BY DEF LinkDies
<1>3. ChatBatchClose => (overlapped => overlapped') /\ (misrouted => misrouted')
  BY DEF ChatBatchClose, StartFlush, flushing
<1>4. PageWoken => (overlapped => overlapped') BY DEF PageWoken, StartFlush
<1>5. FetchOlder => (misrouted => misrouted') BY DEF FetchOlder
<1> QED BY <1>1, <1>2, <1>3, <1>4, <1>5, Movers

\* A complete multiline batch adds to an open history batch at most.
LEMMA JoinFact ==
  ASSUME StoreTypeOK, WireTypeOK, RowInv, FlushLineBatch
  PROVE  /\ DOMAIN chatBatches' = DOMAIN chatBatches
         /\ \A c \in DOMAIN chatBatches : chatBatches'[c].ask = chatBatches[c].ask
<1>1. PICK ref, k : ref = lineBatch.chatRef /\ k = lineBatch.msg OBVIOUS
<1>2. k \in Messages BY <1>1, FlushLineFact DEF LineBatches
<1>3. PICK after : after = appendChatFrame(ref, k) OBVIOUS
<1>4. chatBatches' = after \/ chatBatches' = chatBatches BY <1>1, <1>3, FlushLineFact
<1>5. /\ DOMAIN after = DOMAIN chatBatches
      /\ \A c \in DOMAIN chatBatches :
           /\ after[c].ask = chatBatches[c].ask
           /\ after[c].frames = IF c = ref THEN chatBatches[c].frames \cup {k}
                                ELSE chatBatches[c].frames
  BY <1>2, <1>3, FrameFact
<1> QED BY <1>4, <1>5

LEMMA NextStack ==
  ASSUME HistoryTypeOK, HeldInv, StackInv, RowInv, HistoryNext
  PROVE  StackInv'
<1>0. StoreTypeOK /\ WireTypeOK BY DEF HistoryTypeOK
<1>10. StoreTypeOK' /\ WireTypeOK' BY NextTypes DEF HistoryTypeOK
<1>1. cut' \/ chatStack' = << >> \/ (answer' # None /\ answer'.open /\ chatStack' = <<answer'.ref>>)
  <2>1. SUFFICES ASSUME ~cut'
                 PROVE  chatStack' = << >> \/ (answer' # None /\ answer'.open /\ chatStack' = <<answer'.ref>>)
    OBVIOUS
  <2>2. ~cut BY <1>0, <2>1, Histories
  <2>3. chatStack = << >> \/ (answer # None /\ answer.open /\ chatStack = <<answer.ref>>)
    BY <2>2 DEF StackInv
  <2>4. CASE answer' = answer /\ chatStack' = chatStack BY <2>3, <2>4
  <2>5. CASE ChatBatchOpen
    <3>1. answer # None /\ ~answer.open /\ answer \in Answers
          /\ answer' = [answer EXCEPT !.open = TRUE] /\ chatStack' = Append(chatStack, answer.ref)
      BY <1>0, <2>5 DEF ChatBatchOpen, WireTypeOK
    <3>2. chatStack = << >> BY <2>3, <3>1
    <3>3. chatStack' = <<answer.ref>> BY <3>1, <3>2
    <3>4. answer'.open /\ answer'.ref = answer.ref /\ answer' \in Answers BY <3>1 DEF Answers
    <3>5. answer' # None BY <3>4, HistoryAssumption
    <3> QED BY <3>3, <3>4, <3>5
  <2>6. CASE ChatBatchFrame
    <3>1. answer # None /\ answer'.open /\ answer'.ref = answer.ref /\ answer' \in Answers
          /\ chatStack' = chatStack
      BY <1>0, <2>6, GetFrameFact DEF ChatBatchFrame
    <3>2. answer' # None BY <3>1, HistoryAssumption
    <3> QED BY <2>3, <3>1, <3>2
  <2>7. CASE ChatBatchClose
    <3>1. chatStack' = popChatStack(chatStack, answer.ref) BY <2>7 DEF ChatBatchClose
    <3>2. CASE chatStack = << >> BY <3>1, <3>2 DEF popChatStack
    <3>3. CASE chatStack = <<answer.ref>>
      <4>1. PICK ref : ref = answer.ref OBVIOUS
      <4>2. Last(<<ref>>) = ref /\ <<ref>> # << >> BY DEF Last
      <4>3. Front(<<ref>>) = << >>
        <5>1. Front(<<ref>>) = SubSeq(<<ref>>, 1, Len(<<ref>>) - 1) BY DEF Front
        <5>2. Len(<<ref>>) - 1 = 0 OBVIOUS
        <5>3. SubSeq(<<ref>>, 1, 0) = << >> OBVIOUS
        <5> QED BY <5>1, <5>2, <5>3
      <4>4. popChatStack(<<ref>>, ref) = << >> BY <4>2, <4>3 DEF popChatStack
      <4> QED BY <3>1, <3>3, <4>1, <4>4
    <3> QED BY <2>3, <3>2, <3>3
  <2>8. CASE LinkDies
    <3>1. cut' = (cut \/ (answer # None /\ answer.open)) /\ chatStack' = chatStack
      BY <2>8 DEF LinkDies
    <3> QED BY <2>1, <2>3, <3>1
  <2>9. ASSUME NEW refuse \in BOOLEAN, ServerAnswers(refuse) PROVE chatStack' = << >>
    <3>1. answer = None /\ chatStack' = chatStack
      BY <2>9 DEF ServerAnswers, batches
    <3> QED BY <2>3, <3>1
  <2> QED BY <2>4, <2>5, <2>6, <2>7, <2>8, <2>9, Movers
<1>2. ASSUME answer' # None, answer'.open
      PROVE  answer'.ref \in DOMAIN chatBatches' /\ chatBatches'[answer'.ref].ask = answer'.ask
  <2>1. CASE answer' = answer
    <3>1. answer.ref \in DOMAIN chatBatches /\ chatBatches[answer.ref].ask = answer.ask
      BY <1>2, <2>1 DEF StackInv
    <3>2. CASE chatBatches' = chatBatches BY <2>1, <3>1, <3>2
    <3>3. CASE ChatBatchOpen BY <1>2, <2>1, <3>3 DEF ChatBatchOpen
    <3>4. CASE ChatBatchFrame BY <1>0, <2>1, <3>1, <3>4, GetFrameFact
    <3>5. CASE ChatBatchClose BY <1>2, <3>5 DEF ChatBatchClose
    <3>6. CASE FlushLineBatch
      <4>1. DOMAIN chatBatches' = DOMAIN chatBatches
            /\ \A c \in DOMAIN chatBatches : chatBatches'[c].ask = chatBatches[c].ask
        BY <1>0, <3>6, JoinFact
      <4> QED BY <2>1, <3>1, <4>1
    <3> QED BY <3>2, <3>3, <3>4, <3>5, <3>6, Movers
  <2>2. CASE ChatBatchOpen
    <3>1. /\ chatBatches' = Put(chatBatches, answer.ref, [frames |-> {}, ask |-> answer.ask])
          /\ answer # None /\ answer \in Answers /\ answer' = [answer EXCEPT !.open = TRUE]
      BY <1>0, <2>2 DEF ChatBatchOpen, WireTypeOK
    <3>2. answer'.ref = answer.ref /\ answer'.ask = answer.ask BY <3>1 DEF Answers
    <3> QED BY <3>1, <3>2 DEF Put
  <2>3. CASE ChatBatchFrame
    <3>1. answer # None /\ answer.open /\ answer'.ref = answer.ref /\ answer'.ask = answer.ask
          /\ DOMAIN chatBatches' = DOMAIN chatBatches
          /\ \A b \in DOMAIN chatBatches : chatBatches'[b].ask = chatBatches[b].ask
      BY <1>0, <2>3, GetFrameFact
    <3> QED BY <3>1 DEF StackInv
  <2>4. ASSUME NEW refuse \in BOOLEAN, ServerAnswers(refuse) PROVE FALSE
    BY <1>0, <1>2, <2>4, AnswerFact
  <2> QED BY <1>0, <1>2, <2>1, <2>2, <2>3, <2>4, AnswerMoves
<1>3. ASSUME lineBatch' # None PROVE lineBatch'.chatRef = None \/ lineBatch'.msg \in bound'
  <2>1. bound \subseteq bound' BY <1>0, Histories
  <2>2. CASE lineBatch' = lineBatch BY <1>3, <2>1, <2>2 DEF StackInv
  <2>3. CASE lineBatch' # lineBatch
    <3>1. PICK k : k = said' OBVIOUS
    <3>2. MultilineOpen(k)
      <4>1. FlushLineBatch \/ LinkDies => lineBatch' = None BY DEF FlushLineBatch, LinkDies
      <4> QED BY <1>0, <1>3, <2>3, <3>1, <4>1, Movers, SayFact
    <3>3. PICK ref : ref = IF chatStack = << >> THEN None ELSE Last(chatStack) OBVIOUS
    <3>4. lineBatch' = [msg |-> k, chatRef |-> ref] BY <3>2, <3>3 DEF MultilineOpen
    <3>5. cut \/ (answer # None /\ answer.open) => k \in bound' BY <3>2 DEF MultilineOpen
    <3>6. ref = None \/ cut \/ (answer # None /\ answer.open) BY <3>3 DEF StackInv
    <3> QED BY <3>4, <3>5, <3>6
  <2> QED BY <2>2, <2>3
<1>4. ASSUME work'["rest"] # None PROVE page'.at = "flush"
  <2>0. "rest" \in Workers /\ page \in Pages BY <1>0 DEF Workers, StoreTypeOK
  <2>1. WorksOn("rest") BY <1>0, <1>4, <2>0, WorkMoves
  <2>2. CASE work["rest"] # None
    <3>1. page.at = "flush" BY <2>2 DEF StackInv
    <3>2. CASE page' = page BY <3>1, <3>2
    <3>3. CASE FetchOlder \/ PageWoken \/ PageTimeout
      BY <3>1, <3>3 DEF FetchOlder, PageWoken, PageTimeout
    <3>4. CASE PageFlushed BY <2>2, <3>4 DEF PageFlushed
    <3>5. ASSUME NEW w \in Workers, FlushAppend(w) PROVE page'.at = "flush"
      <4>1. page' = IF w = "rest" THEN [page EXCEPT !.got = @ + 1] ELSE page
        BY <3>5 DEF FlushAppend
      <4> QED BY <2>0, <3>1, <4>1 DEF Pages
    <3>6. ASSUME NEW need \in 1..PageLimit, GetMessages(need) PROVE FALSE
      BY <3>1, <3>6 DEF GetMessages, Idle
    <3> QED BY <3>2, <3>3, <3>4, <3>5, <3>6, Movers
  <2>3. CASE PageWoken /\ pageBatch # None /\ work'["rest"].left = pageBatch.frames
             /\ work'["rest"].left # {}
    <3>1. page' = [page EXCEPT !.at = "flush"] BY <1>0, <2>3, WokenFact
    <3> QED BY <2>0, <3>1 DEF Pages
  <2> QED BY <2>1, <2>2, <2>3 DEF WorksOn
<1> QED BY <1>1, <1>2, <1>3, <1>4 DEF StackInv

-----------------------------------------------------------------------------
(* Page requests and their answers *)

\* How the REST request goes on.
PageStep ==
  \/ /\ page'.at = page.at /\ page'.round = page.round /\ page'.ceiling = page.ceiling
     /\ scrolls' = scrolls
  \/ /\ FetchOlder /\ page.at = "ask" /\ page'.at = "wait" /\ page'.round = page.round
     /\ page'.ceiling = FloorId /\ scrolls' = scrolls
  \/ page.at = "wait" /\ page'.at = "flush" /\ page'.round = page.round /\ scrolls' = scrolls
  \/ page'.at = "idle" /\ page'.round = 0 /\ scrolls' = scrolls
  \/ page.at = "flush" /\ page'.at = "ask" /\ page'.round = page.round + 1 /\ scrolls' = scrolls
  \/ page.at = "idle" /\ page'.at = "ask" /\ page'.round = 1 /\ scrolls' = scrolls + 1

LEMMA PageMoves ==
  ASSUME StoreTypeOK, WireTypeOK, RowInv, HistoryNext
  PROVE  PageStep
<1>0. page \in Pages BY DEF StoreTypeOK
<1>1. Idle.at = "idle" /\ Idle.round = 0 BY DEF Idle
<1>2. CASE UNCHANGED <<page, scrolls>> BY <1>2 DEF PageStep
<1>3. CASE FetchOlder
  <2>1. page.at = "ask" /\ scrolls' = scrolls
        /\ (page' = Idle \/ page' = [page EXCEPT !.at = "wait", !.ceiling = FloorId])
    BY <1>3, FetchFact
  <2>2. page' = [page EXCEPT !.at = "wait", !.ceiling = FloorId] =>
          page'.at = "wait" /\ page'.round = page.round /\ page'.ceiling = FloorId
    BY <1>0 DEF Pages
  <2> QED BY <1>1, <1>3, <2>1, <2>2 DEF PageStep
<1>4. CASE PageWoken
  <2>1. page.at = "wait" /\ scrolls' = scrolls
        /\ (page' = Idle \/ page' = [page EXCEPT !.at = "flush"])
    BY <1>4, WokenFact
  <2>2. page' = [page EXCEPT !.at = "flush"] => page'.at = "flush" /\ page'.round = page.round
    BY <1>0 DEF Pages
  <2> QED BY <1>1, <2>1, <2>2 DEF PageStep
<1>5. CASE PageTimeout \/ PageFlushed
  <2>1. /\ scrolls' = scrolls
        /\ \/ page' = Idle
           \/ /\ page.at = "flush"
              /\ page' = [Idle EXCEPT !.at = "ask", !.need = page.need - page.got, !.round = page.round + 1]
    BY <1>5 DEF PageTimeout, PageFlushed
  <2>2. page' = [Idle EXCEPT !.at = "ask", !.need = page.need - page.got, !.round = page.round + 1] =>
          page'.at = "ask" /\ page'.round = page.round + 1
    BY DEF Idle
  <2> QED BY <1>1, <2>1, <2>2 DEF PageStep
<1>6. ASSUME NEW w \in Workers, FlushAppend(w) PROVE PageStep
  <2>1. page' = (IF w = "rest" THEN [page EXCEPT !.got = @ + 1] ELSE page) /\ scrolls' = scrolls
    BY <1>6 DEF FlushAppend
  <2>2. page'.at = page.at /\ page'.round = page.round /\ page'.ceiling = page.ceiling
    BY <1>0, <2>1 DEF Pages
  <2> QED BY <2>1, <2>2 DEF PageStep
<1>7. ASSUME NEW need \in 1..PageLimit, GetMessages(need) PROVE PageStep
  <2>1. page = Idle /\ scrolls' = scrolls + 1
        /\ page' = [Idle EXCEPT !.at = "ask", !.need = need, !.round = 1]
    BY <1>7 DEF GetMessages
  <2>2. page'.at = "ask" /\ page'.round = 1 BY <2>1 DEF Idle
  <2> QED BY <1>1, <2>1, <2>2 DEF PageStep
<1> QED BY <1>2, <1>3, <1>4, <1>5, <1>6, <1>7, Movers

\* Asked, of the next state.
StillAsked(id) ==
  /\ id <= scrolls' * 4 + 3
  /\ page'.at = "ask" => id < scrolls' * 4 + page'.round
  /\ page'.at \in {"wait", "flush"} => id <= scrolls' * 4 + page'.round

LEMMA NextAsked ==
  ASSUME HistoryTypeOK, HeldInv, StackInv, RowInv, AskedInv, HistoryNext
  PROVE  AskedInv'
<1>0. StoreTypeOK /\ WireTypeOK BY DEF HistoryTypeOK
<1>1. StoreTypeOK' /\ WireTypeOK' BY NextTypes DEF HistoryTypeOK
<1>2. /\ scrolls \in Nat /\ scrolls' \in Nat /\ page.round \in 0..3 /\ page'.round \in 0..3
      /\ page.at \in {"idle", "ask", "wait", "flush"} /\ page'.at \in {"idle", "ask", "wait", "flush"}
  BY <1>0, <1>1 DEF StoreTypeOK, Pages
<1>3. PageStep BY <1>0, PageMoves
<1>4. page.at = "idle" <=> page.round = 0 BY DEF AskedInv
<1>5. page'.at = "idle" <=> page'.round = 0 BY <1>2, <1>3, <1>4 DEF PageStep
<1>6. ASSUME NEW id \in Nat, Asked(id) PROVE StillAsked(id)
  <2>1. id <= scrolls * 4 + 3 /\ (page.at = "ask" => id < scrolls * 4 + page.round)
        /\ (page.at \in {"wait", "flush"} => id <= scrolls * 4 + page.round)
    BY <1>6 DEF Asked, Now
  <2>2. CASE page'.at = page.at /\ page'.round = page.round /\ scrolls' = scrolls
    BY <2>1, <2>2 DEF StillAsked
  <2>3. CASE /\ page.at \in {"ask", "wait"} /\ page'.at \in {"wait", "flush"}
             /\ page'.round = page.round /\ scrolls' = scrolls
    BY <1>2, <2>1, <2>3 DEF StillAsked
  <2>4. CASE page'.at = "idle" /\ scrolls' = scrolls BY <2>1, <2>4 DEF StillAsked
  <2>5. CASE page.at = "flush" /\ page'.at = "ask" /\ page'.round = page.round + 1 /\ scrolls' = scrolls
    <3>1. id < scrolls * 4 + (page.round + 1) BY <1>2, <2>1, <2>5
    <3> QED BY <2>1, <2>5, <3>1 DEF StillAsked
  <2>6. CASE page'.at = "ask" /\ page'.round = 1 /\ scrolls' = scrolls + 1
    <3>1. id <= (scrolls + 1) * 4 + 3 /\ id < (scrolls + 1) * 4 + 1 BY <1>2, <2>1
    <3> QED BY <2>6, <3>1 DEF StillAsked
  <2> QED BY <1>3, <2>2, <2>3, <2>4, <2>5, <2>6 DEF PageStep
<1>7. ASSUME NEW n \in 1..Len(reqs') PROVE StillAsked(reqs'[n].id)
  <2>1. Sends(n) BY <1>0, <1>7, ReqMoves
  <2>2. ASSUME NEW m \in 1..Len(reqs), reqs'[n] = reqs[m] PROVE StillAsked(reqs'[n].id)
    <3>1. reqs[m] \in Requests
      <4>1. reqs \in Seq(Requests) BY <1>0 DEF WireTypeOK
      <4> QED BY <4>1, ElementOfSeq
    <3>2. PICK id \in Nat : id = reqs[m].id BY <3>1 DEF Requests
    <3>3. Asked(id) BY <3>2 DEF AskedInv
    <3> QED BY <1>6, <2>2, <3>2, <3>3
  <2>3. CASE FetchOlder /\ reqs'[n].id = Now
             /\ page' = [page EXCEPT !.at = "wait", !.ceiling = FloorId]
    <3>1. page'.at = "wait" /\ page'.round = page.round /\ scrolls' = scrolls
      BY <1>0, <2>3 DEF StoreTypeOK, Pages, FetchOlder
    <3> QED BY <1>2, <2>3, <3>1 DEF StillAsked, Now
  <2>4. CASE Join /\ reqs'[n].id = 0
    <3>1. Asked(0) BY <1>2, <1>4 DEF Asked, Now
    <3> QED BY <1>6, <2>4, <3>1
  <2> QED BY <2>1, <2>2, <2>3, <2>4 DEF Sends
<1>8. ASSUME answer' # None PROVE StillAsked(answer'.id)
  <2>1. CASE answer # None /\ answer \in Answers /\ answer'.id = answer.id
    <3>1. PICK id \in Nat : id = answer.id BY <2>1 DEF Answers
    <3>2. Asked(id) BY <2>1, <3>1 DEF AskedInv
    <3> QED BY <1>6, <2>1, <3>1, <3>2
  <2>2. CASE answer' = answer BY <1>0, <1>8, <2>1, <2>2 DEF WireTypeOK
  <2>3. CASE ChatBatchFrame BY <1>0, <2>1, <2>3, GetFrameFact
  <2>4. ASSUME NEW refuse \in BOOLEAN, ServerAnswers(refuse) PROVE StillAsked(answer'.id)
    <3>1. reqs # << >> /\ answer'.id = reqs[1].id BY <1>0, <1>8, <2>4, AnswerFact
    <3>2. reqs \in Seq(Requests) BY <1>0 DEF WireTypeOK
    <3>3. 1 \in 1..Len(reqs) /\ reqs[1] \in Requests BY <3>1, <3>2, SeqFact
    <3>4. PICK id \in Nat : id = reqs[1].id BY <3>3 DEF Requests
    <3>5. Asked(id) BY <3>3, <3>4 DEF AskedInv
    <3> QED BY <1>6, <3>1, <3>4, <3>5
  <2> QED BY <1>0, <1>8, <2>1, <2>2, <2>3, <2>4, AnswerMoves
<1>9. ASSUME pageCh' # None PROVE StillAsked(pageCh'.id)
  <2>1. CASE pageCh # None /\ pageCh'.id = pageCh.id
    <3>1. PICK id \in Nat : id = pageCh.id BY <1>0, <2>1 DEF WireTypeOK, Waiters
    <3>2. Asked(id) BY <2>1, <3>1 DEF AskedInv
    <3> QED BY <1>6, <2>1, <3>1, <3>2
  <2>2. CASE pageCh' = pageCh BY <1>9, <2>1, <2>2
  <2>3. CASE FetchOlder
    <3>1. CASE UNCHANGED pageCh BY <2>2, <3>1
    <3>2. CASE ~UNCHANGED pageCh
      <4>1. pageCh'.id = Now /\ page' = [page EXCEPT !.at = "wait", !.ceiling = FloorId]
            /\ scrolls' = scrolls
        BY <1>0, <2>3, <3>2, FetchFact
      <4>2. page'.at = "wait" /\ page'.round = page.round BY <1>0, <4>1 DEF StoreTypeOK, Pages
      <4> QED BY <1>2, <4>1, <4>2 DEF StillAsked, Now
    <3> QED BY <3>1, <3>2
  <2>4. CASE WaiterAges
    <3>1. pageCh # None /\ pageCh' = [pageCh EXCEPT !.old = TRUE] /\ pageCh \in Waiters
      BY <1>0, <2>4 DEF WaiterAges, WireTypeOK
    <3>2. pageCh'.id = pageCh.id BY <3>1 DEF Waiters
    <3> QED BY <2>1, <3>1, <3>2
  <2>5. CASE ChatBatchClose
    <3>1. pageCh' = pageCh BY <1>0, <1>9, <2>5, CloseFact
    <3> QED BY <2>2, <3>1
  <2> QED BY <2>2, <2>3, <2>4, <2>5, Movers
<1>10. ASSUME page'.at = "wait", pageCh' # None PROVE pageCh'.id = scrolls' * 4 + page'.round
  <2>1. CASE FetchOlder
    <3>1. page' # Idle BY <1>10 DEF Idle
    <3>2. pageCh'.id = Now /\ page' = [page EXCEPT !.at = "wait", !.ceiling = FloorId]
          /\ scrolls' = scrolls
      BY <1>0, <2>1, <3>1, FetchFact
    <3>3. page'.round = page.round BY <1>0, <3>2 DEF StoreTypeOK, Pages
    <3> QED BY <3>2, <3>3 DEF Now
  <2>2. CASE ~FetchOlder
    <3>1. page.at = "wait" /\ page'.round = page.round /\ scrolls' = scrolls
      BY <1>3, <1>10, <2>2 DEF PageStep
    <3>2. CASE pageCh' = pageCh BY <1>10, <3>1, <3>2 DEF AskedInv, Now
    <3>3. CASE WaiterAges BY <3>1, <3>3 DEF WaiterAges
    <3>4. CASE ChatBatchClose
      <4>1. pageCh' = pageCh BY <1>0, <1>10, <3>4, CloseFact
      <4> QED BY <3>2, <4>1
    <3> QED BY <2>2, <3>2, <3>3, <3>4, Movers
  <2> QED BY <2>1, <2>2
<1> QED BY <1>5, <1>7, <1>8, <1>9, <1>10 DEF AskedInv, Asked, Now, StillAsked

-----------------------------------------------------------------------------
(* A message with a msgid is stored once *)

\* A message relayed live is held by nobody yet.
LEMMA RelayedFact ==
  ASSUME StoreTypeOK, WireTypeOK, HeldInv, RowInv, NEW k,
         (Say /\ k = said') \/ (FlushLineBatch /\ k = lineBatch.msg)
  PROVE  \A S : Spoken(S) => k \notin S
<1>1. CASE Say /\ k = said'
  <2>1. k = said + 1 /\ said \in Nat BY <1>1, SayFact DEF StoreTypeOK
  <2> QED BY <2>1 DEF Spoken
<1>2. CASE FlushLineBatch /\ k = lineBatch.msg
  <2>1. lineBatch # None BY <1>2 DEF FlushLineBatch
  <2> QED BY <1>2, <2>1 DEF Spoken
<1> QED BY <1>1, <1>2

\* What is stored is not in the buffer already.
LEMMA NewRow ==
  ASSUME StoreTypeOK, WireTypeOK, HeldInv, RowInv, OnceInv, ~overlapped,
         NEW k \in Messages, NEW id \in Nat, Buffers(id, k), k \notin Untagged
  PROVE  \A j \in DOMAIN rows : rows[j].said # k
<1>1. SUFFICES ASSUME NEW j \in DOMAIN rows, rows[j].said = k PROVE FALSE OBVIOUS
<1>2. CASE (Say /\ k = said') \/ (FlushLineBatch /\ k = lineBatch.msg)
  <2>1. Spoken({rows[j].said}) BY DEF HeldInv
  <2> QED BY <1>1, <1>2, <2>1, RelayedFact
<1>3. ASSUME NEW w \in Workers, work[w] # None, work[w].fresh, k = Earliest(work[w].left) PROVE FALSE
  <2>1. k \in DOMAIN idx BY <1>1 DEF OnceInv
  <2>2. Fresh(w) BY DEF OnceInv
  <2> QED BY <1>3, <2>1, <2>2 DEF Fresh
<1> QED BY <1>2, <1>3 DEF Buffers

\* While flushes do not overlap, a goroutine that goes on is the only one.
LEMMA AloneFact ==
  ASSUME StoreTypeOK, WireTypeOK, HeldInv, StackInv, RowInv, OnceInv, HistoryNext, ~overlapped'
  PROVE  \/ work' = work
         \/ \E v \in Workers :
              /\ \A u \in Workers : u # v => work[u] = None /\ work'[u] = None
              /\ \/ ChatBatchClose /\ (work'[v] # None => ~work'[v].fresh)
                 \/ PageWoken /\ (work'[v] # None => ~work'[v].fresh)
                 \/ FlushLookup(v) \/ FlushAppend(v)
<1>1. ~overlapped BY Histories
<1>2. work["handler"] = None \/ work["rest"] = None BY <1>1 DEF OnceInv
<1>3. "handler" \in Workers /\ "rest" \in Workers BY DEF Workers
<1>4. CASE ChatBatchClose
  <2>1. CASE ~UNCHANGED work
    <3>1. PICK acc \in Batches : Takes("handler", acc.frames, None) BY <1>4, <2>1, CloseFact
    <3>2. \A u \in Workers : u # "handler" => work[u] = None /\ work'[u] = None
      BY <3>1 DEF Takes
    <3>3. work'["handler"] # None => ~work'["handler"].fresh BY <3>1 DEF Takes
    <3> QED BY <1>3, <1>4, <3>2, <3>3
  <2> QED BY <2>1
<1>5. CASE PageWoken
  <2>1. Takes("rest", pageBatch.frames, page.ceiling) BY <1>5, WokenFact
  <2>2. \A u \in Workers : u # "rest" => work[u] = None /\ work'[u] = None
    BY <2>1 DEF Takes
  <2>3. work'["rest"] # None => ~work'["rest"].fresh BY <2>1 DEF Takes
  <2> QED BY <1>3, <1>5, <2>2, <2>3
<1>6. ASSUME NEW v \in Workers, FlushLookup(v) \/ FlushAppend(v)
      PROVE  \A u \in Workers : u # v => work[u] = None /\ work'[u] = None
  <2>1. work[v] # None BY <1>6 DEF FlushLookup, FlushAppend
  <2>2. \A u \in Workers : u # v => work'[u] = work[u]
    <3>1. CASE FlushLookup(v) BY <3>1, FlushLookupFact DEF Passes
    <3>2. CASE FlushAppend(v) BY <3>2, FlushAppendFact DEF Passes
    <3> QED BY <1>6, <3>1, <3>2
  <2> QED BY <1>2, <2>1, <2>2 DEF Workers
<1> QED BY <1>4, <1>5, <1>6, Movers

LEMMA NextOnce ==
  ASSUME HistoryTypeOK, HeldInv, StackInv, RowInv, OnceInv, HistoryNext
  PROVE  OnceInv'
<1>0. StoreTypeOK /\ WireTypeOK BY DEF HistoryTypeOK
<1>1. Still \/ \E k \in Messages : \E id \in Nat : Buffers(id, k) BY <1>0, BufferMoves
<1>2. ASSUME NEW i \in DOMAIN rows', rows'[i].said \notin Untagged PROVE rows'[i].said \in DOMAIN idx'
  <2>1. CASE Still BY <1>2, <2>1 DEF Still, OnceInv
  <2>2. ASSUME NEW k \in Messages, NEW id \in Nat, Buffers(id, k) PROVE rows'[i].said \in DOMAIN idx'
    <3>1. Stored(id, k) BY <2>2 DEF Buffers, Minted
    <3>2. CASE i = id BY <1>2, <3>1, <3>2 DEF Stored
    <3>3. CASE i # id BY <1>2, <3>1, <3>3 DEF Stored, OnceInv
    <3> QED BY <3>2, <3>3
  <2> QED BY <1>1, <2>1, <2>2
<1>3. ASSUME ~overlapped' PROVE work'["handler"] = None \/ work'["rest"] = None
  <2>1. ~overlapped BY <1>0, <1>3, Histories
  <2>2. CASE work' = work BY <2>1, <2>2 DEF OnceInv
  <2>3. CASE work' # work
    <3>1. PICK v \in Workers : \A u \in Workers : u # v => work'[u] = None
      BY <1>0, <1>3, <2>3, AloneFact
    <3> QED BY <3>1 DEF Workers
  <2> QED BY <2>2, <2>3
<1>4. ASSUME ~overlapped', NEW w \in Workers, work'[w] # None, work'[w].fresh
      PROVE  Earliest(work'[w].left) \in Untagged \/ Earliest(work'[w].left) \notin DOMAIN idx'
  <2>0. ~overlapped /\ Fresh(w) BY <1>0, <1>4, Histories DEF OnceInv
  <2>1. CASE work' = work
    <3>1. PICK e : e = Earliest(work[w].left) OBVIOUS
    <3>2. e \in Untagged \/ e \notin DOMAIN idx BY <1>4, <2>0, <2>1, <3>1 DEF Fresh
    <3>3. CASE Still BY <2>1, <3>1, <3>2, <3>3 DEF Still
    <3>4. ASSUME NEW k \in Messages, NEW id \in Nat, Buffers(id, k) PROVE e \in Untagged \/ e \notin DOMAIN idx'
      <4>1. (Say /\ k = said') \/ (FlushLineBatch /\ k = lineBatch.msg)
        <5>1. ASSUME NEW v \in Workers, FlushAppend(v), Passes(v, k) PROVE FALSE
          <6>1. work[v] # None /\ work[v].fresh BY <5>1 DEF FlushAppend
          <6>2. work'[v] # None /\ work'[v].fresh BY <2>1, <6>1
          <6> QED BY <5>1, <6>2 DEF Passes
        <5> QED BY <3>4, <5>1 DEF Buffers
      <4>2. Spoken(work[w].left) /\ work[w].left # {} /\ work[w] \in Jobs
        BY <1>0, <1>4, <2>1 DEF HeldInv, StoreTypeOK
      <4>3. e \in work[w].left
        <5>1. work[w].left \in SUBSET Messages BY <4>2 DEF Jobs
        <5> QED BY <3>1, <4>2, <5>1, EarliestFact
      <4>4. e # k BY <1>0, <4>1, <4>2, <4>3, RelayedFact
      <4>5. DOMAIN idx' \subseteq DOMAIN idx \cup {k} BY <3>4 DEF Buffers, Minted, Stored
      <4> QED BY <3>2, <4>4, <4>5
    <3> QED BY <1>1, <2>1, <3>1, <3>3, <3>4
  <2>2. CASE work' # work
    <3>1. PICK v \in Workers :
            /\ \A u \in Workers : u # v => work'[u] = None
            /\ (work'[v] # None => ~work'[v].fresh) \/ FlushLookup(v) \/ FlushAppend(v)
      BY <1>0, <1>4, <2>2, AloneFact
    <3>2. w = v BY <1>4, <3>1
    <3>3. CASE FlushAppend(v)
      <4>1. \E k \in Messages : Passes(v, k) BY <1>0, <3>3, FlushAppendFact
      <4> QED BY <1>4, <3>2, <4>1 DEF Passes
    <3>4. CASE FlushLookup(v)
      <4>1. idx' = idx BY <3>4 DEF FlushLookup, store
      <4>2. PICK k \in Messages :
              /\ k = Earliest(work[v].left)
              /\ \/ /\ k \in Untagged \/ k \notin DOMAIN idx
                    /\ work'[v].left = work[v].left
                 \/ Passes(v, k)
        BY <1>0, <3>4, FlushLookupFact
      <4> QED BY <1>4, <3>2, <4>1, <4>2 DEF Passes
    <3> QED BY <1>4, <3>1, <3>2, <3>3, <3>4
  <2> QED BY <2>1, <2>2
<1>5. ASSUME ~overlapped', NEW i \in DOMAIN rows', NEW j \in DOMAIN rows',
             rows'[i].said = rows'[j].said, rows'[i].said \notin Untagged
      PROVE  i = j
  <2>0. ~overlapped /\ StoredOnce BY <1>0, <1>5, Histories DEF OnceInv
  <2>1. CASE Still BY <1>5, <2>0, <2>1 DEF Still, StoredOnce
  <2>2. ASSUME NEW k \in Messages, NEW id \in Nat, Buffers(id, k) PROVE i = j
    <3>1. Stored(id, k) BY <2>2 DEF Buffers, Minted
    <3>2. k \notin Untagged => \A x \in DOMAIN rows : rows[x].said # k
      BY <1>0, <2>0, <2>2, NewRow
    <3>3. \A x \in DOMAIN rows' : /\ x = id => rows'[x].said = k
                                  /\ x # id => x \in DOMAIN rows /\ rows'[x] = rows[x]
      BY <3>1 DEF Stored
    <3>4. CASE i = id \/ j = id BY <1>5, <3>2, <3>3, <3>4
    <3>5. CASE i # id /\ j # id BY <1>5, <2>0, <3>3, <3>5 DEF StoredOnce
    <3> QED BY <3>4, <3>5
  <2> QED BY <1>1, <2>1, <2>2
<1> QED BY <1>2, <1>3, <1>4, <1>5 DEF OnceInv, Fresh, StoredOnce

-----------------------------------------------------------------------------
(* Ids in the order of the messages *)

\* What the answer being received has brought and will bring only gains
\* multiline messages.
LEMMA ReceivingMoves ==
  ASSUME StoreTypeOK, WireTypeOK, HeldInv, StackInv, RowInv, HistoryNext, StackInv', answer' # None
  PROVE  \/ /\ answer # None /\ answer'.ask = answer.ask /\ answer'.id = answer.id
            /\ Receiving \subseteq Receiving'
            /\ \A k \in Receiving' : k \in Receiving \/ (lineBatch # None /\ k = lineBatch.msg /\ k \in bound)
         \/ \E refuse \in BOOLEAN : ServerAnswers(refuse) /\ Receiving' = answer'.left
<1>1. CASE answer' = answer
  <2>1. CASE ~answer.open BY <1>1, <2>1 DEF Receiving
  <2>2. CASE answer.open
    <3>1. PICK b : b = answer.ref OBVIOUS
    <3>2. b \in DOMAIN chatBatches /\ b \in DOMAIN chatBatches'
      BY <1>1, <2>2, <3>1 DEF StackInv
    <3>3. Gathers(b) BY <3>2, BatchMoves
    <3>4. /\ chatBatches[b].frames \subseteq chatBatches'[b].frames
          /\ \A k \in chatBatches'[b].frames :
               k \in chatBatches[b].frames \cup answer.left \/ (lineBatch # None /\ k = lineBatch.msg /\ k \in bound)
      <4>1. ~ChatBatchOpen BY <2>2 DEF ChatBatchOpen
      <4>2. lineBatch # None /\ lineBatch.chatRef # None => lineBatch.msg \in bound BY DEF StackInv
      <4> QED BY <3>3, <4>1, <4>2 DEF Gathers
    <3>5. Receiving = answer.left \cup chatBatches[b].frames BY <2>2, <3>1 DEF Receiving
    <3>6. Receiving' = answer.left \cup chatBatches'[b].frames BY <1>1, <2>2, <3>1 DEF Receiving
    <3> QED BY <1>1, <3>4, <3>5, <3>6
  <2> QED BY <2>1, <2>2
<1>2. CASE ChatBatchOpen
  <2>1. /\ answer # None /\ ~answer.open /\ answer'.ref = answer.ref /\ answer'.ask = answer.ask
        /\ answer'.id = answer.id /\ answer'.left = answer.left /\ answer'.open
    <3>1. answer # None /\ ~answer.open /\ answer \in Answers /\ answer' = [answer EXCEPT !.open = TRUE]
      BY <1>2 DEF ChatBatchOpen, WireTypeOK
    <3> QED BY <3>1 DEF Answers
  <2>2. chatBatches' = Put(chatBatches, answer.ref, [frames |-> {}, ask |-> answer.ask])
    BY <1>2 DEF ChatBatchOpen
  <2>3. chatBatches'[answer.ref].frames = {} BY <2>2 DEF Put
  <2>4. Receiving = answer.left BY <2>1 DEF Receiving
  <2>5. Receiving' = answer.left BY <2>1, <2>3 DEF Receiving
  <2> QED BY <2>1, <2>4, <2>5
<1>3. CASE ChatBatchFrame
  <2>1. PICK k \in answer.left :
          /\ answer # None /\ answer.open /\ answer'.left = answer.left \ {k} /\ answer'.open
          /\ answer'.ref = answer.ref /\ answer'.ask = answer.ask /\ answer'.id = answer.id
          /\ DOMAIN chatBatches' = DOMAIN chatBatches
          /\ \A b \in DOMAIN chatBatches :
               chatBatches'[b].frames = IF b = answer.ref THEN chatBatches[b].frames \cup {k}
                                        ELSE chatBatches[b].frames
    BY <1>3, GetFrameFact
  <2>2. PICK b : b = answer.ref OBVIOUS
  <2>3. b \in DOMAIN chatBatches BY <2>1, <2>2 DEF StackInv
  <2>4. chatBatches'[b].frames = chatBatches[b].frames \cup {k} BY <2>1, <2>2, <2>3
  <2>5. Receiving = answer.left \cup chatBatches[b].frames BY <2>1, <2>2 DEF Receiving
  <2>6. Receiving' = (answer.left \ {k}) \cup (chatBatches[b].frames \cup {k})
    BY <2>1, <2>2, <2>4 DEF Receiving
  <2>7. Receiving' = Receiving BY <2>5, <2>6
  <2> QED BY <2>1, <2>7
<1>4. ASSUME NEW refuse \in BOOLEAN, ServerAnswers(refuse) PROVE Receiving' = answer'.left
  <2>1. ~answer'.open BY <1>4, AnswerFact
  <2> QED BY <2>1 DEF Receiving
<1> QED BY <1>1, <1>2, <1>3, <1>4, AnswerMoves

\* A message stored under a ceiling keeps its millisecond.
LEMMA PlacedFact ==
  ASSUME HistoryTypeOK, PlaceInv, NEW k \in Messages, NEW id \in Nat, Buffers(id, k)
  PROVE  k \in bound \/ id >= Slots * Ms(k)
<1>1. CASE id = Slots * Ms(k)
  <2>1. Slots * Ms(k) \in Nat BY MsFact DEF Slots
  <2> QED BY <1>1, <2>1
<1>2. ASSUME NEW w \in Workers, work[w] # None, k \in work[w].left,
             Below(k, work[w].ceiling) => id >= Slots * Ms(k)
      PROVE  k \in bound \/ id >= Slots * Ms(k)
  <2>1. AllBelow(work[w].left, work[w].ceiling) BY <1>2 DEF PlaceInv
  <2> QED BY <1>2, <2>1 DEF AllBelow
<1> QED BY <1>1, <1>2 DEF Buffers

\* AllBelow, of the next state: bound only grows.
StillBelow(S, c) == \A k \in S : k \in bound' \/ Below(k, c)

LEMMA NextPlace ==
  ASSUME HistoryTypeOK, HeldInv, StackInv, RowInv, AskedInv, PlaceInv, HistoryNext, StackInv', ~misrouted'
  PROVE  PlaceInv'
<1>0. StoreTypeOK /\ WireTypeOK BY DEF HistoryTypeOK
<1>1. bound \subseteq bound' BY <1>0, Histories
<1>2. \A S, T, c : AllBelow(S, c) /\ T \subseteq S => StillBelow(T, c)
  BY <1>1 DEF AllBelow, StillBelow
<1>3. PageStep BY <1>0, PageMoves
<1>4. /\ scrolls \in Nat /\ page.round \in 0..3 /\ Now \in Nat
  BY <1>0 DEF StoreTypeOK, Pages, Now
<1>5. ASSUME page'.at = "wait"
      PROVE  /\ Now' = Now
             /\ \/ page.at = "wait" /\ page'.ceiling = page.ceiling
                \/ FetchOlder /\ page.at = "ask" /\ page'.ceiling = FloorId
  BY <1>3, <1>5 DEF PageStep, Now
<1>6. ASSUME NEW i \in DOMAIN rows' PROVE rows'[i].said \in bound' \/ i >= Slots * Ms(rows'[i].said)
  <2>1. CASE Still
    <3>1. i \in DOMAIN rows /\ rows' = rows BY <1>6, <2>1 DEF Still
    <3>2. Home(i) BY <3>1 DEF PlaceInv
    <3> QED BY <1>1, <3>1, <3>2 DEF Home
  <2>2. ASSUME NEW k \in Messages, NEW id \in Nat, Buffers(id, k)
        PROVE  rows'[i].said \in bound' \/ i >= Slots * Ms(rows'[i].said)
    <3>1. Stored(id, k) BY <2>2 DEF Buffers, Minted
    <3>2. CASE i # id
      <4>1. i \in DOMAIN rows /\ rows'[i] = rows[i] BY <1>6, <3>1, <3>2 DEF Stored
      <4>2. Home(i) BY <4>1 DEF PlaceInv
      <4> QED BY <1>1, <4>1, <4>2 DEF Home
    <3>3. CASE i = id
      <4>1. rows'[i].said = k BY <1>6, <3>1, <3>3 DEF Stored
      <4>2. k \in bound \/ id >= Slots * Ms(k) BY <2>2, PlacedFact
      <4> QED BY <1>1, <3>3, <4>1, <4>2
    <3> QED BY <3>2, <3>3
  <2> QED BY <1>0, <2>1, <2>2, BufferMoves
<1>7. ASSUME NEW w \in Workers, work'[w] # None PROVE StillBelow(work'[w].left, work'[w].ceiling)
  <2>1. WorksOn(w) BY <1>0, <1>7, WorkMoves
  <2>2. CASE /\ work[w] # None /\ work'[w].left \subseteq work[w].left
             /\ work'[w].ceiling = work[w].ceiling
    BY <1>2, <2>2 DEF PlaceInv
  <2>3. CASE work'[w].ceiling = None BY <2>3 DEF StillBelow, Below
  <2>4. CASE PageWoken /\ pageBatch # None /\ work'[w].left = pageBatch.frames
             /\ work'[w].ceiling = page.ceiling
    <3>1. AllBelow(pageBatch.frames, page.ceiling) BY <2>4 DEF PlaceInv, PageWoken
    <3> QED BY <1>2, <2>4, <3>1
  <2> QED BY <2>1, <2>2, <2>3, <2>4 DEF WorksOn
<1>8. ASSUME page'.at = "wait", pageBatch' # None PROVE StillBelow(pageBatch'.frames, page'.ceiling)
  <2>1. CASE FetchOlder
    <3>1. page' # Idle BY <1>8 DEF Idle
    <3>2. pageBatch' = None BY <1>0, <2>1, <3>1, FetchFact
    <3> QED BY <1>8, <3>2
  <2>2. CASE ~FetchOlder
    <3>1. page.at = "wait" /\ page'.ceiling = page.ceiling BY <1>5, <1>8, <2>2
    <3>2. CASE pageBatch' = pageBatch BY <1>2, <1>8, <3>1, <3>2 DEF PlaceInv
    <3>3. CASE ChatBatchClose
      <4>1. CASE UNCHANGED pageBatch BY <3>2, <4>1
      <4>2. CASE ~UNCHANGED pageBatch
        <5>1. PICK acc \in Batches :
                /\ answer # None /\ answer.open /\ acc = chatBatches[answer.ref] /\ acc.ask = answer.ask
                /\ pageCh # None /\ pageBatch' = acc
                /\ misrouted' = (misrouted \/ acc.ask = "latest" \/ pageCh.id # answer.id)
          BY <1>0, <3>3, <4>2, CloseFact
        <5>2. acc.ask = "before" /\ pageCh.id = answer.id BY <5>1 DEF Batches, Asks
        <5>3. answer.id = Now BY <3>1, <5>1, <5>2 DEF AskedInv
        <5>4. AllBelow(Receiving, page.ceiling) BY <3>1, <5>1, <5>2, <5>3 DEF PlaceInv
        <5>5. acc.frames \subseteq Receiving BY <5>1 DEF Receiving
        <5> QED BY <1>2, <3>1, <5>1, <5>4, <5>5
      <4> QED BY <4>1, <4>2
    <3>4. CASE PageWoken BY <1>8, <3>4 DEF PageWoken
    <3> QED BY <2>2, <3>2, <3>3, <3>4, Movers
  <2> QED BY <2>1, <2>2
<1>9. ASSUME NEW n \in 1..Len(reqs'), page'.at = "wait", reqs'[n].ask = "before", reqs'[n].id = Now'
      PROVE  StillBelow(1..(reqs'[n].below - 1), page'.ceiling)
  <2>1. Sends(n) BY <1>0, <1>9, ReqMoves
  <2>2. ASSUME NEW m \in 1..Len(reqs), reqs'[n] = reqs[m]
        PROVE  StillBelow(1..(reqs'[n].below - 1), page'.ceiling)
    <3>1. Asked(reqs[m].id) /\ reqs[m].id = Now BY <1>5, <1>9, <2>2 DEF AskedInv
    <3>2. page.at # "ask" BY <1>4, <3>1 DEF Asked
    <3>3. page.at = "wait" /\ page'.ceiling = page.ceiling BY <1>5, <1>9, <3>2
    <3>4. AllBelow(1..(reqs[m].below - 1), page.ceiling)
      BY <1>9, <2>2, <3>1, <3>3 DEF PlaceInv
    <3> QED BY <1>2, <2>2, <3>3, <3>4
  <2>3. CASE /\ FetchOlder /\ reqs'[n].below = Floor
             /\ page' = [page EXCEPT !.at = "wait", !.ceiling = FloorId]
             /\ misrouted' = (misrouted \/ (DOMAIN rows # {} /\ FloorId < Slots * Ms(Floor)))
    <3>1. page'.ceiling = FloorId BY <1>0, <2>3 DEF StoreTypeOK, Pages
    <3>2. CASE DOMAIN rows = {}
      <4>1. page'.ceiling = None BY <3>1, <3>2 DEF FloorId
      <4> QED BY <4>1 DEF StillBelow, Below
    <3>3. CASE DOMAIN rows # {}
      <4>1. PICK i \in DOMAIN rows : i \in Nat /\ FloorId = i /\ Floor = rows[i].said
        BY <1>0, <3>3, FloorFact
      <4>2. PICK f \in Messages : f = Floor BY <1>0, <4>1 DEF StoreTypeOK, BufferTypeOK, RowOK
      <4>3. ~(i < Slots * Ms(f)) BY <2>3, <3>3, <4>1, <4>2
      <4>4. f \in Nat /\ Ms(f) = f + 4 BY MsFact
      <4>5. ASSUME NEW k \in 1..(f - 1) PROVE Below(k, i)
        <5>1. k \in Nat /\ k <= f - 1 /\ Ms(k) = k + 4 BY <4>4 DEF Ms
        <5>2. Slots * (Ms(k) + 1) <= Slots * Ms(f) BY <4>4, <5>1 DEF Slots
        <5>3. Slots * (Ms(k) + 1) <= i BY <4>1, <4>3, <4>4, <5>1, <5>2 DEF Slots
        <5> QED BY <5>3 DEF Below
      <4> QED BY <2>3, <3>1, <4>1, <4>2, <4>5 DEF StillBelow
    <3> QED BY <3>2, <3>3
  <2> QED BY <1>9, <2>1, <2>2, <2>3 DEF Sends
<1>10. ASSUME page'.at = "wait", answer' # None, answer'.ask = "before", answer'.id = Now'
       PROVE  StillBelow(Receiving', page'.ceiling)
  <2>1. CASE /\ answer # None /\ answer'.ask = answer.ask /\ answer'.id = answer.id
             /\ \A k \in Receiving' : k \in Receiving \/ k \in bound
    <3>1. Asked(answer.id) /\ answer.id = Now /\ answer.ask = "before" BY <1>5, <1>10, <2>1 DEF AskedInv
    <3>2. page.at # "ask" BY <1>4, <3>1 DEF Asked
    <3>3. page.at = "wait" /\ page'.ceiling = page.ceiling BY <1>5, <1>10, <3>2
    <3>4. AllBelow(Receiving, page.ceiling) BY <2>1, <3>1, <3>3 DEF PlaceInv
    <3> QED BY <1>1, <2>1, <3>3, <3>4 DEF AllBelow, StillBelow
  <2>2. ASSUME NEW refuse \in BOOLEAN, ServerAnswers(refuse), Receiving' = answer'.left
        PROVE  StillBelow(Receiving', page'.ceiling)
    <3>1. /\ reqs # << >> /\ answer'.ask = reqs[1].ask /\ answer'.id = reqs[1].id
          /\ (reqs[1].ask # "latest" => answer'.left \subseteq 1..(reqs[1].below - 1))
      BY <1>0, <1>10, <2>2, AnswerFact
    <3>2. 1 \in 1..Len(reqs)
      <4>1. reqs \in Seq(Requests) BY <1>0 DEF WireTypeOK
      <4> QED BY <3>1, <4>1, SeqFact
    <3>3. Asked(reqs[1].id) /\ reqs[1].id = Now /\ reqs[1].ask = "before"
      BY <1>5, <1>10, <3>1, <3>2 DEF AskedInv
    <3>4. page.at # "ask" BY <1>4, <3>3 DEF Asked
    <3>5. page.at = "wait" /\ page'.ceiling = page.ceiling BY <1>5, <1>10, <3>4
    <3>6. AllBelow(1..(reqs[1].below - 1), page.ceiling) BY <3>2, <3>3, <3>5 DEF PlaceInv
    <3> QED BY <1>2, <2>2, <3>1, <3>3, <3>5, <3>6
  <2> QED BY <1>0, <1>10, <2>1, <2>2, ReceivingMoves
<1> QED BY <1>6, <1>7, <1>8, <1>9, <1>10 DEF PlaceInv, Home, AllBelow, StillBelow

-----------------------------------------------------------------------------
(* A history without holes *)

\* Storing a message in its own millisecond keeps it, or the ring is full of
\* newer ones.
LEMMA KeptNew ==
  ASSUME HistoryTypeOK, PlaceInv, RowInv, NEW k \in Messages, NEW id \in Nat, Buffers(id, k), HistoryNext
  PROVE  Kept(k)'
<1>0. StoreTypeOK BY DEF HistoryTypeOK
<1>1. k \in bound \/ id >= Slots * Ms(k) BY PlacedFact
<1>2. bound \subseteq bound' BY <1>0, Histories
<1>3. Stored(id, k) BY DEF Buffers, Minted
<1>4. CASE k \in bound BY <1>2, <1>4 DEF Kept
<1>5. CASE id \in DOMAIN rows'
  <2>1. rows'[id].said = k BY <1>3, <1>5 DEF Stored
  <2> QED BY <1>5, <2>1 DEF Kept
<1>6. CASE id >= Slots * Ms(k) /\ id \notin DOMAIN rows'
  <2>1. Cardinality(DOMAIN rows') >= BufferCap BY <1>3, <1>6 DEF Stored
  <2>2. ASSUME NEW j \in DOMAIN rows' PROVE j >= Slots * Ms(k)
    <3>1. id < j BY <1>3, <1>6 DEF Stored
    <3>2. j \in DOMAIN rows /\ j \in Nat
      BY <1>0, <1>3, <1>6 DEF Stored, StoreTypeOK, BufferTypeOK, RowOK
    <3>3. Slots * Ms(k) \in Nat BY MsFact DEF Slots
    <3> QED BY <1>6, <3>1, <3>2, <3>3
  <2> QED BY <2>1, <2>2 DEF Kept, Trimmed
<1> QED BY <1>1, <1>4, <1>5, <1>6

\* Once kept, a message is kept for ever, or trimmed in its turn.
LEMMA KeptStays ==
  ASSUME HistoryTypeOK, HeldInv, StackInv, RowInv, PlaceInv, HistoryNext, NEW k \in Messages, Kept(k)
  PROVE  Kept(k)'
<1>0. StoreTypeOK /\ WireTypeOK BY DEF HistoryTypeOK
<1>1. bound \subseteq bound' /\ missed \subseteq missed' BY <1>0, Histories
<1>2. Still \/ \E j \in Messages : \E id \in Nat : Buffers(id, j) BY <1>0, BufferMoves
<1>3. CASE k \in missed \cup bound BY <1>1, <1>3 DEF Kept
<1>4. CASE lineBatch # None /\ lineBatch.msg = k
  <2>1. CASE lineBatch' = lineBatch BY <1>4, <2>1 DEF Kept
  <2>2. CASE LinkDies
    <3>1. k \in missed' BY <1>4, <2>2 DEF LinkDies
    <3> QED BY <3>1 DEF Kept
  <2>3. CASE FlushLineBatch
    <3>1. CASE lineBatch.chatRef # None
      <4>1. k \in bound BY <1>4, <3>1 DEF StackInv
      <4> QED BY <1>1, <4>1 DEF Kept
    <3>2. CASE lineBatch.chatRef = None
      <4>1. Relays(k) BY <1>0, <1>4, <2>3, <3>2, FlushLineFact
      <4>2. PICK id \in Nat : id = Slots * Ms(k) BY MsFact DEF Slots
      <4>3. Minted(id, k) BY <4>1, <4>2 DEF Relays
      <4>4. Buffers(id, k) BY <1>4, <2>3, <4>1, <4>2, <4>3 DEF Buffers
      <4> QED BY <4>4, KeptNew
    <3> QED BY <3>1, <3>2
  <2>4. CASE Say
    <3>1. MultilineOpen(said') => lineBatch = None BY DEF MultilineOpen
    <3>2. lineBatch' = lineBatch BY <1>0, <1>4, <2>4, <3>1, SayFact
    <3> QED BY <2>1, <3>2
  <2> QED BY <2>1, <2>2, <2>3, <2>4, Movers
<1>5. CASE \E i \in DOMAIN rows : rows[i].said = k
  <2>1. PICK i \in DOMAIN rows : rows[i].said = k BY <1>5
  <2>2. CASE Still BY <2>1, <2>2 DEF Still, Kept
  <2>3. ASSUME NEW j \in Messages, NEW id \in Nat, Buffers(id, j) PROVE Kept(k)'
    <3>1. Stored(id, j) /\ (id \in DOMAIN rows => rows[id].said = j) BY <2>3 DEF Buffers, Minted
    <3>2. CASE i \in DOMAIN rows'
      <4>1. rows'[i].said = k BY <2>1, <3>1, <3>2 DEF Stored
      <4> QED BY <3>2, <4>1 DEF Kept
    <3>3. CASE i \notin DOMAIN rows'
      <4>1. Home(i) BY <2>1 DEF PlaceInv
      <4>2. CASE k \in bound BY <1>1, <4>2 DEF Kept
      <4>3. CASE i >= Slots * Ms(k)
        <5>1. Cardinality(DOMAIN rows') >= BufferCap BY <2>1, <3>1, <3>3 DEF Stored
        <5>2. ASSUME NEW x \in DOMAIN rows' PROVE x >= Slots * Ms(k)
          <6>1. i < x BY <2>1, <3>1, <3>3 DEF Stored
          <6>2. x \in Nat /\ i \in Nat
            BY <1>0, <2>1, <3>1 DEF Stored, StoreTypeOK, BufferTypeOK, RowOK
          <6>3. Slots * Ms(k) \in Nat BY MsFact DEF Slots
          <6> QED BY <4>3, <6>1, <6>2, <6>3
        <5> QED BY <5>1, <5>2 DEF Kept, Trimmed
      <4> QED BY <2>1, <4>1, <4>2, <4>3 DEF Home
    <3> QED BY <3>2, <3>3
  <2> QED BY <1>2, <2>2, <2>3
<1>6. CASE Trimmed(k)
  <2>1. CASE Still BY <1>6, <2>1 DEF Still, Trimmed, Kept
  <2>2. ASSUME NEW j \in Messages, NEW id \in Nat, Buffers(id, j) PROVE Kept(k)'
    <3>1. Stored(id, j) BY <2>2 DEF Buffers, Minted
    <3>2. PICK b \in Int : b = Slots * Ms(k) BY MsFact DEF Slots
    <3>3. Cardinality(DOMAIN rows) >= BufferCap /\ \A i \in DOMAIN rows : i >= b
      BY <1>6, <3>2 DEF Trimmed
    <3>4. Cardinality(DOMAIN rows') >= BufferCap /\ \A i \in DOMAIN rows' : i >= b
      BY <3>1, <3>3 DEF Stored
    <3> QED BY <3>2, <3>4 DEF Kept, Trimmed
  <2> QED BY <1>2, <2>1, <2>2
<1> QED BY <1>3, <1>4, <1>5, <1>6 DEF Kept

\* What a goroutine was about to store is stored, or skipped since it was.
LEMMA SolidStays ==
  ASSUME HistoryTypeOK, HeldInv, StackInv, RowInv, PlaceInv, KeptInv, HistoryNext,
         NEW k \in Messages, Solid(k)
  PROVE  Solid(k)'
<1>0. StoreTypeOK /\ WireTypeOK BY DEF HistoryTypeOK
<1>1. CASE Kept(k) BY <1>1, KeptStays DEF Solid
<1>2. ASSUME NEW w \in Workers, work[w] # None, k \in work[w].left PROVE Solid(k)'
  <2>1. CASE work'[w] = work[w] BY <1>2, <2>1 DEF Solid
  <2>2. CASE ChatBatchClose
    <3>1. CASE UNCHANGED work BY <2>1, <3>1
    <3>2. CASE ~UNCHANGED work
      <4>1. work["handler"] = None /\ \E frames : Takes("handler", frames, None)
        BY <1>0, <2>2, <3>2, CloseFact
      <4> QED BY <1>2, <2>1, <4>1 DEF Takes
    <3> QED BY <3>1, <3>2
  <2>3. CASE PageWoken
    <3>1. page.at = "wait" /\ Takes("rest", pageBatch.frames, page.ceiling)
      BY <1>0, <2>3, WokenFact
    <3>2. work["rest"] = None BY <3>1 DEF StackInv
    <3> QED BY <1>2, <2>1, <3>1, <3>2 DEF Takes
  <2>4. CASE FlushLookup(w)
    <3>1. PICK j \in Messages :
            \/ work'[w] # None /\ work'[w].left = work[w].left
            \/ j \in DOMAIN idx /\ Passes(w, j)
      BY <1>0, <2>4, FlushLookupFact
    <3>2. CASE work'[w] # None /\ work'[w].left = work[w].left BY <1>2, <3>2 DEF Solid
    <3>3. CASE j \in DOMAIN idx /\ Passes(w, j)
      <4>1. CASE k = j
        <5>1. Kept(k) BY <3>3, <4>1 DEF KeptInv
        <5> QED BY <1>1, <5>1
      <4>2. CASE k # j
        <5>1. work'[w] # None /\ k \in work'[w].left BY <1>2, <3>3, <4>2 DEF Passes
        <5> QED BY <5>1 DEF Solid
      <4> QED BY <4>1, <4>2
    <3> QED BY <3>1, <3>2, <3>3
  <2>5. CASE FlushAppend(w)
    <3>1. PICK j \in Messages, id \in Nat : Buffers(id, j) /\ Passes(w, j) BY <1>0, <2>5, StoresFact
    <3>2. CASE k = j
      <4>1. Kept(k)' BY <3>1, <3>2, KeptNew
      <4> QED BY <4>1 DEF Solid
    <3>3. CASE k # j
      <4>1. work'[w] # None /\ k \in work'[w].left BY <1>2, <3>1, <3>3 DEF Passes
      <4> QED BY <4>1 DEF Solid
    <3> QED BY <3>2, <3>3
  <2>6. ASSUME NEW v \in Workers, v # w, FlushLookup(v) \/ FlushAppend(v) PROVE work'[w] = work[w]
    <3>1. CASE FlushLookup(v) BY <1>0, <2>6, <3>1, FlushLookupFact DEF Passes
    <3>2. CASE FlushAppend(v) BY <1>0, <2>6, <3>2, FlushAppendFact DEF Passes
    <3> QED BY <2>6, <3>1, <3>2
  <2> QED BY <2>1, <2>2, <2>3, <2>4, <2>5, <2>6, Movers
<1> QED BY <1>1, <1>2 DEF Solid

\* Closed, of the next state.
StillClosed(S) == \A k \in S : \A j \in (k + 1)..Earlier : j \in S \/ Solid(j)'

LEMMA NextKept ==
  ASSUME HistoryTypeOK, HeldInv, StackInv, RowInv, PlaceInv, KeptInv, HistoryNext, HeldInv', StackInv'
  PROVE  KeptInv'
<1>0. StoreTypeOK /\ WireTypeOK BY DEF HistoryTypeOK
<1>1. said \in Nat /\ said' \in Nat /\ said <= said' /\ Earlier \in Nat /\ Earlier <= said
      /\ said' \in 0..Upstream
  <2>1. said' <= Upstream BY <1>0, NextWork
  <2> QED BY <1>0, <2>1, SpokenStays, MsFact DEF StoreTypeOK
<1>2. \A k \in Messages : Kept(k) => Kept(k)' BY KeptStays
<1>3. \A k \in Messages : Solid(k) => Solid(k)' BY SolidStays
<1>4. \A k \in Messages : Kept(k)' => Solid(k)' BY DEF Solid
<1>5. \A k \in Nat : \A j \in (k + 1)..Earlier : j \in Messages
  <2>1. SUFFICES ASSUME NEW k \in Nat, NEW j \in (k + 1)..Earlier PROVE j \in Messages OBVIOUS
  <2>2. j \in Nat /\ j >= 1 /\ j <= Upstream BY <1>1, <2>1, MsFact
  <2> QED BY <2>2, MsFact DEF Messages
<1>6. ASSUME NEW S, S \subseteq Nat, Closed(S), NEW T, S \subseteq T,
             \A k \in T : k \in S \/ (k \in Nat /\ k > Earlier)
      PROVE  StillClosed(T)
  <2>1. SUFFICES ASSUME NEW k \in T, NEW j \in (k + 1)..Earlier PROVE j \in T \/ Solid(j)'
    BY DEF StillClosed
  <2>2. k \in S
    <3>1. SUFFICES ASSUME k \in Nat, k > Earlier PROVE FALSE BY <1>6
    <3> QED BY <1>1, <2>1, <3>1
  <2>3. j \in S \/ Solid(j) BY <1>6, <2>1, <2>2 DEF Closed
  <2>4. j \in Messages BY <1>5, <1>6, <2>2
  <2> QED BY <1>3, <1>6, <2>3, <2>4
<1>7. ASSUME lineBatch' # None PROVE lineBatch'.msg > Earlier
  <2>1. lineBatch' = lineBatch \/ lineBatch'.msg = said + 1 BY <1>0, <1>7, SpokenStays
  <2>2. said + 1 > Earlier BY <1>1
  <2> QED BY <1>7, <2>1, <2>2 DEF KeptInv
<1>8. ASSUME NEW k \in (Earlier + 1)..said' PROVE Kept(k)'
  <2>1. k \in Messages
    <3>1. k \in Nat /\ k >= 1 /\ k <= Upstream BY <1>1, <1>8, MsFact
    <3> QED BY <3>1, MsFact DEF Messages
  <2>2. CASE k \in (Earlier + 1)..said BY <1>2, <2>1, <2>2 DEF KeptInv
  <2>3. CASE k \notin (Earlier + 1)..said
    <3>1. said' # said BY <1>1, <1>8, <2>3
    <3>2. Say BY <3>1, Movers
    <3>3. said' = said + 1 BY <1>0, <3>2, SayFact
    <3>4. k = said' BY <1>1, <1>8, <2>3, <3>3
    <3>5. CASE k \in missed' BY <3>5 DEF Kept
    <3>6. CASE MultilineOpen(k)
      <4>1. lineBatch' = [msg |-> k, chatRef |-> IF chatStack = << >> THEN None ELSE Last(chatStack)]
        BY <3>6 DEF MultilineOpen
      <4>2. PICK ref : lineBatch' = [msg |-> k, chatRef |-> ref] BY <4>1
      <4>3. lineBatch'.msg = k BY <4>2
      <4>4. lineBatch' # None
        <5>1. WireTypeOK' /\ lineBatch' \in LineBatches \cup {None}
          BY <1>0, NextTypes DEF HistoryTypeOK, WireTypeOK
        <5>2. ref \in Nat \cup {None}
          <6>1. CASE chatStack = << >> BY <4>1, <4>2, <6>1
          <6>2. CASE chatStack # << >>
            <7>1. chatStack \in Seq(Nat) BY <1>0 DEF WireTypeOK
            <7>2. Len(chatStack) \in 1..Len(chatStack) BY <6>2, <7>1, EmptySeq, LenProperties
            <7>3. Last(chatStack) \in Nat BY <7>1, <7>2, ElementOfSeq DEF Last
            <7>4. ref = Last(chatStack)
              <8>1. PICK last : last = Last(chatStack) OBVIOUS
              <8>2. lineBatch' = [msg |-> k, chatRef |-> last] BY <4>1, <6>2, <8>1
              <8>3. lineBatch'.chatRef = last /\ lineBatch'.chatRef = ref BY <4>2, <8>2
              <8> QED BY <8>1, <8>3
            <7> QED BY <7>3, <7>4
          <6> QED BY <6>1, <6>2
        <5>3. lineBatch' \in LineBatches BY <2>1, <4>2, <5>2 DEF LineBatches
        <5> QED BY <5>3, HistoryAssumption
      <4> QED BY <4>3, <4>4 DEF Kept
    <3>7. CASE Relays(k) /\ UNCHANGED <<lineBatch, missed, bound>>
      <4>1. PICK id \in Nat : id = Slots * Ms(k) BY <2>1, MsFact DEF Slots
      <4>2. Minted(id, k) BY <3>7, <4>1 DEF Relays
      <4>3. Buffers(id, k) BY <3>2, <3>4, <3>7, <4>1, <4>2 DEF Buffers
      <4> QED BY <2>1, <4>3, KeptNew
    <3> QED BY <1>0, <3>2, <3>4, <3>5, <3>6, <3>7, SayFact
  <2> QED BY <2>2, <2>3
<1>9. ASSUME NEW k \in DOMAIN idx' PROVE Kept(k)'
  <2>1. CASE k \in DOMAIN idx
    <3>1. k \in Messages /\ Kept(k) BY <1>0, <2>1 DEF StoreTypeOK, BufferTypeOK, KeptInv
    <3> QED BY <1>2, <3>1
  <2>2. CASE k \notin DOMAIN idx
    <3>1. ~Still BY <1>9, <2>2 DEF Still
    <3>2. PICK j \in Messages, id \in Nat : Buffers(id, j) BY <1>0, <3>1, BufferMoves
    <3>3. Stored(id, j) BY <3>2 DEF Buffers, Minted
    <3>4. k = j BY <1>9, <2>2, <3>3 DEF Stored
    <3> QED BY <3>2, <3>4, KeptNew
  <2> QED BY <2>1, <2>2
<1>10. ASSUME NEW i \in DOMAIN rows', NEW j \in (rows'[i].said + 1)..Earlier PROVE Solid(j)'
  <2>1. ASSUME NEW x \in DOMAIN rows, rows[x].said = rows'[i].said PROVE Solid(j)'
    <3>1. rows[x].said \in Messages BY <1>0 DEF StoreTypeOK, BufferTypeOK, RowOK
    <3>2. j \in Messages BY <1>5, <2>1, <3>1, MsFact
    <3>3. j \in {rows[y].said : y \in DOMAIN rows} \/ Solid(j)
      BY <2>1 DEF KeptInv, Closed
    <3>4. j \in {rows[y].said : y \in DOMAIN rows} => Solid(j) BY DEF Solid, Kept
    <3> QED BY <1>3, <3>2, <3>3, <3>4
  <2>2. CASE Still BY <2>1, <2>2 DEF Still
  <2>3. ASSUME NEW k \in Messages, NEW id \in Nat, Buffers(id, k) PROVE Solid(j)'
    <3>1. Stored(id, k) BY <2>3 DEF Buffers, Minted
    <3>2. CASE i # id
      <4>1. i \in DOMAIN rows /\ rows'[i] = rows[i] BY <1>10, <3>1, <3>2 DEF Stored
      <4> QED BY <2>1, <4>1
    <3>3. CASE i = id
      <4>1. rows'[i].said = k /\ k \in Nat BY <1>10, <3>1, <3>3, MsFact DEF Stored
      <4>2. j \in Messages /\ k < Earlier
        <5>1. j \in (k + 1)..Earlier BY <4>1
        <5> QED BY <1>1, <1>5, <4>1, <5>1
      <4>3. CASE Say /\ k = said'
        <5>1. said' = said + 1 BY <1>0, <4>3, SayFact
        <5> QED BY <1>1, <4>2, <4>3, <5>1
      <4>4. CASE FlushLineBatch /\ k = lineBatch.msg
        <5>1. k > Earlier BY <4>4 DEF FlushLineBatch, KeptInv
        <5> QED BY <1>1, <4>1, <4>2, <5>1
      <4>5. ASSUME NEW w \in Workers, work[w] # None, k \in work[w].left PROVE Solid(j)'
        <5>1. j \in (k + 1)..Earlier BY <4>1
        <5>2. j \in work[w].left \/ Solid(j) BY <4>5, <5>1 DEF KeptInv, Closed
        <5>3. Solid(j) BY <4>5, <5>2 DEF Solid
        <5> QED BY <1>3, <4>2, <5>3
      <4> QED BY <2>3, <4>3, <4>4, <4>5 DEF Buffers
    <3> QED BY <3>2, <3>3
  <2> QED BY <1>0, <2>2, <2>3, BufferMoves
<1>11. ASSUME answer # None, answer.open, answer.left = {} PROVE StillClosed(chatBatches[answer.ref].frames)
  <2>1. PICK S : S = chatBatches[answer.ref].frames OBVIOUS
  <2>2. Receiving = S BY <1>11, <2>1 DEF Receiving
  <2>3. Closed(S) BY <1>11, <2>2 DEF KeptInv
  <2>4. S \subseteq Nat
    <3>1. answer.ref \in DOMAIN chatBatches BY <1>11 DEF StackInv
    <3> QED BY <1>0, <2>1, <3>1, MsFact DEF WireTypeOK, Batches
  <2> QED BY <1>6, <2>1, <2>3, <2>4
<1>12. ASSUME pageBatch # None PROVE StillClosed(pageBatch.frames)
  <2>1. PICK S : S = pageBatch.frames OBVIOUS
  <2>2. S \subseteq Nat BY <1>0, <1>12, <2>1, MsFact DEF WireTypeOK, Batches
  <2>3. Closed(S) BY <1>12, <2>1 DEF KeptInv
  <2> QED BY <1>6, <2>1, <2>2, <2>3
<1>13. ASSUME NEW w \in Workers, work'[w] # None PROVE StillClosed(work'[w].left)
  <2>1. WorksOn(w) BY <1>0, <1>13, WorkMoves
  <2>2. CASE work[w] # None /\ work'[w].left \subseteq work[w].left
    <3>1. work[w].left \subseteq Messages BY <1>0, <2>2 DEF StoreTypeOK, Jobs
    <3>2. ASSUME NEW k \in work[w].left, NEW j \in (k + 1)..Earlier PROVE Solid(j)'
      <4>1. j \in work[w].left \/ Solid(j) BY <2>2, <3>2 DEF KeptInv, Closed
      <4>2. Solid(j) BY <2>2, <4>1 DEF Solid
      <4>3. j \in Messages BY <1>5, <3>1, <3>2, MsFact
      <4> QED BY <1>3, <4>2, <4>3
    <3> QED BY <2>2, <3>2 DEF StillClosed
  <2>3. CASE ChatBatchClose /\ answer # None /\ work'[w].left = chatBatches[answer.ref].frames
    <3>1. answer.open /\ answer.left = {} BY <2>3 DEF ChatBatchClose
    <3> QED BY <1>11, <2>3, <3>1
  <2>4. CASE pageBatch # None /\ work'[w].left = pageBatch.frames BY <1>12, <2>4
  <2> QED BY <2>1, <2>2, <2>3, <2>4 DEF WorksOn
<1>14. ASSUME pageBatch' # None PROVE StillClosed(pageBatch'.frames)
  <2>1. CASE pageBatch' = pageBatch BY <1>12, <1>14, <2>1
  <2>2. CASE FetchOlder
    <3>1. pageBatch' = pageBatch BY <1>0, <1>14, <2>2, FetchFact
    <3> QED BY <2>1, <3>1
  <2>3. CASE PageWoken BY <1>14, <2>3 DEF PageWoken
  <2>4. CASE ChatBatchClose
    <3>1. answer # None /\ answer.open /\ answer.left = {}
          /\ (pageBatch' = pageBatch \/ pageBatch' = chatBatches[answer.ref])
      BY <1>0, <2>4, CloseFact
    <3> QED BY <1>11, <2>1, <3>1
  <2> QED BY <2>1, <2>2, <2>3, <2>4, Movers
<1>15. ASSUME answer' # None PROVE StillClosed(Receiving')
  <2>1. CASE /\ answer # None /\ Receiving \subseteq Receiving'
             /\ \A k \in Receiving' : k \in Receiving \/ (lineBatch # None /\ k = lineBatch.msg)
    <3>1. PICK S : S = Receiving OBVIOUS
    <3>2. PICK T : T = Receiving' OBVIOUS
    <3>3. Closed(S) BY <2>1, <3>1 DEF KeptInv
    <3>4. S \subseteq Nat
      <4>1. answer.left \subseteq Messages BY <1>0, <2>1 DEF WireTypeOK, Answers
      <4>2. answer.open => chatBatches[answer.ref].frames \subseteq Messages
        BY <1>0, <2>1 DEF StackInv, WireTypeOK, Batches
      <4> QED BY <3>1, <4>1, <4>2, MsFact DEF Receiving
    <3>5. lineBatch # None => lineBatch.msg \in Nat /\ lineBatch.msg > Earlier
      BY <1>0, MsFact DEF WireTypeOK, LineBatches, KeptInv
    <3>6. \A k \in T : k \in S \/ (k \in Nat /\ k > Earlier) BY <2>1, <3>1, <3>2, <3>5
    <3>7. S \subseteq T BY <2>1, <3>1, <3>2
    <3>8. StillClosed(T) BY <1>6, <3>3, <3>4, <3>6, <3>7
    <3> QED BY <3>2, <3>8
  <2>2. ASSUME NEW refuse \in BOOLEAN, ServerAnswers(refuse), Receiving' = answer'.left
        PROVE  StillClosed(Receiving')
    <3>1. PICK req \in Requests, below \in 1..(said + 1) :
            /\ reqs # << >> /\ req = reqs[1]
            /\ below = IF req.ask = "latest" THEN said + 1 ELSE req.below
            /\ answer'.left \subseteq 1..(below - 1)
            /\ \A k \in answer'.left : \A j \in (k + 1)..(below - 1) : j \in answer'.left
      BY <1>0, <1>15, <2>2, AnswerFact
    <3>2. 1 \in 1..Len(reqs)
      <4>1. reqs \in Seq(Requests) BY <1>0 DEF WireTypeOK
      <4> QED BY <3>1, <4>1, SeqFact
    <3>3. ASSUME NEW k \in answer'.left, NEW j \in (k + 1)..Earlier PROVE j \in answer'.left \/ Solid(j)'
      <4>1. k \in Nat /\ j \in Nat /\ below \in Nat /\ j > k /\ j <= Earlier BY <1>1, <3>1, <3>3
      <4>2. CASE j <= below - 1
        <5>1. j \in (k + 1)..(below - 1) BY <4>1, <4>2
        <5> QED BY <3>1, <3>3, <5>1
      <4>3. CASE j >= below
        <5>1. req.ask # "latest" BY <1>1, <3>1, <4>1, <4>3
        <5>2. req.ask = "before" /\ below = req.below BY <3>1, <5>1 DEF Requests, Asks
        <5>3. j \in req.below..Earlier BY <1>1, <4>1, <4>3, <5>2
        <5>4. Solid(j) BY <3>1, <3>2, <5>2, <5>3 DEF KeptInv
        <5>5. j \in Messages BY <1>5, <3>3, <4>1
        <5> QED BY <1>3, <5>4, <5>5
      <4> QED BY <4>1, <4>2, <4>3
    <3> QED BY <2>2, <3>3 DEF StillClosed
  <2> QED BY <1>0, <1>15, <2>1, <2>2, ReceivingMoves
<1>16. ASSUME NEW n \in 1..Len(reqs'), reqs'[n].ask = "before", NEW j \in reqs'[n].below..Earlier
       PROVE  Solid(j)'
  <2>1. Sends(n) BY <1>0, <1>16, ReqMoves
  <2>2. ASSUME NEW m \in 1..Len(reqs), reqs'[n] = reqs[m] PROVE Solid(j)'
    <3>1. reqs[m].below \in 1..(said + 1) /\ Solid(j) BY <1>16, <2>2 DEF HeldInv, KeptInv
    <3>2. j \in Messages
      <4>1. PICK below : below = reqs[m].below OBVIOUS
      <4>2. below \in Nat /\ below >= 1 /\ j \in below..Earlier BY <1>1, <1>16, <2>2, <3>1, <4>1
      <4>3. j \in Nat /\ j >= 1 /\ j <= Earlier BY <1>1, <4>2
      <4> QED BY <4>3, MsFact DEF Messages
    <3> QED BY <1>3, <3>1, <3>2
  <2>3. CASE FetchOlder /\ reqs'[n].below = Floor
    <3>1. CASE DOMAIN rows = {}
      <4>1. Floor = said + 1 BY <3>1 DEF Floor
      <4>2. j \in (said + 1)..Earlier BY <1>16, <2>3, <4>1
      <4> QED BY <1>1, <4>2
    <3>2. CASE DOMAIN rows # {}
      <4>1. PICK i \in DOMAIN rows : Floor = rows[i].said BY <1>0, <3>2, FloorFact
      <4>2. PICK f \in Messages : f = rows[i].said
        BY <1>0 DEF StoreTypeOK, BufferTypeOK, RowOK
      <4>3. j \in f..Earlier /\ f \in Nat BY <1>16, <2>3, <4>1, <4>2, MsFact
      <4>4. CASE j = f
        <5>1. Solid(j) BY <4>2, <4>4 DEF Solid, Kept
        <5> QED BY <1>3, <4>4, <5>1
      <4>5. CASE j # f
        <5>1. j \in (f + 1)..Earlier BY <1>1, <4>3, <4>5
        <5>2. j \in {rows[y].said : y \in DOMAIN rows} \/ Solid(j)
          BY <4>2, <5>1 DEF KeptInv, Closed
        <5>3. Solid(j) BY <5>2 DEF Solid, Kept
        <5>4. j \in Messages BY <1>5, <4>3, <5>1
        <5> QED BY <1>3, <5>3, <5>4
      <4> QED BY <4>4, <4>5
    <3> QED BY <3>1, <3>2
  <2> QED BY <1>16, <2>1, <2>2, <2>3 DEF Sends
<1> DEFINE Said == {rows[i].said : i \in DOMAIN rows}
<1>17. StillClosed(Said')
  <2>1. ASSUME NEW k \in Said', NEW j \in (k + 1)..Earlier PROVE Solid(j)'
    <3>1. PICK i \in DOMAIN rows' : k = rows'[i].said BY <2>1
    <3> QED BY <1>10, <2>1, <3>1
  <2> HIDE DEF Said
  <2> QED BY <2>1 DEF StillClosed
<1>18. \A w \in Workers : work'[w] # None => StillClosed(work'[w].left) BY <1>13
<1> QED BY <1>7, <1>8, <1>9, <1>14, <1>15, <1>16, <1>17, <1>18 DEF KeptInv, Closed, StillClosed

-----------------------------------------------------------------------------
(* The theorem *)

LEMMA HistoryStarts ==
  ASSUME HistoryInit
  PROVE  HistoryInv
<1> USE DEF HistoryInit
<1>1. DOMAIN rows = {} /\ DOMAIN idx = {} /\ DOMAIN chatBatches = {} BY DEF Empty
<1>2. work \in [Workers -> {None}] /\ \A w \in Workers : work[w] = None
  BY DEF Workers
<1>3. reqs = << >> /\ Len(reqs) = 0 OBVIOUS
<1>4. Upstream \in Nat /\ Earlier \in Nat /\ Earlier <= Upstream /\ Ms(Upstream) \in Nat
  BY MsFact
<1>5. StoreTypeOK
  <2>1. aux \in [0..Ms(Upstream) -> 0..(Slots - 1)] BY DEF Slots
  <2>2. page \in Pages
    <3>1. page = [at |-> "idle", need |-> 0, round |-> 0, got |-> 0, ceiling |-> None] BY DEF Idle
    <3>2. 0 \in 0..3 /\ 0 \in Nat /\ None \in Nat \cup {None} OBVIOUS
    <3> QED BY <3>1, <3>2 DEF Pages
  <2>3. work \in [Workers -> Jobs \cup {None}] BY <1>2
  <2> QED BY <1>1, <1>4, <2>1, <2>2, <2>3 DEF StoreTypeOK, BufferTypeOK
<1>6. WireTypeOK
  <2>1. << >> \in Seq(Requests) /\ << >> \in Seq(Nat) BY EmptySeq
  <2> QED BY <1>1, <2>1 DEF WireTypeOK
<1>7. HeldInv BY <1>1, <1>2, <1>3 DEF HeldInv
<1>8. StackInv BY <1>2 DEF StackInv, Workers
<1>9. RowInv BY <1>1 DEF RowInv
<1>10. OnceInv BY <1>1, <1>2 DEF OnceInv, Fresh, StoredOnce, Workers
<1>11. AskedInv BY <1>3 DEF AskedInv, Idle
<1>12. PlaceInv BY <1>1, <1>2, <1>3 DEF PlaceInv, Idle
<1>13. KeptInv
  <2>1. \A k \in (Earlier + 1)..said : FALSE BY <1>4
  <2>2. Closed({rows[i].said : i \in DOMAIN rows}) BY <1>1 DEF Closed
  <2> QED BY <1>1, <1>2, <1>3, <2>1, <2>2 DEF KeptInv
<1> QED BY <1>5, <1>6, <1>7, <1>8, <1>9, <1>10, <1>11, <1>12, <1>13 DEF HistoryInv, HistoryTypeOK

LEMMA HistoryKeeps ==
  ASSUME HistoryInv, HistoryNext
  PROVE  HistoryInv'
<1>1. HistoryTypeOK /\ HeldInv /\ StackInv /\ RowInv /\ OnceInv /\ AskedInv BY DEF HistoryInv
<1>2. StoreTypeOK BY <1>1 DEF HistoryTypeOK
<1>3. HistoryTypeOK' /\ RowInv' BY <1>1, NextTypes
<1>4. HeldInv' BY <1>1, NextHeld
<1>5. StackInv' BY <1>1, NextStack
<1>6. OnceInv' BY <1>1, NextOnce
<1>7. AskedInv' BY <1>1, NextAsked
<1>8. ASSUME ~misrouted' PROVE PlaceInv' /\ KeptInv'
  <2>1. ~misrouted BY <1>1, <1>2, <1>8, Histories
  <2>2. PlaceInv /\ KeptInv BY <2>1 DEF HistoryInv
  <2>3. PlaceInv' BY <1>1, <1>5, <1>8, <2>2, NextPlace
  <2>4. KeptInv' BY <1>1, <1>4, <1>5, <2>2, NextKept
  <2> QED BY <2>3, <2>4
<1> QED BY <1>3, <1>4, <1>5, <1>6, <1>7, <1>8 DEF HistoryInv

\* A step that changes nothing.
LEMMA HistoryRests ==
  ASSUME HistoryInv, UNCHANGED historyVars
  PROVE  HistoryInv'
<1> USE DEF historyVars
<1>1. HistoryTypeOK' /\ HeldInv' /\ StackInv' /\ RowInv' /\ OnceInv' /\ AskedInv'
  BY DEF HistoryInv, HistoryTypeOK, StoreTypeOK, BufferTypeOK, WireTypeOK, RowOK, HeldInv, Spoken,
    StackInv, RowInv, RowAt, OnceInv, Fresh, StoredOnce, AskedInv, Asked, Now
<1>2. ~misrouted' => PlaceInv'
  BY DEF HistoryInv, PlaceInv, Home, AllBelow, Receiving, Now
<1>3. ~misrouted' => KeptInv'
  BY DEF HistoryInv, KeptInv, Kept, Trimmed, Solid, Closed, Receiving
<1> QED BY <1>1, <1>2, <1>3 DEF HistoryInv

\* The ids of rows in their milliseconds are in the order of the messages.
LEMMA OrderFact ==
  ASSUME HistoryInv
  PROVE  IdsInOrder
<1>1. SUFFICES ASSUME ~misrouted, NEW i \in DOMAIN rows, NEW j \in DOMAIN rows, i < j,
                      {rows[i].said, rows[j].said} \cap bound = {}
               PROVE  rows[i].said <= rows[j].said
  BY DEF IdsInOrder
<1>2. PICK k, l : k = rows[i].said /\ l = rows[j].said OBVIOUS
<1>3. k \in Messages /\ l \in Messages /\ i \in Nat /\ j \in Nat
  BY <1>2 DEF HistoryInv, HistoryTypeOK, StoreTypeOK, BufferTypeOK, RowOK
<1>4. k \in Nat /\ l \in Nat /\ Ms(k) = k + 4 /\ Ms(l) = l + 4 BY <1>3, MsFact
<1>5. i >= Slots * Ms(k)
  <2>1. Home(i) BY <1>1 DEF HistoryInv, PlaceInv
  <2> QED BY <1>1, <1>2, <2>1 DEF Home
<1>6. j < Slots * (Ms(l) + 1) BY <1>2 DEF HistoryInv, RowInv, RowAt
<1>7. k <= l BY <1>1, <1>3, <1>4, <1>5, <1>6 DEF Slots
<1> QED BY <1>2, <1>7

\* While nobody flushes, nothing that is absent is about to come.
LEMMA WholeFact ==
  ASSUME HistoryInv
  PROVE  NoHoles
<1>1. SUFFICES ASSUME Quiet, ~misrouted, NEW k \in 1..said
               PROVE  \/ k \in missed \cup bound
                      \/ lineBatch # None /\ lineBatch.msg = k
                      \/ \E i \in DOMAIN rows : rows[i].said = k
                      \/ \A i \in DOMAIN rows : rows[i].said > k
  BY DEF NoHoles
<1>2. KeptInv /\ HistoryTypeOK /\ RowInv /\ StoreTypeOK BY <1>1 DEF HistoryInv, HistoryTypeOK
<1>3. said \in Nat /\ said <= Upstream /\ Upstream \in Nat /\ Earlier \in Nat BY <1>2, MsFact DEF StoreTypeOK
<1>4. k \in Messages /\ k \in Nat BY <1>1, <1>3 DEF Messages
<1>5. \A w \in Workers : work[w] = None BY <1>1, <1>2 DEF Quiet, StoreTypeOK
<1>6. \A i \in DOMAIN rows : rows[i].said \in Messages /\ rows[i].said \in Nat /\ i \in Nat
  BY <1>2, MsFact DEF StoreTypeOK, BufferTypeOK, RowOK
<1>7. CASE Kept(k)
  <2>1. CASE Trimmed(k)
    <3>1. ASSUME NEW i \in DOMAIN rows PROVE rows[i].said >= k
      <4>1. PICK l \in Messages : l = rows[i].said BY <1>6
      <4>2. i >= Slots * Ms(k) /\ i < Slots * (Ms(l) + 1) /\ i \in Nat
        BY <1>2, <1>6, <2>1, <4>1 DEF Trimmed, RowInv, RowAt
      <4>3. l \in Nat /\ Ms(k) = k + 4 /\ Ms(l) = l + 4 BY <1>4, MsFact
      <4>4. l >= k BY <1>4, <4>2, <4>3 DEF Slots
      <4> QED BY <4>1, <4>4
    <3> QED BY <1>4, <1>6, <3>1
  <2> QED BY <1>7, <2>1 DEF Kept
<1>8. CASE k <= Earlier
  <2>1. CASE \A i \in DOMAIN rows : rows[i].said > k BY <2>1
  <2>2. CASE \E i \in DOMAIN rows : rows[i].said <= k
    <3>1. PICK i \in DOMAIN rows : rows[i].said <= k BY <2>2
    <3>2. CASE rows[i].said = k BY <3>2
    <3>3. CASE rows[i].said # k
      <4>1. k \in (rows[i].said + 1)..Earlier BY <1>3, <1>4, <1>6, <1>8, <3>1, <3>3
      <4>2. k \in {rows[x].said : x \in DOMAIN rows} \/ Solid(k)
        BY <1>2, <4>1 DEF KeptInv, Closed
      <4>3. Solid(k) => Kept(k) BY <1>5 DEF Solid
      <4> QED BY <1>7, <4>2, <4>3
    <3> QED BY <3>2, <3>3
  <2> QED BY <1>4, <1>6, <2>1, <2>2
<1>9. CASE k > Earlier
  <2>1. k \in (Earlier + 1)..said BY <1>1, <1>3, <1>4, <1>9
  <2> QED BY <1>2, <1>7, <2>1 DEF KeptInv
<1> QED BY <1>3, <1>4, <1>8, <1>9

\* HistoryInv holds for ever: no prefill, page, late answer, live message, link
\* loss or interleaving of the two goroutines breaks it.
THEOREM HistoryInvHolds == HistorySpec => []HistoryInv
<1>1. HistoryInit => HistoryInv BY HistoryStarts
<1>2. HistoryInv /\ [HistoryNext]_historyVars => HistoryInv'
  <2>1. HistoryInv /\ HistoryNext => HistoryInv' BY HistoryKeeps
  <2>2. HistoryInv /\ UNCHANGED historyVars => HistoryInv' BY HistoryRests
  <2> QED BY <2>1, <2>2
<1> QED BY <1>1, <1>2, PTL DEF HistorySpec

\* The buffer stays a faithful history of the channel: whatever prefills,
\* pages, late answers, live messages and link losses store, in whatever order
\* (flushChatBatch, FetchOlder, AppendMessage), a message with a msgid is in it
\* once, the ids are in the order of the messages, and none is missing above
\* the oldest row, but for the exceptions HistoryFaithful names.
THEOREM HistoryStaysFaithful == HistorySpec => []HistoryFaithful
<1>1. HistoryInv => HistoryFaithful
  <2>1. HistoryInv => StoredOnce BY DEF HistoryInv, OnceInv
  <2> QED BY <2>1, OrderFact, WholeFact DEF HistoryFaithful
<1> QED BY <1>1, HistoryInvHolds, PTL

=============================================================================
