---------------------------- MODULE RelayProofs -----------------------------
(***************************************************************************)
(* Theorems about Relay, for any targets, nonces and concurrent requests,  *)
(* any capacities of the registry, the queues and the buffer, and any      *)
(* bounds.                                                                 *)
(***************************************************************************)
EXTENDS Relay, SequenceTheorems, FiniteSetTheorems, TLAPS

\* Partial functions.
Partial(S, T) == UNION {[D -> T] : D \in SUBSET S}

-----------------------------------------------------------------------------
(* The operators of MessageStore *)

\* What a partial function is.
LEMMA PartialFact ==
  ASSUME NEW S, NEW T, NEW g
  PROVE  /\ g \in Partial(S, T) => DOMAIN g \subseteq S /\ g \in [DOMAIN g -> T]
         /\ \A D \in SUBSET S : g \in [D -> T] => g \in Partial(S, T)
BY DEF Partial

\* Put maps one key more, Without some less, and IndexAll all msgids of a message
\* to it.
LEMMA PutFact ==
  ASSUME NEW g, NEW k, NEW v
  PROVE  /\ DOMAIN Put(g, k, v) = DOMAIN g \cup {k} /\ Put(g, k, v)[k] = v
         /\ \A x \in DOMAIN g : x # k => Put(g, k, v)[x] = g[x]
BY DEF Put

(* Without drops the keys of a set and leaves the rest of the function. *)
LEMMA WithoutFact ==
  ASSUME NEW g, NEW X
  PROVE  /\ DOMAIN Without(g, X) = DOMAIN g \ X
         /\ \A x \in DOMAIN g \ X : Without(g, X)[x] = g[x]
BY DEF Without

(* IndexAll leads the given msgids to one row and leaves the other entries. *)
LEMMA IndexAllFact ==
  ASSUME NEW g, NEW id, NEW X
  PROVE  /\ DOMAIN IndexAll(g, id, X) = DOMAIN g \cup X
         /\ \A m \in X : IndexAll(g, id, X)[m] = id
         /\ \A m \in DOMAIN g \ X : IndexAll(g, id, X)[m] = g[m]
BY DEF IndexAll

\* They keep the types of keys and values.
LEMMA PutType ==
  ASSUME NEW S, NEW T, NEW g \in Partial(S, T), NEW k \in S, NEW v \in T
  PROVE  Put(g, k, v) \in Partial(S, T)
<1>1. DOMAIN g \subseteq S /\ g \in [DOMAIN g -> T] BY PartialFact
<1>2. Put(g, k, v) \in [DOMAIN g \cup {k} -> T] BY <1>1 DEF Put
<1>3. DOMAIN g \cup {k} \in SUBSET S BY <1>1
<1> QED BY <1>2, <1>3, PartialFact

(* A partial function from which keys were dropped is still one. *)
LEMMA WithoutType ==
  ASSUME NEW S, NEW T, NEW g \in Partial(S, T), NEW X
  PROVE  Without(g, X) \in Partial(S, T)
<1>1. DOMAIN g \subseteq S /\ g \in [DOMAIN g -> T] BY PartialFact
<1>2. Without(g, X) \in [DOMAIN g \ X -> T] BY <1>1 DEF Without
<1>3. DOMAIN g \ X \in SUBSET S BY <1>1
<1> QED BY <1>2, <1>3, PartialFact

(* The msgid index of the store stays a partial function from msgids to ids. *)
LEMMA IndexAllType ==
  ASSUME NEW g \in Partial(Msgids, Ids), NEW id \in Ids, NEW X \in SUBSET Msgids
  PROVE  IndexAll(g, id, X) \in Partial(Msgids, Ids)
<1>1. DOMAIN g \subseteq Msgids /\ g \in [DOMAIN g -> Ids] BY PartialFact
<1>2. IndexAll(g, id, X) \in [DOMAIN g \cup X -> Ids] BY <1>1 DEF IndexAll
<1>3. DOMAIN g \cup X \in SUBSET Msgids BY <1>1
<1> QED BY <1>2, <1>3, PartialFact

\* Rows of the buffer.
Row == [ch : Targets, mine : BOOLEAN, nonce : Nonces \cup {None}, msgid : Msgids \cup {None},
        reacts : {{}}, embeds : {FALSE}]

\* A new row may push others out; the others stay as they were.
LEMMA AppendFact ==
  ASSUME NEW R \in Partial(Ids, Row), NEW id \in Ids, NEW row \in Row
  PROVE  /\ AppendMessage(R, id, row) \in Partial(Ids, Row)
         /\ DOMAIN AppendMessage(R, id, row) \subseteq DOMAIN R \cup {id}
         /\ \A i \in DOMAIN AppendMessage(R, id, row) :
              /\ i = id => AppendMessage(R, id, row)[i] = row
              /\ i # id => AppendMessage(R, id, row)[i] = R[i]
<1>1. PICK all : all = Put(R, id, row) OBVIOUS
<1>2. PICK X : X = Overflow(all, row.ch) OBVIOUS
<1>3. all \in Partial(Ids, Row) BY <1>1, PutType
<1>4. DOMAIN all = DOMAIN R \cup {id} /\ all[id] = row /\ \A x \in DOMAIN R : x # id => all[x] = R[x]
  BY <1>1 DEF Put
<1>5. AppendMessage(R, id, row) = Without(all, X) BY <1>1, <1>2 DEF AppendMessage
<1>6. Without(all, X) \in Partial(Ids, Row) BY <1>3, WithoutType
<1>7. DOMAIN Without(all, X) = DOMAIN all \ X /\ \A x \in DOMAIN all \ X : Without(all, X)[x] = all[x]
  BY WithoutFact
<1> QED BY <1>4, <1>5, <1>6, <1>7

-----------------------------------------------------------------------------
(* The registry *)

Registries == [s2m : Partial(Ids, Msgids), m2r : Partial(Msgids, Ids),
               order : Seq(Ids), aliases : Seq(Msgids)]

\* A registry is bounded, names each message once, resolves the msgid it has
\* for a message to that message, and never takes it for an alias: else the
\* eviction of an alias would leave the message without a way back.
GoodRegistry(g) ==
  /\ g \in Registries
  /\ Len(g.order) <= RegCap /\ IsInjective(g.order) /\ ToSet(g.order) = DOMAIN g.s2m
  /\ Len(g.aliases) <= RegCap /\ IsInjective(g.aliases) /\ ToSet(g.aliases) \subseteq DOMAIN g.m2r
  /\ \A i \in DOMAIN g.s2m : /\ g.s2m[i] \in DOMAIN g.m2r /\ g.m2r[g.s2m[i]] = i
                             /\ g.s2m[i] \notin ToSet(g.aliases)

\* A queue without duplicates: one element more, or the first one less.
LEMMA AppendDistinct ==
  ASSUME NEW S, NEW q \in Seq(S), IsInjective(q), NEW x \in S, x \notin ToSet(q)
  PROVE  /\ Append(q, x) \in Seq(S) /\ IsInjective(Append(q, x)) /\ Len(Append(q, x)) = Len(q) + 1
         /\ ToSet(Append(q, x)) = ToSet(q) \cup {x}
<1>1. /\ Append(q, x) \in Seq(S) /\ Len(Append(q, x)) = Len(q) + 1 /\ Len(q) \in Nat
      /\ DOMAIN Append(q, x) = 1..(Len(q) + 1) /\ DOMAIN q = 1..Len(q)
      /\ \A k \in 1..Len(q) : Append(q, x)[k] = q[k]
      /\ Append(q, x)[Len(q) + 1] = x
  BY AppendProperties, LenProperties
<1>2. \A k \in DOMAIN Append(q, x) : k \in 1..Len(q) \/ k = Len(q) + 1 BY <1>1
<1> DEFINE p == Append(q, x)
<1>3. ASSUME NEW a \in DOMAIN p, NEW b \in DOMAIN p, p[a] = p[b] PROVE a = b
  BY <1>1, <1>2, <1>3 DEF IsInjective, ToSet
<1>4. ToSet(p) = ToSet(q) \cup {x}
  <2> HIDE DEF p
  <2>1. \A k \in DOMAIN p : p[k] \in ToSet(q) \cup {x} BY <1>1, <1>2 DEF ToSet, p
  <2>2. \A k \in DOMAIN q : k \in DOMAIN p /\ p[k] = q[k] BY <1>1 DEF p
  <2>3. Len(q) + 1 \in DOMAIN p /\ p[Len(q) + 1] = x BY <1>1 DEF p
  <2> QED BY <2>1, <2>2, <2>3 DEF ToSet
<1> QED BY <1>1, <1>3, <1>4 DEF IsInjective

(* A sequence without repetitions has none after its first element was taken. *)
LEMMA TailDistinct ==
  ASSUME NEW S, NEW q \in Seq(S), IsInjective(q), q # <<>>
  PROVE  /\ Tail(q) \in Seq(S) /\ IsInjective(Tail(q)) /\ Len(Tail(q)) = Len(q) - 1
         /\ Head(q) \in S /\ Head(q) \in ToSet(q)
         /\ ToSet(Tail(q)) = ToSet(q) \ {Head(q)}
<1>1. /\ Tail(q) \in Seq(S) /\ Len(Tail(q)) = Len(q) - 1 /\ Len(q) \in Nat \ {0} /\ Head(q) = q[1]
      /\ DOMAIN Tail(q) = 1..(Len(q) - 1) /\ DOMAIN q = 1..Len(q) /\ Head(q) \in S
      /\ \A k \in 1..(Len(q) - 1) : Tail(q)[k] = q[k + 1]
  BY HeadTailProperties, LenProperties, EmptySeq
<1> DEFINE p == Tail(q)
<1>2. \A k \in DOMAIN p : k + 1 \in DOMAIN q /\ p[k] = q[k + 1] /\ k + 1 # 1 BY <1>1
<1>3. \A k \in DOMAIN q : k = 1 \/ (k - 1 \in DOMAIN p /\ p[k - 1] = q[k]) BY <1>1
<1>4. ASSUME NEW a \in DOMAIN p, NEW b \in DOMAIN p, p[a] = p[b] PROVE a = b
  <2>1. a + 1 = b + 1 BY <1>2, <1>4 DEF IsInjective
  <2> QED BY <1>1, <2>1
<1>5. 1 \in DOMAIN q BY <1>1
<1>6. \A k \in DOMAIN p : p[k] # Head(q) BY <1>1, <1>2, <1>5 DEF IsInjective
<1> HIDE DEF p
<1>7. ToSet(p) = ToSet(q) \ {Head(q)}
  <2>1. \A y \in ToSet(p) : y \in ToSet(q) /\ y # Head(q) BY <1>2, <1>6 DEF ToSet
  <2>2. \A y \in ToSet(q) : y # Head(q) => y \in ToSet(p) BY <1>1, <1>3 DEF ToSet
  <2> QED BY <2>1, <2>2
<1> QED BY <1>1, <1>4, <1>5, <1>7 DEF IsInjective, ToSet, p

\* The registry after registerMsgid: a message more, and one less when the
\* registry is full, whose msgid goes with it.
LEMMA RegisterKeeps ==
  ASSUME NEW g, GoodRegistry(g), NEW id \in Ids, NEW m \in Msgids, m \notin DOMAIN g.m2r
  PROVE  LET h == registerMsgid(g, id, m)
         IN  /\ GoodRegistry(h) /\ h.aliases = g.aliases
             /\ DOMAIN h.s2m \subseteq DOMAIN g.s2m \cup {id}
             /\ DOMAIN h.m2r \subseteq DOMAIN g.m2r \cup {m}
             /\ id \in DOMAIN h.s2m /\ m \in DOMAIN h.m2r /\ h.m2r[m] = id
             /\ \A k \in DOMAIN h.m2r : k # m => h.m2r[k] = g.m2r[k]
<1>1. /\ g.s2m \in Partial(Ids, Msgids) /\ g.m2r \in Partial(Msgids, Ids)
      /\ g.order \in Seq(Ids) /\ g.aliases \in Seq(Msgids)
  BY DEF GoodRegistry, Registries
<1>2. PICK ord \in Seq(Ids) :
        /\ ord = IF id \in DOMAIN g.s2m THEN g.order ELSE Append(g.order, id)
        /\ IsInjective(ord) /\ ToSet(ord) = DOMAIN g.s2m \cup {id}
        /\ Len(ord) <= RegCap \/ (id \notin DOMAIN g.s2m /\ ord = Append(g.order, id) /\ Len(ord) = RegCap + 1)
  <2>1. CASE id \in DOMAIN g.s2m BY <1>1, <2>1 DEF GoodRegistry
  <2>2. CASE id \notin DOMAIN g.s2m
    <3>1. id \notin ToSet(g.order) BY <2>2 DEF GoodRegistry
    <3>2. /\ Append(g.order, id) \in Seq(Ids) /\ IsInjective(Append(g.order, id))
          /\ Len(Append(g.order, id)) = Len(g.order) + 1
          /\ ToSet(Append(g.order, id)) = ToSet(g.order) \cup {id}
      BY <1>1, <3>1, AppendDistinct DEF GoodRegistry
    <3>3. Len(g.order) \in Nat /\ RegCap \in Nat /\ Len(g.order) <= RegCap
      BY <1>1, CapsAssumption, LenProperties DEF GoodRegistry
    <3>4. Len(g.order) + 1 <= RegCap \/ Len(g.order) + 1 = RegCap + 1 BY <3>3
    <3>5. ToSet(Append(g.order, id)) = DOMAIN g.s2m \cup {id} BY <3>2 DEF GoodRegistry
    <3> DEFINE o == Append(g.order, id)
    <3>6. /\ o \in Seq(Ids) /\ IsInjective(o) /\ ToSet(o) = DOMAIN g.s2m \cup {id}
          /\ o = IF id \in DOMAIN g.s2m THEN g.order ELSE Append(g.order, id)
          /\ Len(o) <= RegCap \/ (id \notin DOMAIN g.s2m /\ o = Append(g.order, id) /\ Len(o) = RegCap + 1)
      BY <2>2, <3>2, <3>4, <3>5
    <3> HIDE DEF o
    <3> QED BY <3>6
  <2> QED BY <2>1, <2>2
<1>3. PICK s : s = Put(g.s2m, id, m) OBVIOUS
<1>4. PICK b : b = Put(g.m2r, m, id) OBVIOUS
<1>5. s \in Partial(Ids, Msgids) /\ b \in Partial(Msgids, Ids) BY <1>1, <1>3, <1>4, PutType
<1>6. /\ DOMAIN s = DOMAIN g.s2m \cup {id} /\ s[id] = m
      /\ \A i \in DOMAIN g.s2m : i # id => s[i] = g.s2m[i]
  BY <1>3 DEF Put
<1>7. /\ DOMAIN b = DOMAIN g.m2r \cup {m} /\ b[m] = id
      /\ \A k \in DOMAIN g.m2r : k # m => b[k] = g.m2r[k]
  BY <1>4 DEF Put
<1>8. m \notin ToSet(g.aliases) BY DEF GoodRegistry
<1>9. \A i \in DOMAIN s : s[i] \in DOMAIN b /\ b[s[i]] = i /\ s[i] \notin ToSet(g.aliases)
  BY <1>6, <1>7, <1>8 DEF GoodRegistry
<1>10. CASE Len(ord) <= RegCap
  <2> DEFINE h == [g EXCEPT !.s2m = s, !.m2r = b, !.order = ord]
  <2>1. registerMsgid(g, id, m) = h BY <1>2, <1>3, <1>4, <1>10 DEF registerMsgid
  <2>2. h \in Registries BY <1>5 DEF GoodRegistry, Registries
  <2>3. h.s2m = s /\ h.m2r = b /\ h.order = ord /\ h.aliases = g.aliases
    BY DEF GoodRegistry, Registries
  <2> HIDE DEF h
  <2>4. GoodRegistry(h)
    BY <1>2, <1>6, <1>7, <1>9, <1>10, <2>2, <2>3 DEF GoodRegistry
  <2> QED BY <1>6, <1>7, <2>1, <2>3, <2>4
<1>11. CASE ~(Len(ord) <= RegCap)
  <2> DEFINE e == Head(ord)
  <2>1. /\ id \notin DOMAIN g.s2m /\ ord = Append(g.order, id) /\ Len(ord) = RegCap + 1
        /\ RegCap \in Nat \ {0}
    BY <1>2, <1>11, CapsAssumption
  <2>2. /\ ord # <<>> /\ Tail(ord) \in Seq(Ids) /\ IsInjective(Tail(ord)) /\ Len(Tail(ord)) = RegCap
        /\ e \in ToSet(ord) /\ ToSet(Tail(ord)) = ToSet(ord) \ {e}
    <3>1. ord # <<>> BY <2>1
    <3>2. /\ Tail(ord) \in Seq(Ids) /\ IsInjective(Tail(ord)) /\ Len(Tail(ord)) = Len(ord) - 1
          /\ Head(ord) \in ToSet(ord) /\ ToSet(Tail(ord)) = ToSet(ord) \ {Head(ord)}
      BY <1>2, <3>1, TailDistinct
    <3>3. Len(ord) - 1 = RegCap BY <2>1
    <3> QED BY <3>1, <3>2, <3>3
  <2>3. e # id
    <3>1. Len(g.order) \in Nat \ {0} /\ Len(g.order) = RegCap
      BY <1>1, <2>1, AppendProperties, LenProperties
    <3>2. e = g.order[1] /\ g.order[1] \in ToSet(g.order)
      BY <1>1, <2>1, <2>2, <3>1 DEF ToSet
    <3> QED BY <2>1, <3>2 DEF GoodRegistry
  <2> HIDE DEF e
  <2>4. PICK sw : sw = Without(s, {e}) OBVIOUS
  <2>5. PICK bw : bw = Without(b, {s[e]}) OBVIOUS
  <2>6. sw \in Partial(Ids, Msgids) /\ bw \in Partial(Msgids, Ids)
    BY <1>5, <2>4, <2>5, WithoutType
  <2>7. /\ DOMAIN sw = DOMAIN s \ {e} /\ \A i \in DOMAIN sw : sw[i] = s[i]
    BY <2>4 DEF Without
  <2>8. /\ DOMAIN bw = DOMAIN b \ {s[e]} /\ \A k \in DOMAIN bw : bw[k] = b[k]
    BY <2>5 DEF Without
  <2>9. e \in DOMAIN s /\ \A i \in DOMAIN s : i # e => s[i] # s[e]
    BY <1>2, <1>6, <1>9, <2>2
  <2> DEFINE h == [g EXCEPT !.s2m = sw, !.m2r = bw, !.order = Tail(ord)]
  <2>10. registerMsgid(g, id, m) = h
    <3> DEFINE all == [g EXCEPT !.s2m = s, !.m2r = b, !.order = ord]
    <3>1. all.s2m = s /\ all.m2r = b /\ all \in Registries
      BY <1>5 DEF GoodRegistry, Registries
    <3>2. registerMsgid(g, id, m) =
            [all EXCEPT !.s2m = Without(@, {Head(ord)}), !.m2r = Without(@, {all.s2m[Head(ord)]}),
                        !.order = Tail(ord)]
      BY <1>2, <1>3, <1>4, <1>11 DEF registerMsgid
    <3>3. [all EXCEPT !.s2m = Without(@, {Head(ord)}), !.m2r = Without(@, {all.s2m[Head(ord)]}),
                      !.order = Tail(ord)]
          = [all EXCEPT !.s2m = sw, !.m2r = bw, !.order = Tail(ord)]
      BY <3>1, <2>4, <2>5 DEF e
    <3>4. [all EXCEPT !.s2m = sw, !.m2r = bw, !.order = Tail(ord)] = h
      BY DEF GoodRegistry, Registries
    <3> QED BY <3>2, <3>3, <3>4
  <2>11. h \in Registries BY <2>2, <2>6 DEF GoodRegistry, Registries
  <2>12. h.s2m = sw /\ h.m2r = bw /\ h.order = Tail(ord) /\ h.aliases = g.aliases
    BY DEF GoodRegistry, Registries
  <2> HIDE DEF h
  <2>13. ToSet(g.aliases) \subseteq DOMAIN bw
    BY <1>7, <1>9, <2>8, <2>9 DEF GoodRegistry
  <2>14. \A i \in DOMAIN sw : sw[i] \in DOMAIN bw /\ bw[sw[i]] = i /\ sw[i] \notin ToSet(g.aliases)
    BY <1>9, <2>7, <2>8, <2>9
  <2>15. GoodRegistry(h)
    BY <1>2, <1>6, <2>1, <2>2, <2>7, <2>11, <2>12, <2>13, <2>14 DEF GoodRegistry
  <2>16. id \in DOMAIN sw /\ m \in DOMAIN bw BY <1>6, <1>7, <2>3, <2>7, <2>8, <2>9
  <2> QED BY <1>6, <1>7, <2>7, <2>8, <2>10, <2>12, <2>15, <2>16
<1> QED BY <1>10, <1>11

\* The registry after registerMsgidAlias: the oldest alias may go.
LEMMA AliasKeeps ==
  ASSUME NEW g, GoodRegistry(g), NEW id \in Ids, NEW m \in Msgids, m \notin DOMAIN g.m2r
  PROVE  LET h == registerMsgidAlias(g, id, m)
         IN  /\ GoodRegistry(h) /\ h.s2m = g.s2m
             /\ DOMAIN h.m2r \subseteq DOMAIN g.m2r \cup {m}
             /\ m \in DOMAIN h.m2r /\ h.m2r[m] = id
             /\ \A k \in DOMAIN h.m2r : k # m => h.m2r[k] = g.m2r[k]
<1>1. /\ g.s2m \in Partial(Ids, Msgids) /\ g.m2r \in Partial(Msgids, Ids)
      /\ g.order \in Seq(Ids) /\ g.aliases \in Seq(Msgids)
  BY DEF GoodRegistry, Registries
<1>2. m \notin ToSet(g.aliases) /\ ~(id \in DOMAIN g.s2m /\ g.s2m[id] = m) BY DEF GoodRegistry
<1>3. PICK ord : ord = Append(g.aliases, m) OBVIOUS
<1>4. /\ ord \in Seq(Msgids) /\ IsInjective(ord) /\ Len(ord) = Len(g.aliases) + 1
      /\ ToSet(ord) = ToSet(g.aliases) \cup {m}
  BY <1>1, <1>2, <1>3, AppendDistinct DEF GoodRegistry
<1>5. Len(g.aliases) \in Nat /\ RegCap \in Nat \ {0} /\ Len(g.aliases) <= RegCap
  BY <1>1, CapsAssumption, LenProperties DEF GoodRegistry
<1>6. PICK b : b = Put(g.m2r, m, id) OBVIOUS
<1>7. b \in Partial(Msgids, Ids) BY <1>1, <1>6, PutType
<1>8. /\ DOMAIN b = DOMAIN g.m2r \cup {m} /\ b[m] = id
      /\ \A k \in DOMAIN g.m2r : k # m => b[k] = g.m2r[k]
  BY <1>6 DEF Put
<1>9. \A i \in DOMAIN g.s2m : g.s2m[i] \in DOMAIN b /\ b[g.s2m[i]] = i /\ g.s2m[i] \notin ToSet(ord)
  BY <1>4, <1>8 DEF GoodRegistry
<1>10. CASE Len(ord) <= RegCap
  <2> DEFINE h == [g EXCEPT !.m2r = b, !.aliases = ord]
  <2>1. registerMsgidAlias(g, id, m) = h BY <1>2, <1>3, <1>6, <1>10 DEF registerMsgidAlias
  <2>2. h \in Registries BY <1>4, <1>7 DEF GoodRegistry, Registries
  <2>3. h.s2m = g.s2m /\ h.m2r = b /\ h.order = g.order /\ h.aliases = ord
    BY DEF GoodRegistry, Registries
  <2> HIDE DEF h
  <2>4. ToSet(ord) \subseteq DOMAIN b BY <1>4, <1>8 DEF GoodRegistry
  <2>5. GoodRegistry(h) BY <1>4, <1>9, <1>10, <2>2, <2>3, <2>4 DEF GoodRegistry
  <2> QED BY <1>8, <2>1, <2>3, <2>5
<1>11. CASE ~(Len(ord) <= RegCap)
  <2> DEFINE e == Head(ord)
  <2>1. Len(ord) = RegCap + 1 /\ Len(g.aliases) = RegCap BY <1>4, <1>5, <1>11
  <2>2. /\ Tail(ord) \in Seq(Msgids) /\ IsInjective(Tail(ord)) /\ Len(Tail(ord)) = RegCap
        /\ e \in ToSet(ord) /\ ToSet(Tail(ord)) = ToSet(ord) \ {e}
    <3>1. ord # <<>> BY <1>5, <2>1
    <3>2. /\ Tail(ord) \in Seq(Msgids) /\ IsInjective(Tail(ord)) /\ Len(Tail(ord)) = Len(ord) - 1
          /\ Head(ord) \in ToSet(ord) /\ ToSet(Tail(ord)) = ToSet(ord) \ {Head(ord)}
      BY <1>4, <3>1, TailDistinct
    <3>3. Len(ord) - 1 = RegCap BY <1>5, <2>1
    <3> QED BY <3>2, <3>3
  <2>3. e # m
    <3>1. e = g.aliases[1] /\ g.aliases[1] \in ToSet(g.aliases)
      BY <1>1, <1>3, <1>5, <2>1, AppendProperties, LenProperties DEF ToSet
    <3> QED BY <1>2, <3>1
  <2> HIDE DEF e
  <2>4. PICK bw : bw = Without(b, {e}) OBVIOUS
  <2>5. bw \in Partial(Msgids, Ids) BY <1>7, <2>4, WithoutType
  <2>6. DOMAIN bw = DOMAIN b \ {e} /\ \A k \in DOMAIN bw : bw[k] = b[k] BY <2>4 DEF Without
  <2> DEFINE h == [g EXCEPT !.m2r = bw, !.aliases = Tail(ord)]
  <2>7. registerMsgidAlias(g, id, m) = h
    BY <1>2, <1>3, <1>6, <1>11, <2>4 DEF registerMsgidAlias, e
  <2>8. h \in Registries BY <2>2, <2>5 DEF GoodRegistry, Registries
  <2>9. h.s2m = g.s2m /\ h.m2r = bw /\ h.order = g.order /\ h.aliases = Tail(ord)
    BY DEF GoodRegistry, Registries
  <2> HIDE DEF h
  <2>10. ToSet(Tail(ord)) \subseteq DOMAIN bw
    BY <1>4, <1>8, <2>2, <2>6 DEF GoodRegistry
  <2>11. \A i \in DOMAIN g.s2m : g.s2m[i] \in DOMAIN bw /\ bw[g.s2m[i]] = i /\ g.s2m[i] \notin ToSet(Tail(ord))
    BY <1>9, <2>2, <2>6
  <2>12. GoodRegistry(h)
    <3>1. Len(Tail(ord)) <= RegCap BY <1>5, <2>2
    <3> QED BY <2>2, <2>8, <2>9, <2>10, <2>11, <3>1 DEF GoodRegistry
  <2>13. m \in DOMAIN bw /\ bw[m] = id BY <1>8, <2>3, <2>6
  <2>14. \A k \in DOMAIN bw : k # m => k \in DOMAIN g.m2r /\ bw[k] = g.m2r[k] BY <1>8, <2>6
  <2> QED BY <2>7, <2>9, <2>12, <2>13, <2>14
<1> QED BY <1>10, <1>11

\* The registry after a joined message: its anchor, then its alias.
LEMMA AliasesKeep ==
  ASSUME NEW g, GoodRegistry(g), NEW id \in Ids, NEW ms \in Seq(Msgids),
         Len(ms) > 1 => ms[2] \notin DOMAIN g.m2r
  PROVE  LET h == registerAliases(g, id, ms)
         IN  /\ GoodRegistry(h) /\ h.s2m = g.s2m
             /\ DOMAIN h.m2r \subseteq DOMAIN g.m2r \cup ToSet(ms)
             /\ \A k \in DOMAIN h.m2r : \/ k \in DOMAIN g.m2r /\ h.m2r[k] = g.m2r[k]
                                        \/ k \in ToSet(ms) /\ h.m2r[k] = id
<1>1. CASE ~(Len(ms) > 1)
  <2>1. registerAliases(g, id, ms) = g BY <1>1 DEF registerAliases
  <2> QED BY <2>1
<1>2. CASE Len(ms) > 1
  <2>1. registerAliases(g, id, ms) = registerMsgidAlias(g, id, ms[2]) BY <1>2 DEF registerAliases
  <2>2. 2 \in 1..Len(ms) BY <1>2, LenProperties
  <2>3. ms[2] \in Msgids /\ ms[2] \in ToSet(ms) BY <2>2, LenProperties DEF ToSet
  <2>4. PICK m \in Msgids : m = ms[2] BY <2>3
  <2>5. PICK h : h = registerMsgidAlias(g, id, m) OBVIOUS
  <2>6. m \notin DOMAIN g.m2r BY <1>2, <2>4
  <2>7. /\ GoodRegistry(h) /\ h.s2m = g.s2m /\ DOMAIN h.m2r \subseteq DOMAIN g.m2r \cup {m}
        /\ h.m2r[m] = id
        /\ \A k \in DOMAIN h.m2r : k # m => h.m2r[k] = g.m2r[k]
    BY <2>5, <2>6, AliasKeeps
  <2> QED BY <2>1, <2>3, <2>4, <2>5, <2>7
<1> QED BY <1>1, <1>2

(* registerMessage, then registerAliases for the further msgids of a batch, keep the registry sound. *)
LEMMA JoinKeeps ==
  ASSUME NEW g, GoodRegistry(g), NEW id \in Ids, NEW ms \in Seq(Msgids), ms # <<>>,
         \A k \in ToSet(ms) : k \notin DOMAIN g.m2r,
         Len(ms) > 1 => ms[1] # ms[2]
  PROVE  LET h == RegisterAll(g, id, ms)
         IN  /\ GoodRegistry(h)
             /\ DOMAIN h.s2m \subseteq DOMAIN g.s2m \cup {id}
             /\ DOMAIN h.m2r \subseteq DOMAIN g.m2r \cup ToSet(ms)
             /\ \A k \in DOMAIN h.m2r : k \in ToSet(ms) => h.m2r[k] = id
             /\ \A k \in DOMAIN h.m2r : k \notin ToSet(ms) => h.m2r[k] = g.m2r[k]
<1>1. Len(ms) \in Nat \ {0} /\ DOMAIN ms = 1..Len(ms) /\ ms \in [1..Len(ms) -> Msgids]
  BY LenProperties, EmptySeq
<1>2. PICK m \in Msgids : m = ms[1] BY <1>1
<1>3. m \in ToSet(ms) BY <1>1, <1>2 DEF ToSet
<1>4. PICK h : h = registerMsgid(g, id, m) OBVIOUS
<1>5. m \notin DOMAIN g.m2r BY <1>3
<1>6. /\ GoodRegistry(h) /\ DOMAIN h.s2m \subseteq DOMAIN g.s2m \cup {id}
      /\ DOMAIN h.m2r \subseteq DOMAIN g.m2r \cup {m} /\ h.m2r[m] = id
      /\ \A k \in DOMAIN h.m2r : k # m => h.m2r[k] = g.m2r[k]
  BY <1>4, <1>5, RegisterKeeps
<1>7. Len(ms) > 1 => ms[2] \notin DOMAIN h.m2r
  <2> SUFFICES ASSUME Len(ms) > 1 PROVE ms[2] \notin DOMAIN h.m2r OBVIOUS
  <2>1. 2 \in DOMAIN ms BY <1>1
  <2>2. ms[2] \in ToSet(ms) BY <2>1 DEF ToSet
  <2>3. ms[2] \notin DOMAIN g.m2r /\ ms[2] # m BY <1>2, <2>2
  <2> QED BY <1>6, <2>3
<1>8. PICK j : j = registerAliases(h, id, ms) OBVIOUS
<1>9. /\ GoodRegistry(j) /\ j.s2m = h.s2m /\ DOMAIN j.m2r \subseteq DOMAIN h.m2r \cup ToSet(ms)
      /\ \A k \in DOMAIN j.m2r : \/ k \in DOMAIN h.m2r /\ j.m2r[k] = h.m2r[k]
                                 \/ k \in ToSet(ms) /\ j.m2r[k] = id
  BY <1>6, <1>7, <1>8, AliasesKeep
<1>10. RegisterAll(g, id, ms) = j BY <1>2, <1>4, <1>8 DEF RegisterAll
<1>11. ASSUME NEW k \in DOMAIN j.m2r, k \in ToSet(ms) PROVE j.m2r[k] = id
  <2>1. CASE k \in DOMAIN h.m2r /\ j.m2r[k] = h.m2r[k]
    <3>1. k \notin DOMAIN g.m2r BY <1>11
    <3>2. k = m BY <1>6, <2>1, <3>1
    <3> QED BY <1>6, <2>1, <3>2
  <2>2. CASE j.m2r[k] = id BY <2>2
  <2> QED BY <1>9, <2>1, <2>2
<1>12. ASSUME NEW k \in DOMAIN j.m2r, k \notin ToSet(ms) PROVE j.m2r[k] = g.m2r[k]
  BY <1>3, <1>6, <1>9, <1>12
<1> QED BY <1>3, <1>6, <1>9, <1>10, <1>11, <1>12

-----------------------------------------------------------------------------
(* The invariant *)

Request == [pc : {"minted", "pushed", "queued"}, id : Ids, t : Targets,
            nonce : Nonces \cup {None}, w : 1 .. 2, ms : {<<>>}]

Handling == [pc : {"append"}, id : Ids, t : Targets, nonce : {None}, w : {0},
             ms : {ms \in Seq(Msgids) : Len(ms) \in 0 .. 2}]

RelayTypes ==
  /\ lastId \in 0 .. MaxId /\ lastMsg \in 0 .. MaxMsg
  /\ rows \in Partial(Ids, Row) /\ idx \in Partial(Msgids, Ids)
  /\ pend \in [Targets -> Seq(Ids)] /\ \A t \in Targets : Len(pend[t]) <= PendCap
  /\ jobs \in Seq(Request) /\ Len(jobs) <= JobCap /\ wire \in Seq(Request)
  /\ req \in [Reqs -> {Idle} \cup Request]
  /\ loop = Idle \/ loop \in Handling
  /\ shown \subseteq Ids /\ deleted \subseteq Ids

\* Whatever resolves a msgid, now or once the event loop is done, says that it
\* is this message's.
Claims(m, i) ==
  \/ m \in DOMAIN m2r /\ m2r[m] = i
  \/ m \in DOMAIN idx /\ idx[m] = i
  \/ i \in DOMAIN rows /\ rows[i].msgid = m
  \/ loop # Idle /\ loop.id = i /\ m \in ToSet(loop.ms)

Known == {i \in Ids : \E m \in Msgids : Claims(m, i)}

\* A step by which nobody claims anything new.
NoNewClaims == \A m \in Msgids, i \in Ids : Claims(m, i)' => Claims(m, i)

Busy == {r \in Reqs : req[r] # Idle}

\* Ids and msgids are fresh when issued: what a request or the event loop is
\* in the middle of has no row yet, and is nobody else's.
MintInv ==
  /\ \A i \in DOMAIN rows \cup DOMAIN s2m \cup shown \cup deleted : i <= lastId
  /\ \A t \in Targets : \A k \in ToSet(pend[t]) : k <= lastId
  /\ \A r \in Busy : req[r].id <= lastId /\ req[r].id \notin DOMAIN rows
  /\ \A r, q \in Busy : r # q => req[r].id # req[q].id

LoopInv ==
  loop # Idle => /\ loop.id <= lastId /\ loop.id \notin DOMAIN rows /\ loop.id \in shown
                 /\ \A r \in Busy : req[r].id # loop.id
                 /\ Len(loop.ms) > 1 => loop.ms[2] \notin DOMAIN m2r
                 /\ loop.id \in DOMAIN s2m => loop.ms # <<>>

\* The registry, the index, the rows and the event loop never claim one msgid
\* for two messages.
ClaimInv ==
  /\ \A m \in Msgids, i, j \in Ids : Claims(m, i) /\ Claims(m, j) => i = j
  /\ \A m \in Msgids, i \in Ids : Claims(m, i) => m <= lastMsg /\ i <= lastId

\* A row's msgid is in the index, and a row the registry knows has one.
IndexInv ==
  /\ \A i \in DOMAIN rows :
       rows[i].msgid # None => rows[i].msgid \in DOMAIN idx /\ idx[rows[i].msgid] = i
  /\ \A i \in (DOMAIN s2m \cap DOMAIN rows) \ early : rows[i].msgid # None

\* A message without a row that a msgid or a deletion already names is early.
EarlyInv ==
  /\ \A r \in Busy : req[r].id \in deleted \cup Known => req[r].id \in early
  /\ ClientAgrees

CoreInv == RelayTypes /\ GoodRegistry(Registry) /\ MintInv /\ LoopInv
             /\ ClaimInv /\ IndexInv /\ EarlyInv

-----------------------------------------------------------------------------
(* What the parts of the invariant say of the variables *)

(* An idle request carries no id, no msgid and no nonce, and no request at work is idle. *)
LEMMA IdleFacts ==
  /\ Idle.pc = "idle" /\ Idle.id = None /\ Idle.ms = <<>> /\ Idle.nonce = None
  /\ \A x \in Request \cup Handling : x # Idle /\ x.pc # "idle"
BY DEF Idle, Request, Handling

(* What a sound registry says of its four variables. *)
LEMMA RegistryFacts ==
  ASSUME GoodRegistry(Registry)
  PROVE  /\ s2m \in Partial(Ids, Msgids) /\ m2r \in Partial(Msgids, Ids)
         /\ order \in Seq(Ids) /\ aliases \in Seq(Msgids)
         /\ Len(order) <= RegCap /\ IsInjective(order) /\ ToSet(order) = DOMAIN s2m
         /\ Len(aliases) <= RegCap
         /\ \A i \in DOMAIN s2m : s2m[i] \in DOMAIN m2r /\ m2r[s2m[i]] = i
BY DEF GoodRegistry, Registries, Registry

\* A new registry is what SetRegistry makes of the four variables.
LEMMA SetFacts ==
  ASSUME NEW g, GoodRegistry(g), SetRegistry(g)
  PROVE  /\ s2m' = g.s2m /\ m2r' = g.m2r /\ Registry' = g
BY DEF GoodRegistry, Registries, SetRegistry, Registry

\* Claims are about ids and msgids.
LEMMA ClaimTypes ==
  ASSUME RelayTypes, GoodRegistry(Registry), NEW m, NEW i, m # None, Claims(m, i)
  PROVE  m \in Msgids /\ i \in Ids
<1>1. m2r \in Partial(Msgids, Ids) /\ idx \in Partial(Msgids, Ids) /\ rows \in Partial(Ids, Row)
  BY RegistryFacts DEF RelayTypes
<1>2. /\ DOMAIN m2r \subseteq Msgids /\ m2r \in [DOMAIN m2r -> Ids]
      /\ DOMAIN idx \subseteq Msgids /\ idx \in [DOMAIN idx -> Ids]
      /\ DOMAIN rows \subseteq Ids /\ rows \in [DOMAIN rows -> Row]
  BY <1>1, PartialFact
<1>3. CASE m \in DOMAIN m2r /\ m2r[m] = i BY <1>2, <1>3
<1>4. CASE m \in DOMAIN idx /\ idx[m] = i BY <1>2, <1>4
<1>5. CASE i \in DOMAIN rows /\ rows[i].msgid = m
  <2>1. rows[i] \in Row BY <1>2, <1>5
  <2> QED BY <1>2, <1>5, <2>1 DEF Row
<1>6. CASE loop # Idle /\ loop.id = i /\ m \in ToSet(loop.ms)
  <2>1. loop \in Handling BY <1>6 DEF RelayTypes
  <2>2. loop.id \in Ids /\ loop.ms \in Seq(Msgids) BY <2>1 DEF Handling
  <2>3. ToSet(loop.ms) \subseteq Msgids BY <2>2, LenProperties DEF ToSet
  <2> QED BY <1>6, <2>2, <2>3
<1> QED BY <1>3, <1>4, <1>5, <1>6 DEF Claims

\* New claims of fresh msgids, or of ones the message already had, do not
\* contradict the others.
LEMMA ClaimsCarry ==
  ASSUME ClaimInv, NEW N, NEW id,
         \A m \in Msgids, i \in Ids : Claims(m, i)' => Claims(m, i) \/ (m \in N /\ i = id),
         \A m \in N \cap Msgids, i \in Ids : Claims(m, i) => i = id,
         \A m \in N \cap Msgids : m <= lastMsg', id <= lastId',
         lastId \in Int, lastMsg \in Int, lastId' \in Int, lastMsg' \in Int,
         lastId <= lastId', lastMsg <= lastMsg'
  PROVE  ClaimInv'
<1>1. ASSUME NEW m \in Msgids, NEW i \in Ids, NEW j \in Ids, Claims(m, i)', Claims(m, j)'
      PROVE  i = j
  <2>1. Claims(m, i) \/ (m \in N /\ i = id) BY <1>1
  <2>2. Claims(m, j) \/ (m \in N /\ j = id) BY <1>1
  <2> QED BY <2>1, <2>2 DEF ClaimInv
<1>2. ASSUME NEW m \in Msgids, NEW i \in Ids, Claims(m, i)'
      PROVE  m <= lastMsg' /\ i <= lastId'
  <2>1. CASE Claims(m, i)
    <3>1. m <= lastMsg /\ i <= lastId BY <2>1 DEF ClaimInv
    <3> QED BY <3>1 DEF Ids, Msgids
  <2>2. CASE m \in N /\ i = id BY <2>2
  <2> QED BY <1>2, <2>1, <2>2
<1> QED BY <1>1, <1>2 DEF ClaimInv

-----------------------------------------------------------------------------
(* The steps of REST requests and of the send worker *)

\* A step that leaves store, registry and event loop alone leaves their claims.
LEMMA QuietKeeps ==
  ASSUME CoreInv, UNCHANGED <<store, registry, loop, shown, deleted, early>>,
         lastId' \in Int, lastId <= lastId', lastMsg' \in Int, lastMsg <= lastMsg'
  PROVE  /\ GoodRegistry(Registry)' /\ ClaimInv' /\ IndexInv' /\ ClientAgrees' /\ NoNewClaims
         /\ \A m, i : Claims(m, i)' <=> Claims(m, i)
         /\ Known' = Known
         /\ \A i \in DOMAIN rows \cup DOMAIN s2m \cup shown \cup deleted : i \in Ids
<1>1. /\ rows' = rows /\ idx' = idx /\ s2m' = s2m /\ m2r' = m2r /\ order' = order
      /\ aliases' = aliases /\ loop' = loop /\ shown' = shown /\ deleted' = deleted
      /\ early' = early
  BY DEF store, registry
<1>2. \A m, i : Claims(m, i)' <=> Claims(m, i) BY <1>1 DEF Claims
<1>3. Known' = Known BY <1>2 DEF Known
<1>4. GoodRegistry(Registry)
  BY DEF CoreInv
<1>5. Registry' = Registry BY <1>1 DEF Registry
<1>6. GoodRegistry(Registry)' BY <1>4, <1>5
<1>7. ClaimInv'
  <2>1. lastId \in Int /\ lastMsg \in Int BY DEF CoreInv, RelayTypes
  <2>2. PICK N : N = {} OBVIOUS
  <2>3. PICK id : id = lastId OBVIOUS
  <2>4. /\ \A m \in Msgids, i \in Ids : Claims(m, i)' => Claims(m, i) \/ (m \in N /\ i = id)
        /\ \A m \in N \cap Msgids, i \in Ids : Claims(m, i) => i = id
        /\ \A m \in N \cap Msgids : m <= lastMsg'
    BY <1>2, <2>2
  <2>5. /\ id <= lastId' /\ lastMsg' \in Int /\ lastMsg <= lastMsg'
    BY <1>1, <2>1, <2>3
  <2> QED BY <2>1, <2>4, <2>5, ClaimsCarry DEF CoreInv
<1>8. IndexInv' BY <1>1 DEF CoreInv, IndexInv
<1>9. ClientAgrees' BY <1>1 DEF CoreInv, EarlyInv, ClientAgrees
<1>10. \A i \in DOMAIN rows \cup DOMAIN s2m \cup shown \cup deleted : i \in Ids
  BY <1>4, RegistryFacts, PartialFact DEF CoreInv, RelayTypes
<1> QED BY <1>2, <1>3, <1>6, <1>7, <1>8, <1>9, <1>10 DEF NoNewClaims

\* A request under way goes on: its message stays its own.
LEMMA GoesOn ==
  ASSUME CoreInv, NEW r \in Reqs, req[r] # Idle, NEW pc \in {"pushed", "queued"},
         req' = [req EXCEPT ![r].pc = pc],
         UNCHANGED <<store, registry, loop, shown, deleted, early, lastMsg, lastId>>,
         \A t \in Targets : \A k \in ToSet(pend'[t]) : k \in ToSet(pend[t]) \/ k = req[r].id,
         pend' \in [Targets -> Seq(Ids)], \A t \in Targets : Len(pend'[t]) <= PendCap,
         jobs' \in Seq(Request), Len(jobs') <= JobCap, wire' \in Seq(Request)
  PROVE  CoreInv' /\ NoNewClaims
<1>1. /\ rows' = rows /\ idx' = idx /\ s2m' = s2m /\ m2r' = m2r /\ loop' = loop
      /\ shown' = shown /\ deleted' = deleted /\ early' = early /\ lastMsg' = lastMsg
      /\ lastId' = lastId
  BY DEF store, registry
<1>2. /\ lastId' \in Int /\ lastId <= lastId' /\ lastMsg' \in Int /\ lastMsg <= lastMsg'
  BY <1>1 DEF CoreInv, RelayTypes
<1>3. /\ GoodRegistry(Registry)' /\ ClaimInv' /\ IndexInv' /\ ClientAgrees' /\ NoNewClaims
      /\ Known' = Known
  BY <1>2, QuietKeeps
<1>4. req \in [Reqs -> {Idle} \cup Request] BY DEF CoreInv, RelayTypes
<1>5. req[r] \in Request BY <1>4
<1>6. PICK x : x = [req[r] EXCEPT !.pc = pc] OBVIOUS
<1>7. x \in Request /\ x.id = req[r].id /\ x.t = req[r].t /\ x.nonce = req[r].nonce
  BY <1>5, <1>6 DEF Request
<1>8. req' = [req EXCEPT ![r] = x] BY <1>6
<1>9. x # Idle BY <1>7, IdleFacts
<1>10. /\ req' \in [Reqs -> {Idle} \cup Request] /\ Busy' = Busy
       /\ \A q \in Reqs : req'[q].id = req[q].id
  BY <1>4, <1>7, <1>8, <1>9 DEF Busy
<1>11. RelayTypes' BY <1>1, <1>10 DEF CoreInv, RelayTypes
<1>12. MintInv'
  <2>1. req[r].id <= lastId BY DEF CoreInv, MintInv, Busy
  <2>2. \A t \in Targets : \A k \in ToSet(pend'[t]) : k <= lastId BY <2>1 DEF CoreInv, MintInv
  <2>3. Busy \subseteq Reqs BY DEF Busy
  <2> QED BY <1>1, <1>10, <2>2, <2>3 DEF CoreInv, MintInv
<1>13. LoopInv'
  <2>1. Busy \subseteq Reqs BY DEF Busy
  <2> QED BY <1>1, <1>10, <2>1 DEF CoreInv, LoopInv
<1>14. EarlyInv'
  <2>1. Busy \subseteq Reqs BY DEF Busy
  <2> QED BY <1>1, <1>3, <1>10, <2>1 DEF CoreInv, EarlyInv
<1> QED BY <1>3, <1>11, <1>12, <1>13, <1>14 DEF CoreInv

(* CreateMessage looking up the nonce and minting an id keeps CoreInv and issues no msgid. *)
LEMMA SendCheckKeeps ==
  ASSUME CoreInv, NEW r \in Reqs, NEW t \in Targets, NEW n \in Nonces \cup {None}, NEW w \in 1 .. 2,
         SendCheck(r, t, n, w)
  PROVE  CoreInv' /\ NoNewClaims
<1>1. /\ rows' = rows /\ idx' = idx /\ s2m' = s2m /\ m2r' = m2r /\ loop' = loop /\ pend' = pend
      /\ jobs' = jobs /\ wire' = wire
      /\ shown' = shown /\ deleted' = deleted /\ early' = early /\ lastMsg' = lastMsg
  BY DEF SendCheck, store, registry, link
<1>2. /\ lastId' = lastId + 1 /\ lastId < MaxId /\ req[r] = Idle
      /\ req' = [req EXCEPT ![r] = [Idle EXCEPT !.pc = "minted", !.id = lastId + 1,
                                                !.t = t, !.nonce = n, !.w = w]]
  BY DEF SendCheck
<1>3. lastId \in 0 .. MaxId /\ MaxId \in Nat BY CapsAssumption DEF CoreInv, RelayTypes
<1>4. PICK id : id = lastId + 1 OBVIOUS
<1>5. id \in Ids /\ id \in Int /\ lastId' = id /\ lastId < id /\ lastId' \in 0 .. MaxId /\ lastId <= lastId'
  BY <1>2, <1>3, <1>4 DEF Ids
<1>6. /\ GoodRegistry(Registry)' /\ ClaimInv' /\ IndexInv' /\ ClientAgrees' /\ NoNewClaims
      /\ Known' = Known
      /\ \A i \in DOMAIN rows \cup DOMAIN s2m \cup shown \cup deleted : i \in Ids
  <2>1. UNCHANGED <<store, registry, loop, shown, deleted, early>> BY DEF SendCheck
  <2>2. lastId' \in Int /\ lastMsg' \in Int /\ lastMsg <= lastMsg'
    BY <1>1, <1>5 DEF CoreInv, RelayTypes
  <2> QED BY <1>5, <2>1, <2>2, QuietKeeps
<1>7. req \in [Reqs -> {Idle} \cup Request] BY DEF CoreInv, RelayTypes
<1>8. PICK x : x = [Idle EXCEPT !.pc = "minted", !.id = lastId + 1, !.t = t, !.nonce = n, !.w = w]
  OBVIOUS
<1>9. x \in Request /\ x.id = id BY <1>4, <1>5, <1>8 DEF Idle, Request
<1>10. req' = [req EXCEPT ![r] = x] BY <1>2, <1>8
<1>11. x # Idle BY <1>9, IdleFacts
<1>12. /\ req' \in [Reqs -> {Idle} \cup Request] /\ Busy' = Busy \cup {r} /\ req'[r].id = id
       /\ \A q \in Busy : req'[q].id = req[q].id /\ q \in Reqs /\ q # r
  BY <1>2, <1>7, <1>9, <1>10, <1>11 DEF Busy
<1>13. RelayTypes' BY <1>1, <1>5, <1>12 DEF CoreInv, RelayTypes
<1>14. \A i \in DOMAIN rows \cup DOMAIN s2m \cup shown \cup deleted : i < id /\ i # id
  BY <1>3, <1>5, <1>6 DEF CoreInv, MintInv, Ids
<1>15. \A q \in Busy : req[q].id < id /\ req[q].id # id
  <2> SUFFICES ASSUME NEW q \in Busy PROVE req[q].id < id /\ req[q].id # id OBVIOUS
  <2>1. req[q] \in Request BY <1>7 DEF Busy
  <2>2. req[q].id \in Ids /\ req[q].id <= lastId BY <2>1 DEF Request, CoreInv, MintInv
  <2> QED BY <1>3, <1>5, <2>2 DEF Ids
<1>16. MintInv'
  <2>1. \A i \in DOMAIN rows' \cup DOMAIN s2m' \cup shown' \cup deleted' : i <= lastId'
    BY <1>1, <1>5, <1>6, <1>14 DEF Ids
  <2>2. ASSUME NEW u \in Targets, NEW k \in ToSet(pend'[u]) PROVE k <= lastId'
    <3>1. pend[u] \in Seq(Ids) BY DEF CoreInv, RelayTypes
    <3>2. k \in Ids BY <1>1, <2>2, <3>1, LenProperties DEF ToSet
    <3>3. k <= lastId BY <1>1, <2>2 DEF CoreInv, MintInv
    <3> QED BY <1>3, <1>5, <3>2, <3>3 DEF Ids
  <2>3. ASSUME NEW q \in Busy' PROVE req'[q].id <= lastId' /\ req'[q].id \notin DOMAIN rows'
    <3>1. CASE q = r BY <1>1, <1>5, <1>12, <1>14, <3>1
    <3>2. CASE q \in Busy
      <4>1. req'[q].id = req[q].id /\ req[q].id < id BY <1>12, <1>15, <3>2
      <4>2. req[q].id \notin DOMAIN rows BY <3>2 DEF CoreInv, MintInv
      <4>3. req[q] \in Request BY <1>7, <3>2 DEF Busy
      <4>4. req[q].id \in Ids BY <4>3 DEF Request
      <4> QED BY <1>1, <1>5, <4>1, <4>2, <4>4 DEF Ids
    <3> QED BY <1>12, <2>3, <3>1, <3>2
  <2>4. \A q, p \in Busy' : q # p => req'[q].id # req'[p].id
    BY <1>12, <1>15 DEF CoreInv, MintInv
  <2> QED BY <2>1, <2>2, <2>3, <2>4 DEF MintInv
<1>17. LoopInv'
  <2> SUFFICES ASSUME loop # Idle PROVE LoopInv' BY <1>1 DEF LoopInv
  <2>1. loop.id \in shown BY DEF CoreInv, LoopInv
  <2>2. loop.id <= lastId' /\ loop.id # id BY <1>5, <1>6, <1>14, <2>1 DEF Ids
  <2>3. \A q \in Busy' : req'[q].id # loop.id BY <1>12, <2>2 DEF CoreInv, LoopInv
  <2> QED BY <1>1, <2>1, <2>2, <2>3 DEF CoreInv, LoopInv
<1>18. EarlyInv'
  <2>1. id \notin deleted BY <1>14
  <2>2. id \notin Known
    <3> SUFFICES ASSUME NEW m \in Msgids, Claims(m, id) PROVE FALSE BY DEF Known
    <3>1. id <= lastId BY <1>5 DEF CoreInv, ClaimInv
    <3> QED BY <1>3, <1>5, <3>1
  <2> QED BY <1>1, <1>6, <1>12, <2>1, <2>2 DEF CoreInv, EarlyInv
<1> QED BY <1>6, <1>13, <1>16, <1>17, <1>18 DEF CoreInv

(* pushPendingSend keeps CoreInv and issues no msgid. *)
LEMMA SendPushKeeps ==
  ASSUME CoreInv, NEW r \in Reqs, SendPush(r) PROVE CoreInv' /\ NoNewClaims
<1>1. /\ req[r].pc = "minted" /\ req' = [req EXCEPT ![r].pc = "pushed"]
      /\ pend' = [pend EXCEPT ![req[r].t] = pushPendingSend(@, req[r].id)]
      /\ UNCHANGED <<store, registry, loop, shown, deleted, early, lastMsg, lastId>>
      /\ jobs' = jobs /\ wire' = wire
  BY DEF SendPush, link
<1>2. req[r] # Idle BY <1>1, IdleFacts
<1>3. req[r] \in Request BY <1>2 DEF CoreInv, RelayTypes
<1>4. PICK t \in Targets : t = req[r].t BY <1>3 DEF Request
<1>5. PICK id \in Ids : id = req[r].id BY <1>3 DEF Request
<1>6. pend \in [Targets -> Seq(Ids)] /\ \A u \in Targets : Len(pend[u]) <= PendCap
  BY DEF CoreInv, RelayTypes
<1>7. PICK q \in Seq(Ids) : q = pend[t] BY <1>6
<1>8. PICK p \in Seq(Ids) : /\ p = pushPendingSend(q, id) /\ Len(p) <= PendCap
                            /\ \A k \in ToSet(p) : k \in ToSet(q) \/ k = id
  <2>1. Len(q) \in Nat /\ PendCap \in Nat \ {0} /\ Len(q) <= PendCap
    BY <1>6, <1>7, CapsAssumption, LenProperties
  <2>2. PICK z \in Seq(Ids) : /\ z = IF Len(q) >= PendCap THEN Tail(q) ELSE q
                              /\ Len(z) + 1 <= PendCap /\ Len(z) \in Nat
                              /\ \A k \in ToSet(z) : k \in ToSet(q)
    <3>1. CASE ~(Len(q) >= PendCap) BY <2>1, <3>1
    <3>2. CASE Len(q) >= PendCap
      <4>1. q # <<>> BY <2>1, <3>2
      <4>2. /\ Tail(q) \in Seq(Ids) /\ Len(Tail(q)) = Len(q) - 1
            /\ \A k \in 1 .. Len(Tail(q)) : Tail(q)[k] = q[k + 1]
            /\ DOMAIN Tail(q) = 1 .. Len(Tail(q)) /\ DOMAIN q = 1 .. Len(q)
        BY <4>1, HeadTailProperties, LenProperties
      <4>3. \A k \in DOMAIN Tail(q) : k + 1 \in DOMAIN q /\ Tail(q)[k] = q[k + 1]
        BY <2>1, <4>2
      <4>4. \A k \in ToSet(Tail(q)) : k \in ToSet(q) BY <4>3 DEF ToSet
      <4>5. Len(Tail(q)) + 1 <= PendCap /\ Len(Tail(q)) \in Nat BY <2>1, <3>2, <4>2
      <4> QED BY <3>2, <4>2, <4>4, <4>5
    <3> QED BY <3>1, <3>2
  <2>3. pushPendingSend(q, id) = Append(z, id) BY <2>2 DEF pushPendingSend
  <2>4. /\ Append(z, id) \in Seq(Ids) /\ Len(Append(z, id)) = Len(z) + 1
        /\ \A k \in 1 .. Len(z) : Append(z, id)[k] = z[k]
        /\ Append(z, id)[Len(z) + 1] = id
        /\ DOMAIN Append(z, id) = 1 .. (Len(z) + 1) /\ DOMAIN z = 1 .. Len(z)
    BY AppendProperties, LenProperties
  <2>5. \A k \in DOMAIN Append(z, id) : k \in DOMAIN z \/ k = Len(z) + 1 BY <2>2, <2>4
  <2>6. \A k \in ToSet(Append(z, id)) : k \in ToSet(z) \/ k = id BY <2>4, <2>5 DEF ToSet
  <2> QED BY <2>2, <2>3, <2>4, <2>6
<1>9. pend' = [pend EXCEPT ![t] = p] BY <1>1, <1>4, <1>5, <1>7, <1>8
<1>10. /\ pend' \in [Targets -> Seq(Ids)] /\ \A u \in Targets : Len(pend'[u]) <= PendCap
       /\ \A u \in Targets : \A k \in ToSet(pend'[u]) : k \in ToSet(pend[u]) \/ k = req[r].id
  BY <1>5, <1>6, <1>7, <1>8, <1>9
<1>11. jobs' \in Seq(Request) /\ Len(jobs') <= JobCap /\ wire' \in Seq(Request)
  BY <1>1 DEF CoreInv, RelayTypes
<1> QED BY <1>1, <1>2, <1>10, <1>11, GoesOn

(* enqueueSend, with room in the send queue or without, keeps CoreInv and issues no msgid. *)
LEMMA enqueueSendKeeps ==
  ASSUME CoreInv, NEW r \in Reqs, enqueueSend(r) PROVE CoreInv' /\ NoNewClaims
<1>1. /\ req[r].pc = "pushed" /\ req' = [req EXCEPT ![r].pc = "queued"]
      /\ jobs' = IF Len(jobs) < JobCap THEN Append(jobs, req[r]) ELSE jobs
      /\ UNCHANGED <<store, registry, loop, shown, deleted, early, lastMsg, lastId>>
      /\ pend' = pend /\ wire' = wire
  BY DEF enqueueSend, link
<1>2. req[r] # Idle BY <1>1, IdleFacts
<1>3. req[r] \in Request BY <1>2 DEF CoreInv, RelayTypes
<1>4. jobs \in Seq(Request) /\ Len(jobs) <= JobCap BY DEF CoreInv, RelayTypes
<1>5. Len(jobs) \in Nat /\ JobCap \in Nat BY <1>4, CapsAssumption, LenProperties
<1>6. Append(jobs, req[r]) \in Seq(Request) /\ Len(Append(jobs, req[r])) = Len(jobs) + 1
  BY <1>3, <1>4, AppendProperties
<1>7. jobs' \in Seq(Request) /\ Len(jobs') <= JobCap BY <1>1, <1>4, <1>5, <1>6
<1>8. /\ pend' \in [Targets -> Seq(Ids)] /\ \A t \in Targets : Len(pend'[t]) <= PendCap
      /\ wire' \in Seq(Request)
  BY <1>1 DEF CoreInv, RelayTypes
<1>9. \A t \in Targets : \A k \in ToSet(pend'[t]) : k \in ToSet(pend[t]) \/ k = req[r].id BY <1>1
<1> QED BY <1>1, <1>2, <1>7, <1>8, <1>9, GoesOn

\* The worker and the link only move what is on its way.
LEMMA WireKeeps ==
  ASSUME CoreInv, jobs' \in Seq(Request), Len(jobs') <= JobCap, wire' \in Seq(Request),
         UNCHANGED <<store, registry, pend, loop, req, lastId, shown, deleted, early>>,
         lastMsg' \in 0 .. MaxMsg, lastMsg <= lastMsg'
  PROVE  CoreInv' /\ NoNewClaims
<1>1. /\ rows' = rows /\ idx' = idx /\ s2m' = s2m /\ m2r' = m2r /\ loop' = loop /\ pend' = pend
      /\ shown' = shown /\ deleted' = deleted /\ early' = early
      /\ lastId' = lastId /\ req' = req
  BY DEF store, registry
<1>2. lastId' \in Int /\ lastId <= lastId' /\ lastMsg' \in Int BY <1>1 DEF CoreInv, RelayTypes
<1>3. /\ GoodRegistry(Registry)' /\ ClaimInv' /\ IndexInv' /\ ClientAgrees' /\ NoNewClaims
      /\ Known' = Known
  BY <1>2, QuietKeeps
<1>4. Busy' = Busy BY <1>1 DEF Busy
<1>5. RelayTypes' BY <1>1 DEF CoreInv, RelayTypes
<1>6. MintInv' BY <1>1, <1>4 DEF CoreInv, MintInv
<1>7. LoopInv' BY <1>1, <1>4 DEF CoreInv, LoopInv
<1>8. EarlyInv' BY <1>1, <1>3, <1>4 DEF CoreInv, EarlyInv
<1> QED BY <1>3, <1>5, <1>6, <1>7, <1>8 DEF CoreInv

(* The send worker writing a job, or losing it to a dead link, keeps CoreInv and issues no msgid. *)
LEMMA runSendWorkerKeeps ==
  ASSUME CoreInv, runSendWorker PROVE CoreInv' /\ NoNewClaims
<1>1. /\ jobs # <<>> /\ jobs' = Tail(jobs)
      /\ wire' = IF up THEN wire \o [k \in 1 .. Head(jobs).w |-> Head(jobs)] ELSE wire
      /\ UNCHANGED <<store, registry, pend, loop, req, lastId, lastMsg, shown, deleted, early>>
  BY DEF runSendWorker
<1>2. jobs \in Seq(Request) /\ Len(jobs) <= JobCap /\ wire \in Seq(Request) BY DEF CoreInv, RelayTypes
<1>3. /\ Tail(jobs) \in Seq(Request) /\ Len(Tail(jobs)) = Len(jobs) - 1 /\ Head(jobs) \in Request
      /\ Len(jobs) \in Nat /\ JobCap \in Nat
  BY <1>1, <1>2, HeadTailProperties, LenProperties, CapsAssumption
<1>4. Len(Tail(jobs)) <= JobCap BY <1>2, <1>3
<1>5. PICK x \in Request : x = Head(jobs) BY <1>3
<1>6. x.w \in Nat BY DEF Request
<1>7. [k \in 1 .. x.w |-> x] \in Seq(Request) BY <1>6, SeqDef
<1>8. wire \o [k \in 1 .. x.w |-> x] \in Seq(Request) BY <1>2, <1>7, ConcatProperties
<1>9. wire' \in Seq(Request) BY <1>1, <1>2, <1>5, <1>8
<1>10. lastMsg' \in 0 .. MaxMsg /\ lastMsg <= lastMsg' BY <1>1 DEF CoreInv, RelayTypes
<1> QED BY <1>1, <1>3, <1>4, <1>9, <1>10, WireKeeps

(* A link that drops or returns touches nothing the invariant relates. *)
LEMMA LinkKeeps ==
  ASSUME CoreInv, LinkDrops \/ LinkReturns \/ UNCHANGED vars PROVE CoreInv' /\ NoNewClaims
<1>1. jobs' = jobs /\ (wire' = wire \/ wire' = <<>>) BY DEF LinkDrops, LinkReturns, vars, link
<1>2. UNCHANGED <<store, registry, pend, loop, req, lastId, lastMsg, shown, deleted, early>>
  BY DEF LinkDrops, LinkReturns, vars, races
<1>3. jobs' \in Seq(Request) /\ Len(jobs') <= JobCap /\ wire' \in Seq(Request)
  <2>1. <<>> \in Seq(Request) BY EmptySeq
  <2> QED BY <1>1, <2>1 DEF CoreInv, RelayTypes
<1>4. lastMsg' \in 0 .. MaxMsg /\ lastMsg <= lastMsg' BY <1>2 DEF CoreInv, RelayTypes
<1> QED BY <1>2, <1>3, <1>4, WireKeeps

-----------------------------------------------------------------------------
(* The steps that change the store *)

(* AppendMessage of a send, after its echo or before it, keeps CoreInv. *)
LEMMA SendStoreKeeps ==
  ASSUME CoreInv, NEW r \in Reqs, SendStore(r) PROVE CoreInv' /\ NoNewClaims
<1>1. /\ req[r].pc = "queued" /\ req' = [req EXCEPT ![r] = Idle]
      /\ shown' = shown \cup {req[r].id}
      /\ rows' = AppendMessage(rows, req[r].id,
                               BufferedMessage(req[r].t, TRUE, req[r].nonce, None))
      /\ UNCHANGED <<s2m, m2r, order, aliases>>
      /\ idx' = idx /\ loop' = loop /\ pend' = pend /\ jobs' = jobs /\ wire' = wire
      /\ deleted' = deleted /\ early' = early /\ lastMsg' = lastMsg /\ lastId' = lastId
  BY DEF SendStore, registry, link, races
<1>2. r \in Busy BY <1>1, IdleFacts DEF Busy
<1>3. req \in [Reqs -> {Idle} \cup Request] /\ rows \in Partial(Ids, Row) BY DEF CoreInv, RelayTypes
<1>4. req[r] \in Request BY <1>2, <1>3 DEF Busy
<1>5. PICK id \in Ids : id = req[r].id BY <1>4 DEF Request
<1>6. PICK row : row = BufferedMessage(req[r].t, TRUE, req[r].nonce, None) OBVIOUS
<1>7. row \in Row /\ row.msgid = None BY <1>4, <1>6 DEF Row, Request, BufferedMessage
<1>8. rows' = AppendMessage(rows, id, row) BY <1>1, <1>5, <1>6
<1>9. /\ rows' \in Partial(Ids, Row) /\ DOMAIN rows' \subseteq DOMAIN rows \cup {id}
      /\ \A i \in DOMAIN rows' : /\ i = id => rows'[i] = row
                                 /\ i # id => rows'[i] = rows[i]
  BY <1>3, <1>7, <1>8, AppendFact
<1>10. /\ Busy' = Busy \ {r} /\ req' \in [Reqs -> {Idle} \cup Request]
       /\ \A q \in Busy \ {r} : req'[q].id = req[q].id
  BY <1>1, <1>3 DEF Busy
<1>11. RelayTypes' BY <1>1, <1>5, <1>9, <1>10 DEF CoreInv, RelayTypes
<1>12. GoodRegistry(Registry)'
  <2>1. Registry' = Registry BY <1>1 DEF Registry
  <2> QED BY <2>1 DEF CoreInv
<1>13. MintInv'
  <2>1. id <= lastId /\ \A q \in Busy \ {r} : req[q].id # id
    BY <1>2, <1>5 DEF CoreInv, MintInv
  <2>2. \A i \in DOMAIN rows' \cup DOMAIN s2m' \cup shown' \cup deleted' : i <= lastId'
    BY <1>1, <1>5, <1>9, <2>1 DEF CoreInv, MintInv
  <2>3. \A t \in Targets : \A k \in ToSet(pend'[t]) : k <= lastId'
    BY <1>1 DEF CoreInv, MintInv
  <2>4. \A q \in Busy' : req'[q].id <= lastId' /\ req'[q].id \notin DOMAIN rows'
    BY ZenonT(60), <1>1, <1>9, <1>10, <2>1 DEF CoreInv, MintInv
  <2>5. \A q, p \in Busy' : q # p => req'[q].id # req'[p].id
    BY <1>10 DEF CoreInv, MintInv
  <2> QED BY <2>2, <2>3, <2>4, <2>5 DEF MintInv
<1>14. LoopInv'
  <2> SUFFICES ASSUME loop # Idle PROVE LoopInv' BY <1>1 DEF LoopInv
  <2>1. loop.id # id BY <1>2, <1>5 DEF CoreInv, LoopInv
  <2>2. loop.id \notin DOMAIN rows' /\ loop.id \in shown'
    BY <1>1, <1>9, <2>1 DEF CoreInv, LoopInv
  <2>3. \A q \in Busy' : req'[q].id # loop.id BY <1>10 DEF CoreInv, LoopInv
  <2> QED BY <1>1, <2>2, <2>3 DEF CoreInv, LoopInv
<1>15. \A m \in Msgids, i \in Ids : Claims(m, i)' => Claims(m, i)
  <2>1. \A m \in Msgids : m # None BY CapsAssumption DEF Msgids
  <2>2. ASSUME NEW m \in Msgids, NEW i \in DOMAIN rows', rows'[i].msgid = m
        PROVE  i \in DOMAIN rows /\ rows[i].msgid = m
    BY <1>7, <1>9, <2>1, <2>2
  <2> QED BY <1>1, <2>2 DEF Claims
<1>16. ClaimInv'
  <2>1. lastId \in Int /\ lastMsg \in Int BY DEF CoreInv, RelayTypes
  <2>2. PICK N : N = {} OBVIOUS
  <2>3. /\ \A m \in Msgids, i \in Ids : Claims(m, i)' => Claims(m, i) \/ (m \in N /\ i = id)
        /\ \A m \in N \cap Msgids, i \in Ids : Claims(m, i) => i = id
        /\ \A m \in N \cap Msgids : m <= lastMsg'
    BY <1>15, <2>2
  <2>4. /\ id <= lastId' /\ lastMsg' \in Int /\ lastMsg <= lastMsg' /\ lastId' \in Int /\ lastId <= lastId'
    BY <1>1, <1>2, <1>5, <2>1 DEF CoreInv, MintInv
  <2> QED BY <2>1, <2>3, <2>4, ClaimsCarry DEF CoreInv
<1>17. id \in DOMAIN s2m => id \in early
  <2> SUFFICES ASSUME id \in DOMAIN s2m PROVE id \in early OBVIOUS
  <2>1. s2m[id] \in DOMAIN m2r /\ m2r[s2m[id]] = id /\ m2r \in Partial(Msgids, Ids)
    BY RegistryFacts DEF CoreInv
  <2>2. s2m[id] \in Msgids BY <2>1, PartialFact
  <2>3. Claims(s2m[id], id) BY <2>1 DEF Claims
  <2>4. id \in Known BY <2>2, <2>3 DEF Known
  <2> QED BY <1>2, <1>5, <2>4 DEF CoreInv, EarlyInv
<1>18. IndexInv'
  <2>1. \A i \in DOMAIN rows' :
          rows'[i].msgid # None => rows'[i].msgid \in DOMAIN idx' /\ idx'[rows'[i].msgid] = i
    BY ZenonT(60), <1>1, <1>7, <1>9 DEF CoreInv, IndexInv
  <2>2. \A i \in (DOMAIN s2m' \cap DOMAIN rows') \ early' : rows'[i].msgid # None
    BY <1>1, <1>7, <1>9, <1>17 DEF CoreInv, IndexInv
  <2> QED BY <2>1, <2>2 DEF IndexInv
<1>19. EarlyInv'
  <2>1. Known' \subseteq Known BY <1>15 DEF Known
  <2>2. \A q \in Busy' : req'[q].id \in deleted' \cup Known' => req'[q].id \in early'
    BY <1>1, <1>10, <2>1 DEF CoreInv, EarlyInv
  <2>4. id \in deleted => id \in early BY <1>2, <1>5 DEF CoreInv, EarlyInv
  <2>5. ClientAgrees' BY <1>1, <1>5, <1>9, <2>4 DEF CoreInv, EarlyInv, ClientAgrees
  <2> QED BY <2>2, <2>5 DEF EarlyInv
<1> QED BY <1>11, <1>12, <1>13, <1>14, <1>15, <1>16, <1>18, <1>19 DEF CoreInv, NoNewClaims

\* A message goes: its row, the index entry of its msgid, and the client's copy.
LEMMA DeleteKeeps ==
  ASSUME CoreInv, NEW id \in Ids, id \in DOMAIN rows \cup Known,
         rows' = DeleteMessage(rows, id), idx' = DeleteIndex(rows, idx, id),
         shown' = shown \ {id}, deleted' = deleted \cup {id},
         UNCHANGED <<pend, jobs, loop, req, wire, lastId, lastMsg, early>>,
         GoodRegistry(Registry)',
         DOMAIN s2m' \subseteq DOMAIN s2m \cup {id},
         \A m \in DOMAIN m2r' : Claims(m, m2r'[m]),
         loop # Idle => id \in DOMAIN rows /\ s2m' = s2m /\ m2r' = m2r
  PROVE  CoreInv' /\ NoNewClaims
<1>1. /\ pend' = pend /\ jobs' = jobs /\ loop' = loop /\ req' = req /\ wire' = wire
      /\ lastId' = lastId /\ lastMsg' = lastMsg /\ early' = early
  OBVIOUS
<1>2. rows \in Partial(Ids, Row) /\ idx \in Partial(Msgids, Ids) BY DEF CoreInv, RelayTypes
<1>3. DOMAIN rows \subseteq Ids /\ DOMAIN idx \subseteq Msgids /\ idx \in [DOMAIN idx -> Ids]
  BY <1>2, PartialFact
<1>4. /\ rows' \in Partial(Ids, Row) /\ DOMAIN rows' = DOMAIN rows \ {id}
      /\ \A i \in DOMAIN rows' : rows'[i] = rows[i]
  <2>1. rows' = Without(rows, {id}) BY DEF DeleteMessage
  <2>2. rows' \in Partial(Ids, Row) BY <1>2, <2>1, WithoutType
  <2> QED BY <2>1, <2>2 DEF Without
<1>5. /\ idx' \in Partial(Msgids, Ids) /\ DOMAIN idx' = DOMAIN idx \ {MessageMsgID(rows, id)}
      /\ \A m \in DOMAIN idx' : idx'[m] = idx[m]
  <2>1. PICK X : X = {MessageMsgID(rows, id)} OBVIOUS
  <2>2. idx' = Without(idx, X) BY <2>1 DEF DeleteIndex
  <2>3. idx' \in Partial(Msgids, Ids) BY <1>2, <2>2, WithoutType
  <2> QED BY <2>1, <2>2, <2>3 DEF Without
<1>6. Busy' = Busy BY <1>1 DEF Busy
<1>7. id <= lastId
  <2>1. CASE id \in DOMAIN rows BY <2>1 DEF CoreInv, MintInv
  <2>2. CASE id \in Known BY <2>2 DEF Known, CoreInv, ClaimInv
  <2> QED BY <2>1, <2>2
<1>8. RelayTypes' BY <1>1, <1>4, <1>5 DEF CoreInv, RelayTypes
<1>9. MintInv'
  <2>1. \A i \in DOMAIN rows' \cup DOMAIN s2m' \cup shown' \cup deleted' : i <= lastId'
    BY <1>1, <1>4, <1>7 DEF CoreInv, MintInv
  <2>2. \A t \in Targets : \A k \in ToSet(pend'[t]) : k <= lastId' BY <1>1 DEF CoreInv, MintInv
  <2>3. \A r \in Busy' : req'[r].id <= lastId' /\ req'[r].id \notin DOMAIN rows'
    BY <1>1, <1>4, <1>6 DEF CoreInv, MintInv
  <2>4. \A r, q \in Busy' : r # q => req'[r].id # req'[q].id
    BY <1>1, <1>6 DEF CoreInv, MintInv
  <2> QED BY <2>1, <2>2, <2>3, <2>4 DEF MintInv
<1>10. LoopInv'
  <2> SUFFICES ASSUME loop # Idle PROVE LoopInv' BY <1>1 DEF LoopInv
  <2>1. loop.id # id BY DEF CoreInv, LoopInv
  <2>2. loop.id \notin DOMAIN rows' /\ loop.id \in shown' BY <1>4, <2>1 DEF CoreInv, LoopInv
  <2>3. \A r \in Busy' : req'[r].id # loop.id BY <1>1, <1>6 DEF CoreInv, LoopInv
  <2> QED BY <1>1, <2>2, <2>3 DEF CoreInv, LoopInv
<1>11. \A m \in Msgids, i \in Ids : Claims(m, i)' => Claims(m, i)
  <2> SUFFICES ASSUME NEW m \in Msgids, NEW i \in Ids, Claims(m, i)' PROVE Claims(m, i)
    OBVIOUS
  <2>1. CASE m \in DOMAIN m2r' /\ m2r'[m] = i BY <2>1
  <2>2. CASE m \in DOMAIN idx' /\ idx'[m] = i BY <1>5, <2>2 DEF Claims
  <2>3. CASE i \in DOMAIN rows' /\ rows'[i].msgid = m BY <1>4, <2>3 DEF Claims
  <2>4. CASE loop' # Idle /\ loop'.id = i /\ m \in ToSet(loop'.ms) BY <1>1, <2>4 DEF Claims
  <2> QED BY <2>1, <2>2, <2>3, <2>4 DEF Claims
<1>12. ClaimInv'
  <2>1. lastId \in Int /\ lastMsg \in Int BY DEF CoreInv, RelayTypes
  <2>2. PICK N : N = {} OBVIOUS
  <2>3. /\ \A m \in Msgids, i \in Ids : Claims(m, i)' => Claims(m, i) \/ (m \in N /\ i = id)
        /\ \A m \in N \cap Msgids, i \in Ids : Claims(m, i) => i = id
        /\ \A m \in N \cap Msgids : m <= lastMsg'
    BY <1>11, <2>2
  <2>4. /\ id <= lastId' /\ lastMsg' \in Int /\ lastMsg <= lastMsg' /\ lastId' \in Int /\ lastId <= lastId'
    BY <1>1, <1>7, <2>1
  <2> QED BY <2>1, <2>3, <2>4, ClaimsCarry DEF CoreInv
<1>13. IndexInv'
  <2>1. ASSUME NEW i \in DOMAIN rows', rows'[i].msgid # None
        PROVE  rows'[i].msgid \in DOMAIN idx' /\ idx'[rows'[i].msgid] = i
    <3>1. i \in DOMAIN rows /\ i # id /\ rows'[i].msgid = rows[i].msgid BY <1>4, <2>1
    <3>2. rows[i].msgid \in DOMAIN idx /\ idx[rows[i].msgid] = i
      BY <2>1, <3>1 DEF CoreInv, IndexInv
    <3>3. rows[i].msgid # MessageMsgID(rows, id)
      <4>1. CASE id \in DOMAIN rows /\ rows[id].msgid # None
        <5>1. idx[rows[id].msgid] = id BY <4>1 DEF CoreInv, IndexInv
        <5> QED BY <3>1, <3>2, <4>1, <5>1 DEF MessageMsgID
      <4>2. CASE ~(id \in DOMAIN rows /\ rows[id].msgid # None)
        BY <2>1, <3>1, <4>2 DEF MessageMsgID
      <4> QED BY <4>1, <4>2
    <3> QED BY <1>5, <3>1, <3>2, <3>3
  <2>2. \A i \in (DOMAIN s2m' \cap DOMAIN rows') \ early' : rows'[i].msgid # None
    BY <1>1, <1>4 DEF CoreInv, IndexInv
  <2> QED BY <2>1, <2>2 DEF IndexInv
<1>14. EarlyInv'
  <2>1. Known' \subseteq Known BY <1>11 DEF Known
  <2>2. \A r \in Busy : req[r].id = id => id \in early
    BY DEF CoreInv, MintInv, EarlyInv
  <2>3. \A r \in Busy' : req'[r].id \in deleted' \cup Known' => req'[r].id \in early'
    BY <1>1, <1>6, <2>1, <2>2 DEF CoreInv, EarlyInv
  <2>4. ClientAgrees' BY <1>1, <1>4 DEF CoreInv, EarlyInv, ClientAgrees
  <2> QED BY <2>3, <2>4 DEF EarlyInv
<1> QED BY <1>8, <1>9, <1>10, <1>11, <1>12, <1>13, <1>14 DEF CoreInv, NoNewClaims

(* A REST deletion takes the row and its index entries away together. *)
LEMMA HandleDeleteMessageKeeps ==
  ASSUME CoreInv, NEW r \in Reqs, NEW id \in Ids, HandleDeleteMessage(r, id) PROVE CoreInv' /\ NoNewClaims
<1>1. /\ id \in DOMAIN rows
      /\ rows' = DeleteMessage(rows, id) /\ idx' = DeleteIndex(rows, idx, id)
      /\ shown' = shown \ {id} /\ deleted' = deleted \cup {id}
      /\ UNCHANGED <<pend, jobs, loop, req, wire, lastId, lastMsg, early>>
      /\ s2m' = s2m /\ m2r' = m2r /\ order' = order /\ aliases' = aliases
  BY DEF HandleDeleteMessage, registry, link, races
<1>2. Registry' = Registry BY <1>1 DEF Registry
<1>3. GoodRegistry(Registry)' BY <1>2 DEF CoreInv
<1>4. \A m \in DOMAIN m2r' : Claims(m, m2r'[m]) BY <1>1 DEF Claims
<1> QED BY <1>1, <1>3, <1>4, DeleteKeeps

(* A REDACT from upstream takes the row and its index entries away together. *)
LEMMA ApplyRedactionKeeps ==
  ASSUME CoreInv, NEW m \in Msgids, ApplyRedaction(m) PROVE CoreInv' /\ NoNewClaims
<1>1. PICK id : id = resolveReplyRef(m) OBVIOUS
<1>2. /\ loop = Idle /\ id # None
      /\ SetRegistry(resolveRef(m))
      /\ rows' = DeleteMessage(rows, id) /\ idx' = DeleteIndex(rows, idx, id)
      /\ shown' = shown \ {id} /\ deleted' = deleted \cup {id}
      /\ UNCHANGED <<pend, jobs, loop, req, wire, lastId, lastMsg, early>>
  BY <1>1 DEF ApplyRedaction, link, races
<1>3. Claims(m, id)
  BY <1>1, <1>2 DEF resolveReplyRef, lookupRef, LookupMessageByMsgID, Claims
<1>4. m # None BY CapsAssumption DEF Msgids
<1>5. id \in Ids BY <1>3, <1>4, ClaimTypes DEF CoreInv
<1>6. id \in Known BY <1>3, <1>5 DEF Known
<1>7. PICK g : g = resolveRef(m) OBVIOUS
<1>8. /\ GoodRegistry(g) /\ DOMAIN g.s2m \subseteq DOMAIN s2m \cup {id}
      /\ \A k \in DOMAIN g.m2r : Claims(k, g.m2r[k])
  <2>1. Registry.s2m = s2m /\ Registry.m2r = m2r BY DEF Registry
  <2>2. CASE ~(lookupRef(m) = None /\ resolveReplyRef(m) # None)
    <3>1. g = Registry BY <1>7, <2>2 DEF resolveRef
    <3> QED BY <2>1, <3>1 DEF CoreInv, Claims
  <2>3. CASE lookupRef(m) = None /\ resolveReplyRef(m) # None
    <3>1. PICK h : h = Registry OBVIOUS
    <3>2. m2r \in Partial(Msgids, Ids) BY RegistryFacts DEF CoreInv
    <3>3. DOMAIN m2r \subseteq Msgids /\ m2r \in [DOMAIN m2r -> Ids] BY <3>2, PartialFact
    <3>4. \A i \in Ids : i # None BY CapsAssumption DEF Ids
    <3>5. m \notin DOMAIN h.m2r BY <2>1, <2>3, <3>1, <3>3, <3>4 DEF lookupRef
    <3>6. g = registerMsgid(h, id, m) BY <1>1, <1>7, <2>3, <3>1 DEF resolveRef
    <3>7. GoodRegistry(h) BY <3>1 DEF CoreInv
    <3>8. /\ GoodRegistry(g) /\ DOMAIN g.s2m \subseteq DOMAIN h.s2m \cup {id}
          /\ DOMAIN g.m2r \subseteq DOMAIN h.m2r \cup {m}
          /\ m \in DOMAIN g.m2r /\ g.m2r[m] = id
          /\ \A k \in DOMAIN g.m2r : k # m => g.m2r[k] = h.m2r[k]
      BY <1>5, <3>5, <3>6, <3>7, RegisterKeeps
    <3>9. \A k \in DOMAIN g.m2r : Claims(k, g.m2r[k])
      <4> SUFFICES ASSUME NEW k \in DOMAIN g.m2r PROVE Claims(k, g.m2r[k]) OBVIOUS
      <4>1. CASE k = m BY <1>3, <3>8, <4>1
      <4>2. CASE k # m
        <5>1. k \in DOMAIN m2r /\ m2r[k] = g.m2r[k] BY <2>1, <3>1, <3>8, <4>2
        <5> QED BY <5>1 DEF Claims
      <4> QED BY <4>1, <4>2
    <3> QED BY <2>1, <3>1, <3>8, <3>9
  <2> QED BY <2>2, <2>3
<1>9. s2m' = g.s2m /\ m2r' = g.m2r /\ Registry' = g BY <1>2, <1>7, <1>8, SetFacts
<1>10. GoodRegistry(Registry)' BY <1>8, <1>9
<1>11. /\ DOMAIN s2m' \subseteq DOMAIN s2m \cup {id}
       /\ \A k \in DOMAIN m2r' : Claims(k, m2r'[k])
  BY <1>8, <1>9
<1> QED BY <1>2, <1>5, <1>6, <1>10, <1>11, DeleteKeeps

-----------------------------------------------------------------------------
(* The steps that bind msgids *)

\* Upstream issues msgids nobody has claimed.
LEMMA FreshFacts ==
  ASSUME CoreInv, NEW ms \in Fresh, lastMsg' = lastMsg + Len(ms)
  PROVE  /\ ms \in Seq(Msgids) /\ Len(ms) \in 0 .. 2 /\ lastMsg' \in 0 .. MaxMsg /\ lastMsg <= lastMsg'
         /\ ToSet(ms) \subseteq Msgids
         /\ \A m \in ToSet(ms) : lastMsg < m /\ m <= lastMsg'
         /\ \A m \in ToSet(ms), i \in Ids : ~Claims(m, i)
         /\ ms # <<>> => ms[1] \in ToSet(ms)
         /\ Len(ms) > 1 => ms[1] # ms[2] /\ ms[2] \in ToSet(ms)
<1>1. lastMsg \in 0 .. MaxMsg /\ MaxMsg \in Nat BY CapsAssumption DEF CoreInv, RelayTypes
<1>2. PICK a : a = lastMsg + 1 OBVIOUS
<1>3. PICK b : b = lastMsg + 2 OBVIOUS
<1>4. lastMsg < a /\ lastMsg < b /\ a # b /\ a \in Int /\ b \in Int BY <1>1, <1>2, <1>3
<1>5. ms \in {<<>>, <<a>>, <<a, b>>} /\ lastMsg + Len(ms) <= MaxMsg BY <1>2, <1>3 DEF Fresh
<1>6. /\ ms \in Seq(Msgids) /\ Len(ms) \in 0 .. 2 /\ lastMsg' \in 0 .. MaxMsg /\ lastMsg <= lastMsg'
      /\ \A m \in ToSet(ms) : m \in Msgids /\ lastMsg < m /\ m <= lastMsg'
      /\ ms # <<>> => ms[1] \in ToSet(ms)
      /\ Len(ms) > 1 => ms[1] # ms[2] /\ ms[2] \in ToSet(ms)
  <2>1. CASE ms = <<>>
    <3>1. Len(ms) = 0 /\ ms \in Seq(Msgids) /\ DOMAIN ms = {} BY <2>1
    <3>2. ToSet(ms) = {} BY <3>1 DEF ToSet
    <3>3. lastMsg' = lastMsg BY <1>1, <3>1
    <3> QED BY <1>1, <2>1, <3>1, <3>2, <3>3
  <2>2. CASE ms = <<a>>
    <3>1. Len(ms) = 1 /\ ms[1] = a /\ DOMAIN ms = {1} BY <2>2
    <3>2. ToSet(ms) = {a} BY <3>1 DEF ToSet
    <3>3. lastMsg' = a /\ a <= MaxMsg BY <1>2, <1>5, <3>1
    <3>4. a \in Msgids BY <1>1, <1>2, <3>3 DEF Msgids
    <3>5. ms \in Seq(Msgids) BY <2>2, <3>4
    <3>6. lastMsg' \in 0 .. MaxMsg /\ lastMsg <= lastMsg' /\ a <= lastMsg' BY <1>1, <1>2, <3>3
    <3> QED BY <1>4, <3>1, <3>2, <3>4, <3>5, <3>6
  <2>3. CASE ms = <<a, b>>
    <3>1. Len(ms) = 2 /\ ms[1] = a /\ ms[2] = b /\ DOMAIN ms = {1, 2} BY <2>3
    <3>2. ToSet(ms) = {a, b} BY <3>1 DEF ToSet
    <3>3. lastMsg' = b /\ b <= MaxMsg BY <1>3, <1>5, <3>1
    <3>4. a \in Msgids /\ b \in Msgids BY <1>1, <1>2, <1>3, <3>3 DEF Msgids
    <3>5. ms \in Seq(Msgids) BY <2>3, <3>4
    <3>6. lastMsg' \in 0 .. MaxMsg /\ lastMsg <= lastMsg' /\ a <= lastMsg' /\ b <= lastMsg'
      BY <1>1, <1>2, <1>3, <3>3
    <3> QED BY <1>4, <3>1, <3>2, <3>4, <3>5, <3>6
  <2> QED BY <1>5, <2>1, <2>2, <2>3
<1>7. ASSUME NEW m \in ToSet(ms), NEW i \in Ids, Claims(m, i) PROVE FALSE
  <2>1. m \in Msgids /\ lastMsg < m BY <1>6
  <2>2. m <= lastMsg BY <1>7, <2>1 DEF CoreInv, ClaimInv
  <2> QED BY <1>1, <2>1, <2>2 DEF Msgids
<1> QED BY <1>6, <1>7

(* A message of somebody else gets an id and its msgids are registered: CoreInv goes on, and a
   msgid leads to a row only if it did before or is one of the new message's. *)
LEMMA DispatchMessageKeeps ==
  ASSUME CoreInv, NEW t \in Targets, NEW ms \in Fresh, DispatchMessage(t, ms)
  PROVE  /\ CoreInv'
         /\ \A m \in Msgids, i \in Ids :
              Claims(m, i)' => Claims(m, i) \/ (m \in ToSet(ms) /\ i = lastId + 1)
<1>1. PICK id : id = lastId + 1 OBVIOUS
<1>2. /\ loop = Idle /\ lastId < MaxId /\ lastId' = id /\ lastMsg' = lastMsg + Len(ms)
      /\ ms # <<>> => SetRegistry(registerMsgid(Registry, id, ms[1]))
      /\ ms = <<>> => UNCHANGED registry
      /\ shown' = shown \cup {id}
      /\ loop' = [Idle EXCEPT !.pc = "append", !.id = id, !.t = t, !.ms = ms]
      /\ rows' = rows /\ idx' = idx /\ pend' = pend /\ jobs' = jobs /\ req' = req /\ wire' = wire
      /\ deleted' = deleted /\ early' = early
  BY <1>1 DEF DispatchMessage, Issue, store, link, races
<1>3. /\ ms \in Seq(Msgids) /\ Len(ms) \in 0 .. 2 /\ lastMsg' \in 0 .. MaxMsg /\ lastMsg <= lastMsg'
      /\ ToSet(ms) \subseteq Msgids
      /\ \A m \in ToSet(ms) : lastMsg < m /\ m <= lastMsg'
      /\ \A m \in ToSet(ms), i \in Ids : ~Claims(m, i)
      /\ ms # <<>> => ms[1] \in ToSet(ms)
      /\ Len(ms) > 1 => ms[1] # ms[2] /\ ms[2] \in ToSet(ms)
  BY <1>2, FreshFacts
<1>4. lastId \in 0 .. MaxId /\ MaxId \in Nat BY CapsAssumption DEF CoreInv, RelayTypes
<1>5. id \in Ids /\ id \in Int /\ lastId < id /\ lastId' \in 0 .. MaxId /\ lastId <= lastId' /\ id <= lastId'
  BY <1>1, <1>2, <1>4 DEF Ids
<1>6. /\ loop' \in Handling /\ loop' # Idle /\ loop'.id = id /\ loop'.ms = ms
  <2>1. loop'.id = id /\ loop'.ms = ms /\ loop' \in Handling
    BY <1>2, <1>3, <1>5 DEF Idle, Handling
  <2> QED BY <2>1, IdleFacts
<1>7. \A i \in DOMAIN rows \cup DOMAIN s2m \cup shown \cup deleted : i # id /\ i \in Ids /\ i <= lastId'
  <2> SUFFICES ASSUME NEW i \in DOMAIN rows \cup DOMAIN s2m \cup shown \cup deleted
               PROVE  i # id /\ i \in Ids /\ i <= lastId'
    OBVIOUS
  <2>1. rows \in Partial(Ids, Row) /\ s2m \in Partial(Ids, Msgids) /\ shown \subseteq Ids /\ deleted \subseteq Ids
    BY RegistryFacts DEF CoreInv, RelayTypes
  <2>2. i \in Ids BY <2>1, PartialFact
  <2>3. i <= lastId BY DEF CoreInv, MintInv
  <2> QED BY <1>4, <1>5, <2>2, <2>3 DEF Ids
<1>8. DOMAIN m2r \subseteq Msgids /\ m2r \in [DOMAIN m2r -> Ids]
  <2>1. m2r \in Partial(Msgids, Ids) BY RegistryFacts DEF CoreInv
  <2> QED BY <2>1, PartialFact
<1>9. \A m \in ToSet(ms) : m \notin DOMAIN m2r
  BY <1>3, <1>8 DEF Claims
<1>10. /\ GoodRegistry(Registry)'
       /\ DOMAIN s2m' \subseteq DOMAIN s2m \cup {id} /\ (ms = <<>> => s2m' = s2m)
       /\ \A k \in DOMAIN m2r' : \/ k \in DOMAIN m2r /\ m2r'[k] = m2r[k]
                                 \/ k \in ToSet(ms) /\ k = ms[1] /\ m2r'[k] = id
  <2>1. CASE ms = <<>>
    <3>1. s2m' = s2m /\ m2r' = m2r /\ order' = order /\ aliases' = aliases BY <1>2, <2>1 DEF registry
    <3>2. Registry' = Registry BY <3>1 DEF Registry
    <3> QED BY <3>1, <3>2 DEF CoreInv
  <2>2. CASE ms # <<>>
    <3>1. PICK m \in Msgids : m = ms[1] /\ m \in ToSet(ms) BY <1>3, <2>2
    <3>2. PICK h : h = Registry OBVIOUS
    <3>3. h.s2m = s2m /\ h.m2r = m2r /\ GoodRegistry(h) BY <3>2 DEF Registry, CoreInv
    <3>4. m \notin DOMAIN h.m2r BY <1>9, <3>1, <3>3
    <3>5. PICK g : g = registerMsgid(h, id, m) OBVIOUS
    <3>6. /\ GoodRegistry(g) /\ DOMAIN g.s2m \subseteq DOMAIN h.s2m \cup {id}
          /\ DOMAIN g.m2r \subseteq DOMAIN h.m2r \cup {m}
          /\ m \in DOMAIN g.m2r /\ g.m2r[m] = id
          /\ \A k \in DOMAIN g.m2r : k # m => g.m2r[k] = h.m2r[k]
      BY <1>5, <3>3, <3>4, <3>5, RegisterKeeps
    <3>7. SetRegistry(g) BY <1>2, <2>2, <3>1, <3>2, <3>5
    <3>8. s2m' = g.s2m /\ m2r' = g.m2r /\ Registry' = g BY <3>6, <3>7, SetFacts
    <3>9. GoodRegistry(Registry)' BY <3>6, <3>8
    <3> QED BY <2>2, <3>1, <3>3, <3>6, <3>8, <3>9
  <2> QED BY <2>1, <2>2
<1>11. Busy' = Busy BY <1>2 DEF Busy
<1>12. \A r \in Busy : req[r].id # id
  <2> SUFFICES ASSUME NEW r \in Busy PROVE req[r].id # id OBVIOUS
  <2>1. req[r] \in Request BY DEF Busy, CoreInv, RelayTypes
  <2>2. req[r].id \in Ids /\ req[r].id <= lastId BY <2>1 DEF Request, CoreInv, MintInv
  <2> QED BY <1>4, <1>5, <2>2 DEF Ids
<1>13. RelayTypes' BY <1>2, <1>3, <1>5, <1>6 DEF CoreInv, RelayTypes
<1>14. MintInv'
  <2>1. \A i \in DOMAIN rows' \cup DOMAIN s2m' \cup shown' \cup deleted' : i <= lastId'
    BY <1>2, <1>5, <1>7, <1>10
  <2>2. ASSUME NEW u \in Targets, NEW k \in ToSet(pend'[u]) PROVE k <= lastId'
    <3>1. pend[u] \in Seq(Ids) BY DEF CoreInv, RelayTypes
    <3>2. k \in Ids BY <1>2, <2>2, <3>1, LenProperties DEF ToSet
    <3>3. k <= lastId BY <1>2, <2>2 DEF CoreInv, MintInv
    <3> QED BY <1>4, <1>5, <3>2, <3>3 DEF Ids
  <2>3. ASSUME NEW r \in Busy' PROVE req'[r].id <= lastId' /\ req'[r].id \notin DOMAIN rows'
    <3>1. req[r] \in Request BY <1>11 DEF Busy, CoreInv, RelayTypes
    <3>2. req[r].id \in Ids /\ req[r].id <= lastId /\ req[r].id \notin DOMAIN rows
      BY <1>11, <3>1 DEF Request, CoreInv, MintInv
    <3> QED BY <1>2, <1>4, <1>5, <3>2 DEF Ids
  <2>4. \A r, q \in Busy' : r # q => req'[r].id # req'[q].id
    BY <1>2, <1>11 DEF CoreInv, MintInv
  <2> QED BY <2>1, <2>2, <2>3, <2>4 DEF MintInv
<1>15. LoopInv'
  <2>1. id \notin DOMAIN rows' /\ id \in shown' BY <1>2, <1>7
  <2>2. \A r \in Busy' : req'[r].id # id BY <1>2, <1>11, <1>12
  <2>3. Len(ms) > 1 => ms[2] \notin DOMAIN m2r' BY <1>3, <1>9, <1>10
  <2>4. id \in DOMAIN s2m' => ms # <<>> BY <1>7, <1>10
  <2> QED BY <1>5, <1>6, <2>1, <2>2, <2>3, <2>4 DEF LoopInv
<1>16. \A m \in Msgids, i \in Ids : Claims(m, i)' => Claims(m, i) \/ (m \in ToSet(ms) /\ i = id)
  <2> SUFFICES ASSUME NEW m \in Msgids, NEW i \in Ids, Claims(m, i)'
               PROVE  Claims(m, i) \/ (m \in ToSet(ms) /\ i = id)
    OBVIOUS
  <2>1. CASE m \in DOMAIN m2r' /\ m2r'[m] = i BY <1>10, <2>1 DEF Claims
  <2>2. CASE m \in DOMAIN idx' /\ idx'[m] = i BY <1>2, <2>2 DEF Claims
  <2>3. CASE i \in DOMAIN rows' /\ rows'[i].msgid = m BY <1>2, <2>3 DEF Claims
  <2>4. CASE loop' # Idle /\ loop'.id = i /\ m \in ToSet(loop'.ms) BY <1>6, <2>4
  <2> QED BY <2>1, <2>2, <2>3, <2>4 DEF Claims
<1>17. ClaimInv'
  <2>1. PICK N : N = ToSet(ms) OBVIOUS
  <2>2. /\ \A m \in Msgids, i \in Ids : Claims(m, i)' => Claims(m, i) \/ (m \in N /\ i = id)
        /\ \A m \in N \cap Msgids, i \in Ids : Claims(m, i) => i = id
        /\ \A m \in N \cap Msgids : m <= lastMsg'
    BY <1>3, <1>16, <2>1
  <2>3. /\ lastId \in Int /\ lastMsg \in Int /\ lastMsg' \in Int /\ lastId' \in Int
    BY <1>3, <1>5 DEF CoreInv, RelayTypes
  <2>4. lastId <= lastId' /\ lastMsg <= lastMsg' /\ id <= lastId' BY <1>3, <1>5
  <2>5. ClaimInv BY DEF CoreInv
  <2> QED BY <2>2, <2>3, <2>4, <2>5, ClaimsCarry
<1>18. IndexInv' BY <1>2, <1>7, <1>10 DEF CoreInv, IndexInv
<1>19. EarlyInv'
  <2>1. Known' \subseteq Known \cup {id} BY <1>16 DEF Known
  <2>2. \A r \in Busy' : req'[r].id \in deleted' \cup Known' => req'[r].id \in early'
    BY <1>2, <1>11, <1>12, <2>1 DEF CoreInv, EarlyInv
  <2>3. ClientAgrees' BY <1>2, <1>7 DEF CoreInv, EarlyInv, ClientAgrees
  <2> QED BY <2>2, <2>3 DEF EarlyInv
<1> QED BY <1>1, <1>10, <1>13, <1>14, <1>15, <1>16, <1>17, <1>18, <1>19 DEF CoreInv

(* AppendMessage of a message from upstream keeps CoreInv. *)
LEMMA DispatchStoreKeeps ==
  ASSUME CoreInv, DispatchStore PROVE CoreInv' /\ NoNewClaims
<1>1. PICK id : id = loop.id OBVIOUS
<1>2. PICK ms : ms = loop.ms OBVIOUS
<1>3. loop.pc = "append" BY DEF DispatchStore
<1>4. loop # Idle BY <1>3, IdleFacts
<1>5. loop \in Handling BY <1>4 DEF CoreInv, RelayTypes
<1>6. id \in Ids /\ ms \in Seq(Msgids) /\ Len(ms) \in 0 .. 2 /\ loop.t \in Targets
  BY <1>1, <1>2, <1>5 DEF Handling
<1>7. ms # <<>> => 1 \in DOMAIN ms /\ ms[1] \in ToSet(ms) /\ ms[1] \in Msgids
  <2>1. ms # <<>> => 1 \in DOMAIN ms /\ ms[1] \in Msgids BY <1>6, LenProperties, EmptySeq
  <2> QED BY <2>1 DEF ToSet
<1>8. PICK row : row = BufferedMessage(loop.t, FALSE, None, IF ms = <<>> THEN None ELSE ms[1])
  OBVIOUS
<1>9. row \in Row /\ row.msgid = IF ms = <<>> THEN None ELSE ms[1]
  BY <1>6, <1>7, <1>8 DEF Row, BufferedMessage
<1>10. /\ rows' = AppendMessage(rows, id, row)
       /\ idx' = IF ms = <<>> \/ id \notin DOMAIN rows' THEN idx ELSE IndexAll(idx, id, ToSet(ms))
       /\ ms = <<>> \/ id \notin DOMAIN rows' => UNCHANGED registry
       /\ ~(ms = <<>> \/ id \notin DOMAIN rows') => SetRegistry(registerAliases(Registry, id, ms))
       /\ loop' = Idle
       /\ pend' = pend /\ jobs' = jobs /\ req' = req /\ wire' = wire
       /\ lastId' = lastId /\ lastMsg' = lastMsg /\ shown' = shown
       /\ deleted' = deleted /\ early' = early
  BY <1>1, <1>2, <1>8 DEF DispatchStore, link, races
<1>11. rows \in Partial(Ids, Row) /\ idx \in Partial(Msgids, Ids) BY DEF CoreInv, RelayTypes
<1>12. /\ rows' \in Partial(Ids, Row) /\ DOMAIN rows' \subseteq DOMAIN rows \cup {id}
       /\ \A i \in DOMAIN rows' : /\ i = id => rows'[i] = row
                                  /\ i # id => rows'[i] = rows[i]
  BY <1>6, <1>9, <1>10, <1>11, AppendFact
<1>13. /\ idx' \in Partial(Msgids, Ids) /\ DOMAIN idx' \subseteq DOMAIN idx \cup ToSet(ms)
       /\ \A m \in DOMAIN idx' : m \notin ToSet(ms) => idx'[m] = idx[m]
       /\ \A m \in DOMAIN idx' : idx'[m] = id \/ (m \in DOMAIN idx /\ idx'[m] = idx[m])
       /\ \A m \in DOMAIN idx : m \in DOMAIN idx'
       /\ ~(ms = <<>> \/ id \notin DOMAIN rows') => \A m \in ToSet(ms) : m \in DOMAIN idx' /\ idx'[m] = id
  <2>1. CASE ms = <<>> \/ id \notin DOMAIN rows'
    <3>1. idx' = idx BY <1>10, <2>1
    <3> QED BY <1>11, <2>1, <3>1
  <2>2. CASE ~(ms = <<>> \/ id \notin DOMAIN rows')
    <3>1. idx' = IndexAll(idx, id, ToSet(ms)) BY <1>10, <2>2
    <3>2. ToSet(ms) \in SUBSET Msgids BY <1>6, LenProperties DEF ToSet
    <3>3. PICK X \in SUBSET Msgids : X = ToSet(ms) BY <3>2
    <3>4. idx' = IndexAll(idx, id, X) BY <3>1, <3>3
    <3>5. idx' \in Partial(Msgids, Ids) BY <1>6, <1>11, <3>4, IndexAllType
    <3>6. /\ DOMAIN idx' = DOMAIN idx \cup X
          /\ \A m \in X : idx'[m] = id
          /\ \A m \in DOMAIN idx \ X : idx'[m] = idx[m]
      BY <3>4 DEF IndexAll
    <3> QED BY <3>3, <3>5, <3>6
  <2> QED BY <2>1, <2>2
<1>14. /\ GoodRegistry(Registry)' /\ s2m' = s2m
       /\ \A k \in DOMAIN m2r' : \/ k \in DOMAIN m2r /\ m2r'[k] = m2r[k]
                                 \/ k \in ToSet(ms) /\ m2r'[k] = id
  <2>1. CASE ms = <<>> \/ id \notin DOMAIN rows'
    <3>1. s2m' = s2m /\ m2r' = m2r /\ order' = order /\ aliases' = aliases
      BY <1>10, <2>1 DEF registry
    <3>2. Registry' = Registry BY <3>1 DEF Registry
    <3> QED BY <3>1, <3>2 DEF CoreInv
  <2>2. CASE ~(ms = <<>> \/ id \notin DOMAIN rows')
    <3>1. PICK h : h = Registry OBVIOUS
    <3>2. h.s2m = s2m /\ h.m2r = m2r /\ GoodRegistry(h) BY <3>1 DEF Registry, CoreInv
    <3>3. Len(ms) > 1 => ms[2] \notin DOMAIN h.m2r BY <1>2, <1>4, <3>2 DEF CoreInv, LoopInv
    <3>4. PICK g : g = registerAliases(h, id, ms) OBVIOUS
    <3>5. /\ GoodRegistry(g) /\ g.s2m = h.s2m
          /\ \A k \in DOMAIN g.m2r : \/ k \in DOMAIN h.m2r /\ g.m2r[k] = h.m2r[k]
                                     \/ k \in ToSet(ms) /\ g.m2r[k] = id
      BY <1>6, <3>2, <3>3, <3>4, AliasesKeep
    <3>6. SetRegistry(g) BY <1>10, <2>2, <3>1, <3>4
    <3>7. s2m' = g.s2m /\ m2r' = g.m2r /\ Registry' = g BY <3>5, <3>6, SetFacts
    <3>8. GoodRegistry(Registry)' BY <3>5, <3>7
    <3> QED BY <3>2, <3>5, <3>7, <3>8
  <2> QED BY <2>1, <2>2
<1>15. /\ id <= lastId /\ id \notin DOMAIN rows /\ id \in shown
       /\ \A r \in Busy : req[r].id # id
       /\ id \in DOMAIN s2m => ms # <<>>
  BY <1>1, <1>2, <1>4 DEF CoreInv, LoopInv
<1>16. Busy' = Busy BY <1>10 DEF Busy
<1>17. RelayTypes' BY <1>10, <1>12, <1>13 DEF CoreInv, RelayTypes
<1>18. MintInv'
  <2>1. \A i \in DOMAIN rows' \cup DOMAIN s2m' \cup shown' \cup deleted' : i <= lastId'
    BY <1>10, <1>12, <1>14, <1>15 DEF CoreInv, MintInv
  <2>2. \A t \in Targets : \A k \in ToSet(pend'[t]) : k <= lastId' BY <1>10 DEF CoreInv, MintInv
  <2>3. \A r \in Busy' : req'[r].id <= lastId' /\ req'[r].id \notin DOMAIN rows'
    BY <1>10, <1>12, <1>15, <1>16 DEF CoreInv, MintInv
  <2>4. \A r, q \in Busy' : r # q => req'[r].id # req'[q].id
    BY <1>10, <1>16 DEF CoreInv, MintInv
  <2> QED BY <2>1, <2>2, <2>3, <2>4 DEF MintInv
<1>19. LoopInv' BY <1>10 DEF LoopInv
<1>20. \A m \in ToSet(ms) : Claims(m, id) BY <1>1, <1>2, <1>4 DEF Claims
<1>21. \A m \in Msgids, i \in Ids : Claims(m, i)' => Claims(m, i)
  <2> SUFFICES ASSUME NEW m \in Msgids, NEW i \in Ids, Claims(m, i)' PROVE Claims(m, i)
    OBVIOUS
  <2>1. CASE m \in DOMAIN m2r' /\ m2r'[m] = i
    <3>1. CASE m \in DOMAIN m2r /\ m2r'[m] = m2r[m] BY <2>1, <3>1 DEF Claims
    <3>2. CASE m \in ToSet(ms) /\ m2r'[m] = id BY <1>20, <2>1, <3>2
    <3> QED BY <1>14, <2>1, <3>1, <3>2
  <2>2. CASE m \in DOMAIN idx' /\ idx'[m] = i
    <3>1. CASE m \in DOMAIN idx /\ idx'[m] = idx[m] BY <2>2, <3>1 DEF Claims
    <3>2. CASE ~(m \in DOMAIN idx /\ idx'[m] = idx[m])
      <4>1. idx'[m] = id BY <1>13, <2>2, <3>2
      <4>2. m \in ToSet(ms) BY <1>13, <2>2, <3>2
      <4> QED BY <1>20, <2>2, <4>1, <4>2
    <3> QED BY <3>1, <3>2
  <2>3. CASE i \in DOMAIN rows' /\ rows'[i].msgid = m
    <3>1. CASE i = id
      <4>1. m # None BY CapsAssumption DEF Msgids
      <4>2. m \in ToSet(ms) BY <1>7, <1>9, <1>12, <2>3, <3>1, <4>1
      <4> QED BY <1>20, <3>1, <4>2
    <3>2. CASE i # id BY <1>12, <2>3, <3>2 DEF Claims
    <3> QED BY <3>1, <3>2
  <2>4. ~(loop' # Idle) BY <1>10
  <2> QED BY <2>1, <2>2, <2>3, <2>4 DEF Claims
<1>22. ClaimInv'
  <2>1. lastId \in Int /\ lastMsg \in Int BY DEF CoreInv, RelayTypes
  <2>2. PICK N : N = {} OBVIOUS
  <2>3. /\ \A m \in Msgids, i \in Ids : Claims(m, i)' => Claims(m, i) \/ (m \in N /\ i = id)
        /\ \A m \in N \cap Msgids, i \in Ids : Claims(m, i) => i = id
        /\ \A m \in N \cap Msgids : m <= lastMsg'
    BY <1>21, <2>2
  <2>4. /\ id <= lastId' /\ lastMsg' \in Int /\ lastMsg <= lastMsg' /\ lastId' \in Int /\ lastId <= lastId'
    BY <1>10, <1>15, <2>1
  <2>5. ClaimInv BY DEF CoreInv
  <2> QED BY <2>1, <2>3, <2>4, <2>5, ClaimsCarry
<1>23. IndexInv'
  <2>1. ASSUME NEW i \in DOMAIN rows', rows'[i].msgid # None
        PROVE  rows'[i].msgid \in DOMAIN idx' /\ idx'[rows'[i].msgid] = i
    <3>1. CASE i = id
      <4>1. ms # <<>> /\ rows'[i].msgid = ms[1] BY <1>9, <1>12, <2>1, <3>1
      <4> QED BY <1>7, <1>13, <3>1, <4>1
    <3>2. CASE i # id
      <4>1. i \in DOMAIN rows /\ rows'[i].msgid = rows[i].msgid BY <1>12, <3>2
      <4>2. PICK m : m = rows[i].msgid OBVIOUS
      <4>3. m # None /\ m \in DOMAIN idx /\ idx[m] = i BY <2>1, <4>1, <4>2 DEF CoreInv, IndexInv
      <4>4. Claims(m, i) BY <4>3 DEF Claims
      <4>5. m \in Msgids /\ i \in Ids BY <4>3, <4>4, ClaimTypes DEF CoreInv
      <4>6. m \notin ToSet(ms) BY <1>6, <1>20, <3>2, <4>4, <4>5 DEF CoreInv, ClaimInv
      <4> QED BY <1>13, <4>1, <4>2, <4>3, <4>6
    <3> QED BY <3>1, <3>2
  <2>2. \A i \in (DOMAIN s2m' \cap DOMAIN rows') \ early' : rows'[i].msgid # None
    <3> SUFFICES ASSUME NEW i \in (DOMAIN s2m' \cap DOMAIN rows') \ early'
                 PROVE  rows'[i].msgid # None
      OBVIOUS
    <3>1. CASE i = id
      <4>1. ms # <<>> BY <1>14, <1>15, <3>1
      <4>2. ms[1] # None BY <1>7, <4>1, CapsAssumption DEF Msgids
      <4> QED BY <1>9, <1>12, <3>1, <4>1, <4>2
    <3>2. CASE i # id BY <1>10, <1>12, <1>14, <3>2 DEF CoreInv, IndexInv
    <3> QED BY <3>1, <3>2
  <2> QED BY <2>1, <2>2 DEF IndexInv
<1>24. EarlyInv'
  <2>1. Known' \subseteq Known BY <1>21 DEF Known
  <2>2. \A r \in Busy' : req'[r].id \in deleted' \cup Known' => req'[r].id \in early'
    BY <1>10, <1>16, <2>1 DEF CoreInv, EarlyInv
  <2>3. ClientAgrees' BY <1>10, <1>12, <1>15 DEF CoreInv, EarlyInv, ClientAgrees
  <2> QED BY <2>2, <2>3 DEF EarlyInv
<1> QED BY <1>14, <1>17, <1>18, <1>19, <1>21, <1>22, <1>23, <1>24 DEF CoreInv, NoNewClaims

(* A restart clears the registry, the queues and the pending sends; the store stays sound. *)
LEMMA RestartKeeps ==
  ASSUME CoreInv, Restart PROVE CoreInv' /\ NoNewClaims
<1>1. PICK g : g = [s2m |-> Empty, m2r |-> Empty, order |-> <<>>, aliases |-> <<>>] OBVIOUS
<1>2. /\ SetRegistry(g) /\ pend' = [t \in Targets |-> <<>>] /\ jobs' = <<>> /\ loop' = Idle
      /\ req' = [r \in Reqs |-> Idle] /\ wire' = <<>> /\ shown' = DOMAIN rows
      /\ rows' = rows /\ idx' = idx /\ lastId' = lastId /\ lastMsg' = lastMsg
      /\ deleted' = deleted /\ early' = early
  BY <1>1 DEF Restart, store
<1>3. GoodRegistry(g) /\ g.s2m = Empty /\ g.m2r = Empty
  <2>1. Empty \in [{} -> Msgids] /\ Empty \in [{} -> Ids] /\ DOMAIN Empty = {} BY DEF Empty
  <2>2. Empty \in Partial(Ids, Msgids) /\ Empty \in Partial(Msgids, Ids)
    BY <2>1, PartialFact
  <2>3. /\ <<>> \in Seq(Ids) /\ <<>> \in Seq(Msgids) /\ Len(<<>>) = 0 /\ DOMAIN <<>> = {}
    BY EmptySeq
  <2>4. IsInjective(<<>>) /\ ToSet(<<>>) = {} BY <2>3 DEF IsInjective, ToSet
  <2>5. 0 <= RegCap BY CapsAssumption
  <2> QED BY <1>1, <2>1, <2>2, <2>3, <2>4, <2>5 DEF GoodRegistry, Registries
<1>4. s2m' = Empty /\ m2r' = Empty /\ Registry' = g BY <1>2, <1>3, SetFacts
<1>5. GoodRegistry(Registry)' BY <1>3, <1>4
<1>6. DOMAIN s2m' = {} /\ DOMAIN m2r' = {} BY <1>4 DEF Empty
<1>7. Busy' = {} BY <1>2 DEF Busy
<1>8. rows \in Partial(Ids, Row) BY DEF CoreInv, RelayTypes
<1>9. DOMAIN rows \subseteq Ids BY <1>8, PartialFact
<1>10. RelayTypes'
  <2>1. <<>> \in Seq(Ids) /\ <<>> \in Seq(Request) /\ Len(<<>>) = 0 BY EmptySeq
  <2>2. 0 <= PendCap /\ 0 <= JobCap BY CapsAssumption
  <2>3. /\ pend' \in [Targets -> Seq(Ids)] /\ \A t \in Targets : Len(pend'[t]) <= PendCap
        /\ jobs' \in Seq(Request) /\ Len(jobs') <= JobCap /\ wire' \in Seq(Request)
    BY <1>2, <2>1, <2>2
  <2>4. req' \in [Reqs -> {Idle} \cup Request] /\ loop' = Idle BY <1>2
  <2> QED BY <1>2, <1>9, <2>3, <2>4 DEF CoreInv, RelayTypes
<1>11. MintInv'
  <2>1. \A i \in DOMAIN rows' \cup DOMAIN s2m' \cup shown' \cup deleted' : i <= lastId'
    BY <1>2, <1>6 DEF CoreInv, MintInv
  <2>2. \A t \in Targets : ToSet(pend'[t]) = {} BY <1>2 DEF ToSet
  <2> QED BY <1>7, <2>1, <2>2 DEF MintInv
<1>12. LoopInv' BY <1>2 DEF LoopInv
<1>13. \A m \in Msgids, i \in Ids : Claims(m, i)' => Claims(m, i)
  BY <1>2, <1>6 DEF Claims
<1>14. ClaimInv'
  <2>1. lastId \in Int /\ lastMsg \in Int BY DEF CoreInv, RelayTypes
  <2>2. PICK N : N = {} OBVIOUS
  <2>3. PICK id : id = lastId OBVIOUS
  <2>4. /\ \A m \in Msgids, i \in Ids : Claims(m, i)' => Claims(m, i) \/ (m \in N /\ i = id)
        /\ \A m \in N \cap Msgids, i \in Ids : Claims(m, i) => i = id
        /\ \A m \in N \cap Msgids : m <= lastMsg'
    BY <1>13, <2>2
  <2>5. /\ id <= lastId' /\ lastMsg' \in Int /\ lastMsg <= lastMsg' /\ lastId' \in Int /\ lastId <= lastId'
    BY <1>2, <2>1, <2>3
  <2>6. ClaimInv BY DEF CoreInv
  <2> QED BY <2>1, <2>4, <2>5, <2>6, ClaimsCarry
<1>15. IndexInv' BY <1>2, <1>6 DEF CoreInv, IndexInv
<1>16. EarlyInv' BY <1>2, <1>7 DEF CoreInv, EarlyInv, ClientAgrees
<1> QED BY <1>5, <1>10, <1>11, <1>12, <1>13, <1>14, <1>15, <1>16 DEF CoreInv, NoNewClaims

\* An echo without a msgid, or with nothing pending, only leaves the wire.
LEMMA EchoLost ==
  ASSUME CoreInv, NEW ms \in Fresh, Echo(ms), ms = <<>> \/ pend[Head(wire).t] = <<>>
  PROVE  CoreInv' /\ NoNewClaims
<1>1. /\ wire # <<>> /\ wire' = Tail(wire) /\ lastMsg' = lastMsg + Len(ms) /\ jobs' = jobs
      /\ UNCHANGED <<store, registry, pend, loop, req, lastId, shown, deleted, early>>
  BY DEF Echo, Issue
<1>2. lastMsg' \in 0 .. MaxMsg /\ lastMsg <= lastMsg' BY <1>1, FreshFacts
<1>3. jobs' \in Seq(Request) /\ Len(jobs') <= JobCap /\ wire' \in Seq(Request)
  BY <1>1, HeadTailProperties DEF CoreInv, RelayTypes
<1> QED BY <1>1, <1>2, <1>3, WireKeeps

\* Otherwise the msgids go to the message that heads the target's queue.
LEMMA EchoBinds ==
  ASSUME CoreInv, NEW ms \in Fresh, Echo(ms), ms # <<>>, pend[Head(wire).t] # <<>>
  PROVE  LET id == Head(pend[Head(wire).t])
         IN  /\ CoreInv' /\ id \in Ids
             /\ \A m \in Msgids, i \in Ids :
                  Claims(m, i)' => Claims(m, i) \/ (m \in ToSet(ms) /\ i = id)
<1>1. loop = Idle /\ wire # <<>> /\ wire' = Tail(wire) BY DEF Echo
<1>2. wire \in Seq(Request) BY DEF CoreInv, RelayTypes
<1>3. Head(wire) \in Request /\ wire' \in Seq(Request) BY <1>1, <1>2, HeadTailProperties
<1>4. PICK t \in Targets : t = Head(wire).t BY <1>3 DEF Request
<1>5. pend \in [Targets -> Seq(Ids)] /\ \A u \in Targets : Len(pend[u]) <= PendCap
  BY DEF CoreInv, RelayTypes
<1>6. PICK q \in Seq(Ids) : q = pend[t] BY <1>4, <1>5
<1>7. q # <<>> BY <1>4, <1>6
<1>8. /\ Head(q) \in Ids /\ Tail(q) \in Seq(Ids) /\ Len(Tail(q)) = Len(q) - 1 /\ Len(q) \in Nat \ {0}
      /\ Head(q) = q[1] /\ DOMAIN q = 1 .. Len(q) /\ DOMAIN Tail(q) = 1 .. (Len(q) - 1)
      /\ \A k \in 1 .. (Len(q) - 1) : Tail(q)[k] = q[k + 1]
  BY <1>7, HeadTailProperties, LenProperties, EmptySeq
<1>9. PICK id \in Ids : id = Head(q) BY <1>8
<1>10. /\ lastMsg' = lastMsg + Len(ms)
       /\ pend' = [pend EXCEPT ![t] = Tail(q)]
       /\ SetRegistry(RegisterAll(Registry, id, ms))
       /\ rows' = SetMessageMsgID(rows, id, ms[1])
       /\ idx' = IndexAll(IndexRow(rows, idx, ms[1], id), id, ToSet(Tail(ms)))
       /\ early' = IF id \in DOMAIN rows THEN early ELSE early \cup {id}
       /\ loop' = Idle /\ jobs' = jobs /\ req' = req /\ lastId' = lastId /\ shown' = shown
       /\ deleted' = deleted
  BY <1>1, <1>4, <1>6, <1>7, <1>9 DEF Echo, Issue
<1>11. /\ ms \in Seq(Msgids) /\ Len(ms) \in 0 .. 2 /\ lastMsg' \in 0 .. MaxMsg /\ lastMsg <= lastMsg'
       /\ ToSet(ms) \subseteq Msgids
       /\ \A m \in ToSet(ms) : lastMsg < m /\ m <= lastMsg'
       /\ \A m \in ToSet(ms), i \in Ids : ~Claims(m, i)
       /\ ms[1] \in ToSet(ms)
       /\ Len(ms) > 1 => ms[1] # ms[2]
  BY <1>10, FreshFacts
<1>12. PICK a \in Msgids : a = ms[1] /\ a \in ToSet(ms) BY <1>11
<1>13. rows \in Partial(Ids, Row) /\ idx \in Partial(Msgids, Ids) BY DEF CoreInv, RelayTypes
<1>14. /\ DOMAIN rows \subseteq Ids /\ rows \in [DOMAIN rows -> Row]
       /\ DOMAIN idx \subseteq Msgids /\ idx \in [DOMAIN idx -> Ids]
  BY <1>13, PartialFact
<1>15. /\ rows' \in Partial(Ids, Row) /\ DOMAIN rows' = DOMAIN rows
       /\ \A i \in DOMAIN rows : i # id => rows'[i] = rows[i]
       /\ id \in DOMAIN rows => rows'[id].msgid = a
  <2>1. CASE id \in DOMAIN rows
    <3>1. PICK x : x = [rows[id] EXCEPT !.msgid = a] OBVIOUS
    <3>2. x \in Row /\ x.msgid = a BY <1>14, <2>1, <3>1 DEF Row
    <3>3. rows' = [rows EXCEPT ![id] = x] BY <1>10, <1>12, <2>1, <3>1 DEF SetMessageMsgID
    <3>4. rows' \in [DOMAIN rows -> Row] BY <1>14, <3>2, <3>3
    <3>5. rows' \in Partial(Ids, Row) BY <1>14, <3>4, PartialFact
    <3> QED BY <1>14, <2>1, <3>2, <3>3, <3>5
  <2>2. CASE id \notin DOMAIN rows BY <1>10, <1>13, <2>2 DEF SetMessageMsgID
  <2> QED BY <2>1, <2>2
<1>16. PICK ix : ix = IndexRow(rows, idx, a, id) OBVIOUS
<1>17. /\ ix \in Partial(Msgids, Ids) /\ DOMAIN ix \subseteq DOMAIN idx \cup {a}
       /\ \A m \in DOMAIN idx : m \in DOMAIN ix /\ (m # a => ix[m] = idx[m])
       /\ a \in DOMAIN ix /\ a \notin DOMAIN idx => ix[a] = id
       /\ id \in DOMAIN rows => a \in DOMAIN ix /\ ix[a] = id
  <2>1. CASE id \in DOMAIN rows
    <3>1. ix = Put(idx, a, id) BY <1>16, <2>1 DEF IndexRow, IndexMessageMsgID
    <3>2. ix \in Partial(Msgids, Ids) BY <1>13, <3>1, PutType
    <3> QED BY <3>1, <3>2 DEF Put
  <2>2. CASE id \notin DOMAIN rows BY <1>13, <1>16, <2>2 DEF IndexRow
  <2> QED BY <2>1, <2>2
<1>18. PICK X \in SUBSET Msgids : X = ToSet(Tail(ms)) /\ X \subseteq ToSet(ms)
  <2>1. /\ Tail(ms) \in Seq(Msgids) /\ Len(Tail(ms)) = Len(ms) - 1
        /\ \A k \in 1 .. Len(Tail(ms)) : Tail(ms)[k] = ms[k + 1]
        /\ DOMAIN Tail(ms) = 1 .. Len(Tail(ms)) /\ DOMAIN ms = 1 .. Len(ms)
    BY <1>11, HeadTailProperties, LenProperties
  <2>2. \A k \in DOMAIN Tail(ms) : k + 1 \in DOMAIN ms /\ Tail(ms)[k] = ms[k + 1] BY <1>11, <2>1
  <2>3. ToSet(Tail(ms)) \subseteq ToSet(ms) BY <2>2 DEF ToSet
  <2> QED BY <1>11, <2>3
<1>19. \A m \in ToSet(ms) : m \notin DOMAIN idx /\ m \notin DOMAIN m2r
  <2>1. m2r \in Partial(Msgids, Ids) BY RegistryFacts DEF CoreInv
  <2>2. m2r \in [DOMAIN m2r -> Ids] BY <2>1, PartialFact
  <2> QED BY <1>11, <1>14, <2>2 DEF Claims
<1>20. /\ idx' \in Partial(Msgids, Ids)
       /\ \A m \in DOMAIN idx : m \in DOMAIN idx' /\ idx'[m] = idx[m]
       /\ \A m \in DOMAIN idx' : m \in DOMAIN idx \/ (m \in ToSet(ms) /\ idx'[m] = id)
       /\ id \in DOMAIN rows => a \in DOMAIN idx' /\ idx'[a] = id
  <2>1. idx' = IndexAll(ix, id, X) BY <1>10, <1>12, <1>16, <1>18
  <2>2. idx' \in Partial(Msgids, Ids) BY <1>17, <2>1, IndexAllType
  <2>3. /\ DOMAIN idx' = DOMAIN ix \cup X
        /\ \A m \in X : idx'[m] = id
        /\ \A m \in DOMAIN ix : m \notin X => idx'[m] = ix[m]
    BY <2>1 DEF IndexAll
  <2>4. \A m \in DOMAIN idx : m \notin X /\ m # a BY <1>12, <1>18, <1>19
  <2>5. \A m \in DOMAIN idx : m \in DOMAIN idx' /\ idx'[m] = idx[m] BY <1>17, <2>3, <2>4
  <2>6. a \notin DOMAIN idx BY <1>12, <1>19
  <2>7. a \in DOMAIN idx' => idx'[a] = id BY <1>17, <2>3, <2>6
  <2>8. \A m \in DOMAIN idx' : m \in DOMAIN idx \/ (m \in ToSet(ms) /\ idx'[m] = id)
    BY <1>12, <1>17, <1>18, <2>3, <2>7
  <2>9. id \in DOMAIN rows => a \in DOMAIN idx' BY <1>17, <2>3
  <2> QED BY <2>2, <2>5, <2>7, <2>8, <2>9
<1>21. /\ GoodRegistry(Registry)'
       /\ DOMAIN s2m' \subseteq DOMAIN s2m \cup {id}
       /\ \A k \in DOMAIN m2r' : \/ k \in DOMAIN m2r /\ m2r'[k] = m2r[k]
                                 \/ k \in ToSet(ms) /\ m2r'[k] = id
  <2>1. PICK h : h = Registry OBVIOUS
  <2>2. h.s2m = s2m /\ h.m2r = m2r /\ GoodRegistry(h) BY <2>1 DEF Registry, CoreInv
  <2>3. PICK g : g = RegisterAll(h, id, ms) OBVIOUS
  <2>4. \A k \in ToSet(ms) : k \notin DOMAIN h.m2r BY <1>19, <2>2
  <2>5. /\ GoodRegistry(g)
        /\ DOMAIN g.s2m \subseteq DOMAIN h.s2m \cup {id}
        /\ DOMAIN g.m2r \subseteq DOMAIN h.m2r \cup ToSet(ms)
        /\ \A k \in DOMAIN g.m2r : k \in ToSet(ms) => g.m2r[k] = id
        /\ \A k \in DOMAIN g.m2r : k \notin ToSet(ms) => g.m2r[k] = h.m2r[k]
    BY <1>11, <2>2, <2>3, <2>4, JoinKeeps
  <2>6. SetRegistry(g) BY <1>10, <2>1, <2>3
  <2>7. s2m' = g.s2m /\ m2r' = g.m2r /\ Registry' = g BY <2>5, <2>6, SetFacts
  <2>8. GoodRegistry(Registry)' BY <2>5, <2>7
  <2> QED BY <2>2, <2>5, <2>7, <2>8
<1>22. id \in ToSet(pend[t]) /\ id <= lastId
  <2>1. id \in ToSet(pend[t]) BY <1>6, <1>8, <1>9 DEF ToSet
  <2> QED BY <2>1 DEF CoreInv, MintInv
<1>23. Busy' = Busy BY <1>10 DEF Busy
<1>24. RelayTypes'
  <2>1. pend' \in [Targets -> Seq(Ids)] /\ \A u \in Targets : Len(pend'[u]) <= PendCap
    <3>1. pend' \in [Targets -> Seq(Ids)] BY <1>5, <1>8, <1>10
    <3>2. Len(Tail(q)) <= PendCap BY <1>5, <1>6, <1>8, CapsAssumption
    <3> QED BY <1>5, <1>10, <3>1, <3>2
  <2> QED BY <1>3, <1>10, <1>11, <1>15, <1>20, <2>1 DEF CoreInv, RelayTypes
<1>25. MintInv'
  <2>1. \A i \in DOMAIN rows' \cup DOMAIN s2m' \cup shown' \cup deleted' : i <= lastId'
    BY <1>10, <1>15, <1>21, <1>22 DEF CoreInv, MintInv
  <2>2. \A u \in Targets : \A k \in ToSet(pend'[u]) : k \in ToSet(pend[u])
    <3>1. \A k \in DOMAIN Tail(q) : k + 1 \in DOMAIN q /\ Tail(q)[k] = q[k + 1] BY <1>8
    <3>2. ToSet(Tail(q)) \subseteq ToSet(q) BY <3>1 DEF ToSet
    <3> QED BY <1>5, <1>6, <1>10, <3>2
  <2>3. \A u \in Targets : \A k \in ToSet(pend'[u]) : k <= lastId'
    BY <1>10, <2>2 DEF CoreInv, MintInv
  <2>4. \A r \in Busy' : req'[r].id <= lastId' /\ req'[r].id \notin DOMAIN rows'
    BY <1>10, <1>15, <1>23 DEF CoreInv, MintInv
  <2>5. \A r, p \in Busy' : r # p => req'[r].id # req'[p].id
    BY <1>10, <1>23 DEF CoreInv, MintInv
  <2> QED BY <2>1, <2>3, <2>4, <2>5 DEF MintInv
<1>26. LoopInv' BY <1>10 DEF LoopInv
<1>27. \A m \in Msgids, i \in Ids : Claims(m, i)' => Claims(m, i) \/ (m \in ToSet(ms) /\ i = id)
  <2> SUFFICES ASSUME NEW m \in Msgids, NEW i \in Ids, Claims(m, i)'
               PROVE  Claims(m, i) \/ (m \in ToSet(ms) /\ i = id)
    OBVIOUS
  <2>1. CASE m \in DOMAIN m2r' /\ m2r'[m] = i BY <1>21, <2>1 DEF Claims
  <2>2. CASE m \in DOMAIN idx' /\ idx'[m] = i BY <1>20, <2>2 DEF Claims
  <2>3. CASE i \in DOMAIN rows' /\ rows'[i].msgid = m BY <1>12, <1>15, <2>3 DEF Claims
  <2>4. ~(loop' # Idle) BY <1>10
  <2> QED BY <2>1, <2>2, <2>3, <2>4 DEF Claims
<1>28. ClaimInv'
  <2>1. PICK N : N = ToSet(ms) OBVIOUS
  <2>2. /\ \A m \in Msgids, i \in Ids : Claims(m, i)' => Claims(m, i) \/ (m \in N /\ i = id)
        /\ \A m \in N \cap Msgids, i \in Ids : Claims(m, i) => i = id
        /\ \A m \in N \cap Msgids : m <= lastMsg'
    BY <1>11, <1>27, <2>1
  <2>3. lastId \in Int /\ lastMsg \in Int /\ lastMsg' \in Int /\ lastId' \in Int
    BY <1>10, <1>11 DEF CoreInv, RelayTypes
  <2>4. lastId <= lastId' /\ lastMsg <= lastMsg' /\ id <= lastId'
    BY <1>10, <1>11, <1>22, <2>3
  <2>5. ClaimInv BY DEF CoreInv
  <2> QED BY <2>2, <2>3, <2>4, <2>5, ClaimsCarry, SMTT(120)
<1>29. IndexInv'
  <2>1. ASSUME NEW i \in DOMAIN rows', rows'[i].msgid # None
        PROVE  rows'[i].msgid \in DOMAIN idx' /\ idx'[rows'[i].msgid] = i
    <3>1. CASE i = id BY <1>15, <1>20, <3>1
    <3>2. CASE i # id
      <4>1. i \in DOMAIN rows /\ rows'[i] = rows[i] BY <1>15, <3>2
      <4>2. rows[i].msgid \in DOMAIN idx /\ idx[rows[i].msgid] = i
        BY <2>1, <4>1 DEF CoreInv, IndexInv
      <4> QED BY <1>20, <4>1, <4>2
    <3> QED BY <3>1, <3>2
  <2>2. \A i \in (DOMAIN s2m' \cap DOMAIN rows') \ early' : rows'[i].msgid # None
    <3>1. a # None BY CapsAssumption DEF Msgids
    <3> QED BY <1>10, <1>15, <1>21, <3>1 DEF CoreInv, IndexInv
  <2> QED BY <2>1, <2>2 DEF IndexInv
<1>30. EarlyInv'
  <2>1. Known' \subseteq Known \cup {id} BY <1>27 DEF Known
  <2>2. early \subseteq early' /\ (id \notin DOMAIN rows => id \in early') BY <1>10
  <2>3. \A r \in Busy : req[r].id \notin DOMAIN rows BY DEF CoreInv, MintInv
  <2>4. \A r \in Busy' : req'[r].id \in deleted' \cup Known' => req'[r].id \in early'
    BY <1>10, <1>23, <2>1, <2>2, <2>3 DEF CoreInv, EarlyInv
  <2>5. ClientAgrees' BY <1>10, <1>15, <2>2 DEF CoreInv, EarlyInv, ClientAgrees
  <2> QED BY <2>4, <2>5 DEF EarlyInv
<1> QED BY <1>4, <1>6, <1>9, <1>21, <1>24, <1>25, <1>26, <1>27, <1>28, <1>29, <1>30 DEF CoreInv

-----------------------------------------------------------------------------
(* Every step keeps the invariant *)

(* CoreInv holds in the initial state: the store, the registry and the queues are empty. *)
LEMMA CoreInit == Init => CoreInv
<1> SUFFICES ASSUME Init PROVE CoreInv OBVIOUS
<1>1. /\ DOMAIN Empty = {} /\ \A T : Empty \in [{} -> T] BY DEF Empty
<1>2. \A S, T : Empty \in Partial(S, T) BY <1>1, PartialFact
<1>3. /\ rows = Empty /\ idx = Empty /\ s2m = Empty /\ m2r = Empty /\ order = <<>> /\ aliases = <<>>
      /\ pend = [t \in Targets |-> <<>>] /\ jobs = <<>> /\ wire = <<>> /\ loop = Idle
      /\ req = [r \in Reqs |-> Idle] /\ lastId = 0 /\ lastMsg = 0 /\ shown = {} /\ deleted = {}
  BY DEF Init
<1>4. /\ DOMAIN <<>> = {} /\ Len(<<>>) = 0 /\ ToSet(<<>>) = {} /\ IsInjective(<<>>)
      /\ \A S : <<>> \in Seq(S)
  <2>1. DOMAIN <<>> = {} /\ Len(<<>>) = 0 /\ \A S : <<>> \in Seq(S) BY EmptySeq
  <2> QED BY <2>1 DEF ToSet, IsInjective
<1>5. /\ 0 <= RegCap /\ 0 <= PendCap /\ 0 <= JobCap /\ 0 \in 0 .. MaxId /\ 0 \in 0 .. MaxMsg
  BY CapsAssumption
<1>6. GoodRegistry(Registry)
  <2>1. PICK g : g = Registry OBVIOUS
  <2>2. g = [s2m |-> Empty, m2r |-> Empty, order |-> <<>>, aliases |-> <<>>]
    BY <1>3, <2>1 DEF Registry
  <2>3. g \in Registries BY <1>2, <1>4, <2>2 DEF Registries
  <2>4. GoodRegistry(g) BY <1>1, <1>4, <1>5, <2>2, <2>3 DEF GoodRegistry
  <2> QED BY <2>1, <2>4
<1>7. RelayTypes BY <1>2, <1>3, <1>4, <1>5 DEF RelayTypes
<1>8. Busy = {} BY <1>3 DEF Busy
<1>9. MintInv BY <1>1, <1>3, <1>4, <1>8 DEF MintInv
<1>10. LoopInv BY <1>3 DEF LoopInv
<1>11. \A m, i : ~Claims(m, i) BY <1>1, <1>3 DEF Claims
<1>12. ClaimInv BY <1>11 DEF ClaimInv
<1>13. IndexInv BY <1>1, <1>3 DEF IndexInv
<1>14. EarlyInv BY <1>1, <1>3, <1>8 DEF EarlyInv, ClientAgrees
<1> QED BY <1>6, <1>7, <1>9, <1>10, <1>12, <1>13, <1>14 DEF CoreInv

(* Every step of the relay keeps CoreInv: one lemma per action. *)
LEMMA CoreStep == CoreInv /\ [Next]_vars => CoreInv'
<1> SUFFICES ASSUME CoreInv, [Next]_vars PROVE CoreInv' OBVIOUS
<1>1. ASSUME NEW r \in Reqs, Rest(r) PROVE CoreInv'
  <2>1. ASSUME NEW t \in Targets, NEW n \in Nonces \cup {None}, NEW w \in 1 .. 2, SendCheck(r, t, n, w)
        PROVE  CoreInv'
    BY <2>1, SendCheckKeeps
  <2>2. CASE SendPush(r) BY <2>2, SendPushKeeps
  <2>3. CASE enqueueSend(r) BY <2>3, enqueueSendKeeps
  <2>4. CASE SendStore(r) BY <2>4, SendStoreKeeps
  <2>5. ASSUME NEW id \in Ids, HandleDeleteMessage(r, id) PROVE CoreInv'
    BY <2>5, HandleDeleteMessageKeeps
  <2> QED BY <1>1, <2>1, <2>2, <2>3, <2>4, <2>5 DEF Rest
<1>2. CASE EventLoop
  <2>1. ASSUME NEW ms \in Fresh, Echo(ms) PROVE CoreInv'
    <3>1. CASE ms = <<>> \/ pend[Head(wire).t] = <<>> BY <2>1, <3>1, EchoLost
    <3>2. CASE ~(ms = <<>> \/ pend[Head(wire).t] = <<>>) BY <2>1, <3>2, EchoBinds
    <3> QED BY <3>1, <3>2
  <2>2. ASSUME NEW t \in Targets, NEW ms \in Fresh, DispatchMessage(t, ms) PROVE CoreInv'
    BY <2>2, DispatchMessageKeeps
  <2>3. CASE DispatchStore BY <2>3, DispatchStoreKeeps
  <2>4. ASSUME NEW m \in Msgids, ApplyRedaction(m) PROVE CoreInv' BY <2>4, ApplyRedactionKeeps
  <2> QED BY <1>2, <2>1, <2>2, <2>3, <2>4 DEF EventLoop
<1>3. CASE runSendWorker BY <1>3, runSendWorkerKeeps
<1>4. CASE LinkDrops \/ LinkReturns \/ UNCHANGED vars BY <1>4, LinkKeeps
<1>5. CASE Restart BY <1>5, RestartKeeps
<1> QED BY <1>1, <1>2, <1>3, <1>4, <1>5 DEF Next

(* CoreInv holds in every state of the relay. *)
LEMMA CoreAlways == Spec => []CoreInv
BY CoreInit, CoreStep, PTL DEF Spec

-----------------------------------------------------------------------------
(* What the invariant gives *)

(* Whatever the registry or the store answers for a msgid is the message the msgid was issued
   for, because every entry of either is a claim and claims are truthful. *)
LEMMA CoreResolves == CoreInv => RepliesResolve
<1> SUFFICES ASSUME CoreInv PROVE RepliesResolve OBVIOUS
<1>1. /\ rows \in Partial(Ids, Row) /\ idx \in Partial(Msgids, Ids)
      /\ s2m \in Partial(Ids, Msgids) /\ m2r \in Partial(Msgids, Ids)
  BY RegistryFacts DEF CoreInv, RelayTypes
<1>2. /\ DOMAIN rows \subseteq Ids /\ rows \in [DOMAIN rows -> Row]
      /\ DOMAIN idx \subseteq Msgids /\ idx \in [DOMAIN idx -> Ids]
      /\ DOMAIN s2m \subseteq Ids /\ s2m \in [DOMAIN s2m -> Msgids]
      /\ DOMAIN m2r \subseteq Msgids /\ m2r \in [DOMAIN m2r -> Ids]
  BY <1>1, PartialFact
<1>3. (\A i \in Ids : i # None) /\ (\A m \in Msgids : m # None) BY CapsAssumption DEF Ids, Msgids
<1>4. /\ order \in Seq(Ids) /\ Len(order) <= RegCap /\ IsInjective(order) /\ ToSet(order) = DOMAIN s2m
      /\ Len(aliases) <= RegCap
      /\ \A i \in DOMAIN s2m : s2m[i] \in DOMAIN m2r /\ m2r[s2m[i]] = i
  BY RegistryFacts DEF CoreInv
<1>5. TypeOK
  <2>1. \A i \in DOMAIN rows : rows[i].ch \in Targets BY <1>2 DEF Row
  <2> QED BY <1>2, <2>1 DEF TypeOK, CoreInv, RelayTypes
<1>6. ReplyRoundTrip
  <2> SUFFICES ASSUME NEW i \in DOMAIN rows, ReplyTargetMsgid(i) # None
               PROVE  resolveReplyRef(ReplyTargetMsgid(i)) = i
    BY DEF ReplyRoundTrip
  <2>1. PICK m : m = ReplyTargetMsgid(i) OBVIOUS
  <2>2. CASE i \in DOMAIN s2m
    <3>1. m = s2m[i] BY <1>2, <1>3, <2>1, <2>2 DEF ReplyTargetMsgid, lookupMsgid
    <3>2. lookupRef(m) = i BY <1>4, <2>2, <3>1 DEF lookupRef
    <3> QED BY <1>2, <1>3, <2>1, <3>2 DEF resolveReplyRef
  <2>3. CASE i \notin DOMAIN s2m
    <3>1. m = rows[i].msgid /\ m # None BY <2>1, <2>3 DEF ReplyTargetMsgid, lookupMsgid, MessageMsgID
    <3>2. m \in DOMAIN idx /\ idx[m] = i BY <3>1 DEF CoreInv, IndexInv
    <3>3. m \in DOMAIN m2r => m2r[m] = i
      <4> SUFFICES ASSUME m \in DOMAIN m2r PROVE m2r[m] = i OBVIOUS
      <4>1. Claims(m, i) /\ Claims(m, m2r[m]) BY <3>2 DEF Claims
      <4> QED BY <1>2, <4>1 DEF CoreInv, ClaimInv
    <3>4. CASE m \in DOMAIN m2r
      <4>1. lookupRef(m) = i BY <3>3, <3>4 DEF lookupRef
      <4> QED BY <1>2, <1>3, <2>1, <4>1 DEF resolveReplyRef
    <3>5. CASE m \notin DOMAIN m2r
      <4>1. lookupRef(m) = None BY <3>5 DEF lookupRef
      <4> QED BY <2>1, <3>2, <4>1 DEF resolveReplyRef, LookupMessageByMsgID
    <3> QED BY <3>4, <3>5
  <2> QED BY <2>2, <2>3
<1>7. AnchorPersisted BY DEF CoreInv, IndexInv, AnchorPersisted, LookupMessageByMsgID
<1>8. RegistryBounded
  <2>1. Len(order) \in Nat /\ DOMAIN order = 1 .. Len(order) BY <1>4, LenProperties
  <2>2. ToSet(order) = {order[k] : k \in 1 .. Len(order)} BY <2>1 DEF ToSet
  <2>3. order \in Bijection(1 .. Len(order), ToSet(order))
    <3>1. order \in [1 .. Len(order) -> ToSet(order)]
      BY <1>4, <2>1, LenProperties DEF ToSet
    <3>2. order \in Injection(1 .. Len(order), ToSet(order)) BY <1>4, <3>1 DEF Injection
    <3>3. order \in Surjection(1 .. Len(order), ToSet(order)) BY <2>2, <3>1 DEF Surjection
    <3> QED BY <3>2, <3>3 DEF Bijection
  <2>4. Cardinality(ToSet(order)) = Len(order)
    BY <2>1, <2>3, FS_CountingElements DEF ExistsBijection
  <2> QED BY <1>4, <2>2, <2>4 DEF RegistryBounded
<1> QED BY <1>5, <1>6, <1>7, <1>8 DEF RepliesResolve

\* Registry and store resolve every msgid alike, in bounds and across restarts
\* (registerMsgid, registerMsgidAlias, resolveReplyRef, SetMessageMsgID).
THEOREM RepliesAlwaysResolve == Spec => []RepliesResolve
BY CoreAlways, CoreResolves, PTL

\* The client shows every row of the buffer and no deleted message, but for
\* echoes that outran their row (handleSendMessage, applyRedaction).
THEOREM ClientStaysInAgreement == Spec => []ClientAgrees
<1>1. CoreInv => ClientAgrees BY DEF CoreInv, EarlyInv
<1> QED BY <1>1, CoreAlways, PTL

-----------------------------------------------------------------------------
(* Nonces *)

\* The client's retries: only own rows carry nonces, and whoever repeats one,
\* in a row or in a request on its way to a row, does so knowingly.
NonceInv ==
  /\ \A i \in DOMAIN rows : rows[i].nonce # None => rows[i].mine
  /\ NonceOnce
  /\ \A r \in Busy, i \in DOMAIN rows :
       rows[i].ch = req[r].t /\ rows[i].nonce = req[r].nonce => req[r].nonce \in again \cup {None}
  /\ \A r, q \in Busy :
       r # q /\ req[r].t = req[q].t /\ req[r].nonce = req[q].nonce
         => req[r].nonce \in again \cup {None}

\* Rows that go, and rows and requests that stay as they are, repeat nothing.
LEMMA NonceCarry ==
  ASSUME NonceInv, again \subseteq again', Busy' \subseteq Busy,
         \A r \in Busy' : req'[r].t = req[r].t /\ req'[r].nonce = req[r].nonce,
         \A i \in DOMAIN rows' : /\ i \in DOMAIN rows /\ rows'[i].ch = rows[i].ch
                                 /\ rows'[i].nonce = rows[i].nonce /\ rows'[i].mine = rows[i].mine
  PROVE  NonceInv'
<1>1. \A i \in DOMAIN rows' : rows'[i].nonce # None => rows'[i].mine BY DEF NonceInv
<1>2. ASSUME NEW i \in DOMAIN rows', NEW j \in DOMAIN rows',
             i # j, rows'[i].ch = rows'[j].ch, rows'[i].nonce = rows'[j].nonce
      PROVE  rows'[i].nonce \in again' \cup {None}
  <2>1. rows[i].nonce \in again \cup {None} BY <1>2 DEF NonceInv, NonceOnce
  <2> QED BY <2>1
<1>3. ASSUME NEW r \in Busy', NEW i \in DOMAIN rows',
             rows'[i].ch = req'[r].t, rows'[i].nonce = req'[r].nonce
      PROVE  req'[r].nonce \in again' \cup {None}
  <2>1. req[r].nonce \in again \cup {None} BY <1>3 DEF NonceInv
  <2> QED BY <2>1
<1>4. ASSUME NEW r \in Busy', NEW q \in Busy',
             r # q, req'[r].t = req'[q].t, req'[r].nonce = req'[q].nonce
      PROVE  req'[r].nonce \in again' \cup {None}
  <2>1. req[r].nonce \in again \cup {None} BY <1>4 DEF NonceInv
  <2> QED BY <2>1
<1> QED BY <1>1, <1>2, <1>3, <1>4 DEF NonceInv, NonceOnce

\* dedupByNonce refuses what it can see; what it cannot see is a repetition.
LEMMA SendCheckNonce ==
  ASSUME CoreInv, NonceInv, NEW r \in Reqs, NEW t \in Targets, NEW n \in Nonces \cup {None},
         NEW w \in 1 .. 2, SendCheck(r, t, n, w)
  PROVE  NonceInv'
<1>1. /\ rows' = rows /\ req[r] = Idle /\ ~dedupByNonce(t, n)
      /\ again' = IF Repeats(t, n) THEN again \cup {n} ELSE again
      /\ req' = [req EXCEPT ![r] = [Idle EXCEPT !.pc = "minted", !.id = lastId + 1,
                                                !.t = t, !.nonce = n, !.w = w]]
  BY DEF SendCheck, store
<1>2. req \in [Reqs -> {Idle} \cup Request] BY DEF CoreInv, RelayTypes
<1>3. PICK x : x = [Idle EXCEPT !.pc = "minted", !.id = lastId + 1, !.t = t, !.nonce = n, !.w = w]
  OBVIOUS
<1>4. x.t = t /\ x.nonce = n BY <1>3 DEF Idle
<1>5. req' = [req EXCEPT ![r] = x] BY <1>1, <1>3
<1>6. /\ Busy' \subseteq Busy \cup {r} /\ req'[r].t = t /\ req'[r].nonce = n
      /\ \A q \in Busy : req'[q] = req[q] /\ q # r /\ q \in Reqs
  BY <1>1, <1>2, <1>4, <1>5 DEF Busy
<1>7. again \subseteq again' BY <1>1
<1>8. ASSUME NEW i \in DOMAIN rows, rows[i].ch = t, rows[i].nonce = n PROVE n \in again' \cup {None}
  <2> SUFFICES ASSUME n # None PROVE n \in again' OBVIOUS
  <2>1. rows[i].mine BY <1>8 DEF NonceInv
  <2>2. i \notin Recent(t) BY <1>1, <1>8, <2>1 DEF dedupByNonce
  <2>3. i \in Ring(rows, t) \ Recent(t) BY <1>8, <2>2 DEF Ring
  <2>4. Repeats(t, n) BY <1>8, <2>3 DEF Repeats
  <2> QED BY <1>1, <2>4
<1>9. ASSUME NEW q \in Busy, req[q].t = t, req[q].nonce = n PROVE n \in again' \cup {None}
  <2> SUFFICES ASSUME n # None PROVE n \in again' OBVIOUS
  <2>1. req[q] \in Request /\ q \in Reqs BY <1>2 DEF Busy
  <2>2. req[q].pc \in {"minted", "pushed", "queued"} BY <2>1 DEF Request
  <2>3. Repeats(t, n) BY <1>9, <2>1, <2>2 DEF Repeats
  <2> QED BY <1>1, <2>3
<1>10. NonceOnce' BY <1>1, <1>7 DEF NonceInv, NonceOnce
<1>11. ASSUME NEW q \in Busy', NEW i \in DOMAIN rows,
              rows[i].ch = req'[q].t, rows[i].nonce = req'[q].nonce
       PROVE  req'[q].nonce \in again' \cup {None}
  <2>1. CASE q = r BY <1>6, <1>8, <1>11, <2>1
  <2>2. CASE q \in Busy
    <3>1. req[q].nonce \in again \cup {None} BY <1>6, <1>11, <2>2 DEF NonceInv
    <3> QED BY <1>6, <1>7, <2>2, <3>1
  <2> QED BY <1>6, <2>1, <2>2
<1>12. ASSUME NEW q \in Busy', NEW p \in Busy', q # p,
              req'[q].t = req'[p].t, req'[q].nonce = req'[p].nonce
       PROVE  req'[q].nonce \in again' \cup {None}
  <2>1. CASE q \in Busy /\ p \in Busy
    <3>1. req[q].nonce \in again \cup {None} BY <1>6, <1>12, <2>1 DEF NonceInv
    <3> QED BY <1>6, <1>7, <2>1, <3>1
  <2>2. CASE q = r /\ p \in Busy BY <1>6, <1>9, <1>12, <2>2
  <2>3. CASE p = r /\ q \in Busy BY <1>6, <1>9, <1>12, <2>3
  <2> QED BY <1>6, <1>12, <2>1, <2>2, <2>3
<1> QED BY <1>1, <1>10, <1>11, <1>12 DEF NonceInv

\* A request's nonce moves into its row.
LEMMA SendStoreNonce ==
  ASSUME CoreInv, NonceInv, NEW r \in Reqs, SendStore(r) PROVE NonceInv'
<1>1. /\ req[r].pc = "queued" /\ req' = [req EXCEPT ![r] = Idle] /\ again' = again
      /\ rows' = AppendMessage(rows, req[r].id,
                               BufferedMessage(req[r].t, TRUE, req[r].nonce, None))
  BY DEF SendStore, races
<1>2. r \in Busy BY <1>1, IdleFacts DEF Busy
<1>3. req \in [Reqs -> {Idle} \cup Request] /\ rows \in Partial(Ids, Row) BY DEF CoreInv, RelayTypes
<1>4. req[r] \in Request BY <1>2, <1>3 DEF Busy
<1>5. PICK id \in Ids : id = req[r].id BY <1>4 DEF Request
<1>6. PICK row : row = BufferedMessage(req[r].t, TRUE, req[r].nonce, None) OBVIOUS
<1>7. row \in Row /\ row.ch = req[r].t /\ row.nonce = req[r].nonce /\ row.mine
  BY <1>4, <1>6 DEF Row, Request, BufferedMessage
<1>8. rows' = AppendMessage(rows, id, row) BY <1>1, <1>5, <1>6
<1>9. /\ DOMAIN rows' \subseteq DOMAIN rows \cup {id}
      /\ \A i \in DOMAIN rows' : /\ i = id => rows'[i] = row
                                 /\ i # id => rows'[i] = rows[i]
  BY <1>3, <1>7, <1>8, AppendFact
<1>10. Busy' = Busy \ {r} /\ \A q \in Busy \ {r} : req'[q] = req[q]
  BY <1>1, <1>3 DEF Busy
<1>11. \A i \in DOMAIN rows' : rows'[i].nonce # None => rows'[i].mine
  BY <1>7, <1>9 DEF NonceInv
<1>12. ASSUME NEW i \in DOMAIN rows', NEW j \in DOMAIN rows',
              i # j, rows'[i].ch = rows'[j].ch, rows'[i].nonce = rows'[j].nonce
       PROVE  rows'[i].nonce \in again' \cup {None}
  <2>1. CASE i # id /\ j # id BY ZenonT(60), <1>1, <1>9, <1>12, <2>1 DEF NonceInv, NonceOnce
  <2>2. ASSUME NEW k \in DOMAIN rows, rows[k].ch = row.ch, rows[k].nonce = row.nonce
        PROVE  row.nonce \in again \cup {None}
    <3>1. rows[k].ch = req[r].t /\ rows[k].nonce = req[r].nonce BY <1>7, <2>2
    <3>2. req[r].nonce \in again \cup {None} BY <1>2, <3>1 DEF NonceInv
    <3> QED BY <1>7, <3>2
  <2>3. CASE i = id /\ j # id
    <3>1. rows'[i] = row /\ j \in DOMAIN rows /\ rows'[j] = rows[j] BY <1>9, <2>3
    <3>2. row.nonce \in again \cup {None} BY <1>12, <2>2, <3>1
    <3> QED BY <1>1, <3>1, <3>2
  <2>4. CASE i # id /\ j = id
    <3>1. rows'[j] = row /\ i \in DOMAIN rows /\ rows'[i] = rows[i] BY <1>9, <2>4
    <3>2. row.nonce \in again \cup {None} BY <1>12, <2>2, <3>1
    <3> QED BY <1>1, <1>12, <3>1, <3>2
  <2> QED BY <1>12, <2>1, <2>3, <2>4
<1>13. ASSUME NEW q \in Busy', NEW i \in DOMAIN rows',
              rows'[i].ch = req'[q].t, rows'[i].nonce = req'[q].nonce
       PROVE  req'[q].nonce \in again' \cup {None}
  <2>1. CASE i = id
    <3>1. q \in Busy /\ q # r /\ req'[q] = req[q] /\ rows'[i] = row BY <1>9, <1>10, <2>1
    <3>2. req[q].t = req[r].t /\ req[q].nonce = req[r].nonce BY <1>7, <1>13, <3>1
    <3>3. req[q].nonce \in again \cup {None} BY <1>2, <3>1, <3>2 DEF NonceInv
    <3> QED BY <1>1, <3>1, <3>3
  <2>2. CASE i # id BY <1>1, <1>9, <1>10, <1>13, <2>2 DEF NonceInv
  <2> QED BY <2>1, <2>2
<1>14. ASSUME NEW q \in Busy', NEW p \in Busy', q # p,
              req'[q].t = req'[p].t, req'[q].nonce = req'[p].nonce
       PROVE  req'[q].nonce \in again' \cup {None}
  BY <1>1, <1>10, <1>14 DEF NonceInv
<1> QED BY <1>11, <1>12, <1>13, <1>14 DEF NonceInv, NonceOnce

\* Messages of others have no nonce.
LEMMA DispatchStoreNonce ==
  ASSUME CoreInv, NonceInv, DispatchStore PROVE NonceInv'
<1>1. PICK id : id = loop.id OBVIOUS
<1>2. PICK ms : ms = loop.ms OBVIOUS
<1>3. loop.pc = "append" BY DEF DispatchStore
<1>4. loop # Idle BY <1>3, IdleFacts
<1>5. loop \in Handling BY <1>4 DEF CoreInv, RelayTypes
<1>6. id \in Ids /\ ms \in Seq(Msgids) /\ loop.t \in Targets BY <1>1, <1>2, <1>5 DEF Handling
<1>7. ms # <<>> => ms[1] \in Msgids BY <1>6, LenProperties, EmptySeq
<1>8. PICK row : row = BufferedMessage(loop.t, FALSE, None, IF ms = <<>> THEN None ELSE ms[1])
  OBVIOUS
<1>9. row \in Row /\ row.nonce = None BY <1>6, <1>7, <1>8 DEF Row, BufferedMessage
<1>10. rows' = AppendMessage(rows, id, row) /\ req' = req /\ again' = again
  BY <1>1, <1>2, <1>8 DEF DispatchStore, races
<1>11. rows \in Partial(Ids, Row) BY DEF CoreInv, RelayTypes
<1>12. /\ DOMAIN rows' \subseteq DOMAIN rows \cup {id}
       /\ \A i \in DOMAIN rows' : /\ i = id => rows'[i] = row
                                  /\ i # id => rows'[i] = rows[i]
  BY <1>6, <1>9, <1>10, <1>11, AppendFact
<1>13. Busy' = Busy BY <1>10 DEF Busy
<1>14. \A i \in DOMAIN rows' : rows'[i].nonce # None => i \in DOMAIN rows /\ rows'[i] = rows[i]
  BY <1>9, <1>12
<1>15. \A i \in DOMAIN rows' : rows'[i].nonce # None => rows'[i].mine BY <1>14 DEF NonceInv
<1>16. ASSUME NEW i \in DOMAIN rows', NEW j \in DOMAIN rows',
              i # j, rows'[i].ch = rows'[j].ch, rows'[i].nonce = rows'[j].nonce
       PROVE  rows'[i].nonce \in again' \cup {None}
  BY <1>10, <1>14, <1>16 DEF NonceInv, NonceOnce
<1>17. ASSUME NEW q \in Busy', NEW i \in DOMAIN rows',
              rows'[i].ch = req'[q].t, rows'[i].nonce = req'[q].nonce
       PROVE  req'[q].nonce \in again' \cup {None}
  BY <1>10, <1>13, <1>14, <1>17 DEF NonceInv
<1>18. ASSUME NEW q \in Busy', NEW p \in Busy', q # p,
              req'[q].t = req'[p].t, req'[q].nonce = req'[p].nonce
       PROVE  req'[q].nonce \in again' \cup {None}
  BY <1>10, <1>13, <1>18 DEF NonceInv
<1> QED BY <1>15, <1>16, <1>17, <1>18 DEF NonceInv, NonceOnce

(* Every step of the relay keeps NonceInv. *)
LEMMA NonceStep == CoreInv /\ NonceInv /\ [Next]_vars => NonceInv'
<1> SUFFICES ASSUME CoreInv, NonceInv, [Next]_vars PROVE NonceInv' OBVIOUS
<1>1. req \in [Reqs -> {Idle} \cup Request] /\ rows \in Partial(Ids, Row) BY DEF CoreInv, RelayTypes
<1>2. rows \in [DOMAIN rows -> Row] BY <1>1, PartialFact
<1>3. ASSUME NEW r \in Reqs, NEW pc \in {"pushed", "queued"}, req[r] # Idle,
             req' = [req EXCEPT ![r].pc = pc], rows' = rows, again' = again
      PROVE  NonceInv'
  <2>1. req[r] \in Request BY <1>1, <1>3
  <2>2. PICK x : x = [req[r] EXCEPT !.pc = pc] OBVIOUS
  <2>3. x.t = req[r].t /\ x.nonce = req[r].nonce BY <2>1, <2>2 DEF Request
  <2>4. req' = [req EXCEPT ![r] = x] BY <1>3, <2>2
  <2>5. \A q \in Reqs : req'[q].t = req[q].t /\ req'[q].nonce = req[q].nonce BY <1>1, <2>3, <2>4
  <2>6. Busy' \subseteq Busy BY <1>1, <1>3, <2>4 DEF Busy
  <2>7. Busy' \subseteq Reqs BY DEF Busy
  <2> QED BY <1>3, <2>5, <2>6, <2>7, NonceCarry
<1>4. ASSUME NEW r \in Reqs, Rest(r) PROVE NonceInv'
  <2>1. ASSUME NEW t \in Targets, NEW n \in Nonces \cup {None}, NEW w \in 1 .. 2, SendCheck(r, t, n, w)
        PROVE  NonceInv'
    BY <2>1, SendCheckNonce
  <2>2. CASE SendPush(r)
    <3>1. req[r].pc = "minted" /\ req' = [req EXCEPT ![r].pc = "pushed"] /\ rows' = rows /\ again' = again
      BY <2>2 DEF SendPush, store
    <3>2. req[r] # Idle BY <3>1, IdleFacts
    <3> QED BY <1>3, <3>1, <3>2
  <2>3. CASE enqueueSend(r)
    <3>1. req[r].pc = "pushed" /\ req' = [req EXCEPT ![r].pc = "queued"] /\ rows' = rows /\ again' = again
      BY <2>3 DEF enqueueSend, store
    <3>2. req[r] # Idle BY <3>1, IdleFacts
    <3> QED BY <1>3, <3>1, <3>2
  <2>4. CASE SendStore(r) BY <2>4, SendStoreNonce
  <2>5. ASSUME NEW id \in Ids, HandleDeleteMessage(r, id) PROVE NonceInv'
    <3>1. rows' = Without(rows, {id}) /\ req' = req /\ again' = again
      BY <2>5 DEF HandleDeleteMessage, DeleteMessage, races
    <3>2. Busy' = Busy BY <3>1 DEF Busy
    <3>3. \A i \in DOMAIN rows' : i \in DOMAIN rows /\ rows'[i] = rows[i] BY <3>1 DEF Without
    <3> QED BY <3>1, <3>2, <3>3, NonceCarry
  <2> QED BY <1>4, <2>1, <2>2, <2>3, <2>4, <2>5 DEF Rest
<1>5. CASE EventLoop
  <2>1. ASSUME NEW ms \in Fresh, Echo(ms) PROVE NonceInv'
    <3>1. PICK id : id = Head(pend[Head(wire).t]) OBVIOUS
    <3>2. (rows' = rows \/ rows' = SetMessageMsgID(rows, id, ms[1])) /\ req' = req /\ again' = again
      BY <2>1, <3>1 DEF Echo, store
    <3>3. Busy' = Busy BY <3>2 DEF Busy
    <3>4. ASSUME NEW i \in DOMAIN rows'
          PROVE  /\ i \in DOMAIN rows /\ rows'[i].ch = rows[i].ch
                 /\ rows'[i].nonce = rows[i].nonce /\ rows'[i].mine = rows[i].mine
      <4>1. CASE rows' = rows BY <4>1
      <4>2. CASE rows' # rows
        <5>1. rows' = [rows EXCEPT ![id].msgid = ms[1]] BY <3>2, <4>2 DEF SetMessageMsgID
        <5>2. i \in DOMAIN rows /\ rows[i] \in Row BY <1>2, <5>1
        <5> QED BY <1>2, <5>1, <5>2 DEF Row
      <4> QED BY <4>1, <4>2
    <3> QED BY <3>2, <3>3, <3>4, NonceCarry
  <2>2. ASSUME NEW t \in Targets, NEW ms \in Fresh, DispatchMessage(t, ms) PROVE NonceInv'
    <3>1. rows' = rows /\ req' = req /\ again' = again BY <2>2 DEF DispatchMessage, store, races
    <3>2. Busy' = Busy BY <3>1 DEF Busy
    <3> QED BY <3>1, <3>2, NonceCarry
  <2>3. CASE DispatchStore BY <2>3, DispatchStoreNonce
  <2>4. ASSUME NEW m \in Msgids, ApplyRedaction(m) PROVE NonceInv'
    <3>1. rows' = Without(rows, {resolveReplyRef(m)}) /\ req' = req /\ again' = again
      BY <2>4 DEF ApplyRedaction, DeleteMessage, races
    <3>2. Busy' = Busy BY <3>1 DEF Busy
    <3>3. \A i \in DOMAIN rows' : i \in DOMAIN rows /\ rows'[i] = rows[i] BY <3>1 DEF Without
    <3> QED BY <3>1, <3>2, <3>3, NonceCarry
  <2> QED BY <1>5, <2>1, <2>2, <2>3, <2>4 DEF EventLoop
<1>6. CASE runSendWorker \/ LinkDrops \/ LinkReturns \/ UNCHANGED vars
  <2>1. rows' = rows /\ req' = req /\ again' = again
    BY <1>6 DEF runSendWorker, LinkDrops, LinkReturns, vars, store, races
  <2>2. Busy' = Busy BY <2>1 DEF Busy
  <2> QED BY <2>1, <2>2, NonceCarry
<1>7. CASE Restart
  <2>1. rows' = rows /\ again' = again /\ req' = [r \in Reqs |-> Idle] BY <1>7 DEF Restart, store
  <2>2. Busy' = {} BY <2>1 DEF Busy
  <2> QED BY <2>1, <2>2, NonceCarry
<1> QED BY <1>4, <1>5, <1>6, <1>7 DEF Next

\* One nonce, one row, unless a retry overlapped its send or came too late
\* (dedupByNonce looks at the stored rows only, and at the newest of them).
THEOREM NoncesStoredOnce == Spec => []NonceOnce
<1>1. Init => NonceInv
  <2> SUFFICES ASSUME Init PROVE NonceInv OBVIOUS
  <2>1. DOMAIN rows = {} /\ req = [r \in Reqs |-> Idle] BY DEF Init, Empty
  <2>2. Busy = {} BY <2>1 DEF Busy
  <2> QED BY <2>1, <2>2 DEF NonceInv, NonceOnce
<1>2. NonceInv => NonceOnce BY DEF NonceInv
<1> QED BY <1>1, <1>2, CoreAlways, NonceStep, PTL DEF Spec

-----------------------------------------------------------------------------
(* Queues that list, in order, what is on its way to one target *)

Lists(q, L, t) ==
  \E f \in [1 .. Len(q) -> 1 .. Len(L)] :
    /\ \A j, k \in 1 .. Len(q) : j < k => f[j] < f[k]
    /\ \A k \in 1 .. Len(q) : q[k] = L[f[k]].id
    /\ \A p \in 1 .. Len(L) : L[p].t = t <=> \E k \in 1 .. Len(q) : f[k] = p

\* The first on its way to t heads t's queue, and both leave together.
LEMMA ListsHead ==
  ASSUME NEW L \in Seq(Request), L # <<>>, NEW q \in Seq(Ids), NEW t, Lists(q, L, t), Head(L).t = t
  PROVE  q # <<>> /\ Head(q) = Head(L).id /\ Lists(Tail(q), Tail(L), t)
<1>1. /\ Len(L) \in Nat \ {0} /\ Head(L) = L[1] /\ Tail(L) \in Seq(Request) /\ Len(Tail(L)) = Len(L) - 1
      /\ \A k \in 1 .. (Len(L) - 1) : Tail(L)[k] = L[k + 1]
  BY HeadTailProperties, LenProperties, EmptySeq
<1>2. PICK f \in [1 .. Len(q) -> 1 .. Len(L)] :
        /\ \A j, k \in 1 .. Len(q) : j < k => f[j] < f[k]
        /\ \A k \in 1 .. Len(q) : q[k] = L[f[k]].id
        /\ \A p \in 1 .. Len(L) : L[p].t = t <=> \E k \in 1 .. Len(q) : f[k] = p
  BY DEF Lists
<1>3. Len(q) \in Nat BY LenProperties
<1>4. PICK k \in 1 .. Len(q) : f[k] = 1 BY <1>1, <1>2
<1>5. Len(q) \in Nat \ {0} /\ 1 \in 1 .. Len(q) BY <1>3, <1>4
<1>6. f[1] = 1
  <2>1. f[1] \in 1 .. Len(L) BY <1>5
  <2>2. 1 < k => f[1] < 1 BY <1>2, <1>4, <1>5
  <2>3. ~(1 < k) BY <2>1, <2>2
  <2>4. k = 1 BY <1>4, <2>3
  <2> QED BY <1>4, <2>4
<1>7. q # <<>> BY <1>5
<1>8. /\ Head(q) = q[1] /\ Tail(q) \in Seq(Ids) /\ Len(Tail(q)) = Len(q) - 1
      /\ \A j \in 1 .. (Len(q) - 1) : Tail(q)[j] = q[j + 1]
  BY <1>7, HeadTailProperties, LenProperties
<1>9. Head(q) = Head(L).id BY <1>1, <1>2, <1>5, <1>6, <1>8
<1>10. PICK M : M = Len(L) - 1 OBVIOUS
<1>11. PICK N : N = Len(q) - 1 OBVIOUS
<1>12. /\ M \in Nat /\ N \in Nat /\ Len(L) = M + 1 /\ Len(q) = N + 1
  BY <1>1, <1>5, <1>10, <1>11
<1>13. \A j \in 1 .. N : j + 1 \in 1 .. Len(q) /\ 1 < j + 1 /\ f[j + 1] \in 2 .. Len(L)
  <2> SUFFICES ASSUME NEW j \in 1 .. N
               PROVE  j + 1 \in 1 .. Len(q) /\ 1 < j + 1 /\ f[j + 1] \in 2 .. Len(L)
    OBVIOUS
  <2>1. j + 1 \in 1 .. Len(q) /\ 1 < j + 1 BY <1>12
  <2>2. f[j + 1] \in 1 .. Len(L) /\ f[1] < f[j + 1] BY <1>2, <1>5, <2>1
  <2> QED BY <1>6, <2>1, <2>2
<1> DEFINE g == [j \in 1 .. N |-> f[j + 1] - 1]
<1>14. g \in [1 .. N -> 1 .. M] BY <1>12, <1>13
<1>15. \A i, j \in 1 .. N : i < j => g[i] < g[j]
  <2> SUFFICES ASSUME NEW i \in 1 .. N, NEW j \in 1 .. N, i < j PROVE g[i] < g[j] OBVIOUS
  <2>1. f[i + 1] < f[j + 1] BY <1>2, <1>13
  <2> QED BY <1>13, <2>1
<1>16. \A j \in 1 .. N : Tail(q)[j] = Tail(L)[g[j]].id
  <2> SUFFICES ASSUME NEW j \in 1 .. N PROVE Tail(q)[j] = Tail(L)[g[j]].id OBVIOUS
  <2>1. Tail(q)[j] = q[j + 1] BY <1>8, <1>11
  <2>2. q[j + 1] = L[f[j + 1]].id BY <1>2, <1>13
  <2>3. g[j] \in 1 .. M /\ g[j] + 1 = f[j + 1]
    <3>1. g[j] \in 1 .. M BY <1>14
    <3>2. g[j] = f[j + 1] - 1 OBVIOUS
    <3>3. f[j + 1] \in Int BY <1>12, <1>13
    <3> HIDE DEF g
    <3> QED BY <3>1, <3>2, <3>3
  <2>4. Tail(L)[g[j]] = L[g[j] + 1] BY <1>1, <1>10, <2>3
  <2> QED BY <2>1, <2>2, <2>3, <2>4
<1>17. \A p \in 1 .. M : Tail(L)[p].t = t <=> \E j \in 1 .. N : g[j] = p
  <2> SUFFICES ASSUME NEW p \in 1 .. M PROVE Tail(L)[p].t = t <=> \E j \in 1 .. N : g[j] = p
    OBVIOUS
  <2>1. Tail(L)[p] = L[p + 1] /\ p + 1 \in 1 .. Len(L) /\ p + 1 # 1 BY <1>1, <1>10, <1>12
  <2>2. L[p + 1].t = t <=> \E j \in 1 .. Len(q) : f[j] = p + 1 BY <1>2, <2>1
  <2>3. ASSUME NEW j \in 1 .. Len(q), f[j] = p + 1 PROVE \E i \in 1 .. N : g[i] = p
    <3>1. j # 1 BY <1>6, <2>1, <2>3
    <3>2. j - 1 \in 1 .. N /\ (j - 1) + 1 = j BY <1>12, <3>1
    <3>3. g[j - 1] = p BY <2>3, <3>2
    <3> QED BY <3>2, <3>3
  <2>4. ASSUME NEW i \in 1 .. N, g[i] = p PROVE \E j \in 1 .. Len(q) : f[j] = p + 1
    <3>1. i + 1 \in 1 .. Len(q) /\ f[i + 1] = p + 1 BY <1>13, <2>4
    <3> QED BY <3>1
  <2> QED BY <2>1, <2>2, <2>3, <2>4
<1>18. Lists(Tail(q), Tail(L), t)
  <2>1. Len(Tail(q)) = N /\ Len(Tail(L)) = M BY <1>1, <1>8, <1>10, <1>11
  <2> HIDE DEF g
  <2> QED BY <1>14, <1>15, <1>16, <1>17, <2>1 DEF Lists
<1> QED BY <1>7, <1>9, <1>18

\* The first on its way elsewhere leaves t's queue alone.
LEMMA ListsSkip ==
  ASSUME NEW L \in Seq(Request), L # <<>>, NEW q \in Seq(Ids), NEW t, Lists(q, L, t), Head(L).t # t
  PROVE  Lists(q, Tail(L), t)
<1>1. /\ Len(L) \in Nat \ {0} /\ Head(L) = L[1] /\ Len(Tail(L)) = Len(L) - 1
      /\ \A k \in 1 .. (Len(L) - 1) : Tail(L)[k] = L[k + 1]
  BY HeadTailProperties, LenProperties, EmptySeq
<1>2. PICK f \in [1 .. Len(q) -> 1 .. Len(L)] :
        /\ \A j, k \in 1 .. Len(q) : j < k => f[j] < f[k]
        /\ \A k \in 1 .. Len(q) : q[k] = L[f[k]].id
        /\ \A p \in 1 .. Len(L) : L[p].t = t <=> \E k \in 1 .. Len(q) : f[k] = p
  BY DEF Lists
<1>3. PICK M : M = Len(L) - 1 OBVIOUS
<1>4. M \in Nat /\ Len(L) = M + 1 BY <1>1, <1>3
<1>5. \A j \in 1 .. Len(q) : f[j] \in 2 .. Len(L)
  <2>1. \A j \in 1 .. Len(q) : f[j] \in 1 .. Len(L) /\ f[j] # 1 BY <1>1, <1>2
  <2> QED BY <1>4, <2>1
<1> DEFINE g == [j \in 1 .. Len(q) |-> f[j] - 1]
<1>6. g \in [1 .. Len(q) -> 1 .. M] BY <1>4, <1>5
<1>7. \A i, j \in 1 .. Len(q) : i < j => g[i] < g[j]
  <2> SUFFICES ASSUME NEW i \in 1 .. Len(q), NEW j \in 1 .. Len(q), i < j PROVE g[i] < g[j] OBVIOUS
  <2>1. f[i] < f[j] BY <1>2
  <2> QED BY <1>5, <2>1
<1>8. \A j \in 1 .. Len(q) : q[j] = Tail(L)[g[j]].id
  <2> SUFFICES ASSUME NEW j \in 1 .. Len(q) PROVE q[j] = Tail(L)[g[j]].id OBVIOUS
  <2>1. g[j] \in 1 .. M /\ g[j] + 1 = f[j] BY <1>5, <1>6
  <2>2. Tail(L)[g[j]] = L[g[j] + 1] BY <1>1, <1>3, <2>1
  <2> QED BY <1>2, <2>1, <2>2
<1>9. \A p \in 1 .. M : Tail(L)[p].t = t <=> \E j \in 1 .. Len(q) : g[j] = p
  <2> SUFFICES ASSUME NEW p \in 1 .. M PROVE Tail(L)[p].t = t <=> \E j \in 1 .. Len(q) : g[j] = p
    OBVIOUS
  <2>1. Tail(L)[p] = L[p + 1] /\ p + 1 \in 1 .. Len(L) BY <1>1, <1>3, <1>4
  <2>2. L[p + 1].t = t <=> \E j \in 1 .. Len(q) : f[j] = p + 1 BY <1>2, <2>1
  <2>3. \A j \in 1 .. Len(q) : g[j] = p <=> f[j] = p + 1 BY <1>5
  <2> HIDE DEF g
  <2> QED BY <2>1, <2>2, <2>3
<1>10. Len(Tail(L)) = M BY <1>1, <1>3
<1> HIDE DEF g
<1> QED BY <1>6, <1>7, <1>8, <1>9, <1>10 DEF Lists

\* What is sent last is pushed last.
LEMMA ListsAppend ==
  ASSUME NEW L \in Seq(Request), NEW q \in Seq(Ids), NEW x \in Request, NEW t, Lists(q, L, t)
  PROVE  /\ x.t = t => Lists(Append(q, x.id), Append(L, x), t)
         /\ x.t # t => Lists(q, Append(L, x), t)
<1>1. x.id \in Ids BY DEF Request
<1>2. /\ Len(L) \in Nat /\ Len(Append(L, x)) = Len(L) + 1 /\ Append(L, x)[Len(L) + 1] = x
      /\ \A k \in 1 .. Len(L) : Append(L, x)[k] = L[k]
  BY AppendProperties, LenProperties
<1>3. /\ Len(q) \in Nat /\ Len(Append(q, x.id)) = Len(q) + 1 /\ Append(q, x.id)[Len(q) + 1] = x.id
      /\ \A k \in 1 .. Len(q) : Append(q, x.id)[k] = q[k]
  BY <1>1, AppendProperties, LenProperties
<1>4. PICK f \in [1 .. Len(q) -> 1 .. Len(L)] :
        /\ \A j, k \in 1 .. Len(q) : j < k => f[j] < f[k]
        /\ \A k \in 1 .. Len(q) : q[k] = L[f[k]].id
        /\ \A p \in 1 .. Len(L) : L[p].t = t <=> \E k \in 1 .. Len(q) : f[k] = p
  BY DEF Lists
<1>5. PICK M : M = Len(L) + 1 OBVIOUS
<1>6. PICK N : N = Len(q) + 1 OBVIOUS
<1>7. PICK P : P = Append(L, x) OBVIOUS
<1>8. PICK s : s = Append(q, x.id) OBVIOUS
<1>9. /\ M \in Nat /\ N \in Nat /\ \A k \in 1 .. M : k = M \/ k \in 1 .. Len(L)
      /\ \A k \in 1 .. N : k = N \/ k \in 1 .. Len(q)
      /\ \A k \in 1 .. Len(L) : k \in 1 .. M /\ k < M
      /\ \A k \in 1 .. Len(q) : k \in 1 .. N /\ k < N /\ f[k] \in 1 .. M /\ f[k] < M
      /\ M \in 1 .. M /\ N \in 1 .. N
  BY SMTT(60), <1>2, <1>3, <1>5, <1>6
<1>10. /\ Len(P) = M /\ P[M] = x /\ \A k \in 1 .. Len(L) : P[k] = L[k]
       /\ Len(s) = N /\ s[N] = x.id /\ \A k \in 1 .. Len(q) : s[k] = q[k]
  BY <1>2, <1>3, <1>5, <1>6, <1>7, <1>8
<1>11. ASSUME x.t # t PROVE Lists(q, P, t)
  <2>1. f \in [1 .. Len(q) -> 1 .. M] BY <1>9
  <2>2. \A k \in 1 .. Len(q) : q[k] = P[f[k]].id BY <1>4, <1>10
  <2>3. \A p \in 1 .. M : P[p].t = t <=> \E k \in 1 .. Len(q) : f[k] = p
    <3> SUFFICES ASSUME NEW p \in 1 .. M PROVE P[p].t = t <=> \E k \in 1 .. Len(q) : f[k] = p
      OBVIOUS
    <3>1. CASE p = M
      <4>1. P[p].t # t BY <1>10, <1>11, <3>1
      <4>2. \A k \in 1 .. Len(q) : f[k] # M BY <1>9
      <4> QED BY <3>1, <4>1, <4>2
    <3>2. CASE p \in 1 .. Len(L) BY <1>4, <1>10, <3>2
    <3> QED BY <1>9, <3>1, <3>2
  <2> QED BY <1>4, <1>10, <2>1, <2>2, <2>3 DEF Lists
<1>12. ASSUME x.t = t PROVE Lists(s, P, t)
  <2> DEFINE g == [k \in 1 .. N |-> IF k = N THEN M ELSE f[k]]
  <2>1. g \in [1 .. N -> 1 .. M] BY <1>9
  <2>2. \A k \in 1 .. Len(q) : g[k] = f[k] BY <1>9
  <2>3. g[N] = M BY <1>9
  <2> HIDE DEF g
  <2>4. \A j, k \in 1 .. N : j < k => g[j] < g[k]
    <3> SUFFICES ASSUME NEW j \in 1 .. N, NEW k \in 1 .. N, j < k PROVE g[j] < g[k] OBVIOUS
    <3>1. j \in 1 .. Len(q)
      <4>1. j # N BY <1>9
      <4> QED BY <1>9, <4>1
    <3>2. CASE k = N BY <1>9, <2>2, <2>3, <3>1, <3>2
    <3>3. CASE k \in 1 .. Len(q) BY <1>4, <2>2, <3>1, <3>3
    <3> QED BY <1>9, <3>2, <3>3
  <2>5. \A k \in 1 .. N : s[k] = P[g[k]].id
    <3> SUFFICES ASSUME NEW k \in 1 .. N PROVE s[k] = P[g[k]].id OBVIOUS
    <3>1. CASE k = N BY <1>10, <2>3, <3>1
    <3>2. CASE k \in 1 .. Len(q) BY SMTT(60), <1>4, <1>10, <2>2, <3>2
    <3> QED BY <1>9, <3>1, <3>2
  <2>6. \A p \in 1 .. M : P[p].t = t <=> \E k \in 1 .. N : g[k] = p
    <3> SUFFICES ASSUME NEW p \in 1 .. M PROVE P[p].t = t <=> \E k \in 1 .. N : g[k] = p OBVIOUS
    <3>1. CASE p = M BY <1>9, <1>10, <1>12, <2>3, <3>1
    <3>2. CASE p \in 1 .. Len(L)
      <4>1. P[p].t = t <=> \E k \in 1 .. Len(q) : f[k] = p BY <1>4, <1>10, <3>2
      <4>2. p # M BY <1>9, <3>2
      <4>3. (\E k \in 1 .. Len(q) : f[k] = p) <=> \E k \in 1 .. N : g[k] = p
        BY <1>9, <2>2, <2>3, <4>2
      <4> QED BY <4>1, <4>3
    <3> QED BY <1>9, <3>1, <3>2
  <2> QED BY <1>10, <2>1, <2>4, <2>5, <2>6 DEF Lists
<1> QED BY <1>7, <1>8, <1>11, <1>12

-----------------------------------------------------------------------------
(* Echoes find their message *)

Pushed == {r \in Reqs : req[r].pc = "pushed"}

\* L is what has been pushed and not yet echoed, in the order of its sending:
\* on the wire, in the worker's queue, and at most one request about to queue.
Outgoing(L) ==
  \/ Pushed = {} /\ L = wire \o jobs
  \/ \E r \in Reqs : Pushed = {r} /\ L = Append(wire \o jobs, req[r])

\* While nothing broke the order, every target's queue lists what is on its
\* way to it, and every msgid is claimed for the message it was issued for.
OrderInv ==
  /\ DOMAIN truth \subseteq 1 .. lastMsg
  /\ clean => /\ \E L \in Seq(Request) : Outgoing(L) /\ \A t \in Targets : Lists(pend[t], L, t)
              /\ \A m \in Msgids, i \in Ids : Claims(m, i) => m \in DOMAIN truth /\ truth[m] = i

\* The sequences of what is on its way.
LEMMA OutgoingFacts ==
  ASSUME CoreInv
  PROVE  /\ wire \in Seq(Request) /\ jobs \in Seq(Request) /\ wire \o jobs \in Seq(Request)
         /\ \A r \in Pushed : req[r] \in Request
<1>1. wire \in Seq(Request) /\ jobs \in Seq(Request) BY DEF CoreInv, RelayTypes
<1>2. wire \o jobs \in Seq(Request) BY <1>1, ConcatProperties
<1>3. ASSUME NEW r \in Pushed PROVE req[r] \in Request
  <2>1. r \in Reqs /\ req[r].pc = "pushed" BY DEF Pushed
  <2>2. req[r] # Idle BY <2>1, IdleFacts
  <2> QED BY <2>1, <2>2 DEF CoreInv, RelayTypes
<1> QED BY <1>1, <1>2, <1>3

\* Steps that leave the queues, the wire, the claims and what was issued alone.
LEMMA OrderCarry ==
  ASSUME OrderInv, clean' => clean, truth' = truth, lastMsg' = lastMsg, pend' = pend,
         \A L : clean' /\ Outgoing(L) => Outgoing(L)',
         NoNewClaims
  PROVE  OrderInv'
<1>1. DOMAIN truth' \subseteq 1 .. lastMsg' BY DEF OrderInv
<1>2. ASSUME clean'
      PROVE  /\ \E L \in Seq(Request) : Outgoing(L)' /\ \A t \in Targets : Lists(pend'[t], L, t)
             /\ \A m \in Msgids, i \in Ids : Claims(m, i)' => m \in DOMAIN truth' /\ truth'[m] = i
  <2>1. clean BY <1>2
  <2>2. PICK L \in Seq(Request) : Outgoing(L) /\ \A t \in Targets : Lists(pend[t], L, t)
    BY <2>1 DEF OrderInv
  <2>3. Outgoing(L)' /\ \A t \in Targets : Lists(pend'[t], L, t) BY <1>2, <2>2
  <2> QED BY <2>1, <2>3 DEF OrderInv, NoNewClaims
<1> QED BY <1>1, <1>2 DEF OrderInv

\* Upstream remembers what it issued a msgid for.
LEMMA IssueFacts ==
  ASSUME CoreInv, OrderInv, NEW ms \in Fresh, NEW id, Issue(ms, id)
  PROVE  /\ DOMAIN truth' \subseteq 1 .. lastMsg'
         /\ \A m \in DOMAIN truth : m \in DOMAIN truth' /\ truth'[m] = truth[m]
         /\ \A m \in ToSet(ms) : m \in DOMAIN truth' /\ truth'[m] = id
<1>1. /\ lastMsg' = lastMsg + Len(ms)
      /\ truth' = [m \in DOMAIN truth \cup {ms[k] : k \in 1 .. Len(ms)} |->
                     IF m \in DOMAIN truth THEN truth[m] ELSE id]
  BY DEF Issue
<1>2. /\ ms \in Seq(Msgids) /\ lastMsg' \in 0 .. MaxMsg /\ lastMsg <= lastMsg'
      /\ ToSet(ms) \subseteq Msgids
      /\ \A m \in ToSet(ms) : lastMsg < m /\ m <= lastMsg'
  BY <1>1, FreshFacts
<1>3. ToSet(ms) = {ms[k] : k \in 1 .. Len(ms)} BY <1>2, LenProperties DEF ToSet
<1>4. lastMsg \in Nat BY DEF CoreInv, RelayTypes
<1>5. \A m \in ToSet(ms) : m \notin DOMAIN truth BY <1>2, <1>4 DEF OrderInv
<1>6. DOMAIN truth' = DOMAIN truth \cup ToSet(ms) BY <1>1, <1>3
<1>7. \A m \in DOMAIN truth : truth'[m] = truth[m] BY <1>1
<1>8. \A m \in ToSet(ms) : truth'[m] = id BY <1>1, <1>3, <1>5
<1>9. DOMAIN truth' \subseteq 1 .. lastMsg'
  <2> SUFFICES ASSUME NEW m \in DOMAIN truth' PROVE m \in 1 .. lastMsg' OBVIOUS
  <2>1. CASE m \in DOMAIN truth
    <3>1. m \in 1 .. lastMsg BY <2>1 DEF OrderInv
    <3> QED BY <1>2, <1>4, <3>1
  <2>2. CASE m \in ToSet(ms)
    <3>1. m \in Msgids /\ m <= lastMsg' BY <1>2, <2>2
    <3> QED BY <1>2, <3>1 DEF Msgids
  <2> QED BY <1>6, <2>1, <2>2
<1> QED BY <1>6, <1>7, <1>8, <1>9

(* Pushing a pending send keeps the outgoing sends of a target in the order of their list. *)
LEMMA SendPushOrder ==
  ASSUME CoreInv, OrderInv, NEW r \in Reqs, SendPush(r) PROVE OrderInv'
<1>1. /\ req[r].pc = "minted" /\ req' = [req EXCEPT ![r].pc = "pushed"]
      /\ pend' = [pend EXCEPT ![req[r].t] = pushPendingSend(@, req[r].id)]
      /\ clean' = (clean /\ Len(pend[req[r].t]) < PendCap /\ \A q \in Reqs : req[q].pc # "pushed")
      /\ jobs' = jobs /\ wire' = wire /\ truth' = truth /\ lastMsg' = lastMsg
  BY DEF SendPush, link
<1>2. NoNewClaims BY SendPushKeeps
<1>3. DOMAIN truth' \subseteq 1 .. lastMsg' BY <1>1 DEF OrderInv
<1>4. req \in [Reqs -> {Idle} \cup Request] /\ pend \in [Targets -> Seq(Ids)] BY DEF CoreInv, RelayTypes
<1>5. req[r] \in Request
  <2>1. req[r] # Idle BY <1>1, IdleFacts
  <2> QED BY <1>4, <2>1
<1>6. PICK x : x = [req[r] EXCEPT !.pc = "pushed"] OBVIOUS
<1>7. x \in Request /\ x.id = req[r].id /\ x.t = req[r].t /\ x.t \in Targets /\ x.pc = "pushed"
  BY <1>5, <1>6 DEF Request
<1>8. req' = [req EXCEPT ![r] = x] BY <1>1, <1>6
<1>9. ASSUME clean'
      PROVE  \E L \in Seq(Request) : Outgoing(L)' /\ \A t \in Targets : Lists(pend'[t], L, t)
  <2>1. clean /\ Len(pend[x.t]) < PendCap /\ \A q \in Reqs : req[q].pc # "pushed"
    BY <1>1, <1>7, <1>9
  <2>2. Pushed = {} BY <2>1 DEF Pushed
  <2>3. PICK L \in Seq(Request) : Outgoing(L) /\ \A t \in Targets : Lists(pend[t], L, t)
    BY <2>1 DEF OrderInv
  <2>4. L = wire \o jobs BY <2>2, <2>3 DEF Outgoing
  <2>5. Pushed' = {r}
    <3>1. \A q \in Reqs : q # r => req'[q] = req[q] BY <1>4, <1>8
    <3>2. req'[r].pc = "pushed" BY <1>4, <1>7, <1>8
    <3> QED BY <2>1, <3>1, <3>2 DEF Pushed
  <2>6. Append(L, x) = Append(wire' \o jobs', req'[r]) BY <1>1, <1>4, <1>8, <2>4
  <2>7. Outgoing(Append(L, x))' BY <2>5, <2>6 DEF Outgoing
  <2>8. Append(L, x) \in Seq(Request) BY <1>7, AppendProperties
  <2>9. PICK q \in Seq(Ids) : q = pend[x.t] BY <1>4, <1>7
  <2>10. pend' = [pend EXCEPT ![x.t] = Append(q, x.id)]
    <3>1. Len(q) \in Nat /\ PendCap \in Nat BY CapsAssumption, LenProperties
    <3>2. ~(Len(q) >= PendCap) BY <2>1, <2>9, <3>1
    <3>3. pushPendingSend(q, x.id) = Append(q, x.id) BY <3>2 DEF pushPendingSend
    <3> QED BY <1>1, <1>7, <2>9, <3>3
  <2>11. ASSUME NEW t \in Targets PROVE Lists(pend'[t], Append(L, x), t)
    <3>1. CASE t = x.t
      <4>1. Lists(q, L, t) BY <2>3, <2>9, <3>1
      <4>2. Lists(Append(q, x.id), Append(L, x), t) BY <1>7, <3>1, <4>1, ListsAppend
      <4> QED BY <1>4, <1>7, <2>10, <3>1, <4>2
    <3>2. CASE t # x.t
      <4>1. PICK s \in Seq(Ids) : s = pend[t] BY <1>4
      <4>2. Lists(s, L, t) BY <2>3, <4>1
      <4>3. Lists(s, Append(L, x), t) BY <1>7, <3>2, <4>2, ListsAppend
      <4> QED BY <1>4, <2>10, <3>2, <4>1, <4>3
    <3> QED BY <3>1, <3>2
  <2> QED BY <2>7, <2>8, <2>11
<1>10. ASSUME clean', NEW m \in Msgids, NEW i \in Ids, Claims(m, i)'
       PROVE  m \in DOMAIN truth' /\ truth'[m] = i
  BY <1>1, <1>2, <1>10 DEF OrderInv, NoNewClaims
<1> QED BY <1>3, <1>9, <1>10 DEF OrderInv

(* A send that finds no room leaves the outgoing line, a send that does joins its end. *)
LEMMA enqueueSendOrder ==
  ASSUME CoreInv, OrderInv, NEW r \in Reqs, enqueueSend(r) PROVE OrderInv'
<1>1. /\ req[r].pc = "pushed" /\ req' = [req EXCEPT ![r].pc = "queued"]
      /\ jobs' = IF Len(jobs) < JobCap THEN Append(jobs, req[r]) ELSE jobs
      /\ clean' = (clean /\ Len(jobs) < JobCap)
      /\ pend' = pend /\ wire' = wire /\ truth' = truth /\ lastMsg' = lastMsg
  BY DEF enqueueSend, link
<1>2. NoNewClaims BY enqueueSendKeeps
<1>3. r \in Pushed BY <1>1 DEF Pushed
<1>4. /\ wire \in Seq(Request) /\ jobs \in Seq(Request) /\ wire \o jobs \in Seq(Request)
      /\ req[r] \in Request
  BY <1>3, OutgoingFacts
<1>5. req \in [Reqs -> {Idle} \cup Request] BY DEF CoreInv, RelayTypes
<1>6. PICK x : x = [req[r] EXCEPT !.pc = "queued"] OBVIOUS
<1>7. x.pc = "queued" BY <1>4, <1>6 DEF Request
<1>8. req' = [req EXCEPT ![r] = x] BY <1>1, <1>6
<1>9. ASSUME NEW L, clean', Outgoing(L) PROVE Outgoing(L)'
  <2>1. Pushed = {r} /\ L = Append(wire \o jobs, req[r]) BY <1>3, <1>9 DEF Outgoing
  <2>2. Pushed' = {}
    <3>1. \A q \in Reqs : q # r => req'[q] = req[q] BY <1>5, <1>8
    <3>2. req'[r].pc = "queued" BY <1>5, <1>7, <1>8
    <3> QED BY <2>1, <3>1, <3>2 DEF Pushed
  <2>3. jobs' = Append(jobs, req[r]) BY <1>1, <1>9
  <2>4. PICK y \in Request : y = req[r] BY <1>4
  <2>5. Append(jobs, y) = jobs \o <<y>> /\ Append(wire \o jobs, y) = (wire \o jobs) \o <<y>>
    BY <1>4, AppendIsConcat
  <2>6. (wire \o jobs) \o <<y>> = wire \o (jobs \o <<y>>)
    <3>1. <<y>> \in Seq(Request) OBVIOUS
    <3> QED BY <1>4, <3>1, ConcatAssociative
  <2>7. L = wire' \o jobs' BY <1>1, <2>1, <2>3, <2>4, <2>5, <2>6
  <2> QED BY <2>2, <2>7 DEF Outgoing
<1> QED BY <1>1, <1>2, <1>9, OrderCarry

(* The worker moves the first job to the wire: the outgoing line keeps its order. *)
LEMMA runSendWorkerOrder ==
  ASSUME CoreInv, OrderInv, runSendWorker PROVE OrderInv'
<1>1. /\ jobs # <<>> /\ jobs' = Tail(jobs)
      /\ wire' = IF up THEN wire \o [k \in 1 .. Head(jobs).w |-> Head(jobs)] ELSE wire
      /\ clean' = (clean /\ up /\ Head(jobs).w = 1)
      /\ pend' = pend /\ req' = req /\ truth' = truth /\ lastMsg' = lastMsg
  BY DEF runSendWorker
<1>2. NoNewClaims BY runSendWorkerKeeps
<1>3. Pushed' = Pushed BY <1>1 DEF Pushed
<1>4. wire \in Seq(Request) /\ jobs \in Seq(Request) BY OutgoingFacts
<1>5. ASSUME clean' PROVE wire' \o jobs' = wire \o jobs
  <2>1. PICK x \in Request : x = Head(jobs) BY <1>1, <1>4, HeadTailProperties
  <2>2. x.w = 1 /\ up BY <1>1, <1>5, <2>1
  <2>3. [k \in 1 .. x.w |-> x] = <<x>>
    <3>1. 1 .. 1 = {1} OBVIOUS
    <3> QED BY <2>2, <3>1
  <2>4. wire' = wire \o <<x>> BY <1>1, <2>1, <2>2, <2>3
  <2>5. <<x>> \in Seq(Request) /\ Tail(jobs) \in Seq(Request) BY <1>1, <1>4, HeadTailProperties
  <2>6. (wire \o <<x>>) \o Tail(jobs) = wire \o (<<x>> \o Tail(jobs))
    BY <1>4, <2>5, ConcatAssociative
  <2>7. <<x>> \o Tail(jobs) = jobs
    <3>1. /\ Len(jobs) \in Nat \ {0} /\ Len(Tail(jobs)) = Len(jobs) - 1 /\ jobs[1] = x
          /\ \A k \in 1 .. (Len(jobs) - 1) : Tail(jobs)[k] = jobs[k + 1]
      BY <1>1, <1>4, <2>1, HeadTailProperties, LenProperties, EmptySeq
    <3>2. PICK y \in Seq(Request) : y = <<x>> BY <2>5
    <3>3. Len(y) = 1 /\ y[1] = x BY <3>2
    <3>4. PICK z \in Seq(Request) : z = Tail(jobs) BY <2>5
    <3>5. /\ y \o z \in Seq(Request) /\ Len(y \o z) = Len(y) + Len(z)
          /\ \A i \in 1 .. Len(y) + Len(z) : (y \o z)[i] = IF i <= Len(y) THEN y[i] ELSE z[i - Len(y)]
      BY ConcatProperties
    <3>6. Len(y \o z) = Len(jobs) BY <3>1, <3>3, <3>4, <3>5
    <3>7. \A i \in 1 .. Len(jobs) : (y \o z)[i] = jobs[i]
      <4> SUFFICES ASSUME NEW i \in 1 .. Len(jobs) PROVE (y \o z)[i] = jobs[i] OBVIOUS
      <4>1. (y \o z)[i] = IF i <= 1 THEN y[i] ELSE z[i - 1] BY <3>3, <3>5, <3>6
      <4>2. CASE i = 1 BY <3>1, <3>3, <4>1, <4>2
      <4>3. CASE i # 1
        <5>1. i - 1 \in 1 .. (Len(jobs) - 1) /\ ~(i <= 1) /\ (i - 1) + 1 = i BY <3>1, <4>3
        <5>2. z[i - 1] = jobs[i] BY <3>1, <3>4, <5>1
        <5> QED BY <4>1, <5>1, <5>2
      <4> QED BY <4>2, <4>3
    <3>8. y \o z = jobs BY <1>4, <3>5, <3>6, <3>7, SeqEqual
    <3> QED BY <3>2, <3>4, <3>8
  <2> QED BY <1>1, <2>4, <2>6, <2>7
<1>6. \A L : clean' /\ Outgoing(L) => Outgoing(L)' BY <1>1, <1>3, <1>5 DEF Outgoing
<1> QED BY <1>1, <1>2, <1>6, OrderCarry

\* The head of the queue is the message echoed.
LEMMA EchoOrder ==
  ASSUME CoreInv, OrderInv, NEW ms \in Fresh, Echo(ms) PROVE OrderInv'
<1>1. /\ wire # <<>> /\ wire' = Tail(wire) /\ Issue(ms, Head(wire).id)
      /\ clean' = (clean /\ ms # <<>>) /\ jobs' = jobs /\ req' = req
      /\ ms # <<>> /\ pend[Head(wire).t] # <<>> =>
           pend' = [pend EXCEPT ![Head(wire).t] = Tail(@)]
  BY DEF Echo
<1>2. /\ wire \in Seq(Request) /\ jobs \in Seq(Request) /\ wire \o jobs \in Seq(Request)
      /\ \A r \in Pushed : req[r] \in Request
  BY OutgoingFacts
<1>3. PICK x \in Request : x = Head(wire) BY <1>1, <1>2, HeadTailProperties
<1>4. x.t \in Targets BY DEF Request
<1>5. /\ DOMAIN truth' \subseteq 1 .. lastMsg'
      /\ \A m \in DOMAIN truth : m \in DOMAIN truth' /\ truth'[m] = truth[m]
      /\ \A m \in ToSet(ms) : m \in DOMAIN truth' /\ truth'[m] = x.id
  BY <1>1, <1>3, IssueFacts
<1>6. pend \in [Targets -> Seq(Ids)] BY DEF CoreInv, RelayTypes
<1>7. ASSUME clean'
      PROVE  /\ \E L \in Seq(Request) : Outgoing(L)' /\ \A t \in Targets : Lists(pend'[t], L, t)
             /\ \A m \in Msgids, i \in Ids : Claims(m, i)' => m \in DOMAIN truth' /\ truth'[m] = i
  <2>1. clean /\ ms # <<>> BY <1>1, <1>7
  <2>2. PICK L \in Seq(Request) : Outgoing(L) /\ \A t \in Targets : Lists(pend[t], L, t)
    BY <2>1 DEF OrderInv
  <2>3. PICK W \in Seq(Request) : W = wire \o jobs BY <1>2
  <2>4. W # <<>> /\ Head(W) = x /\ Tail(W) = Tail(wire) \o jobs /\ Tail(wire) \in Seq(Request)
    <3>1. /\ Len(wire) \in Nat \ {0} /\ Len(jobs) \in Nat /\ wire[1] = x
          /\ Tail(wire) \in Seq(Request) /\ Len(Tail(wire)) = Len(wire) - 1
          /\ \A k \in 1 .. (Len(wire) - 1) : Tail(wire)[k] = wire[k + 1]
      BY <1>1, <1>2, <1>3, HeadTailProperties, LenProperties, EmptySeq
    <3>2. /\ Len(W) = Len(wire) + Len(jobs)
          /\ \A i \in 1 .. Len(wire) + Len(jobs) :
               W[i] = IF i <= Len(wire) THEN wire[i] ELSE jobs[i - Len(wire)]
      BY <1>2, <2>3, ConcatProperties
    <3>3. W # <<>> BY <3>1, <3>2
    <3>4. Head(W) = x
      <4>1. 1 \in 1 .. Len(wire) + Len(jobs) /\ 1 <= Len(wire) BY <3>1
      <4>2. W[1] = wire[1] BY <3>2, <4>1
      <4> QED BY <3>1, <3>3, <4>2
    <3>5. PICK z \in Seq(Request) : z = Tail(wire) BY <3>1
    <3>6. /\ z \o jobs \in Seq(Request) /\ Len(z \o jobs) = Len(z) + Len(jobs)
          /\ \A i \in 1 .. Len(z) + Len(jobs) :
               (z \o jobs)[i] = IF i <= Len(z) THEN z[i] ELSE jobs[i - Len(z)]
      BY <1>2, ConcatProperties
    <3>7. /\ Tail(W) \in Seq(Request) /\ Len(Tail(W)) = Len(W) - 1
          /\ \A i \in 1 .. Len(Tail(W)) : Tail(W)[i] = W[i + 1]
      BY <3>3, HeadTailProperties
    <3>8. Len(Tail(W)) = Len(z \o jobs) BY <3>1, <3>2, <3>5, <3>6, <3>7
    <3>9. \A i \in 1 .. Len(Tail(W)) : Tail(W)[i] = (z \o jobs)[i]
      <4> SUFFICES ASSUME NEW i \in 1 .. Len(Tail(W)) PROVE Tail(W)[i] = (z \o jobs)[i] OBVIOUS
      <4>1. /\ i \in 1 .. Len(z) + Len(jobs) /\ i + 1 \in 1 .. Len(wire) + Len(jobs)
            /\ i <= Len(z) <=> i + 1 <= Len(wire)
        BY <3>1, <3>2, <3>5, <3>6, <3>7, <3>8
      <4>2. Tail(W)[i] = W[i + 1] BY <3>7
      <4>3. CASE i <= Len(z)
        <5>1. W[i + 1] = wire[i + 1] /\ (z \o jobs)[i] = z[i] BY <3>2, <3>6, <4>1, <4>3
        <5>2. i \in 1 .. (Len(wire) - 1) BY <3>1, <4>1, <4>3
        <5> QED BY <3>1, <3>5, <4>2, <5>1, <5>2
      <4>4. CASE ~(i <= Len(z))
        <5>1. /\ W[i + 1] = jobs[(i + 1) - Len(wire)]
              /\ (z \o jobs)[i] = jobs[i - Len(z)]
          BY <3>2, <3>6, <4>1, <4>4
        <5>2. (i + 1) - Len(wire) = i - Len(z) BY <3>1, <3>5, <4>1
        <5> QED BY <4>2, <5>1, <5>2
      <4> QED BY <4>3, <4>4
    <3>10. Tail(W) = z \o jobs BY <3>6, <3>7, <3>8, <3>9, SeqEqual
    <3> QED BY <3>1, <3>3, <3>4, <3>5, <3>10
  <2>5. PICK T \in Seq(Request) : T = Tail(W) BY <2>4, HeadTailProperties
  <2>6. L # <<>> /\ Head(L) = x /\ Tail(L) \in Seq(Request) /\ Outgoing(Tail(L))'
    <3>1. Pushed' = Pushed BY <1>1 DEF Pushed
    <3>2. T = wire' \o jobs' BY <1>1, <2>4, <2>5
    <3>3. CASE Pushed = {} /\ L = W
      <4>1. Outgoing(T)' BY <3>1, <3>2, <3>3 DEF Outgoing
      <4> QED BY <2>4, <2>5, <3>3, <4>1
    <3>4. CASE \E r \in Reqs : Pushed = {r} /\ L = Append(W, req[r])
      <4>1. PICK r \in Reqs : Pushed = {r} /\ L = Append(W, req[r]) BY <3>4
      <4>2. PICK y \in Request : y = req[r] BY <1>2, <4>1
      <4>3. Head(Append(W, y)) = Head(W) /\ Tail(Append(W, y)) = Append(Tail(W), y)
        BY <2>4, HeadTailAppend
      <4>4. Head(L) = x /\ Tail(L) = Append(T, y) BY <2>4, <2>5, <4>1, <4>2, <4>3
      <4>5. L # <<>> /\ Append(T, y) \in Seq(Request) BY <4>1, <4>2, AppendProperties
      <4>6. Tail(L) = Append(wire' \o jobs', req'[r]) BY <1>1, <3>2, <4>2, <4>4
      <4>7. Outgoing(Tail(L))' BY <3>1, <4>1, <4>6 DEF Outgoing
      <4> QED BY <4>4, <4>5, <4>7
    <3> QED BY <2>2, <2>3, <3>3, <3>4 DEF Outgoing
  <2>7. PICK q \in Seq(Ids) : q = pend[x.t] BY <1>4, <1>6
  <2>8. q # <<>> /\ Head(q) = x.id /\ Lists(Tail(q), Tail(L), x.t)
    <3>1. Lists(q, L, x.t) BY <1>4, <2>2, <2>7
    <3>2. Head(L).t = x.t /\ Head(L).id = x.id BY <2>6
    <3>3. q # <<>> /\ Head(q) = Head(L).id /\ Lists(Tail(q), Tail(L), x.t)
      BY <2>6, <3>1, <3>2, ListsHead
    <3> QED BY <3>2, <3>3
  <2>9. pend' = [pend EXCEPT ![x.t] = Tail(q)] BY <1>1, <1>3, <2>1, <2>7, <2>8
  <2>10. ASSUME NEW t \in Targets PROVE Lists(pend'[t], Tail(L), t)
    <3>1. CASE t = x.t BY <1>6, <2>8, <2>9, <3>1
    <3>2. CASE t # x.t
      <4>1. PICK s \in Seq(Ids) : s = pend[t] BY <1>6
      <4>2. Lists(s, L, t) BY <2>2, <4>1
      <4>3. Head(L).t # t BY <2>6, <3>2
      <4>4. Lists(s, Tail(L), t) BY <2>6, <4>2, <4>3, ListsSkip
      <4> QED BY <1>6, <2>9, <3>2, <4>1, <4>4
    <3> QED BY <3>1, <3>2
  <2>11. ASSUME NEW m \in Msgids, NEW i \in Ids, Claims(m, i)'
         PROVE  m \in DOMAIN truth' /\ truth'[m] = i
    <3>1. Head(pend[Head(wire).t]) = x.id /\ pend[Head(wire).t] # <<>> BY <1>3, <2>7, <2>8
    <3>2. \A k \in Msgids, j \in Ids : Claims(k, j)' =>
            Claims(k, j) \/ (k \in ToSet(ms) /\ j = Head(pend[Head(wire).t]))
      BY <2>1, <3>1, EchoBinds
    <3>3. Claims(m, i) \/ (m \in ToSet(ms) /\ i = x.id) BY <2>11, <3>1, <3>2
    <3>4. CASE Claims(m, i)
      <4>1. m \in DOMAIN truth /\ truth[m] = i BY <2>1, <3>4 DEF OrderInv
      <4> QED BY <1>5, <4>1
    <3>5. CASE m \in ToSet(ms) /\ i = x.id BY <1>5, <3>5
    <3> QED BY <3>3, <3>4, <3>5
  <2> QED BY <2>6, <2>10, <2>11
<1> QED BY <1>5, <1>7 DEF OrderInv

(* A message of somebody else touches no send of ours. *)
LEMMA DispatchMessageOrder ==
  ASSUME CoreInv, OrderInv, NEW t \in Targets, NEW ms \in Fresh, DispatchMessage(t, ms)
  PROVE  OrderInv'
<1>1. PICK id : id = lastId + 1 OBVIOUS
<1>2. /\ Issue(ms, id) /\ clean' = clean /\ pend' = pend /\ jobs' = jobs /\ req' = req /\ wire' = wire
  BY <1>1 DEF DispatchMessage, link, races
<1>3. /\ DOMAIN truth' \subseteq 1 .. lastMsg'
      /\ \A m \in DOMAIN truth : m \in DOMAIN truth' /\ truth'[m] = truth[m]
      /\ \A m \in ToSet(ms) : m \in DOMAIN truth' /\ truth'[m] = id
  BY <1>2, IssueFacts
<1>4. \A m \in Msgids, i \in Ids : Claims(m, i)' => Claims(m, i) \/ (m \in ToSet(ms) /\ i = id)
  BY <1>1, DispatchMessageKeeps
<1>5. \A L : Outgoing(L) => Outgoing(L)' BY <1>2 DEF Outgoing, Pushed
<1>6. ASSUME clean'
      PROVE  /\ \E L \in Seq(Request) : Outgoing(L)' /\ \A u \in Targets : Lists(pend'[u], L, u)
             /\ \A m \in Msgids, i \in Ids : Claims(m, i)' => m \in DOMAIN truth' /\ truth'[m] = i
  <2>1. clean BY <1>2, <1>6
  <2>2. PICK L \in Seq(Request) : Outgoing(L) /\ \A u \in Targets : Lists(pend[u], L, u)
    BY <2>1 DEF OrderInv
  <2>3. Outgoing(L)' /\ \A u \in Targets : Lists(pend'[u], L, u) BY <1>2, <1>5, <2>2
  <2>4. \A m \in Msgids, i \in Ids : Claims(m, i) => m \in DOMAIN truth /\ truth[m] = i
    BY <2>1 DEF OrderInv
  <2> QED BY <1>3, <1>4, <2>3, <2>4
<1> QED BY <1>3, <1>6 DEF OrderInv

\* Nothing is on its way when the process starts.
LEMMA NothingOutgoing ==
  /\ \A t : Lists(<<>>, <<>>, t)
  /\ wire = <<>> /\ jobs = <<>> /\ req = [r \in Reqs |-> Idle] => Outgoing(<<>>)
<1>1. \A t : Lists(<<>>, <<>>, t)
  <2>1. Len(<<>>) = 0 /\ 1 .. 0 = {} BY EmptySeq
  <2> DEFINE f == [k \in {} |-> k]
  <2>2. f \in [{} -> {}] OBVIOUS
  <2> HIDE DEF f
  <2> QED BY <2>1, <2>2 DEF Lists
<1>2. ASSUME wire = <<>>, jobs = <<>>, req = [r \in Reqs |-> Idle] PROVE Outgoing(<<>>)
  <2>1. Pushed = {} BY <1>2, IdleFacts DEF Pushed
  <2>2. <<>> \o <<>> = <<>>
    <3>1. <<>> \in Seq(Request) BY EmptySeq
    <3> QED BY <3>1, ConcatEmptySeq
  <2> QED BY <1>2, <2>1, <2>2 DEF Outgoing
<1> QED BY <1>1, <1>2

(* OrderInv holds when nothing was sent. *)
LEMMA OrderInit == Init => OrderInv
<1> SUFFICES ASSUME Init PROVE OrderInv OBVIOUS
<1>1. /\ s2m = Empty /\ m2r = Empty /\ rows = Empty /\ idx = Empty /\ loop = Idle /\ truth = Empty
      /\ wire = <<>> /\ jobs = <<>> /\ req = [r \in Reqs |-> Idle]
      /\ pend = [t \in Targets |-> <<>>]
  BY DEF Init
<1>2. DOMAIN Empty = {} BY DEF Empty
<1>3. \A m, i : ~Claims(m, i) BY <1>1, <1>2 DEF Claims
<1>4. Outgoing(<<>>) /\ \A t \in Targets : Lists(pend[t], <<>>, t) BY <1>1, NothingOutgoing
<1>5. <<>> \in Seq(Request) BY EmptySeq
<1> QED BY <1>1, <1>2, <1>3, <1>4, <1>5 DEF OrderInv

(* A restart empties the outgoing line and the pending sends at once. *)
LEMMA RestartOrder == ASSUME CoreInv, OrderInv, Restart PROVE OrderInv'
<1>1. /\ wire' = <<>> /\ jobs' = <<>> /\ req' = [r \in Reqs |-> Idle]
      /\ pend' = [t \in Targets |-> <<>>] /\ clean' = clean /\ truth' = truth /\ lastMsg' = lastMsg
  BY DEF Restart
<1>2. NoNewClaims BY RestartKeeps
<1>3. Pushed' = {} BY <1>1, IdleFacts DEF Pushed
<1>4. <<>> \in Seq(Request) BY EmptySeq
<1>5. wire' \o jobs' = <<>> BY <1>1, <1>4, ConcatEmptySeq
<1>6. Outgoing(<<>>)' BY <1>3, <1>5 DEF Outgoing
<1>7. \A t \in Targets : Lists(pend'[t], <<>>, t) BY <1>1, NothingOutgoing
<1> QED BY <1>1, <1>2, <1>4, <1>6, <1>7 DEF OrderInv, NoNewClaims

(* Every step of the relay keeps OrderInv: one lemma per action that moves a send. *)
LEMMA OrderStep == CoreInv /\ OrderInv /\ [Next]_vars => OrderInv'
<1> SUFFICES ASSUME CoreInv, OrderInv, [Next]_vars PROVE OrderInv' OBVIOUS
<1>1. req \in [Reqs -> {Idle} \cup Request] BY DEF CoreInv, RelayTypes
<1>2. ASSUME NoNewClaims, clean' => clean, truth' = truth, lastMsg' = lastMsg, pend' = pend,
             jobs' = jobs, clean' => wire' = wire, Pushed' = Pushed, \A r \in Pushed : req'[r] = req[r]
      PROVE  OrderInv'
  <2>1. ASSUME NEW L, clean', Outgoing(L) PROVE Outgoing(L)'
    <3>1. wire' = wire /\ jobs' = jobs BY <1>2, <2>1
    <3>2. CASE Pushed = {} /\ L = wire \o jobs BY <1>2, <3>1, <3>2 DEF Outgoing
    <3>3. CASE \E r \in Reqs : Pushed = {r} /\ L = Append(wire \o jobs, req[r])
      <4>1. PICK r \in Reqs : Pushed = {r} /\ L = Append(wire \o jobs, req[r]) BY <3>3
      <4>2. req'[r] = req[r] BY <1>2, <4>1
      <4>3. Pushed' = {r} /\ L = Append(wire' \o jobs', req'[r]) BY <1>2, <3>1, <4>1, <4>2
      <4> QED BY <4>3 DEF Outgoing
    <3> QED BY <2>1, <3>2, <3>3 DEF Outgoing
  <2> QED BY <1>2, <2>1, OrderCarry
<1>3. ASSUME NEW r \in Reqs, Rest(r) PROVE OrderInv'
  <2>1. ASSUME NEW t \in Targets, NEW n \in Nonces \cup {None}, NEW w \in 1 .. 2, SendCheck(r, t, n, w)
        PROVE  OrderInv'
    <3>1. /\ req[r] = Idle /\ clean' = clean /\ truth' = truth /\ lastMsg' = lastMsg /\ pend' = pend
          /\ jobs' = jobs /\ wire' = wire
          /\ req' = [req EXCEPT ![r] = [Idle EXCEPT !.pc = "minted", !.id = lastId + 1,
                                                    !.t = t, !.nonce = n, !.w = w]]
      BY <2>1 DEF SendCheck, link
    <3>2. NoNewClaims BY <2>1, SendCheckKeeps
    <3>3. PICK x : x = [Idle EXCEPT !.pc = "minted", !.id = lastId + 1, !.t = t, !.nonce = n, !.w = w]
      OBVIOUS
    <3>4. x.pc = "minted" /\ req[r].pc = "idle" BY <3>1, <3>3 DEF Idle
    <3>5. req' = [req EXCEPT ![r] = x] BY <3>1, <3>3
    <3>6. Pushed' = Pushed /\ \A q \in Pushed : req'[q] = req[q] BY <1>1, <3>4, <3>5 DEF Pushed
    <3> QED BY <1>2, <3>1, <3>2, <3>6
  <2>2. CASE SendPush(r) BY <2>2, SendPushOrder
  <2>3. CASE enqueueSend(r) BY <2>3, enqueueSendOrder
  <2>4. CASE SendStore(r)
    <3>1. /\ req[r].pc = "queued" /\ clean' = clean /\ truth' = truth /\ lastMsg' = lastMsg
          /\ pend' = pend /\ jobs' = jobs /\ wire' = wire /\ req' = [req EXCEPT ![r] = Idle]
      BY <2>4 DEF SendStore, link, races
    <3>2. NoNewClaims BY <2>4, SendStoreKeeps
    <3>3. Pushed' = Pushed /\ \A q \in Pushed : req'[q] = req[q] BY <1>1, <3>1, IdleFacts DEF Pushed
    <3> QED BY <1>2, <3>1, <3>2, <3>3
  <2>5. ASSUME NEW id \in Ids, HandleDeleteMessage(r, id) PROVE OrderInv'
    <3>1. /\ clean' = clean /\ truth' = truth /\ lastMsg' = lastMsg
          /\ pend' = pend /\ jobs' = jobs /\ wire' = wire /\ req' = req
      BY <2>5 DEF HandleDeleteMessage, link, races
    <3>2. NoNewClaims BY <2>5, HandleDeleteMessageKeeps
    <3>3. Pushed' = Pushed BY <3>1 DEF Pushed
    <3> QED BY <1>2, <3>1, <3>2, <3>3
  <2> QED BY <1>3, <2>1, <2>2, <2>3, <2>4, <2>5 DEF Rest
<1>4. CASE EventLoop
  <2>1. ASSUME NEW ms \in Fresh, Echo(ms) PROVE OrderInv' BY <2>1, EchoOrder
  <2>2. ASSUME NEW t \in Targets, NEW ms \in Fresh, DispatchMessage(t, ms) PROVE OrderInv'
    BY <2>2, DispatchMessageOrder
  <2>3. CASE DispatchStore
    <3>1. /\ clean' = clean /\ truth' = truth /\ lastMsg' = lastMsg
          /\ pend' = pend /\ jobs' = jobs /\ wire' = wire /\ req' = req
      BY <2>3 DEF DispatchStore, link, races
    <3>2. NoNewClaims BY <2>3, DispatchStoreKeeps
    <3>3. Pushed' = Pushed BY <3>1 DEF Pushed
    <3> QED BY <1>2, <3>1, <3>2, <3>3
  <2>4. ASSUME NEW m \in Msgids, ApplyRedaction(m) PROVE OrderInv'
    <3>1. /\ clean' = clean /\ truth' = truth /\ lastMsg' = lastMsg
          /\ pend' = pend /\ jobs' = jobs /\ wire' = wire /\ req' = req
      BY <2>4 DEF ApplyRedaction, link, races
    <3>2. NoNewClaims BY <2>4, ApplyRedactionKeeps
    <3>3. Pushed' = Pushed BY <3>1 DEF Pushed
    <3> QED BY <1>2, <3>1, <3>2, <3>3
  <2> QED BY <1>4, <2>1, <2>2, <2>3, <2>4 DEF EventLoop
<1>5. CASE runSendWorker BY <1>5, runSendWorkerOrder
<1>6. CASE LinkDrops \/ LinkReturns \/ UNCHANGED vars
  <2>1. /\ clean' => clean
        /\ clean' => wire' = wire
        /\ truth' = truth /\ lastMsg' = lastMsg /\ pend' = pend /\ jobs' = jobs /\ req' = req
    <3>1. CASE LinkDrops BY <3>1 DEF LinkDrops
    <3>2. CASE LinkReturns BY <3>2 DEF LinkReturns, races
    <3>3. CASE UNCHANGED vars BY <3>3 DEF vars, link, races
    <3> QED BY <1>6, <3>1, <3>2, <3>3
  <2>2. NoNewClaims BY <1>6, LinkKeeps
  <2>3. Pushed' = Pushed BY <2>1 DEF Pushed
  <2> QED BY <1>2, <2>1, <2>2, <2>3
<1>7. CASE Restart BY <1>7, RestartOrder
<1> QED BY <1>3, <1>4, <1>5, <1>6, <1>7 DEF Next

\* While nothing broke the order of the sends, an echo finds the message it
\* echoes at the head of the queue (pushPendingSend, popPendingSend).
THEOREM EchoesMatchWhileClean == Spec => []EchoMatchesClean
<1>1. CoreInv /\ OrderInv => EchoMatchesClean
  <2> SUFFICES ASSUME CoreInv, OrderInv, clean PROVE EchoMatchesClean BY DEF EchoMatchesClean
  <2>1. \A m \in Msgids, i \in Ids : Claims(m, i) => m \in DOMAIN truth /\ truth[m] = i
    BY DEF OrderInv
  <2>2. m2r \in Partial(Msgids, Ids) /\ idx \in Partial(Msgids, Ids) /\ s2m \in Partial(Ids, Msgids)
    BY RegistryFacts DEF CoreInv, RelayTypes
  <2>3. /\ DOMAIN m2r \subseteq Msgids /\ DOMAIN idx \subseteq Msgids /\ idx \in [DOMAIN idx -> Ids]
        /\ DOMAIN s2m \subseteq Ids
    BY <2>2, PartialFact
  <2>4. \A i \in DOMAIN s2m : s2m[i] \in DOMAIN m2r /\ m2r[s2m[i]] = i BY RegistryFacts DEF CoreInv
  <2>5. ASSUME NEW i \in DOMAIN s2m PROVE truth[s2m[i]] = i
    <3>1. Claims(s2m[i], i) /\ s2m[i] \in Msgids /\ i \in Ids BY <2>3, <2>4 DEF Claims
    <3> QED BY <2>1, <3>1
  <2>6. ASSUME NEW m \in DOMAIN idx PROVE truth[m] = idx[m]
    <3>1. Claims(m, idx[m]) /\ m \in Msgids /\ idx[m] \in Ids BY <2>3 DEF Claims
    <3> QED BY <2>1, <3>1
  <2> QED BY <2>5, <2>6 DEF EchoMatchesClean
<1> QED BY <1>1, CoreAlways, OrderInit, OrderStep, PTL DEF Spec

=============================================================================
