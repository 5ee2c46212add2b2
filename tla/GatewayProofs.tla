--------------------------- MODULE GatewayProofs ---------------------------
(***************************************************************************)
(* Theorems about Gateway and about FlushUser on top of it (GatewayFlush), *)
(* for any connections, sessions, users, dispatchers and flushers, any     *)
(* queue capacity and any replay limit.                                    *)
(***************************************************************************)
EXTENDS GatewayFlush, SequenceTheorems, TLAPS

-----------------------------------------------------------------------------
(* The replay log *)

\* Recording keeps a log a log, whichever oldest frames the byte bound takes.
LEMMA RecordType ==
    ASSUME NEW S, NEW log \in Seq(S), NEW n \in S, NEW k \in 0..Len(log)
    PROVE  Record(log, n, k) \in Seq(S)
<1> DEFINE appended == Append(log, n)
           kept     == SubSeq(appended, k + 1, Len(appended))
<1>1. appended \in Seq(S) /\ Len(appended) = Len(log) + 1
  BY AppendProperties
<1>2. \A i \in (k + 1)..Len(appended) : appended[i] \in S
  BY <1>1, ElementOfSeq
<1>3. kept \in Seq(S)
  <2> HIDE DEF appended
  <2>1. k + 1 \in Int /\ Len(appended) \in Int
    BY <1>1
  <2> QED BY <1>2, <2>1, SubSeqProperties
<1>4. TrimToLimit(kept) \in Seq(S)
  <2> HIDE DEF kept
  <2>1. CASE Len(kept) > ReplayLimit
    <3>1. Len(kept) - ReplayLimit + 1 \in Int /\ Len(kept) \in Int
      BY <1>3, ReplayLimitAssumption
    <3>2. \A i \in (Len(kept) - ReplayLimit + 1)..Len(kept) : kept[i] \in S
      BY <1>3, <2>1, <3>1, ReplayLimitAssumption, ElementOfSeq
    <3>3. SubSeq(kept, Len(kept) - ReplayLimit + 1, Len(kept)) \in Seq(S)
      BY <3>1, <3>2, SubSeqProperties
    <3> QED BY <2>1, <3>3 DEF TrimToLimit
  <2>2. CASE ~(Len(kept) > ReplayLimit)
    BY <1>3, <2>2 DEF TrimToLimit
  <2> QED BY <2>1, <2>2
<1> QED BY <1>4 DEF Record

-----------------------------------------------------------------------------
(* Types *)

\* The part of TypeOK about the variables that sessions and sockets share.
SharedTypes ==
    /\ seq \in [Sess -> Nat]
    /\ events \in [Sess -> Seq(Nat)]
    /\ send \in [Sess -> Conn \cup {None}]
    /\ detached \in [Sess -> {"zero", "recent", "expired"}]
    /\ liveFrom \in [Sess -> Nat]
    /\ queue \in [Conn -> Seq(Request)]
    /\ chanOpen \in [Conn -> BOOLEAN]
    /\ pump \in [Conn -> {"off", "run", "stopped"}]
    /\ sockUp \in [Conn -> BOOLEAN]
    /\ wire \in [Conn -> Seq(Nat)]
    /\ seen \in [Sess -> Nat]

\* attach keeps the types of what sessions and sockets share.
LEMMA AttachTypes ==
    ASSUME SharedTypes, NEW s \in Sess, NEW c \in Conn, attach(s, c)
    PROVE  SharedTypes'
BY DEF SharedTypes, attach

\* So does sendFrameLocked: it queues the frame, or closes the queue and detaches.
LEMMA SendFrameTypes ==
    ASSUME SharedTypes, NEW s \in Sess, NEW req \in Request, sendFrameLocked(s, req)
    PROVE  /\ send' \in [Sess -> Conn \cup {None}]
           /\ detached' \in [Sess -> {"zero", "recent", "expired"}]
           /\ queue' \in [Conn -> Seq(Request)]
           /\ chanOpen' \in [Conn -> BOOLEAN]
<1>1. CASE send[s] = None /\ UNCHANGED <<send, detached, queue, chanOpen>>
  BY <1>1 DEF SharedTypes
<1>2. CASE /\ send[s] # None
           /\ queue' = [queue EXCEPT ![send[s]] = Append(@, req)]
           /\ UNCHANGED <<send, detached, chanOpen>>
  <2>1. send[s] \in Conn /\ queue[send[s]] \in Seq(Request)
    BY <1>2 DEF SharedTypes
  <2>2. Append(queue[send[s]], req) \in Seq(Request)
    BY <2>1, AppendProperties
  <2> QED BY <1>2, <2>1, <2>2 DEF SharedTypes
<1>3. CASE /\ send[s] # None
           /\ chanOpen' = [chanOpen EXCEPT ![send[s]] = FALSE]
           /\ send' = [send EXCEPT ![s] = None]
           /\ detached' = [detached EXCEPT ![s] = "recent"]
           /\ UNCHANGED queue
  BY <1>3 DEF SharedTypes
<1> QED BY <1>1, <1>2, <1>3 DEF sendFrameLocked

\* So does dispatchRaw: it numbers, records and sends.
LEMMA DispatchTypes ==
    ASSUME SharedTypes, NEW s \in Sess, NEW t \in {"READY", "RESUMED", "event"},
           dispatchRaw(s, t)
    PROVE  SharedTypes'
<1>1. seq[s] + 1 \in Nat
  BY DEF SharedTypes
<1>2. DispatchFrame(t, seq[s] + 1) \in Request
  BY <1>1 DEF DispatchFrame, Request
<1>3. sendFrameLocked(s, DispatchFrame(t, seq[s] + 1))
  BY DEF dispatchRaw
<1>4. seq' \in [Sess -> Nat]
  BY <1>1 DEF SharedTypes, dispatchRaw
<1>5. events' \in [Sess -> Seq(Nat)]
  <2>1. CASE t = "RESUMED"
    BY <2>1 DEF SharedTypes, dispatchRaw
  <2>2. CASE t # "RESUMED"
    <3>1. PICK k \in 0..Len(events[s]) :
             events' = [events EXCEPT ![s] = Record(@, seq[s] + 1, k)]
      BY <2>2 DEF dispatchRaw, Evictable
    <3>2. events[s] \in Seq(Nat)
      BY DEF SharedTypes
    <3>3. Record(events[s], seq[s] + 1, k) \in Seq(Nat)
      BY <1>1, <3>2, RecordType
    <3> QED BY <3>1, <3>3 DEF SharedTypes
  <2> QED BY <2>1, <2>2
<1>6. UNCHANGED <<liveFrom, pump, sockUp, wire, seen>>
  BY DEF dispatchRaw
<1> QED BY <1>2, <1>3, <1>4, <1>5, <1>6, SendFrameTypes DEF SharedTypes

\* trySend queues its frame, or ends the handler.
LEMMA TrySendTypes ==
    ASSUME TypeOK, NEW c \in Conn, NEW req \in Request, trySend(c, req)
    PROVE  /\ queue' \in [Conn -> Seq(Request)]
           /\ pc' \in [Conn -> PC]
           /\ \A b \in Conn : pc'[b] \in WithSession => pc[b] \in WithSession
           /\ sockUp' \in [Conn -> BOOLEAN]
<1>1. queue[c] \in Seq(Request)
  BY DEF TypeOK
<1>2. Append(queue[c], req) \in Seq(Request)
  BY <1>1, AppendProperties
<1> QED BY ZenonT(60), <1>2 DEF TypeOK, trySend, Leave, PC, WithSession

\* A frame without a sequence number is a write request.
LEMMA OpFrameType == OpFrame \in Request
BY DEF OpFrame, Request

\* A server without sessions and sockets is well typed.
LEMMA InitTypes == Init => TypeOK
BY MaxDispatchAssumption DEF Init, TypeOK, PC, WithSession

\* A step that moves a connection with a session on, or leaves it, and changes
\* besides only what sessions and sockets share.
LEMMA SharedStep ==
    ASSUME TypeOK, SharedTypes', NEW c \in Conn, sess[c] # None,
           pc' \in [Conn -> PC], \A b \in Conn \ {c} : pc'[b] = pc[b],
           budget' \in 0..MaxDispatch,
           UNCHANGED <<serverVars, sess, token, since, left, targets, duser>>
    PROVE  TypeOK'
BY DEF TypeOK, SharedTypes, serverVars

\* Every step of one connection keeps the types.
LEMMA ConnTypes ==
    ASSUME TypeOK, NEW c \in Conn,
           \/ Open(c) \/ Heartbeat(c) \/ Identify(c) \/ OpReply(c) \/ Resume(c)
           \/ ReadEnds(c) \/ CloseWS(c) \/ Pump(c)
    PROVE  TypeOK'
<1> USE DEF serverVars, sessionVars, connVars, sockVars, dispatchVars
<1>a. SharedTypes
  BY DEF TypeOK, SharedTypes
<1>b. pc[c] \in WithSession => sess[c] \in Sess /\ sess[c] # None
  BY DEF TypeOK
<1>1. CASE Open(c)
  <2>1. Append(queue[c], OpFrame) \in Seq(Request)
    BY OpFrameType, AppendProperties DEF TypeOK
  <2> QED BY <1>1, <2>1 DEF TypeOK, Open, PC, WithSession
<1>2. CASE Heartbeat(c)
  BY <1>2, OpFrameType, TrySendTypes DEF TypeOK, Heartbeat
<1>3. ASSUME NEW u \in User, IdentifyLock(c, u) PROVE TypeOK'
  BY <1>3 DEF TypeOK, IdentifyLock, ReapTest, PC, WithSession
<1>4. ASSUME NEW s \in Sess, IdentifyCreate(c, s) PROVE TypeOK'
  <2>1. events' \in [Sess -> Seq(Nat)]
    BY <1>4, EmptySeq DEF TypeOK, IdentifyCreate, ReapRemove
  <2>2. s # None
    BY NoneAssumption
  <2> QED BY <1>4, <2>1, <2>2 DEF TypeOK, IdentifyCreate, ReapRemove, PC, WithSession
<1>5. CASE IdentifyAttach(c) \/ ResumeAttach(c)
  <2>1. pc[c] \in WithSession /\ attach(sess[c], c)
    BY <1>5 DEF IdentifyAttach, ResumeAttach, WithSession
  <2>2. SharedTypes'
    BY <1>a, <1>b, <2>1, AttachTypes
  <2>3. pc' \in [Conn -> PC] /\ \A b \in Conn \ {c} : pc'[b] = pc[b]
    BY <1>5 DEF IdentifyAttach, ResumeAttach, TypeOK, PC
  <2>4. budget' \in 0..MaxDispatch
    BY <1>5 DEF IdentifyAttach, ResumeAttach, TypeOK
  <2> QED BY <1>5, <1>b, <2>1, <2>2, <2>3, <2>4, SharedStep
             DEF IdentifyAttach, ResumeAttach
<1>6. CASE IdentifyReady(c) \/ GuildCreate(c) \/ OpReply(c) \/ ResumeResumed(c)
  <2>1. pc[c] \in WithSession
    BY <1>6 DEF IdentifyReady, GuildCreate, OpReply, ResumeResumed, WithSession
  <2>2. \E t \in {"READY", "RESUMED", "event"} : dispatchRaw(sess[c], t)
    BY <1>6 DEF IdentifyReady, GuildCreate, OpReply, ResumeResumed
  <2>3. SharedTypes'
    BY <1>a, <1>b, <2>1, <2>2, DispatchTypes
  <2>4. pc' \in [Conn -> PC] /\ \A b \in Conn \ {c} : pc'[b] = pc[b]
    BY <1>6 DEF IdentifyReady, GuildCreate, OpReply, ResumeResumed, TypeOK, PC
  <2>5. budget' \in 0..MaxDispatch
    BY <1>6, MaxDispatchAssumption
       DEF IdentifyReady, GuildCreate, OpReply, ResumeResumed, TypeOK
  <2> QED BY <1>6, <1>b, <2>1, <2>3, <2>4, <2>5, SharedStep
             DEF IdentifyReady, GuildCreate, OpReply, ResumeResumed
<1>7. CASE GuildsDone(c)
  BY <1>7, <1>b DEF TypeOK, GuildsDone, PC, WithSession
<1>8. ASSUME NEW u \in User, NEW s \in Sess, ResumeInvalid(c, u, s) PROVE TypeOK'
  BY <1>8, OpFrameType, TrySendTypes DEF TypeOK, ResumeInvalid
<1>9. ASSUME NEW u \in User, NEW s \in Sess, NEW n \in 1..seen[s],
             ResumeFind(c, u, s, n)
      PROVE  TypeOK'
  <2>1. s # None
    BY NoneAssumption
  <2> QED BY <1>9, <2>1 DEF TypeOK, ResumeFind, PC, WithSession
<1>10. CASE ReplayLock(c)
  <2>1. events[sess[c]] \in Seq(Nat)
    BY <1>10, <1>b DEF TypeOK, ReplayLock, WithSession
  <2> QED BY <1>10, <1>b, <2>1 DEF TypeOK, ReplayLock, PC, WithSession
<1>11. CASE ReplaySkip(c)
  <2>1. Tail(left[c]) \in Seq(Nat)
    BY <1>11, HeadTailProperties DEF TypeOK, ReplaySkip
  <2> QED BY <1>11, <2>1 DEF TypeOK, ReplaySkip
<1>12. CASE ReplaySend(c)
  <2>1. Tail(left[c]) \in Seq(Nat) /\ Head(left[c]) \in Nat
    BY <1>12, HeadTailProperties DEF TypeOK, ReplaySend
  <2>2. DispatchFrame("event", Head(left[c])) \in Request
    BY <2>1 DEF DispatchFrame, Request
  <2> QED BY <1>12, <2>1, <2>2, TrySendTypes DEF TypeOK, ReplaySend
<1>13. CASE ReplayUnlock(c)
  BY <1>13, <1>b DEF TypeOK, ReplayUnlock, PC, WithSession
<1>14. CASE ReadEnds(c)
  BY <1>14 DEF TypeOK, ReadEnds, Leave, detach, PC, WithSession
<1>15. CASE CloseWS(c)
  BY <1>15 DEF TypeOK, CloseWS, Leave, PC, WithSession
<1>16. CASE Pump(c)
  <2>1. CASE queue[c] # <<>>
    <3>1. Head(queue[c]) \in Request /\ Tail(queue[c]) \in Seq(Request)
      BY <2>1, HeadTailProperties DEF TypeOK
    <3>2. Head(queue[c]).seq \in Nat
      BY <3>1 DEF Request
    <3>3. Append(wire[c], Head(queue[c]).seq) \in Seq(Nat)
      BY <3>2, AppendProperties DEF TypeOK
    <3>4. <<>> \in Seq(Nat)
      BY EmptySeq
    <3>5. CASE PumpWrite(c)
      BY <3>5, <3>1, <3>2, <3>3 DEF TypeOK, PumpWrite
    <3>6. CASE PumpFail(c)
      BY <3>6, <3>1, <3>4 DEF TypeOK, PumpFail, PumpStops
    <3>7. CASE PumpEnd(c)
      BY <3>7, <3>4 DEF TypeOK, PumpEnd, PumpStops
    <3> QED BY <1>16, <3>5, <3>6, <3>7 DEF Pump
  <2>2. CASE queue[c] = <<>>
    <3>1. PumpEnd(c)
      BY <1>16, <2>2 DEF Pump, PumpWrite, PumpFail
    <3>2. <<>> \in Seq(Nat)
      BY EmptySeq
    <3> QED BY <3>1, <3>2 DEF TypeOK, PumpEnd, PumpStops
  <2> QED BY <2>1, <2>2
<1> QED BY <1>1, <1>2, <1>3, <1>4, <1>5, <1>6, <1>7, <1>8, <1>9, <1>10, <1>11,
           <1>12, <1>13, <1>14, <1>15, <1>16 DEF Identify, Resume

\* Every step of a dispatcher, and the clock, keep the types.
LEMMA DispatcherTypes ==
    ASSUME TypeOK, NEW d \in Dispatcher, Dispatch(d)
    PROVE  TypeOK'
<1> USE DEF serverVars, sessionVars, connVars, sockVars, dispatchVars
<1>1. ASSUME NEW u \in User, DispatchLock(d, u) PROVE TypeOK'
  BY <1>1, MaxDispatchAssumption DEF TypeOK, DispatchLock, ReapTest
<1>2. CASE DispatchSnapshot(d)
  <2>1. events' \in [Sess -> Seq(Nat)]
    BY <1>2, EmptySeq DEF TypeOK, DispatchSnapshot, ReapRemove
  <2> QED BY <1>2, <2>1 DEF TypeOK, DispatchSnapshot, ReapRemove
<1>3. ASSUME NEW s \in Sess, DispatchDeliver(d, s) PROVE TypeOK'
  <2>1. SharedTypes
    BY DEF TypeOK, SharedTypes
  <2>2. SharedTypes'
    BY <1>3, <2>1, DispatchTypes DEF DispatchDeliver
  <2> QED BY <1>3, <2>2 DEF TypeOK, SharedTypes, DispatchDeliver
<1> QED BY <1>1, <1>2, <1>3 DEF Dispatch

\* Every step of handlers, pumps, dispatchers and the reaper keeps the types.
LEMMA NextTypes == TypeOK /\ [Next]_vars => TypeOK'
<1> SUFFICES ASSUME TypeOK, [Next]_vars PROVE TypeOK'
  OBVIOUS
<1>1. ASSUME NEW s \in Sess, Expire(s) PROVE TypeOK'
  BY <1>1 DEF TypeOK, Expire, serverVars, connVars, sockVars, dispatchVars
<1>2. CASE UNCHANGED vars
  BY <1>2 DEF TypeOK, vars, serverVars, sessionVars, connVars, sockVars, dispatchVars
<1> QED BY <1>1, <1>2, ConnTypes, DispatcherTypes DEF Next

\* Type correctness: every variable keeps its type, a registered or a
\* snapshotted session was created, and a connection past its lookup has a
\* session (server.go, handleConn: sess and old are not nil when used).
THEOREM TypeCorrect == Spec => []TypeOK
BY InitTypes, NextTypes, PTL DEF Spec

-----------------------------------------------------------------------------
(* Who writes to whom *)

\* Where a connection's queue may have been some session's writer.
Attached == {"identified", "guilds", "attached", "replaying", "replayed",
             "live", "gone", "panicked"}

\* WriterOpen made inductive.  A queue can only be closed by the session that
\* holds it, so what is missing is which session that can be (the one the
\* connection works on) and since when (its attach).
WriterInv ==
    /\ \A s \in Sess : send[s] # None =>
          /\ chanOpen[send[s]]
          /\ sess[send[s]] = s
          /\ pc[send[s]] \in Attached
    /\ \A c \in Conn : pc[c] \notin Attached => chanOpen[c]

\* The strengthened invariant gives the property.
LEMMA WriterInvImpliesOpen == TypeOK /\ WriterInv => WriterOpen
BY DEF TypeOK, WriterInv, WriterOpen

\* A step that leaves writers and queues alone, and the session of every
\* connection that ever was attached.
LEMMA QuietWriter ==
    ASSUME TypeOK, WriterInv, UNCHANGED <<send, chanOpen>>,
           \A b \in Conn : pc[b] \in Attached =>
               pc'[b] \in Attached /\ sess'[b] = sess[b]
    PROVE  WriterInv'
BY DEF TypeOK, WriterInv

\* A connection attaches once, with a queue that is still open.
LEMMA AttachWriter ==
    ASSUME TypeOK, WriterInv, NEW c \in Conn, sess[c] \in Sess,
           pc[c] \notin Attached, attach(sess[c], c),
           NEW p \in Attached, pc' = [pc EXCEPT ![c] = p], sess' = sess
    PROVE  WriterInv'
<1> DEFINE s == sess[c]
<1>1. send' = [send EXCEPT ![s] = c] /\ chanOpen[c]
  BY DEF attach, WriterInv
<1>2. \A t \in Sess : send[t] # c
  BY NoneAssumption DEF WriterInv
<1>3. chanOpen'[c]
  BY <1>1 DEF attach, TypeOK
<1>4. ASSUME NEW t \in Sess, t # s, send'[t] # None
      PROVE  chanOpen'[send'[t]] /\ sess'[send'[t]] = t /\ pc'[send'[t]] \in Attached
  <2>1. send'[t] = send[t] /\ send[t] \in Conn /\ send[t] # c
    BY <1>1, <1>2, <1>4 DEF TypeOK
  <2>2. sess[send[t]] = t /\ chanOpen[send[t]] /\ pc[send[t]] \in Attached
    BY <1>4, <2>1 DEF WriterInv
  <2>3. send[s] # send[t]
    BY <1>4, <2>1, <2>2 DEF WriterInv
  <2>4. chanOpen'[send[t]]
    BY <2>1, <2>2, <2>3 DEF attach, TypeOK
  <2> QED BY <2>1, <2>2, <2>4 DEF TypeOK
<1>5. ASSUME send'[s] # None
      PROVE  chanOpen'[send'[s]] /\ sess'[send'[s]] = s /\ pc'[send'[s]] \in Attached
  BY <1>1, <1>3 DEF TypeOK
<1>6. ASSUME NEW b \in Conn, pc'[b] \notin Attached PROVE chanOpen'[b]
  <2>1. b # c /\ pc[b] \notin Attached
    BY <1>6 DEF TypeOK
  <2>2. send[s] # b /\ chanOpen[b]
    BY <2>1, NoneAssumption DEF WriterInv
  <2> QED BY <2>1, <2>2 DEF attach, TypeOK
<1> QED BY <1>4, <1>5, <1>6 DEF WriterInv

\* dispatchRaw closes a queue only in the step that makes its session let go of it.
LEMMA DispatchWriter ==
    ASSUME TypeOK, WriterInv, NEW s \in Sess, NEW t, dispatchRaw(s, t), sess' = sess,
           \A b \in Conn : pc'[b] \in Attached <=> pc[b] \in Attached
    PROVE  WriterInv'
<1>1. CASE UNCHANGED <<send, chanOpen>>
  BY <1>1, QuietWriter
<1>2. CASE /\ send[s] # None
           /\ chanOpen' = [chanOpen EXCEPT ![send[s]] = FALSE]
           /\ send' = [send EXCEPT ![s] = None]
  <2>1. ASSUME NEW u \in Sess, send'[u] # None
        PROVE  chanOpen'[send'[u]] /\ sess'[send'[u]] = u /\ pc'[send'[u]] \in Attached
    <3>1. u # s /\ send'[u] = send[u] /\ send[u] \in Conn
      BY <1>2, <2>1 DEF TypeOK
    <3>2. sess[send[u]] = u /\ sess[send[s]] = s
      BY <1>2, <2>1, <3>1 DEF WriterInv
    <3> QED BY <1>2, <2>1, <3>1, <3>2 DEF WriterInv, TypeOK
  <2>2. ASSUME NEW b \in Conn, pc'[b] \notin Attached PROVE chanOpen'[b]
    BY <1>2, <2>2 DEF WriterInv, TypeOK
  <2> QED BY <2>1, <2>2 DEF WriterInv
<1> QED BY <1>1, <1>2 DEF dispatchRaw, sendFrameLocked

\* Every step keeps WriterInv.
LEMMA NextWriter == TypeOK /\ WriterInv /\ [Next]_vars => WriterInv'
<1> SUFFICES ASSUME TypeOK, WriterInv, [Next]_vars PROVE WriterInv'
  OBVIOUS
<1> USE DEF serverVars, sessionVars, connVars, sockVars, dispatchVars
<1>1. ASSUME NEW c \in Conn,
             \/ Open(c) \/ Heartbeat(c) \/ GuildsDone(c)
             \/ \E u \in User : IdentifyLock(c, u)
             \/ \E s \in Sess : IdentifyCreate(c, s)
             \/ \E u \in User, s \in Sess : ResumeInvalid(c, u, s)
             \/ \E u \in User, s \in Sess : \E n \in 1..seen[s] : ResumeFind(c, u, s, n)
             \/ ReplayLock(c) \/ ReplaySkip(c) \/ ReplaySend(c) \/ ReplayUnlock(c)
             \/ CloseWS(c) \/ Pump(c)
      PROVE  WriterInv'
  <2>1. UNCHANGED <<send, chanOpen>>
    BY <1>1 DEF Open, Heartbeat, GuildsDone, IdentifyLock, IdentifyCreate, ReapRemove,
                ResumeInvalid, ResumeFind, ReplayLock, ReplaySkip, ReplaySend,
                ReplayUnlock, CloseWS, Pump, PumpWrite, PumpFail, PumpEnd
  <2>2. \A b \in Conn : pc[b] \in Attached => pc'[b] \in Attached /\ sess'[b] = sess[b]
    BY <1>1 DEF Open, Heartbeat, GuildsDone, IdentifyLock, IdentifyCreate,
                ResumeInvalid, ResumeFind, ReplayLock, ReplaySkip, ReplaySend,
                ReplayUnlock, CloseWS, Pump, PumpWrite, PumpFail, PumpEnd,
                trySend, Leave, TypeOK, Attached
  <2> QED BY <2>1, <2>2, QuietWriter
<1>2. ASSUME NEW c \in Conn, IdentifyAttach(c) \/ ResumeAttach(c) PROVE WriterInv'
  <2>1. pc[c] \notin Attached /\ sess[c] \in Sess /\ attach(sess[c], c) /\ sess' = sess
    BY <1>2 DEF IdentifyAttach, ResumeAttach, Attached, TypeOK, WithSession
  <2>2. \E p \in Attached : pc' = [pc EXCEPT ![c] = p]
    BY <1>2 DEF IdentifyAttach, ResumeAttach, Attached
  <2> QED BY <2>1, <2>2, AttachWriter
<1>3. ASSUME NEW c \in Conn,
             IdentifyReady(c) \/ GuildCreate(c) \/ OpReply(c) \/ ResumeResumed(c)
      PROVE  WriterInv'
  <2>1. sess[c] \in Sess /\ sess' = sess /\ \E t : dispatchRaw(sess[c], t)
    BY <1>3 DEF IdentifyReady, GuildCreate, OpReply, ResumeResumed, TypeOK, WithSession
  <2>2. \A b \in Conn : pc'[b] \in Attached <=> pc[b] \in Attached
    BY <1>3 DEF IdentifyReady, GuildCreate, OpReply, ResumeResumed, TypeOK, Attached
  <2> QED BY <2>1, <2>2, DispatchWriter
<1>4. ASSUME NEW c \in Conn, ReadEnds(c) PROVE WriterInv'
  <2>1. \A b \in Conn : pc[b] \in Attached => pc'[b] \in Attached
    BY <1>4 DEF ReadEnds, Leave, TypeOK, Attached
  <2>2. chanOpen' = chanOpen /\ sess' = sess
    BY <1>4 DEF ReadEnds
  <2>3. \A s \in Sess : send'[s] = send[s] \/ send'[s] = None
    BY <1>4 DEF ReadEnds, detach, TypeOK
  <2> QED BY <2>1, <2>2, <2>3 DEF WriterInv, TypeOK
<1>5. ASSUME NEW d \in Dispatcher, Dispatch(d) PROVE WriterInv'
  <2>1. CASE \/ \E u \in User : DispatchLock(d, u)
             \/ DispatchSnapshot(d)
    BY <2>1, QuietWriter DEF DispatchLock, DispatchSnapshot, ReapRemove
  <2>2. ASSUME NEW s \in Sess, DispatchDeliver(d, s) PROVE WriterInv'
    BY <2>2, DispatchWriter DEF DispatchDeliver
  <2> QED BY <1>5, <2>1, <2>2 DEF Dispatch
<1>6. ASSUME NEW s \in Sess, Expire(s) PROVE WriterInv'
  BY <1>6, QuietWriter DEF Expire
<1>7. CASE UNCHANGED vars
  BY <1>7, QuietWriter DEF vars
<1> QED BY <1>1, <1>2, <1>3, <1>4, <1>5, <1>6, <1>7 DEF Next, Identify, Resume

\* WriterInv holds in every reachable state.
LEMMA WriterInvariant == Spec => []WriterInv
<1>1. Init => WriterInv
  BY DEF Init, WriterInv
<1> QED BY <1>1, NextWriter, TypeCorrect, PTL DEF Spec

\* A dispatcher never sends into a closed queue and never closes one twice:
\* the queue a session holds is open and held by no other session
\* (session.go, attach, detach, sendFrameLocked).
THEOREM WriterAlwaysOpen == Spec => []WriterOpen
BY WriterInvariant, TypeCorrect, WriterInvImpliesOpen, PTL

-----------------------------------------------------------------------------
(* Whose frames a socket gets *)

\* RightUser made inductive: the session a connection works on belongs to the
\* account of its token, from the moment it has one.
UserInv ==
    \A c \in Conn : sess[c] # None =>
        /\ owner[sess[c]] = token[c]
        /\ pc[c] \notin {"new", "open", "creating"}

\* Only a session of the token's own account becomes the session of a connection.
LEMMA NextUser == TypeOK /\ UserInv /\ [Next]_vars => UserInv'
<1> SUFFICES ASSUME TypeOK, UserInv, [Next]_vars PROVE UserInv'
  OBVIOUS
<1> USE DEF serverVars, sessionVars, connVars, sockVars, dispatchVars
<1>1. ASSUME NEW c \in Conn, NEW u \in User, IdentifyLock(c, u) PROVE UserInv'
  BY <1>1 DEF IdentifyLock, UserInv, TypeOK
<1>2. ASSUME NEW c \in Conn, NEW s \in Sess, IdentifyCreate(c, s) PROVE UserInv'
  BY <1>2 DEF IdentifyCreate, UserInv, TypeOK
<1>3. ASSUME NEW c \in Conn, NEW u \in User, NEW s \in Sess, NEW n \in 1..seen[s],
             ResumeFind(c, u, s, n)
      PROVE  UserInv'
  BY <1>3 DEF ResumeFind, UserInv, TypeOK
<1>4. ASSUME UNCHANGED <<sess, token, owner>>,
             \A c \in Conn : pc'[c] = pc[c] \/ pc'[c] \notin {"new", "open", "creating"}
                               \/ (pc[c] = "new" /\ pc'[c] = "open")
      PROVE  UserInv'
  BY <1>4 DEF UserInv, TypeOK
<1>5. ASSUME NEW c \in Conn,
             \/ Open(c) \/ Heartbeat(c) \/ GuildsDone(c) \/ IdentifyAttach(c)
             \/ IdentifyReady(c) \/ GuildCreate(c) \/ OpReply(c)
             \/ \E u \in User, s \in Sess : ResumeInvalid(c, u, s)
             \/ ResumeAttach(c) \/ ReplayLock(c) \/ ReplaySkip(c) \/ ReplaySend(c)
             \/ ReplayUnlock(c) \/ ResumeResumed(c)
             \/ ReadEnds(c) \/ CloseWS(c) \/ Pump(c)
      PROVE  UserInv'
  <2>1. UNCHANGED <<sess, token, owner>>
    BY <1>5 DEF Open, Heartbeat, GuildsDone, IdentifyAttach, IdentifyReady, GuildCreate,
                OpReply, ResumeInvalid, ResumeAttach, ReplayLock, ReplaySkip, ReplaySend,
                ReplayUnlock, ResumeResumed, ReadEnds, CloseWS,
                Pump, PumpWrite, PumpFail, PumpEnd
  <2>2. \A b \in Conn : pc'[b] = pc[b] \/ pc'[b] \notin {"new", "open", "creating"}
                           \/ (pc[b] = "new" /\ pc'[b] = "open")
    BY <1>5 DEF Open, Heartbeat, GuildsDone, IdentifyAttach, IdentifyReady, GuildCreate,
                OpReply, ResumeInvalid, ResumeAttach, ReplayLock, ReplaySkip, ReplaySend,
                ReplayUnlock, ResumeResumed, ReadEnds, CloseWS,
                Pump, PumpWrite, PumpFail, PumpEnd, trySend, Leave, TypeOK
  <2> QED BY <1>4, <2>1, <2>2
<1>6. ASSUME NEW d \in Dispatcher, Dispatch(d) PROVE UserInv'
  BY <1>6, <1>4 DEF Dispatch, DispatchLock, DispatchSnapshot, DispatchDeliver
<1>7. ASSUME NEW s \in Sess, Expire(s) PROVE UserInv'
  BY <1>7, <1>4 DEF Expire
<1>8. CASE UNCHANGED vars
  BY <1>8, <1>4 DEF vars
<1> QED BY <1>1, <1>2, <1>3, <1>5, <1>6, <1>7, <1>8 DEF Next, Identify, Resume

\* A session's frames only ever go to sockets whose token is its user's: the
\* check RESUME makes once holds for as long as the session is attached
\* (server.go:395).
THEOREM FramesToRightUser == Spec => []RightUser
<1>1. Init => UserInv
  BY DEF Init, UserInv
<1>2. Spec => []UserInv
  BY <1>1, NextUser, TypeCorrect, PTL DEF Spec
<1>3. TypeOK /\ WriterInv /\ UserInv => RightUser
  BY NoneAssumption DEF TypeOK, WriterInv, UserInv, RightUser
<1> QED BY <1>2, <1>3, TypeCorrect, WriterInvariant, PTL

-----------------------------------------------------------------------------
(* No dispatch is lost while the session stays attached *)

\* Append adds one element.
LEMMA ElemsAppend ==
    ASSUME NEW S, NEW q \in Seq(S), NEW x \in S
    PROVE  Elems(Append(q, x)) = Elems(q) \cup {x}
<1>1. /\ DOMAIN q = 1..Len(q) /\ Len(q) \in Nat
      /\ DOMAIN Append(q, x) = 1..(Len(q) + 1)
  BY AppendProperties, LenProperties
<1>2. /\ \A i \in 1..Len(q) : Append(q, x)[i] = q[i]
      /\ Append(q, x)[Len(q) + 1] = x
  BY AppendProperties
<1> QED BY <1>1, <1>2 DEF Elems

\* Head and Tail have the elements between them.
LEMMA ElemsTail ==
    ASSUME NEW S, NEW q \in Seq(S), q # <<>>
    PROVE  Elems(q) = {Head(q)} \cup Elems(Tail(q))
<1>1. /\ DOMAIN q = 1..Len(q) /\ Len(q) \in Nat \ {0}
      /\ Tail(q) \in Seq(S) /\ Len(Tail(q)) = Len(q) - 1
  BY EmptySeq, LenProperties, HeadTailProperties
<1>2. DOMAIN Tail(q) = 1..(Len(q) - 1)
  BY <1>1, LenProperties
<1>3. \A i \in 1..(Len(q) - 1) : Tail(q)[i] = q[i + 1]
  BY <1>1, HeadTailProperties
<1>4. Head(q) = q[1]
  BY <1>1
<1>5. ASSUME NEW i \in 1..Len(q), i # 1 PROVE q[i] \in Elems(Tail(q))
  <2>1. i - 1 \in 1..(Len(q) - 1) /\ q[i] = Tail(q)[i - 1]
    BY <1>1, <1>3, <1>5
  <2> QED BY <1>2, <2>1 DEF Elems
<1>6. \A i \in 1..(Len(q) - 1) : Tail(q)[i] \in Elems(q)
  BY <1>1, <1>3 DEF Elems
<1>7. q[1] \in Elems(q)
  BY <1>1 DEF Elems
<1> QED BY <1>1, <1>2, <1>4, <1>5, <1>6, <1>7 DEF Elems

\* A frame queued is carried, with all that was carried before.
LEMMA CarriesAppend ==
    ASSUME NEW w, NEW q \in Seq(Request), NEW r \in Request
    PROVE  /\ Carries(w, q) \subseteq Carries(w, Append(q, r))
           /\ IsDispatch(r) => r.seq \in Carries(w, Append(q, r))
<1>1. Elems(Append(q, r)) = Elems(q) \cup {r}
  BY ElemsAppend
<1> QED BY <1>1 DEF Carries

\* The pump moves the head of the queue to the socket.
LEMMA CarriesWritten ==
    ASSUME NEW w \in Seq(Nat), NEW q \in Seq(Request), q # <<>>
    PROVE  /\ Carries(w, q) \subseteq Carries(Append(w, Head(q).seq), Tail(q))
           /\ ~IsDispatch(Head(q)) => Carries(w, q) \subseteq Carries(w, Tail(q))
<1>1. Elems(q) = {Head(q)} \cup Elems(Tail(q)) /\ Head(q) \in Request
  BY ElemsTail, HeadTailProperties
<1>2. Head(q).seq \in Nat
  BY <1>1 DEF Request
<1>3. Elems(Append(w, Head(q).seq)) = Elems(w) \cup {Head(q).seq}
  BY <1>2, ElemsAppend
<1> QED BY <1>1, <1>3 DEF Carries

\* NoLiveLoss for one session, as an inclusion.
LiveKept(s) ==
    (send[s] # None /\ pump[send[s]] = "run") =>
        (liveFrom[s] + 1)..seq[s] \subseteq Carries(wire[send[s]], queue[send[s]])

\* NoLiveLoss, session by session.
LEMMA LiveKeptIsNoLiveLoss == NoLiveLoss <=> \A s \in Sess : LiveKept(s)
BY DEF NoLiveLoss, LiveKept, Carries

\* What a connection carries, it keeps carrying while its pump runs.
CarriesOn(c) ==
    pump'[c] = "run" => /\ pump[c] = "run"
                        /\ Carries(wire[c], queue[c]) \subseteq Carries(wire'[c], queue'[c])

\* A session that gets no number and keeps its writer keeps its frames.
LEMMA QuietLive ==
    ASSUME NEW s \in Sess, LiveKept(s),
           seq'[s] = seq[s], liveFrom'[s] = liveFrom[s],
           send'[s] # None => send'[s] = send[s] /\ CarriesOn(send[s])
    PROVE  LiveKept(s)'
BY DEF LiveKept, CarriesOn

\* attach starts with nothing owed and leaves the other sessions alone.
LEMMA AttachLive ==
    ASSUME TypeOK, NEW s \in Sess, NEW c \in Conn, attach(s, c),
           NEW t \in Sess, LiveKept(t)
    PROVE  LiveKept(t)'
<1>1. /\ seq' = seq /\ UNCHANGED <<queue, pump, wire>>
      /\ liveFrom' = [liveFrom EXCEPT ![s] = seq[s]]
      /\ send' = [send EXCEPT ![s] = c]
  BY DEF attach
<1>2. CASE t = s
  <2>1. liveFrom'[t] = seq[t] /\ seq'[t] = seq[t] /\ seq[t] \in Nat
    BY <1>1, <1>2 DEF TypeOK
  <2>2. (liveFrom'[t] + 1)..seq'[t] = {}
    BY <2>1
  <2> QED BY <2>2 DEF LiveKept
<1>3. CASE t # s
  BY <1>1, <1>3, QuietLive DEF CarriesOn, TypeOK
<1> QED BY <1>2, <1>3

\* dispatchRaw takes a number and queues its frame in one step, or detaches.
LEMMA DispatchLive ==
    ASSUME TypeOK, NEW s \in Sess, NEW k \in {"READY", "RESUMED", "event"},
           dispatchRaw(s, k), NEW t \in Sess, LiveKept(t)
    PROVE  LiveKept(t)'
<1> DEFINE frame == DispatchFrame(k, seq[s] + 1)
<1>1. /\ seq' = [seq EXCEPT ![s] = @ + 1] /\ UNCHANGED <<liveFrom, pump, wire>>
      /\ sendFrameLocked(s, frame)
  BY DEF dispatchRaw
<1>2. frame \in Request /\ IsDispatch(frame) /\ frame.seq = seq[s] + 1
  BY DEF TypeOK, DispatchFrame, Request, IsDispatch
<1> HIDE DEF frame
<1>3. \A c \in Conn : \/ queue'[c] = queue[c]
                      \/ queue'[c] = Append(queue[c], frame)
  BY <1>1 DEF sendFrameLocked, TypeOK
<1>4. ASSUME NEW c \in Conn PROVE CarriesOn(c)
  <2>1. queue[c] \in Seq(Request) /\ wire'[c] = wire[c] /\ pump'[c] = pump[c]
    BY <1>1 DEF TypeOK
  <2>2. Carries(wire[c], queue[c]) \subseteq Carries(wire[c], Append(queue[c], frame))
    BY <1>2, <2>1, CarriesAppend
  <2> QED BY <1>3, <2>1, <2>2 DEF CarriesOn
<1>5. CASE t # s
  <2>1. seq'[t] = seq[t] /\ send'[t] = send[t]
    BY <1>1, <1>5 DEF sendFrameLocked, TypeOK
  <2> QED BY <1>1, <1>4, <2>1, QuietLive DEF TypeOK
<1>6. CASE t = s
  <2>1. SUFFICES ASSUME send'[s] # None, pump'[send'[s]] = "run"
                 PROVE  (liveFrom'[s] + 1)..seq'[s]
                            \subseteq Carries(wire'[send'[s]], queue'[send'[s]])
    BY <1>6 DEF LiveKept
  <2>2. /\ send'[s] = send[s] /\ send[s] \in Conn
        /\ queue'[send[s]] = Append(queue[send[s]], frame)
        /\ queue[send[s]] \in Seq(Request)
    BY <1>1, <2>1 DEF sendFrameLocked, TypeOK
  <2>3. (liveFrom[s] + 1)..seq[s] \subseteq Carries(wire[send[s]], queue[send[s]])
    BY <1>1, <1>6, <2>1, <2>2 DEF LiveKept
  <2>4. seq[s] + 1 \in Carries(wire'[send[s]], queue'[send[s]])
    BY <1>1, <1>2, <2>2, CarriesAppend
  <2>5. Carries(wire[send[s]], queue[send[s]]) \subseteq Carries(wire'[send[s]], queue'[send[s]])
    BY <1>1, <1>2, <2>2, CarriesAppend
  <2>6. /\ seq'[s] = seq[s] + 1 /\ liveFrom'[s] = liveFrom[s]
        /\ seq[s] \in Nat /\ liveFrom[s] \in Nat
    BY <1>1 DEF TypeOK
  <2>7. \A n \in (liveFrom'[s] + 1)..seq'[s] :
           n \in (liveFrom[s] + 1)..seq[s] \/ n = seq[s] + 1
    BY <2>6
  <2> QED BY <2>2, <2>3, <2>4, <2>5, <2>7
<1> QED BY <1>5, <1>6

\* trySend takes nothing out of a queue.
LEMMA TrySendLive ==
    ASSUME TypeOK, NEW c \in Conn, NEW r \in Request, trySend(c, r),
           UNCHANGED <<pump, wire>>, NEW b \in Conn
    PROVE  CarriesOn(b)
<1>1. queue'[b] = queue[b] \/ queue'[b] = Append(queue[b], r)
  BY DEF trySend, TypeOK
<1> QED BY <1>1, CarriesAppend DEF CarriesOn, TypeOK

\* Every step keeps NoLiveLoss.
LEMMA NextLive ==
    TypeOK /\ WriterInv /\ NoLiveLoss /\ [Next]_vars => NoLiveLoss'
<1> SUFFICES ASSUME TypeOK, WriterInv, \A s \in Sess : LiveKept(s), [Next]_vars,
                    NEW s \in Sess
             PROVE  LiveKept(s)'
  BY LiveKeptIsNoLiveLoss DEF NoLiveLoss, LiveKept, Carries
<1>1. LiveKept(s) /\ send[s] \in Conn \cup {None}
  BY DEF TypeOK
<1>2. ASSUME seq' = seq, liveFrom' = liveFrom, send'[s] # None => send'[s] = send[s],
             \A c \in Conn : CarriesOn(c)
      PROVE  LiveKept(s)'
  BY <1>1, <1>2, QuietLive
<1>3. ASSUME NEW c \in Conn, Open(c) PROVE LiveKept(s)'
  <2>1. send[s] # c
    BY <1>3, NoneAssumption DEF WriterInv, Attached, Open
  <2>2. /\ UNCHANGED <<seq, liveFrom, send, wire>>
        /\ \A b \in Conn \ {c} : queue'[b] = queue[b] /\ pump'[b] = pump[b]
    BY <1>3 DEF Open, sessionVars, TypeOK
  <2> QED BY <1>1, <2>1, <2>2, QuietLive DEF CarriesOn
<1>4. ASSUME NEW c \in Conn, IdentifyAttach(c) \/ ResumeAttach(c) PROVE LiveKept(s)'
  BY <1>1, <1>4, AttachLive DEF IdentifyAttach, ResumeAttach, TypeOK, WithSession
<1>5. ASSUME NEW c \in Conn, IdentifyReady(c) \/ GuildCreate(c) \/ OpReply(c) \/ ResumeResumed(c)
      PROVE  LiveKept(s)'
  <2>1. sess[c] \in Sess
    BY <1>5 DEF IdentifyReady, GuildCreate, OpReply, ResumeResumed, TypeOK, WithSession
  <2> QED BY <1>1, <1>5, <2>1, DispatchLive
           DEF IdentifyReady, GuildCreate, OpReply, ResumeResumed
<1>6. ASSUME NEW d \in Dispatcher, NEW t \in Sess, DispatchDeliver(d, t)
      PROVE  LiveKept(s)'
  BY <1>1, <1>6, DispatchLive DEF DispatchDeliver
<1>7. ASSUME NEW c \in Conn,
             \/ Heartbeat(c) \/ \E u \in User, t \in Sess : ResumeInvalid(c, u, t)
             \/ ReplaySend(c)
      PROVE  LiveKept(s)'
  <2>1. UNCHANGED <<seq, liveFrom, send, pump, wire>>
    BY <1>7 DEF Heartbeat, ResumeInvalid, ReplaySend, sessionVars
  <2>2. PICK r \in Request : trySend(c, r)
    <3>1. ReplaySend(c) => DispatchFrame("event", Head(left[c])) \in Request
      BY HeadTailProperties DEF ReplaySend, TypeOK, DispatchFrame, Request
    <3> QED BY <1>7, <3>1, OpFrameType DEF Heartbeat, ResumeInvalid, ReplaySend
  <2> QED BY <1>2, <2>1, <2>2, TrySendLive
<1>8. ASSUME NEW c \in Conn, PumpWrite(c) PROVE LiveKept(s)'
  <2>1. /\ UNCHANGED <<seq, liveFrom, send, pump>>
        /\ queue' = [queue EXCEPT ![c] = Tail(@)] /\ queue[c] # <<>>
        /\ \/ wire' = [wire EXCEPT ![c] = Append(@, Head(queue[c]).seq)]
           \/ wire' = wire /\ ~IsDispatch(Head(queue[c]))
    BY <1>8 DEF PumpWrite, sessionVars
  <2>2. wire[c] \in Seq(Nat) /\ queue[c] \in Seq(Request)
    BY DEF TypeOK
  <2>3. CarriesOn(c)
    BY <2>1, <2>2, CarriesWritten DEF CarriesOn, TypeOK
  <2>4. \A b \in Conn \ {c} : CarriesOn(b)
    BY <2>1 DEF CarriesOn, TypeOK
  <2> QED BY <1>2, <2>1, <2>3, <2>4
<1>9. ASSUME NEW c \in Conn, PumpFail(c) \/ PumpEnd(c) PROVE LiveKept(s)'
  <2>1. /\ UNCHANGED <<seq, liveFrom, send>> /\ pump'[c] = "stopped"
        /\ \A b \in Conn \ {c} : UNCHANGED <<queue[b], pump[b], wire[b]>>
    BY <1>9 DEF PumpFail, PumpEnd, PumpStops, sessionVars, TypeOK
  <2> QED BY <1>2, <2>1 DEF CarriesOn
<1>10. ASSUME UNCHANGED <<seq, liveFrom, queue, pump, wire>>,
              send'[s] # None => send'[s] = send[s]
       PROVE  LiveKept(s)'
  BY <1>2, <1>10 DEF CarriesOn
<1>11. ASSUME NEW c \in Conn,
              \/ \E u \in User : IdentifyLock(c, u)
              \/ \E t \in Sess : IdentifyCreate(c, t)
              \/ GuildsDone(c)
              \/ \E u \in User, t \in Sess : \E n \in 1..seen[t] : ResumeFind(c, u, t, n)
              \/ ReplayLock(c) \/ ReplaySkip(c) \/ ReplayUnlock(c) \/ CloseWS(c)
       PROVE  LiveKept(s)'
  BY <1>10, <1>11
     DEF IdentifyLock, IdentifyCreate, ReapRemove, GuildsDone, ResumeFind, ReplayLock,
         ReplaySkip, ReplayUnlock, CloseWS, sessionVars, sockVars
<1>12. ASSUME NEW c \in Conn, ReadEnds(c) PROVE LiveKept(s)'
  <2>1. send'[s] # None => send'[s] = send[s]
    BY <1>12 DEF ReadEnds, detach, sessionVars, TypeOK
  <2> QED BY <1>10, <1>12, <2>1 DEF ReadEnds, detach, sessionVars
<1>13. ASSUME NEW d \in Dispatcher,
              (\E u \in User : DispatchLock(d, u)) \/ DispatchSnapshot(d)
       PROVE  LiveKept(s)'
  BY <1>10, <1>13 DEF DispatchLock, DispatchSnapshot, ReapRemove, sessionVars, sockVars
<1>14. ASSUME NEW t \in Sess, Expire(t) PROVE LiveKept(s)'
  BY <1>10, <1>14 DEF Expire, sockVars
<1>15. CASE UNCHANGED vars
  BY <1>10, <1>15 DEF vars, sessionVars, sockVars
<1> QED
  BY <1>3, <1>4, <1>5, <1>6, <1>7, <1>8, <1>9, <1>11, <1>12, <1>13, <1>14, <1>15
     DEF Next, Identify, Resume, Pump, Dispatch

\* No dispatch is lost on a socket that stays attached, for any queue capacity
\* and any interleaving: dispatchRaw numbers a frame and queues it, or gives
\* the socket up, under one hold of Session.mu (session.go:122-158).
THEOREM NoLossWhileAttached == Spec => []NoLiveLoss
<1>1. Init => NoLiveLoss
  BY DEF Init, NoLiveLoss
<1> QED BY <1>1, NextLive, TypeCorrect, WriterInvariant, PTL DEF Spec

-----------------------------------------------------------------------------
(* The reaper and the handshakes *)

\* Where a connection's queue holds no dispatch frame yet.
Unattached == {"new", "open", "creating", "created"}

\* ReapSparesIdentified made inductive.  Between its registration and its
\* attach a session is young: never detached, unknown to every other
\* connection, since a RESUME needs a number its client has seen.  What the
\* reaper has found stale can only be attached by a RESUME, and so can what it
\* has removed.
YoungInv ==
    /\ \A s \in Sess \ created : send[s] = None /\ detached[s] = "zero" /\ seen[s] = 0
    /\ \A c \in Conn : pc[c] = "created" =>
          /\ send[sess[c]] = None /\ detached[sess[c]] = "zero" /\ seen[sess[c]] = 0
          /\ \A d \in Conn \ {c} : sess[d] # sess[c]

QueueInv ==
    \A c \in Conn : pc[c] \in Unattached => \A r \in Elems(queue[c]) : ~IsDispatch(r)

OnlyResumed(s) ==
    \/ send[s] = None /\ detached[s] # "zero"
    \/ send[s] # None /\ since[send[s]] # None

ReapInv ==
    /\ \A c \in Conn : pc[c] = "found" => since[c] # None
    /\ \A s \in condemned \cup (created \ sessions) : OnlyResumed(s)

\* A step that puts no dispatch frame into the queue of a connection without a
\* session, where a connection stays unattached only in the way handshakes do.
LEMMA QuietQueue ==
    ASSUME TypeOK, QueueInv,
           \A c \in Conn : pc'[c] \in Unattached =>
               pc[c] \in Unattached /\ (queue'[c] = queue[c] \/ queue'[c] = Append(queue[c], OpFrame)
                                        \/ (queue[c] # <<>> /\ queue'[c] = Tail(queue[c])))
    PROVE  QueueInv'
<1> SUFFICES ASSUME NEW c \in Conn, pc'[c] \in Unattached, NEW r \in Elems(queue'[c])
             PROVE  ~IsDispatch(r)
  BY DEF QueueInv
<1>1. queue[c] \in Seq(Request) /\ \A q \in Elems(queue[c]) : ~IsDispatch(q)
  BY DEF TypeOK, QueueInv
<1>2. CASE queue'[c] = queue[c]
  BY <1>1, <1>2
<1>3. CASE queue'[c] = Append(queue[c], OpFrame)
  BY <1>1, <1>3, OpFrameType, ElemsAppend DEF OpFrame, IsDispatch
<1>4. CASE queue[c] # <<>> /\ queue'[c] = Tail(queue[c])
  BY <1>1, <1>4, ElemsTail
<1> QED BY <1>2, <1>3, <1>4

\* Dispatch frames are queued for connections that have attached.
LEMMA NextQueue == TypeOK /\ WriterInv /\ QueueInv /\ [Next]_vars => QueueInv'
<1> SUFFICES ASSUME TypeOK, WriterInv, QueueInv, [Next]_vars PROVE QueueInv'
  OBVIOUS
<1> USE DEF serverVars, sessionVars, connVars, sockVars, dispatchVars, Unattached
<1>1. ASSUME NEW s \in Sess, NEW t, dispatchRaw(s, t),
             \A c \in Conn : pc'[c] \in Unattached => pc[c] = pc'[c]
      PROVE  QueueInv'
  <2>1. \A c \in Conn : pc[c] \in Unattached => queue'[c] = queue[c]
    <3> USE NoneAssumption
    <3>1. \A c \in Conn : pc[c] \in Unattached => send[s] # c
      BY DEF WriterInv, Attached
    <3>2. \A c \in Conn : send[s] # c => queue'[c] = queue[c]
      BY <1>1 DEF dispatchRaw, sendFrameLocked, TypeOK
    <3> QED BY <3>1, <3>2
  <2> QED BY <1>1, <2>1, QuietQueue
<1>2. ASSUME NEW c \in Conn,
             IdentifyReady(c) \/ GuildCreate(c) \/ OpReply(c) \/ ResumeResumed(c)
      PROVE  QueueInv'
  <2>1. sess[c] \in Sess /\ \E t : dispatchRaw(sess[c], t)
    BY <1>2 DEF IdentifyReady, GuildCreate, OpReply, ResumeResumed, TypeOK, WithSession
  <2>2. \A b \in Conn : pc'[b] \in Unattached => pc[b] = pc'[b]
    BY <1>2 DEF IdentifyReady, GuildCreate, OpReply, ResumeResumed, TypeOK
  <2> QED BY <1>1, <2>1, <2>2
<1>3. ASSUME NEW c \in Conn,
             \/ Open(c) \/ Heartbeat(c) \/ GuildsDone(c) \/ IdentifyAttach(c)
             \/ \E u \in User : IdentifyLock(c, u)
             \/ \E s \in Sess : IdentifyCreate(c, s)
             \/ \E u \in User, s \in Sess : ResumeInvalid(c, u, s)
             \/ \E u \in User, s \in Sess : \E n \in 1..seen[s] : ResumeFind(c, u, s, n)
             \/ ResumeAttach(c) \/ ReplayLock(c) \/ ReplaySkip(c) \/ ReplaySend(c)
             \/ ReplayUnlock(c) \/ ReadEnds(c) \/ CloseWS(c) \/ Pump(c)
      PROVE  QueueInv'
  <2>1. \A b \in Conn : pc'[b] \in Unattached =>
           pc[b] \in Unattached /\ (queue'[b] = queue[b] \/ queue'[b] = Append(queue[b], OpFrame)
                                    \/ (queue[b] # <<>> /\ queue'[b] = Tail(queue[b])))
    <3>1. CASE \/ Open(c) \/ Heartbeat(c) \/ GuildsDone(c) \/ IdentifyAttach(c)
               \/ ReplaySend(c) \/ \E u \in User, s \in Sess : ResumeInvalid(c, u, s)
      BY <3>1 DEF Open, Heartbeat, GuildsDone, IdentifyAttach, ReplaySend, ResumeInvalid,
                  attach, trySend, Leave, TypeOK, Reading
    <3>2. CASE \/ \E u \in User : IdentifyLock(c, u)
               \/ \E s \in Sess : IdentifyCreate(c, s)
               \/ \E u \in User, s \in Sess : \E n \in 1..seen[s] : ResumeFind(c, u, s, n)
      BY <3>2 DEF IdentifyLock, IdentifyCreate, ResumeFind, TypeOK
    <3>3. CASE \/ ResumeAttach(c) \/ ReplayLock(c) \/ ReplaySkip(c)
               \/ ReplayUnlock(c) \/ ReadEnds(c) \/ CloseWS(c)
      BY <3>3 DEF ResumeAttach, ReplayLock, ReplaySkip, ReplayUnlock, ReadEnds, CloseWS,
                  attach, Leave, TypeOK
    <3>4. CASE Pump(c)
      <4>1. UNCHANGED pc /\ (UNCHANGED queue \/ (queue[c] # <<>> /\ queue' = [queue EXCEPT ![c] = Tail(@)]))
        BY <3>4 DEF Pump, PumpWrite, PumpFail, PumpEnd
      <4> QED BY <4>1 DEF TypeOK
    <3> QED BY <1>3, <3>1, <3>2, <3>3, <3>4
  <2> QED BY <2>1, QuietQueue
<1>4. ASSUME NEW d \in Dispatcher, Dispatch(d) PROVE QueueInv'
  <2>1. CASE \/ \E u \in User : DispatchLock(d, u)
             \/ DispatchSnapshot(d)
    BY <2>1, QuietQueue DEF DispatchLock, DispatchSnapshot
  <2>2. ASSUME NEW s \in Sess, DispatchDeliver(d, s) PROVE QueueInv'
    BY <2>2, <1>1 DEF DispatchDeliver
  <2> QED BY <1>4, <2>1, <2>2 DEF Dispatch
<1>5. ASSUME NEW s \in Sess, Expire(s) PROVE QueueInv'
  BY <1>5, QuietQueue DEF Expire
<1>6. CASE UNCHANGED vars
  BY <1>6, QuietQueue DEF vars
<1> QED BY <1>2, <1>3, <1>4, <1>5, <1>6 DEF Next, Identify, Resume

\* A step that leaves created, sess and seen alone, lets no session of age
\* become young, and attaches, detaches or expires no young one.
LEMMA QuietYoung ==
    ASSUME TypeOK, YoungInv, created' = created,
           \A c \in Conn : pc'[c] = "created" => pc[c] = "created",
           \A c \in Conn : sess'[c] = sess[c]
               \/ (sess'[c] \in Sess /\ seen[sess'[c]] > 0 /\ pc'[c] # "created"),
           \A s \in Sess : (send[s] = None /\ detached[s] = "zero" /\ seen[s] = 0) =>
               \/ UNCHANGED <<send[s], detached[s], seen[s]>>
               \/ s \in created /\ \E c \in Conn : sess[c] = s /\ pc'[c] # "created"
    PROVE  YoungInv'
<1>1. ASSUME NEW s \in Sess \ created'
      PROVE  send'[s] = None /\ detached'[s] = "zero" /\ seen'[s] = 0
  BY <1>1 DEF YoungInv
<1>2. ASSUME NEW c \in Conn, pc'[c] = "created"
      PROVE  /\ send'[sess'[c]] = None /\ detached'[sess'[c]] = "zero" /\ seen'[sess'[c]] = 0
             /\ \A d \in Conn \ {c} : sess'[d] # sess'[c]
  <2>1. /\ pc[c] = "created" /\ sess'[c] = sess[c] /\ sess[c] \in Sess
        /\ send[sess[c]] = None /\ detached[sess[c]] = "zero" /\ seen[sess[c]] = 0
        /\ \A d \in Conn \ {c} : sess[d] # sess[c]
    BY <1>2 DEF YoungInv, TypeOK, WithSession
  <2>2. ~\E d \in Conn : sess[d] = sess[c] /\ pc'[d] # "created"
    BY <1>2, <2>1
  <2>3. UNCHANGED <<send[sess[c]], detached[sess[c]], seen[sess[c]]>>
    BY <2>1, <2>2
  <2> QED BY <2>1, <2>3
<1> QED BY <1>1, <1>2 DEF YoungInv

\* Nobody attaches, detaches or resumes a session before its own connection has.
LEMMA NextYoung ==
    TypeOK /\ WriterInv /\ QueueInv /\ YoungInv /\ [Next]_vars => YoungInv'
<1> SUFFICES ASSUME TypeOK, WriterInv, QueueInv, YoungInv, [Next]_vars PROVE YoungInv'
  OBVIOUS
<1> USE DEF serverVars, sessionVars, connVars, sockVars, dispatchVars
<1>1. ASSUME NEW c \in Conn, NEW s \in Sess, IdentifyCreate(c, s) PROVE YoungInv'
  <2>1. /\ s \in Sess \ created /\ UNCHANGED <<send, detached, seen>>
        /\ created' = created \cup {s}
        /\ sess' = [sess EXCEPT ![c] = s] /\ pc' = [pc EXCEPT ![c] = "created"]
        /\ pc[c] = "creating"
    BY <1>1 DEF IdentifyCreate, ReapRemove
  <2>2. send[s] = None /\ detached[s] = "zero" /\ seen[s] = 0
    BY <2>1 DEF YoungInv
  <2>3. \A d \in Conn : sess[d] # s
    BY <2>1, NoneAssumption DEF TypeOK
  <2>4. ASSUME NEW d \in Conn, pc'[d] = "created"
        PROVE  /\ send'[sess'[d]] = None /\ detached'[sess'[d]] = "zero" /\ seen'[sess'[d]] = 0
               /\ \A b \in Conn \ {d} : sess'[b] # sess'[d]
    <3>1. CASE d = c
      BY <2>1, <2>2, <2>3, <3>1 DEF TypeOK
    <3>2. CASE d # c
      BY <2>1, <2>3, <2>4, <3>2 DEF TypeOK, YoungInv
    <3> QED BY <3>1, <3>2
  <2> QED BY <2>1, <2>4 DEF YoungInv
<1>2. ASSUME NEW c \in Conn, NEW u \in User, NEW s \in Sess, NEW n \in 1..seen[s],
             ResumeFind(c, u, s, n)
      PROVE  YoungInv'
  <2>1. seen[s] > 0
    BY DEF TypeOK
  <2> QED BY <1>2, <2>1, QuietYoung DEF ResumeFind, TypeOK
<1>3. ASSUME NEW c \in Conn, IdentifyAttach(c) \/ ResumeAttach(c) PROVE YoungInv'
  <2>1. /\ sess[c] \in created /\ attach(sess[c], c) /\ UNCHANGED <<created, sess>>
        /\ pc'[c] # "created" /\ \A b \in Conn \ {c} : pc'[b] = pc[b]
    BY <1>3 DEF IdentifyAttach, ResumeAttach, TypeOK, WithSession
  <2>2. \A s \in Sess : s # sess[c] => UNCHANGED <<send[s], detached[s], seen[s]>>
    BY <2>1 DEF attach, TypeOK
  <2> QED BY <2>1, <2>2, QuietYoung DEF TypeOK
<1>4. ASSUME NEW s \in Sess, NEW t, dispatchRaw(s, t), UNCHANGED <<created, sess>>,
             \A c \in Conn : pc'[c] = "created" => pc[c] = "created"
      PROVE  YoungInv'
  <2>1. \A r \in Sess : send[r] = None => UNCHANGED <<send[r], detached[r], seen[r]>>
    BY <1>4 DEF dispatchRaw, sendFrameLocked, TypeOK
  <2> QED BY <1>4, <2>1, QuietYoung
<1>5. ASSUME NEW c \in Conn,
             IdentifyReady(c) \/ GuildCreate(c) \/ OpReply(c) \/ ResumeResumed(c)
      PROVE  YoungInv'
  <2>1. sess[c] \in Sess /\ UNCHANGED <<created, sess>> /\ \E t : dispatchRaw(sess[c], t)
    BY <1>5 DEF IdentifyReady, GuildCreate, OpReply, ResumeResumed, TypeOK, WithSession
  <2>2. \A b \in Conn : pc'[b] = "created" => pc[b] = "created"
    BY <1>5 DEF IdentifyReady, GuildCreate, OpReply, ResumeResumed, TypeOK
  <2> QED BY <1>4, <2>1, <2>2
<1>6. ASSUME NEW c \in Conn, PumpWrite(c) PROVE YoungInv'
  <2>1. UNCHANGED <<created, sess, send, detached, pc>>
    BY <1>6 DEF PumpWrite
  <2>2. CASE UNCHANGED seen
    BY <2>1, <2>2, QuietYoung
  <2>3. CASE ~UNCHANGED seen
    <3>1. /\ IsDispatch(Head(queue[c])) /\ queue[c] # <<>> /\ queue[c] \in Seq(Request)
          /\ \A s \in Sess : s # sess[c] => seen'[s] = seen[s]
      BY <1>6, <2>3 DEF PumpWrite, TypeOK
    <3>2. pc[c] \notin Unattached
      BY <3>1, ElemsTail DEF QueueInv
    <3>3. pc'[c] # "created"
      BY <2>1, <3>2 DEF Unattached
    <3>4. \A s \in Sess : s = sess[c] => s \in created
      BY NoneAssumption DEF TypeOK
    <3> QED BY <2>1, <3>1, <3>3, <3>4, QuietYoung DEF TypeOK
  <2> QED BY <2>2, <2>3
<1>7. ASSUME UNCHANGED <<created, sess, seen>>,
             \A c \in Conn : pc'[c] = "created" => pc[c] = "created",
             \A s \in Sess : (send[s] = None /\ detached[s] = "zero") =>
                                UNCHANGED <<send[s], detached[s]>>
      PROVE  YoungInv'
  BY <1>7, QuietYoung
<1>8. ASSUME NEW c \in Conn,
             \/ Open(c) \/ Heartbeat(c) \/ GuildsDone(c)
             \/ \E u \in User : IdentifyLock(c, u)
             \/ \E u \in User, s \in Sess : ResumeInvalid(c, u, s)
             \/ ReplayLock(c) \/ ReplaySkip(c) \/ ReplaySend(c) \/ ReplayUnlock(c)
             \/ CloseWS(c) \/ PumpFail(c) \/ PumpEnd(c)
      PROVE  YoungInv'
  <2>1. UNCHANGED <<created, sess, seen, send, detached>>
    BY <1>8 DEF Open, Heartbeat, GuildsDone, IdentifyLock, ResumeInvalid, ReplayLock,
                ReplaySkip, ReplaySend, ReplayUnlock, CloseWS, PumpFail, PumpEnd
  <2>2. \A b \in Conn : pc'[b] = "created" => pc[b] = "created"
    BY <1>8 DEF Open, Heartbeat, GuildsDone, IdentifyLock, ResumeInvalid, ReplayLock,
                ReplaySkip, ReplaySend, ReplayUnlock, CloseWS, PumpFail, PumpEnd,
                trySend, Leave, TypeOK
  <2> QED BY <2>1, <2>2, <1>7
<1>9. ASSUME NEW c \in Conn, ReadEnds(c) PROVE YoungInv'
  <2>1. UNCHANGED <<created, sess, seen>>
    BY <1>9 DEF ReadEnds
  <2>2. \A b \in Conn : pc'[b] = "created" => pc[b] = "created"
    BY <1>9 DEF ReadEnds, Leave, TypeOK
  <2>3. \A s \in Sess : send[s] = None => UNCHANGED <<send[s], detached[s]>>
    BY <1>9, NoneAssumption DEF ReadEnds, detach, TypeOK
  <2> QED BY <2>1, <2>2, <2>3, <1>7
<1>10. ASSUME NEW d \in Dispatcher, Dispatch(d) PROVE YoungInv'
  <2>1. CASE \/ \E u \in User : DispatchLock(d, u)
             \/ DispatchSnapshot(d)
    BY <2>1, <1>7 DEF DispatchLock, DispatchSnapshot, ReapRemove
  <2>2. ASSUME NEW s \in Sess, DispatchDeliver(d, s) PROVE YoungInv'
    BY <2>2, <1>4 DEF DispatchDeliver
  <2> QED BY <1>10, <2>1, <2>2 DEF Dispatch
<1>11. ASSUME NEW s \in Sess, Expire(s) PROVE YoungInv'
  BY <1>11, <1>7 DEF Expire, TypeOK
<1>12. CASE UNCHANGED vars
  BY <1>12, <1>7 DEF vars
<1> QED BY <1>1, <1>2, <1>3, <1>5, <1>6, <1>8, <1>9, <1>10, <1>11, <1>12
        DEF Next, Identify, Resume, Pump

\* A step that neither condemns nor removes a session.
LEMMA QuietReap ==
    ASSUME TypeOK, ReapInv,
           condemned' \cup (created' \ sessions') \subseteq condemned \cup (created \ sessions),
           \A c \in Conn : since'[c] = since[c] \/ since'[c] # None,
           \A c \in Conn : pc'[c] = "found" => pc[c] = "found" \/ since'[c] # None,
           \A s \in Sess : OnlyResumed(s) =>
               \/ UNCHANGED <<send[s], detached[s]>>
               \/ send'[s] = None /\ detached'[s] # "zero"
               \/ send'[s] # None /\ since'[send'[s]] # None
    PROVE  ReapInv'
<1>1. \A c \in Conn : pc'[c] = "found" => since'[c] # None
  BY DEF ReapInv
<1>2. ASSUME NEW s \in condemned' \cup (created' \ sessions') PROVE OnlyResumed(s)'
  <2>1. s \in Sess /\ OnlyResumed(s)
    BY <1>2 DEF ReapInv, TypeOK
  <2> QED BY <2>1 DEF OnlyResumed, TypeOK
<1> QED BY <1>1, <1>2 DEF ReapInv

\* A step that only moves connections on, or ends their handlers.
LEMMA QuietReapStep ==
    ASSUME TypeOK, ReapInv, UNCHANGED <<condemned, created, sessions, since, send, detached>>,
           \A c \in Conn : pc'[c] = "found" => pc[c] = "found"
    PROVE  ReapInv'
BY QuietReap

\* What is found stale was detached, and stays so until a RESUME attaches it.
LEMMA NextReap == TypeOK /\ YoungInv /\ ReapInv /\ [Next]_vars => ReapInv'
<1> SUFFICES ASSUME TypeOK, YoungInv, ReapInv, [Next]_vars PROVE ReapInv'
  OBVIOUS
<1> USE DEF serverVars, sessionVars, connVars, sockVars, dispatchVars
<1>1. ASSUME NEW a, ReapTest(a), UNCHANGED <<created, sessions, since, send, detached>>,
             \A c \in Conn : pc'[c] = "found" => pc[c] = "found"
      PROVE  ReapInv'
  <2>1. \A s \in condemned' : OnlyResumed(s)'
    BY <1>1 DEF ReapTest, Stale, OnlyResumed, TypeOK
  <2>2. \A s \in created' \ sessions' : OnlyResumed(s)'
    BY <1>1 DEF ReapInv, OnlyResumed
  <2>3. \A c \in Conn : pc'[c] = "found" => since'[c] # None
    BY <1>1 DEF ReapInv
  <2> QED BY <2>1, <2>2, <2>3 DEF ReapInv
<1>2. ASSUME NEW c \in Conn, NEW s \in Sess, IdentifyCreate(c, s) PROVE ReapInv'
  BY <1>2, QuietReap DEF IdentifyCreate, ReapRemove, TypeOK
<1>3. ASSUME NEW c \in Conn, NEW u \in User, NEW s \in Sess, NEW n \in 1..seen[s],
             ResumeFind(c, u, s, n)
      PROVE  ReapInv'
  <2>1. n # None
    BY NoneAssumption DEF TypeOK
  <2> QED BY <1>3, <2>1, QuietReap DEF ResumeFind, TypeOK
<1>4. ASSUME NEW c \in Conn, IdentifyAttach(c) PROVE ReapInv'
  <2>1. /\ sess[c] \in Sess /\ ~OnlyResumed(sess[c])
        /\ \A s \in Sess : s # sess[c] => UNCHANGED <<send[s], detached[s]>>
    BY <1>4 DEF IdentifyAttach, attach, YoungInv, OnlyResumed, TypeOK, WithSession
  <2> QED BY <1>4, <2>1, QuietReap DEF IdentifyAttach, TypeOK
<1>5. ASSUME NEW c \in Conn, ResumeAttach(c) PROVE ReapInv'
  <2>1. /\ sess[c] \in Sess /\ since[c] # None /\ c # None
        /\ send' = [send EXCEPT ![sess[c]] = c]
        /\ \A s \in Sess : s # sess[c] => UNCHANGED <<send[s], detached[s]>>
    BY <1>5, NoneAssumption DEF ResumeAttach, attach, ReapInv, TypeOK, WithSession
  <2>2. send'[sess[c]] = c /\ since' = since
    BY <1>5, <2>1 DEF ResumeAttach, TypeOK
  <2> QED BY <1>5, <2>1, <2>2, QuietReap DEF ResumeAttach, TypeOK
<1>6. ASSUME NEW s \in Sess, NEW t, dispatchRaw(s, t),
             UNCHANGED <<condemned, created, sessions, since>>,
             \A c \in Conn : pc'[c] = "found" => pc[c] = "found"
      PROVE  ReapInv'
  <2>1. \A r \in Sess : \/ UNCHANGED <<send[r], detached[r]>>
                        \/ send'[r] = None /\ detached'[r] # "zero"
    BY <1>6 DEF dispatchRaw, sendFrameLocked, TypeOK
  <2> QED BY <1>6, <2>1, QuietReap
<1>7. ASSUME NEW c \in Conn,
             IdentifyReady(c) \/ GuildCreate(c) \/ OpReply(c) \/ ResumeResumed(c)
      PROVE  ReapInv'
  <2>1. /\ sess[c] \in Sess /\ UNCHANGED <<condemned, created, sessions, since>>
        /\ \E t : dispatchRaw(sess[c], t)
    BY <1>7 DEF IdentifyReady, GuildCreate, OpReply, ResumeResumed, TypeOK, WithSession
  <2>2. \A b \in Conn : pc'[b] = "found" => pc[b] = "found"
    BY <1>7 DEF IdentifyReady, GuildCreate, OpReply, ResumeResumed, TypeOK
  <2> QED BY <1>6, <2>1, <2>2
<1>8. ASSUME NEW c \in Conn,
             \/ Open(c) \/ Heartbeat(c) \/ GuildsDone(c)
             \/ \E u \in User, s \in Sess : ResumeInvalid(c, u, s)
             \/ ReplayLock(c) \/ ReplaySkip(c) \/ ReplaySend(c) \/ ReplayUnlock(c)
             \/ CloseWS(c) \/ Pump(c)
      PROVE  ReapInv'
  <2>1. UNCHANGED <<condemned, created, sessions, since, send, detached>>
    BY <1>8 DEF Open, Heartbeat, GuildsDone, ResumeInvalid, ReplayLock,
                ReplaySkip, ReplaySend, ReplayUnlock, CloseWS,
                Pump, PumpWrite, PumpFail, PumpEnd
  <2>2. \A b \in Conn : pc'[b] = "found" => pc[b] = "found"
    BY <1>8 DEF Open, Heartbeat, GuildsDone, ResumeInvalid, ReplayLock,
                ReplaySkip, ReplaySend, ReplayUnlock, CloseWS,
                Pump, PumpWrite, PumpFail, PumpEnd, trySend, Leave, TypeOK
  <2> QED BY <2>1, <2>2, QuietReapStep
<1>9. ASSUME NEW c \in Conn, ReadEnds(c) PROVE ReapInv'
  <2>1. \A s \in Sess : \/ UNCHANGED <<send[s], detached[s]>>
                        \/ send'[s] = None /\ detached'[s] # "zero"
    BY <1>9 DEF ReadEnds, detach, TypeOK
  <2> QED BY <1>9, <2>1, QuietReap DEF ReadEnds, Leave, TypeOK
<1>10. ASSUME NEW d \in Dispatcher, Dispatch(d) PROVE ReapInv'
  <2>1. ASSUME NEW u \in User, DispatchLock(d, u) PROVE ReapInv'
    BY <2>1, <1>1 DEF DispatchLock
  <2>2. CASE DispatchSnapshot(d)
    BY <2>2, QuietReap DEF DispatchSnapshot, ReapRemove
  <2>3. ASSUME NEW s \in Sess, DispatchDeliver(d, s) PROVE ReapInv'
    BY <2>3, <1>6 DEF DispatchDeliver
  <2> QED BY <1>10, <2>1, <2>2, <2>3 DEF Dispatch
<1>11. ASSUME NEW c \in Conn, NEW u \in User, IdentifyLock(c, u) PROVE ReapInv'
  BY <1>11, <1>1 DEF IdentifyLock, TypeOK
<1>12. ASSUME NEW s \in Sess, Expire(s) PROVE ReapInv'
  BY <1>12, QuietReap DEF Expire, OnlyResumed, TypeOK
<1>13. CASE UNCHANGED vars
  BY <1>13, QuietReapStep DEF vars
<1> QED BY <1>2, <1>3, <1>4, <1>5, <1>7, <1>8, <1>9, <1>10, <1>11, <1>12, <1>13
        DEF Next, Identify, Resume

\* The reaper never takes a session from under a connection that identified,
\* whatever runs between its staleness test and the removal: only a RESUME can
\* attach what it found stale (server.go:171-189, 394-400).
THEOREM ReaperSparesIdentified == Spec => []ReapSparesIdentified
<1>1. Init => YoungInv /\ QueueInv /\ ReapInv
  BY DEF Init, YoungInv, QueueInv, ReapInv, Elems
<1>2. Spec => [](YoungInv /\ QueueInv /\ ReapInv)
  <2>1. TypeOK /\ WriterInv /\ (YoungInv /\ QueueInv /\ ReapInv) /\ [Next]_vars
            => (YoungInv /\ QueueInv /\ ReapInv)'
    BY NextQueue, NextYoung, NextReap
  <2> QED BY <1>1, <2>1, TypeCorrect, WriterInvariant, PTL DEF Spec
<1>3. ReapInv => ReapSparesIdentified
  BY DEF ReapInv, ReapSparesIdentified, OnlyResumed
<1> QED BY <1>2, <1>3, PTL

-----------------------------------------------------------------------------
(* The stream of a connection that identified *)

\* A frame without a number changes neither what is carried nor its order.
LEMMA StreamOp ==
    ASSUME NEW w \in Seq(Nat), NEW q \in Seq(Request), NEW r \in Request, ~IsDispatch(r)
    PROVE  /\ Rising(w, q) => Rising(w, Append(q, r))
           /\ Carries(w, Append(q, r)) = Carries(w, q)
<1>1. Elems(Append(q, r)) = Elems(q) \cup {r}
  BY ElemsAppend
<1>2. /\ DOMAIN q = 1..Len(q) /\ Len(q) \in Nat
      /\ DOMAIN Append(q, r) = 1..(Len(q) + 1)
      /\ \A i \in 1..Len(q) : Append(q, r)[i] = q[i]
      /\ Append(q, r)[Len(q) + 1] = r
  BY AppendProperties, LenProperties
<1>3. ASSUME Rising(w, q) PROVE Rising(w, Append(q, r))
  <2>1. \A i \in DOMAIN Append(q, r) : IsDispatch(Append(q, r)[i]) =>
           i \in DOMAIN q /\ Append(q, r)[i] = q[i]
    BY <1>2
  <2> QED BY <1>3, <2>1 DEF Rising
<1> QED BY <1>1, <1>3 DEF Carries

\* A frame with a number above all that is carried comes last.
LEMMA StreamDispatch ==
    ASSUME NEW w \in Seq(Nat), NEW q \in Seq(Request), NEW r \in Request, IsDispatch(r),
           \A n \in Carries(w, q) : n < r.seq
    PROVE  /\ Rising(w, q) => Rising(w, Append(q, r))
           /\ Carries(w, Append(q, r)) = Carries(w, q) \cup {r.seq}
<1>1. Elems(Append(q, r)) = Elems(q) \cup {r}
  BY ElemsAppend
<1>2. /\ DOMAIN q = 1..Len(q) /\ Len(q) \in Nat
      /\ DOMAIN Append(q, r) = 1..(Len(q) + 1)
      /\ \A i \in 1..Len(q) : Append(q, r)[i] = q[i]
      /\ Append(q, r)[Len(q) + 1] = r
  BY AppendProperties, LenProperties
<1>3. /\ \A i \in DOMAIN w : w[i] < r.seq
      /\ \A i \in DOMAIN q : IsDispatch(q[i]) => q[i].seq < r.seq
  BY DEF Carries, Elems
<1>4. ASSUME Rising(w, q) PROVE Rising(w, Append(q, r))
  <2>1. \A i \in DOMAIN Append(q, r) :
           \/ i \in DOMAIN q /\ Append(q, r)[i] = q[i]
           \/ i = Len(q) + 1 /\ Append(q, r)[i] = r
    BY <1>2
  <2>2. ASSUME NEW i \in DOMAIN Append(q, r), NEW j \in DOMAIN Append(q, r), i < j,
               IsDispatch(Append(q, r)[i]), IsDispatch(Append(q, r)[j])
        PROVE  Append(q, r)[i].seq < Append(q, r)[j].seq
    <3>1. i \in DOMAIN q /\ Append(q, r)[i] = q[i]
      BY <1>2, <2>2
    <3> QED BY <1>3, <1>4, <2>1, <2>2, <3>1 DEF Rising
  <2>3. \A i \in DOMAIN w, j \in DOMAIN Append(q, r) :
           IsDispatch(Append(q, r)[j]) => w[i] < Append(q, r)[j].seq
    BY <1>3, <1>4, <2>1 DEF Rising
  <2> QED BY <1>4, <2>2, <2>3 DEF Rising
<1> QED BY <1>1, <1>4 DEF Carries

\* The pump writes what comes first.
LEMMA StreamWritten ==
    ASSUME NEW w \in Seq(Nat), NEW q \in Seq(Request), q # <<>>, Rising(w, q)
    PROVE  /\ IsDispatch(Head(q)) =>
                 /\ Rising(Append(w, Head(q).seq), Tail(q))
                 /\ Carries(Append(w, Head(q).seq), Tail(q)) = Carries(w, q)
           /\ ~IsDispatch(Head(q)) =>
                 Rising(w, Tail(q)) /\ Carries(w, Tail(q)) = Carries(w, q)
<1> DEFINE h == Head(q)  t == Tail(q)  v == Append(w, h.seq)
<1>1. Elems(q) = {h} \cup Elems(t) /\ h \in Request
  BY ElemsTail, HeadTailProperties
<1>2. h.seq \in Nat
  BY <1>1 DEF Request
<1>3. Elems(v) = Elems(w) \cup {h.seq}
  BY <1>2, ElemsAppend
<1>4. /\ DOMAIN q = 1..Len(q) /\ Len(q) \in Nat \ {0}
      /\ t \in Seq(Request) /\ Len(t) = Len(q) - 1 /\ h = q[1]
  BY EmptySeq, LenProperties, HeadTailProperties
<1>5. DOMAIN t = 1..(Len(q) - 1) /\ \A i \in 1..(Len(q) - 1) : t[i] = q[i + 1]
  BY <1>4, LenProperties, HeadTailProperties
<1>6. /\ DOMAIN w = 1..Len(w) /\ Len(w) \in Nat /\ DOMAIN v = 1..(Len(w) + 1)
      /\ \A i \in 1..Len(w) : v[i] = w[i]
      /\ v[Len(w) + 1] = h.seq
  BY <1>2, AppendProperties, LenProperties
<1> HIDE DEF h, t, v
<1>7. \A i \in DOMAIN t : i + 1 \in DOMAIN q /\ t[i] = q[i + 1] /\ 1 < i + 1
  BY <1>4, <1>5
<1>8. /\ \A i, j \in DOMAIN t :
            i < j /\ IsDispatch(t[i]) /\ IsDispatch(t[j]) => t[i].seq < t[j].seq
      /\ \A i \in DOMAIN w, j \in DOMAIN t : IsDispatch(t[j]) => w[i] < t[j].seq
  <2>1. \A i, j \in DOMAIN t : i < j => i + 1 < j + 1
    BY <1>5
  <2> QED BY <1>7, <2>1 DEF Rising
<1>9. ASSUME IsDispatch(h) PROVE Rising(v, t)
  <2>1. 1 \in DOMAIN q /\ IsDispatch(q[1])
    BY <1>4, <1>9
  <2>2. \A j \in DOMAIN t : IsDispatch(t[j]) => h.seq < t[j].seq
    BY <1>4, <1>7, <2>1 DEF Rising
  <2>3. \A i \in DOMAIN w : w[i] < h.seq
    BY <1>4, <2>1 DEF Rising
  <2>4. \A i \in DOMAIN v : \/ i \in DOMAIN w /\ v[i] = w[i]
                            \/ i = Len(w) + 1 /\ v[i] = h.seq
    BY <1>6
  <2>5. ASSUME NEW i \in DOMAIN v, NEW j \in DOMAIN v, i < j PROVE v[i] < v[j]
    <3>1. i \in DOMAIN w /\ v[i] = w[i]
      BY <1>6, <2>5
    <3> QED BY <2>3, <2>4, <2>5, <3>1 DEF Rising
  <2>6. \A i \in DOMAIN v, j \in DOMAIN t : IsDispatch(t[j]) => v[i] < t[j].seq
    BY <1>8, <2>2, <2>4
  <2> QED BY <1>8, <2>5, <2>6 DEF Rising
<1>10. Rising(w, t)
  BY <1>8 DEF Rising
<1>11. /\ IsDispatch(h) => Carries(v, t) = Carries(w, q)
       /\ ~IsDispatch(h) => Carries(w, t) = Carries(w, q)
  BY <1>1, <1>3 DEF Carries
<1> QED BY <1>9, <1>10, <1>11 DEF h, t, v

\* A connection without dispatch frames has nothing out of order.
LEMMA StreamEmpty ==
    ASSUME NEW q, \A r \in Elems(q) : ~IsDispatch(r)
    PROVE  Rising(<<>>, q) /\ Carries(<<>>, q) = {}
<1>1. DOMAIN <<>> = {}
  OBVIOUS
<1>2. \A i \in DOMAIN q : ~IsDispatch(q[i])
  BY DEF Elems
<1>3. Rising(<<>>, q)
  BY <1>1, <1>2 DEF Rising
<1> QED BY <1>1, <1>3 DEF Carries, Elems

\* Nothing is written to a socket before its connection attaches.
WireInv == \A c \in Conn : pc[c] \in Unattached => wire[c] = <<>>

\* What replays was resumed.
ResumeInv ==
    \A c \in Conn : pc[c] \in {"found", "attached", "replaying", "replayed"} => since[c] # None

\* A session's number only grows from its attach on.
LiveFromInv == \A s \in Sess : liveFrom[s] <= seq[s]

\* IdentifiedStream made inductive: while a connection is attached, nothing
\* else than what its session numbered since the attach is on its way.
StreamKept(c) ==
    (since[c] = None /\ pump[c] = "run") =>
        /\ Rising(wire[c], queue[c])
        /\ NoGap(Carries(wire[c], queue[c]))
        /\ \A s \in Sess : send[s] = c =>
              Carries(wire[c], queue[c]) \subseteq (liveFrom[s] + 1)..seq[s]

StreamInv == \A c \in Conn : StreamKept(c)

\* Once attached, a connection never is unattached again.
LEMMA StaysAttached ==
    TypeOK /\ [Next]_vars => \A c \in Conn : pc'[c] \in Unattached => pc[c] \in Unattached
<1> SUFFICES ASSUME TypeOK, [Next]_vars
             PROVE  \A c \in Conn : pc'[c] \in Unattached => pc[c] \in Unattached
  OBVIOUS
<1> USE DEF Unattached
<1>1. ASSUME NEW c \in Conn,
             \/ Open(c) \/ Heartbeat(c) \/ GuildsDone(c) \/ IdentifyAttach(c)
             \/ IdentifyReady(c) \/ GuildCreate(c) \/ OpReply(c)
             \/ \E u \in User : IdentifyLock(c, u)
             \/ \E s \in Sess : IdentifyCreate(c, s)
      PROVE  \A b \in Conn : pc'[b] \in Unattached => pc[b] \in Unattached
  BY <1>1 DEF Open, Heartbeat, GuildsDone, IdentifyAttach, IdentifyReady, GuildCreate,
              OpReply, IdentifyLock, IdentifyCreate, trySend, Leave, TypeOK, connVars
<1>2. ASSUME NEW c \in Conn,
             \/ \E u \in User, s \in Sess : ResumeInvalid(c, u, s)
             \/ \E u \in User, s \in Sess : \E n \in 1..seen[s] : ResumeFind(c, u, s, n)
             \/ ResumeAttach(c) \/ ReplayLock(c) \/ ReplaySkip(c) \/ ReplaySend(c)
             \/ ReplayUnlock(c) \/ ResumeResumed(c) \/ ReadEnds(c) \/ CloseWS(c) \/ Pump(c)
      PROVE  \A b \in Conn : pc'[b] \in Unattached => pc[b] \in Unattached
  BY <1>2 DEF ResumeInvalid, ResumeFind, ResumeAttach, ReplayLock, ReplaySkip, ReplaySend,
              ReplayUnlock, ResumeResumed, ReadEnds, CloseWS, Pump, PumpWrite, PumpFail,
              PumpEnd, trySend, Leave, TypeOK, connVars
<1>3. ASSUME NEW d \in Dispatcher, Dispatch(d) PROVE UNCHANGED pc
  BY <1>3 DEF Dispatch, DispatchLock, DispatchSnapshot, DispatchDeliver, connVars
<1>4. ASSUME NEW s \in Sess, Expire(s) PROVE UNCHANGED pc
  BY <1>4 DEF Expire, connVars
<1>5. CASE UNCHANGED vars
  BY <1>5 DEF vars, connVars
<1> QED BY <1>1, <1>2, <1>3, <1>4, <1>5 DEF Next, Identify, Resume

\* The wire is written by the pump of its own connection only.
LEMMA NextWrite ==
    ASSUME TypeOK, [Next]_vars, NEW b \in Conn
    PROVE  \/ wire'[b] = wire[b]
           \/ PumpWrite(b)
           \/ pump'[b] # "run" /\ wire'[b] = <<>>
<1> USE DEF serverVars, sessionVars, connVars, sockVars, dispatchVars
<1>1. ASSUME NEW c \in Conn,
             \/ Open(c) \/ Heartbeat(c) \/ GuildsDone(c) \/ IdentifyAttach(c)
             \/ IdentifyReady(c) \/ GuildCreate(c) \/ OpReply(c)
             \/ \E u \in User : IdentifyLock(c, u)
             \/ \E s \in Sess : IdentifyCreate(c, s)
             \/ \E u \in User, s \in Sess : ResumeInvalid(c, u, s)
             \/ \E u \in User, s \in Sess : \E n \in 1..seen[s] : ResumeFind(c, u, s, n)
             \/ ResumeAttach(c) \/ ReplayLock(c) \/ ReplaySkip(c) \/ ReplaySend(c)
             \/ ReplayUnlock(c) \/ ResumeResumed(c) \/ ReadEnds(c) \/ CloseWS(c)
      PROVE  UNCHANGED wire
  BY <1>1 DEF Open, Heartbeat, GuildsDone, IdentifyAttach, IdentifyReady, GuildCreate,
              OpReply, IdentifyLock, IdentifyCreate, ResumeInvalid, ResumeFind,
              ResumeAttach, ReplayLock, ReplaySkip, ReplaySend, ReplayUnlock,
              ResumeResumed, ReadEnds, CloseWS, attach, dispatchRaw
<1>2. ASSUME NEW c \in Conn, PumpWrite(c) PROVE wire'[b] = wire[b] \/ PumpWrite(b)
  BY <1>2 DEF PumpWrite, TypeOK
<1>3. ASSUME NEW c \in Conn, PumpFail(c) \/ PumpEnd(c)
      PROVE  wire'[b] = wire[b] \/ (pump'[b] # "run" /\ wire'[b] = <<>>)
  BY <1>3 DEF PumpFail, PumpEnd, PumpStops, TypeOK
<1>4. ASSUME NEW d \in Dispatcher, Dispatch(d) PROVE UNCHANGED wire
  BY <1>4 DEF Dispatch, DispatchLock, DispatchSnapshot, DispatchDeliver, dispatchRaw
<1>5. ASSUME NEW s \in Sess, Expire(s) PROVE UNCHANGED wire
  BY <1>5 DEF Expire
<1>6. CASE UNCHANGED vars
  BY <1>6 DEF vars
<1> QED BY <1>1, <1>2, <1>3, <1>4, <1>5, <1>6 DEF Next, Identify, Resume, Pump

\* Before its connection attaches nothing but frames without a number is written.
LEMMA NextWire == TypeOK /\ QueueInv /\ WireInv /\ [Next]_vars => WireInv'
<1> SUFFICES ASSUME TypeOK, QueueInv, WireInv, [Next]_vars, NEW b \in Conn,
                    pc'[b] \in Unattached
             PROVE  wire'[b] = <<>>
  BY DEF WireInv
<1>1. pc[b] \in Unattached /\ wire[b] = <<>>
  BY StaysAttached DEF WireInv
<1>2. CASE PumpWrite(b)
  <2>1. queue[b] \in Seq(Request) /\ queue[b] # <<>> /\ Head(queue[b]) \in Elems(queue[b])
    BY <1>2, ElemsTail DEF PumpWrite, TypeOK
  <2>2. ~IsDispatch(Head(queue[b]))
    BY <1>1, <2>1 DEF QueueInv
  <2> QED BY <1>1, <1>2, <2>2 DEF PumpWrite
<1> QED BY <1>1, <1>2, NextWrite

\* The number a RESUME named stays with its connection.
LEMMA NextResume == TypeOK /\ ResumeInv /\ [Next]_vars => ResumeInv'
<1> SUFFICES ASSUME TypeOK, ResumeInv, [Next]_vars PROVE ResumeInv'
  OBVIOUS
<1> USE DEF serverVars, sessionVars, connVars, sockVars, dispatchVars, ResumeInv
<1>1. ASSUME NEW c \in Conn, NEW u \in User, NEW s \in Sess, NEW n \in 1..seen[s],
             ResumeFind(c, u, s, n)
      PROVE  ResumeInv'
  <2>1. n # None
    BY NoneAssumption DEF TypeOK
  <2> QED BY <1>1, <2>1 DEF ResumeFind, TypeOK
<1>2. ASSUME NEW c \in Conn,
             \/ Open(c) \/ Heartbeat(c) \/ GuildsDone(c) \/ IdentifyAttach(c)
             \/ IdentifyReady(c) \/ GuildCreate(c) \/ OpReply(c)
             \/ \E u \in User : IdentifyLock(c, u)
             \/ \E s \in Sess : IdentifyCreate(c, s)
             \/ \E u \in User, s \in Sess : ResumeInvalid(c, u, s)
      PROVE  ResumeInv'
  BY <1>2 DEF Open, Heartbeat, GuildsDone, IdentifyAttach, IdentifyReady, GuildCreate,
              OpReply, IdentifyLock, IdentifyCreate, ResumeInvalid, trySend, Leave, TypeOK
<1>3. ASSUME NEW c \in Conn,
             \/ ResumeAttach(c) \/ ReplayLock(c) \/ ReplaySkip(c) \/ ReplaySend(c)
             \/ ReplayUnlock(c) \/ ResumeResumed(c) \/ ReadEnds(c) \/ CloseWS(c) \/ Pump(c)
      PROVE  ResumeInv'
  BY <1>3 DEF ResumeAttach, ReplayLock, ReplaySkip, ReplaySend, ReplayUnlock, ResumeResumed,
              ReadEnds, CloseWS, Pump, PumpWrite, PumpFail, PumpEnd, trySend, Leave, TypeOK
<1>4. ASSUME NEW d \in Dispatcher, Dispatch(d) PROVE ResumeInv'
  BY <1>4 DEF Dispatch, DispatchLock, DispatchSnapshot, DispatchDeliver
<1>5. ASSUME NEW s \in Sess, Expire(s) PROVE ResumeInv'
  BY <1>5 DEF Expire
<1>6. CASE UNCHANGED vars
  BY <1>6 DEF vars
<1> QED BY <1>1, <1>2, <1>3, <1>4, <1>5, <1>6 DEF Next, Identify, Resume

\* An attach starts at the number the session has; numbers only grow.
LEMMA NextLiveFrom == TypeOK /\ LiveFromInv /\ [Next]_vars => LiveFromInv'
<1> SUFFICES ASSUME TypeOK, LiveFromInv, [Next]_vars, NEW s \in Sess
             PROVE  liveFrom'[s] <= seq'[s]
  BY DEF LiveFromInv
<1> USE DEF serverVars, sessionVars, connVars, sockVars, dispatchVars
<1>0. liveFrom[s] <= seq[s] /\ liveFrom[s] \in Nat /\ seq[s] \in Nat
  BY DEF LiveFromInv, TypeOK
<1>1. ASSUME NEW r \in Sess, NEW c \in Conn, attach(r, c) PROVE liveFrom'[s] <= seq'[s]
  BY <1>0, <1>1 DEF attach, TypeOK
<1>2. ASSUME NEW r \in Sess, NEW k, dispatchRaw(r, k) PROVE liveFrom'[s] <= seq'[s]
  BY <1>0, <1>2 DEF dispatchRaw, TypeOK
<1>3. ASSUME UNCHANGED <<seq, liveFrom>> PROVE liveFrom'[s] <= seq'[s]
  BY <1>0, <1>3
<1>4. ASSUME NEW c \in Conn,
             \/ IdentifyAttach(c) \/ ResumeAttach(c) \/ IdentifyReady(c) \/ GuildCreate(c)
             \/ OpReply(c) \/ ResumeResumed(c)
      PROVE  liveFrom'[s] <= seq'[s]
  <2>1. sess[c] \in Sess
    BY <1>4 DEF IdentifyAttach, ResumeAttach, IdentifyReady, GuildCreate, OpReply,
                ResumeResumed, TypeOK, WithSession
  <2> QED BY <1>1, <1>2, <1>4, <2>1
           DEF IdentifyAttach, ResumeAttach, IdentifyReady, GuildCreate, OpReply, ResumeResumed
<1>5. ASSUME NEW c \in Conn,
             \/ Open(c) \/ Heartbeat(c) \/ GuildsDone(c)
             \/ \E u \in User : IdentifyLock(c, u)
             \/ \E r \in Sess : IdentifyCreate(c, r)
             \/ \E u \in User, r \in Sess : ResumeInvalid(c, u, r)
             \/ \E u \in User, r \in Sess : \E n \in 1..seen[r] : ResumeFind(c, u, r, n)
             \/ ReplayLock(c) \/ ReplaySkip(c) \/ ReplaySend(c)
             \/ ReplayUnlock(c) \/ ReadEnds(c) \/ CloseWS(c) \/ Pump(c)
      PROVE  liveFrom'[s] <= seq'[s]
  BY <1>3, <1>5 DEF Open, Heartbeat, GuildsDone, IdentifyLock, IdentifyCreate, ReapRemove,
              ResumeInvalid, ResumeFind, ReplayLock, ReplaySkip, ReplaySend, ReplayUnlock,
              ReadEnds, detach, CloseWS, Pump, PumpWrite, PumpFail, PumpEnd
<1>6. ASSUME NEW d \in Dispatcher, Dispatch(d) PROVE liveFrom'[s] <= seq'[s]
  BY <1>2, <1>3, <1>6 DEF Dispatch, DispatchLock, DispatchSnapshot, ReapRemove, DispatchDeliver
<1>7. ASSUME NEW r \in Sess, Expire(r) PROVE liveFrom'[s] <= seq'[s]
  BY <1>3, <1>7 DEF Expire
<1>8. CASE UNCHANGED vars
  BY <1>3, <1>8 DEF vars
<1> QED BY <1>4, <1>5, <1>6, <1>7, <1>8 DEF Next, Identify, Resume

\* A step that adds no number to a connection, and attaches it to nothing.
LEMMA QuietStream ==
    ASSUME NEW b \in Conn, StreamKept(b),
           (since'[b] = None /\ pump'[b] = "run") =>
              /\ since[b] = None /\ pump[b] = "run"
              /\ Rising(wire[b], queue[b]) => Rising(wire'[b], queue'[b])
              /\ Carries(wire'[b], queue'[b]) = Carries(wire[b], queue[b])
              /\ \A s \in Sess : send'[s] = b =>
                    send[s] = b /\ liveFrom'[s] = liveFrom[s] /\ seq'[s] = seq[s]
    PROVE  StreamKept(b)'
BY DEF StreamKept

\* trySend by an unresumed connection queues no number.
LEMMA TryStream ==
    ASSUME TypeOK, NEW c \in Conn, NEW r \in Request, ~IsDispatch(r) \/ since[c] # None,
           trySend(c, r), UNCHANGED <<since, pump, wire, seq, liveFrom, send>>,
           NEW b \in Conn, StreamKept(b)
    PROVE  StreamKept(b)'
<1>1. wire[b] \in Seq(Nat) /\ queue[b] \in Seq(Request)
  BY DEF TypeOK
<1>2. queue'[b] = queue[b] \/ (b = c /\ queue'[b] = Append(queue[b], r))
  BY DEF trySend, TypeOK
<1>3. CASE b = c /\ since[c] # None
  BY <1>3, QuietStream
<1>4. CASE b = c /\ ~IsDispatch(r)
  <2>1. /\ Rising(wire[b], queue[b]) => Rising(wire[b], Append(queue[b], r))
        /\ Carries(wire[b], Append(queue[b], r)) = Carries(wire[b], queue[b])
    BY <1>1, <1>4, StreamOp
  <2> QED BY <1>2, <2>1, QuietStream
<1>5. CASE b # c
  BY <1>2, <1>5, QuietStream
<1> QED BY <1>3, <1>4, <1>5

\* attach: the other connections at most lose their session.
LEMMA AttachStream ==
    ASSUME TypeOK, NEW s \in Sess, NEW c \in Conn, attach(s, c), UNCHANGED since,
           \/ since[c] # None
           \/ Carries(wire[c], queue[c]) = {} /\ Rising(wire[c], queue[c]),
           NEW b \in Conn, StreamKept(b)
    PROVE  StreamKept(b)'
<1>1. /\ UNCHANGED <<wire, queue, pump, seq>>
      /\ send' = [send EXCEPT ![s] = c] /\ liveFrom' = [liveFrom EXCEPT ![s] = seq[s]]
  BY DEF attach
<1>2. CASE b = c /\ since[c] # None
  BY <1>1, <1>2, QuietStream
<1>3. CASE b = c /\ Carries(wire[c], queue[c]) = {} /\ Rising(wire[c], queue[c])
  BY <1>1, <1>3 DEF StreamKept, NoGap
<1>4. CASE b # c
  <2>1. \A t \in Sess : send'[t] = b => send[t] = b /\ liveFrom'[t] = liveFrom[t]
    BY <1>1, <1>4 DEF TypeOK
  <2> QED BY <1>1, <2>1, QuietStream
<1> QED BY <1>2, <1>3, <1>4

\* dispatchRaw: the next number goes behind all that its connection carries.
LEMMA DispatchStreamKept ==
    ASSUME TypeOK, WriterInv, LiveFromInv, NEW s \in Sess, LiveKept(s),
           NEW k \in {"READY", "RESUMED", "event"}, dispatchRaw(s, k), UNCHANGED since,
           NEW b \in Conn, StreamKept(b)
    PROVE  StreamKept(b)'
<1> DEFINE n == seq[s] + 1  frame == DispatchFrame(k, n)
<1>1. /\ seq' = [seq EXCEPT ![s] = n] /\ UNCHANGED <<liveFrom, pump, wire>>
      /\ sendFrameLocked(s, frame)
  BY DEF dispatchRaw
<1>2. /\ frame \in Request /\ IsDispatch(frame) /\ frame.seq = n
      /\ seq[s] \in Nat /\ n \in Nat /\ liveFrom[s] \in Nat /\ liveFrom[s] <= seq[s]
      /\ wire[b] \in Seq(Nat) /\ queue[b] \in Seq(Request)
  BY DEF TypeOK, DispatchFrame, Request, IsDispatch, LiveFromInv
<1> HIDE DEF frame
<1>3. CASE send'[s] # b
  <2>1. CASE send[s] # b
    <3>1. queue'[b] = queue[b] /\ \A t \in Sess \ {s} : send'[t] = send[t] /\ seq'[t] = seq[t]
      BY <1>1, <2>1 DEF sendFrameLocked, TypeOK
    <3> QED BY <1>1, <1>3, <3>1, QuietStream
  <2>2. CASE send[s] = b
    <3>1. queue'[b] = queue[b] /\ \A t \in Sess \ {s} : send'[t] = send[t] /\ seq'[t] = seq[t]
      BY <1>1, <1>3, <2>2 DEF sendFrameLocked, TypeOK
    <3> QED BY <1>1, <1>3, <3>1, QuietStream
  <2> QED BY <2>1, <2>2
<1>4. CASE send'[s] = b
  <2>1. /\ send[s] = b /\ send' = send /\ queue'[b] = Append(queue[b], frame)
    BY <1>1, <1>4, NoneAssumption DEF sendFrameLocked, TypeOK
  <2>2. SUFFICES ASSUME since[b] = None, pump[b] = "run"
                 PROVE  /\ Rising(wire[b], Append(queue[b], frame))
                        /\ NoGap(Carries(wire[b], Append(queue[b], frame)))
                        /\ \A t \in Sess : send[t] = b =>
                              Carries(wire[b], Append(queue[b], frame))
                                  \subseteq (liveFrom[t] + 1)..seq'[t]
    BY <1>1, <2>1 DEF StreamKept
  <2>3. Carries(wire[b], queue[b]) = (liveFrom[s] + 1)..seq[s]
    BY <2>1, <2>2, NoneAssumption DEF StreamKept, LiveKept
  <2>4. \A m \in Carries(wire[b], queue[b]) : m < n
    BY <1>2, <2>3
  <2>5. /\ Rising(wire[b], Append(queue[b], frame))
        /\ Carries(wire[b], Append(queue[b], frame)) = Carries(wire[b], queue[b]) \cup {n}
    BY <1>2, <2>2, <2>4, StreamDispatch DEF StreamKept
  <2>6. Carries(wire[b], Append(queue[b], frame)) = (liveFrom[s] + 1)..n
    BY <1>2, <2>3, <2>5
  <2>7. NoGap((liveFrom[s] + 1)..n)
    BY <1>2 DEF NoGap
  <2>8. \A t \in Sess : send[t] = b => t = s
    BY <2>1, NoneAssumption DEF WriterInv
  <2>9. seq'[s] = n
    BY <1>1 DEF TypeOK
  <2> QED BY <2>5, <2>6, <2>7, <2>8, <2>9
<1> QED BY <1>3, <1>4

\* The pump changes neither what is carried nor its order, or it stops.
LEMMA PumpStream ==
    ASSUME TypeOK, NEW c \in Conn, Pump(c), NEW b \in Conn, StreamKept(b)
    PROVE  StreamKept(b)'
<1>1. /\ UNCHANGED <<since, seq, liveFrom, send>>
      /\ b # c => UNCHANGED <<wire[b], queue[b], pump[b]>>
  BY DEF Pump, PumpWrite, PumpFail, PumpEnd, PumpStops, sessionVars, connVars, TypeOK
<1>2. CASE b # c
  BY <1>1, <1>2, QuietStream
<1>3. CASE b = c /\ (PumpFail(c) \/ PumpEnd(c))
  <2>1. pump'[b] = "stopped"
    BY <1>3 DEF PumpFail, PumpEnd, PumpStops, TypeOK
  <2> QED BY <2>1 DEF StreamKept
<1>4. CASE b = c /\ PumpWrite(c)
  <2> DEFINE w == wire[b]  q == queue[b]
  <2>1. /\ w \in Seq(Nat) /\ q \in Seq(Request) /\ q # <<>> /\ pump'[b] = pump[b]
        /\ queue'[b] = Tail(q)
        /\ wire'[b] = IF IsDispatch(Head(q)) THEN Append(w, Head(q).seq) ELSE w
    BY <1>4 DEF PumpWrite, TypeOK
  <2> HIDE DEF w, q
  <2>2. Rising(w, q) => /\ Rising(wire'[b], queue'[b])
                        /\ Carries(wire'[b], queue'[b]) = Carries(w, q)
    BY <2>1, StreamWritten
  <2>3. CASE Rising(w, q)
    BY <1>1, <2>1, <2>2, <2>3, QuietStream DEF w, q
  <2>4. CASE ~Rising(w, q)
    BY <1>1, <2>1, <2>4 DEF StreamKept, w, q
  <2> QED BY <2>3, <2>4
<1> QED BY <1>2, <1>3, <1>4 DEF Pump

\* Every step keeps the stream of every connection that identified.
LEMMA NextStream ==
    TypeOK /\ WriterInv /\ QueueInv /\ WireInv /\ ResumeInv /\ LiveFromInv /\ NoLiveLoss
        /\ StreamInv /\ [Next]_vars => StreamInv'
<1> SUFFICES ASSUME TypeOK, WriterInv, QueueInv, WireInv, ResumeInv, LiveFromInv,
                    \A s \in Sess : LiveKept(s), \A c \in Conn : StreamKept(c), [Next]_vars,
                    NEW b \in Conn
             PROVE  StreamKept(b)'
  BY LiveKeptIsNoLiveLoss DEF StreamInv
<1> USE DEF serverVars, sessionVars, connVars, sockVars, dispatchVars
<1>1. \A c \in Conn : pc[c] \in Unattached =>
         Rising(wire[c], queue[c]) /\ Carries(wire[c], queue[c]) = {}
  BY StreamEmpty DEF QueueInv, WireInv
<1>2. ASSUME NEW c \in Conn, Open(c) PROVE StreamKept(b)'
  <2>1. CASE b = c
    <3>1. pc[c] = "new" /\ \A s \in Sess : send[s] # c
      BY <1>2, NoneAssumption DEF Open, WriterInv, Attached
    <3>2. wire'[b] = wire[b] /\ queue'[b] = Append(queue[b], OpFrame) /\ send' = send
      BY <1>2, <2>1 DEF Open, TypeOK
    <3>3. ~IsDispatch(OpFrame) /\ wire[b] \in Seq(Nat) /\ queue[b] \in Seq(Request)
      BY DEF IsDispatch, OpFrame, TypeOK
    <3>4. Rising(wire'[b], queue'[b]) /\ Carries(wire'[b], queue'[b]) = {}
      <4>1. Rising(wire[b], queue[b]) /\ Carries(wire[b], queue[b]) = {}
        BY <1>1, <2>1, <3>1 DEF Unattached
      <4>2. /\ Rising(wire[b], Append(queue[b], OpFrame))
            /\ Carries(wire[b], Append(queue[b], OpFrame)) = {}
        BY <3>3, <4>1, OpFrameType, StreamOp
      <4> QED BY <3>2, <4>2
    <3> QED BY <2>1, <3>1, <3>2, <3>4 DEF StreamKept, NoGap
  <2>2. CASE b # c
    BY <1>2, <2>2, QuietStream DEF Open, TypeOK
  <2> QED BY <2>1, <2>2
<1>3. ASSUME NEW c \in Conn, IdentifyAttach(c) \/ ResumeAttach(c) PROVE StreamKept(b)'
  <2>1. sess[c] \in Sess /\ attach(sess[c], c) /\ UNCHANGED since
    BY <1>3 DEF IdentifyAttach, ResumeAttach, TypeOK, WithSession
  <2>2. \/ since[c] # None
        \/ Carries(wire[c], queue[c]) = {} /\ Rising(wire[c], queue[c])
    BY <1>1, <1>3 DEF IdentifyAttach, ResumeAttach, ResumeInv, Unattached
  <2> QED BY <2>1, <2>2, AttachStream
<1>4. ASSUME NEW c \in Conn,
             IdentifyReady(c) \/ GuildCreate(c) \/ OpReply(c) \/ ResumeResumed(c)
      PROVE  StreamKept(b)'
  <2>1. /\ sess[c] \in Sess /\ UNCHANGED since
        /\ \E k \in {"READY", "RESUMED", "event"} : dispatchRaw(sess[c], k)
    BY <1>4 DEF IdentifyReady, GuildCreate, OpReply, ResumeResumed, TypeOK, WithSession
  <2> QED BY <2>1, DispatchStreamKept
<1>5. ASSUME NEW d \in Dispatcher, NEW s \in Sess, DispatchDeliver(d, s)
      PROVE  StreamKept(b)'
  BY <1>5, DispatchStreamKept DEF DispatchDeliver
<1>6. ASSUME NEW c \in Conn,
             \/ Heartbeat(c) \/ \E u \in User, t \in Sess : ResumeInvalid(c, u, t)
             \/ ReplaySend(c)
      PROVE  StreamKept(b)'
  <2>1. UNCHANGED <<since, pump, wire, seq, liveFrom, send>>
    BY <1>6 DEF Heartbeat, ResumeInvalid, ReplaySend
  <2>2. PICK r \in Request : trySend(c, r) /\ (~IsDispatch(r) \/ since[c] # None)
    <3>1. ReplaySend(c) =>
             DispatchFrame("event", Head(left[c])) \in Request /\ since[c] # None
      BY HeadTailProperties DEF ReplaySend, ResumeInv, TypeOK, DispatchFrame, Request
    <3>2. ~IsDispatch(OpFrame)
      BY DEF IsDispatch, OpFrame
    <3> QED BY <1>6, <3>1, <3>2, OpFrameType DEF Heartbeat, ResumeInvalid, ReplaySend
  <2> QED BY <2>1, <2>2, TryStream
<1>7. ASSUME NEW c \in Conn, Pump(c) PROVE StreamKept(b)'
  BY <1>7, PumpStream
<1>8. ASSUME UNCHANGED <<wire, queue, pump, seq, liveFrom, since>>,
             \A s \in Sess : send'[s] = b => send[s] = b
      PROVE  StreamKept(b)'
  BY <1>8, QuietStream
<1>9. ASSUME NEW c \in Conn,
             \/ \E u \in User : IdentifyLock(c, u)
             \/ \E t \in Sess : IdentifyCreate(c, t)
             \/ GuildsDone(c)
             \/ ReplayLock(c) \/ ReplaySkip(c) \/ ReplayUnlock(c) \/ CloseWS(c)
      PROVE  StreamKept(b)'
  BY <1>8, <1>9 DEF IdentifyLock, IdentifyCreate, ReapRemove, GuildsDone,
                    ReplayLock, ReplaySkip, ReplayUnlock, CloseWS
<1>10. ASSUME NEW c \in Conn, NEW u \in User, NEW s \in Sess, NEW n \in 1..seen[s],
              ResumeFind(c, u, s, n)
       PROVE  StreamKept(b)'
  <2>1. since'[b] = None => since[b] = None
    <3>1. n # None
      BY NoneAssumption DEF TypeOK
    <3> QED BY <1>10, <3>1 DEF ResumeFind, TypeOK
  <2> QED BY <1>10, <2>1, QuietStream DEF ResumeFind
<1>11. ASSUME NEW c \in Conn, ReadEnds(c) PROVE StreamKept(b)'
  <2>1. \A s \in Sess : send'[s] = b => send[s] = b
    BY <1>11, NoneAssumption DEF ReadEnds, detach, TypeOK
  <2> QED BY <1>8, <1>11, <2>1 DEF ReadEnds, detach
<1>12. ASSUME NEW d \in Dispatcher,
              (\E u \in User : DispatchLock(d, u)) \/ DispatchSnapshot(d)
       PROVE  StreamKept(b)'
  BY <1>8, <1>12 DEF DispatchLock, DispatchSnapshot, ReapRemove
<1>13. ASSUME NEW t \in Sess, Expire(t) PROVE StreamKept(b)'
  BY <1>8, <1>13 DEF Expire
<1>14. CASE UNCHANGED vars
  BY <1>8, <1>14 DEF vars
<1> QED
  BY <1>2, <1>3, <1>4, <1>5, <1>6, <1>7, <1>9, <1>10, <1>11, <1>12, <1>13, <1>14
     DEF Next, Identify, Resume, Dispatch

\* A connection that identified gets consecutive numbers, for any queue
\* capacity and any interleaving of dispatchers, read loops and takeovers: a
\* number is taken and queued, or its socket given up, under one hold of
\* Session.mu (session.go:122-158).
THEOREM IdentifiedGetConsecutive == Spec => []IdentifiedStream
<1> DEFINE Inv == QueueInv /\ WireInv /\ ResumeInv /\ LiveFromInv /\ StreamInv
<1>1. Init => Inv
  <2> SUFFICES ASSUME Init PROVE Inv
    OBVIOUS
  <2>1. QueueInv /\ WireInv /\ ResumeInv /\ LiveFromInv
    BY DEF Init, QueueInv, WireInv, ResumeInv, LiveFromInv, Elems
  <2>2. StreamInv
    BY DEF Init, StreamInv, StreamKept
  <2> QED BY <2>1, <2>2
<1>2. TypeOK /\ WriterInv /\ NoLiveLoss /\ Inv /\ [Next]_vars => Inv'
  BY NextQueue, NextWire, NextResume, NextLiveFrom, NextStream
<1>3. Inv => IdentifiedStream
  BY DEF StreamInv, StreamKept, IdentifiedStream
<1> HIDE DEF Inv
<1> QED BY <1>1, <1>2, <1>3, TypeCorrect, WriterInvariant, NoLossWhileAttached, PTL DEF Spec

-----------------------------------------------------------------------------
(***************************************************************************)
(* FlushUser keeps its contract.  What the gateway itself does to a socket *)
(* is abstracted once, in SocketStep; everything about barriers is then    *)
(* proved from that lemma.                                                 *)
(***************************************************************************)

(* What a step of the gateway does to a socket *)

\* The queue and the socket of c change by at most one frame, and none of the
\* gateway's own frames is a barrier.
QueueMove(c) ==
    \/ UNCHANGED <<queue[c], wire[c]>>
    \/ \E r \in Request : /\ r.kind # "flush"
                          /\ queue'[c] = Append(queue[c], r)
                          /\ wire'[c] = wire[c]
    \/ /\ queue[c] # <<>> /\ Head(queue[c]).kind # "flush"
       /\ queue'[c] = Tail(queue[c])
       /\ \/ wire'[c] = Append(wire[c], Head(queue[c]).seq)
          \/ wire'[c] = wire[c] /\ ~IsDispatch(Head(queue[c]))

\* A socket comes up once, with its connection; a queue is never reopened; and
\* a session that lets go of an open socket has lost it.
SocketMove(c) ==
    /\ pc'[c] = "new" => pc[c] = "new" /\ queue'[c] = queue[c]
    /\ chanOpen'[c] => chanOpen[c]
    /\ pc[c] # "new" /\ sockUp'[c] => sockUp[c]
    /\ pc[c] # "new" /\ pump'[c] = "run" => pump[c] = "run"
    /\ sockUp'[c] => pump'[c] = "run" \/ (sockUp[c] /\ pump'[c] = pump[c])
    /\ pump'[c] = "run" => QueueMove(c)
    /\ chanOpen'[c] /\ sockUp'[c] => \A s \in Sess : send[s] = c => send'[s] = c

\* A step that changes no socket, queue or writer, and no connection's start.
LEMMA QuietSocket ==
    ASSUME NEW c \in Conn, UNCHANGED <<send, queue, chanOpen, pump, wire>>,
           sockUp'[c] => sockUp[c], pc'[c] = "new" => pc[c] = "new"
    PROVE  SocketMove(c)
BY DEF SocketMove, QueueMove

\* dispatchRaw queues one dispatch frame, or closes the queue and detaches.
LEMMA DispatchSocket ==
    ASSUME TypeOK, WriterInv, NEW s \in Sess, NEW k \in {"READY", "RESUMED", "event"},
           dispatchRaw(s, k), NEW c \in Conn, pc'[c] = "new" => pc[c] = "new"
    PROVE  SocketMove(c)
<1> DEFINE frame == DispatchFrame(k, seq[s] + 1)
<1>1. UNCHANGED <<pump, sockUp, wire>> /\ sendFrameLocked(s, frame)
  BY DEF dispatchRaw
<1>2. frame \in Request /\ frame.kind # "flush"
  <2>1. seq[s] + 1 \in Nat
    BY DEF TypeOK
  <2> QED BY <2>1 DEF DispatchFrame, Request
<1> HIDE DEF frame
<1>3. send[s] = c => pc[c] # "new"
  BY NoneAssumption DEF WriterInv, Attached
<1>4. CASE UNCHANGED <<send, queue, chanOpen>>
  BY <1>1, <1>4, QuietSocket
<1>5. CASE /\ send[s] # None
           /\ queue' = [queue EXCEPT ![send[s]] = Append(@, frame)]
           /\ UNCHANGED <<send, chanOpen>>
  <2>1. send[s] \in Conn
    BY <1>5 DEF TypeOK
  <2>2. send[s] # c => queue'[c] = queue[c]
    BY <1>5, <2>1 DEF TypeOK
  <2>3. send[s] = c => queue'[c] = Append(queue[c], frame)
    BY <1>5, <2>1 DEF TypeOK
  <2>4. QueueMove(c)
    BY <1>1, <1>2, <2>2, <2>3 DEF QueueMove
  <2> QED BY <1>1, <1>3, <1>5, <2>2, <2>4 DEF SocketMove
<1>6. CASE /\ send[s] # None
           /\ chanOpen' = [chanOpen EXCEPT ![send[s]] = FALSE]
           /\ send' = [send EXCEPT ![s] = None]
           /\ UNCHANGED queue
  <2>1. send[s] \in Conn
    BY <1>6 DEF TypeOK
  <2>2. chanOpen'[c] => chanOpen[c] /\ send[s] # c
    BY <1>6, <2>1 DEF TypeOK
  <2>3. QueueMove(c)
    BY <1>1, <1>6 DEF QueueMove
  <2>4. send[s] # c => \A t \in Sess : send[t] = c => send'[t] = c
    BY <1>6 DEF TypeOK
  <2> QED BY <1>1, <1>6, <2>2, <2>3, <2>4 DEF SocketMove
<1> QED BY <1>1, <1>4, <1>5, <1>6 DEF sendFrameLocked

\* trySend queues a frame, drops it, or takes the connection down.
LEMMA TrySendSocket ==
    ASSUME TypeOK, NEW d \in Conn, pc[d] # "new", NEW r \in Request, r.kind # "flush",
           trySend(d, r), UNCHANGED <<send, chanOpen, pump, wire>>, NEW c \in Conn
    PROVE  SocketMove(c)
<1>1. /\ queue'[c] = queue[c] \/ (c = d /\ queue'[c] = Append(queue[c], r))
      /\ sockUp'[c] => sockUp[c]
      /\ pc'[c] = "new" => pc[c] = "new" /\ queue'[c] = queue[c]
  BY DEF trySend, Leave, TypeOK
<1>2. QueueMove(c)
  BY <1>1 DEF QueueMove
<1> QED BY <1>1, <1>2 DEF SocketMove

\* attach takes the socket over and closes the queue of the one it displaces.
LEMMA AttachSocket ==
    ASSUME TypeOK, NEW s \in Sess, NEW d \in Conn, attach(s, d), NEW c \in Conn,
           pc'[c] = "new" => pc[c] = "new"
    PROVE  SocketMove(c)
<1>1. /\ UNCHANGED <<queue, pump, sockUp, wire>>
      /\ send' = [send EXCEPT ![s] = d]
      /\ chanOpen' = IF send[s] \in {None, d} THEN chanOpen
                                            ELSE [chanOpen EXCEPT ![send[s]] = FALSE]
  BY DEF attach
<1>2. chanOpen'[c] => chanOpen[c] /\ (send[s] = c => c = d)
  BY <1>1, NoneAssumption DEF TypeOK
<1>3. ASSUME NEW t \in Sess, send[t] = c, chanOpen'[c] PROVE send'[t] = c
  BY <1>1, <1>2, <1>3 DEF TypeOK
<1>4. QueueMove(c)
  BY <1>1 DEF QueueMove
<1> QED BY <1>1, <1>2, <1>3, <1>4 DEF SocketMove

\* Every step of the gateway is such a step for every connection.
LEMMA SocketStep ==
    ASSUME TypeOK, WriterInv, [Next]_vars, NEW c \in Conn,
           pc[c] = "new" => queue[c] = <<>>
    PROVE  SocketMove(c)
<1> USE DEF serverVars, sessionVars, connVars, sockVars
<1>1. ASSUME NEW d \in Conn, Open(d) PROVE SocketMove(c)
  <2>1. \A s \in Sess : send'[s] = send[s]
    BY <1>1 DEF Open
  <2>2. CASE c = d
    <3>1. OpFrame \in Request /\ OpFrame.kind # "flush"
      BY OpFrameType DEF OpFrame
    <3>2. queue'[c] = Append(queue[c], OpFrame) /\ wire'[c] = wire[c]
      BY <1>1, <2>2 DEF Open, TypeOK
    <3>3. QueueMove(c)
      BY <3>1, <3>2 DEF QueueMove
    <3>4. /\ pc[c] = "new" /\ pc'[c] = "open" /\ pump'[c] = "run"
          /\ chanOpen'[c] = chanOpen[c]
      BY <1>1, <2>2 DEF Open, TypeOK
    <3> QED BY <2>1, <3>3, <3>4 DEF SocketMove
  <2>3. CASE c # d
    <3>1. UNCHANGED <<pc[c], queue[c], pump[c], sockUp[c], wire[c], chanOpen[c]>>
      BY <1>1, <2>3 DEF Open, TypeOK
    <3> QED BY <2>1, <3>1 DEF SocketMove, QueueMove
  <2> QED BY <2>2, <2>3
<1>2. ASSUME NEW d \in Conn,
             \/ Heartbeat(d) \/ \E u \in User, s \in Sess : ResumeInvalid(d, u, s)
             \/ ReplaySend(d)
      PROVE  SocketMove(c)
  <2>1. UNCHANGED <<send, chanOpen, pump, wire>> /\ pc[d] # "new"
    BY <1>2 DEF Heartbeat, ResumeInvalid, ReplaySend, Reading
  <2>2. PICK r \in Request : r.kind # "flush" /\ trySend(d, r)
    <3>1. ReplaySend(d) => /\ DispatchFrame("event", Head(left[d])) \in Request
                           /\ DispatchFrame("event", Head(left[d])).kind # "flush"
      BY HeadTailProperties DEF ReplaySend, TypeOK, DispatchFrame, Request
    <3>2. OpFrame \in Request /\ OpFrame.kind # "flush"
      BY OpFrameType DEF OpFrame
    <3> QED BY <1>2, <3>1, <3>2 DEF Heartbeat, ResumeInvalid, ReplaySend
  <2> QED BY <2>1, <2>2, TrySendSocket
<1>3. ASSUME NEW d \in Conn, IdentifyAttach(d) \/ ResumeAttach(d) PROVE SocketMove(c)
  <2>1. sess[d] \in Sess /\ attach(sess[d], d)
    BY <1>3 DEF IdentifyAttach, ResumeAttach, TypeOK, WithSession
  <2>2. pc'[c] = "new" => pc[c] = "new"
    BY <1>3 DEF IdentifyAttach, ResumeAttach, TypeOK
  <2> QED BY <2>1, <2>2, AttachSocket
<1>4. ASSUME NEW d \in Conn,
             IdentifyReady(d) \/ GuildCreate(d) \/ OpReply(d) \/ ResumeResumed(d)
      PROVE  SocketMove(c)
  <2>1. sess[d] \in Sess
    BY <1>4 DEF IdentifyReady, GuildCreate, OpReply, ResumeResumed, TypeOK, WithSession
  <2>2. \E k \in {"READY", "RESUMED", "event"} : dispatchRaw(sess[d], k)
    BY <1>4 DEF IdentifyReady, GuildCreate, OpReply, ResumeResumed
  <2>3. pc'[c] = "new" => pc[c] = "new"
    BY <1>4 DEF IdentifyReady, GuildCreate, OpReply, ResumeResumed, TypeOK
  <2> QED BY <2>1, <2>2, <2>3, DispatchSocket
<1>5. ASSUME NEW d \in Dispatcher, NEW s \in Sess, DispatchDeliver(d, s)
      PROVE  SocketMove(c)
  BY <1>5, DispatchSocket DEF DispatchDeliver
<1>6. ASSUME NEW d \in Conn, PumpWrite(d) PROVE SocketMove(c)
  <2>1. /\ UNCHANGED <<send, pc, chanOpen, pump, sockUp>>
        /\ queue' = [queue EXCEPT ![d] = Tail(@)] /\ queue[d] # <<>>
        /\ Head(queue[d]).kind # "flush" /\ pump[d] = "run" /\ pc[d] = pc'[d]
        /\ \/ wire' = [wire EXCEPT ![d] = Append(@, Head(queue[d]).seq)]
           \/ wire' = wire /\ ~IsDispatch(Head(queue[d]))
    BY <1>6 DEF PumpWrite
  <2>2. QueueMove(c)
    BY <2>1 DEF QueueMove, TypeOK
  <2>3. pc'[c] = "new" => queue'[c] = queue[c]
    BY <2>1 DEF TypeOK
  <2> QED BY <2>1, <2>2, <2>3 DEF SocketMove
<1>7. ASSUME NEW d \in Conn, PumpFail(d) \/ PumpEnd(d) PROVE SocketMove(c)
  <2>1. UNCHANGED <<send, pc, chanOpen>>
    BY <1>7 DEF PumpFail, PumpEnd
  <2>2. c = d => pump'[c] = "stopped" /\ ~sockUp'[c]
    BY <1>7 DEF PumpFail, PumpEnd, PumpStops, TypeOK
  <2>3. c # d => UNCHANGED <<queue[c], pump[c], sockUp[c], wire[c]>>
    BY <1>7 DEF PumpFail, PumpEnd, PumpStops, TypeOK
  <2>4. pc[c] = "new" => queue'[c] = queue[c]
    BY <1>7 DEF PumpFail, PumpEnd, TypeOK
  <2> QED BY <2>1, <2>2, <2>3, <2>4 DEF SocketMove, QueueMove
<1>8. ASSUME NEW d \in Conn,
             \/ \E u \in User : IdentifyLock(d, u)
             \/ \E s \in Sess : IdentifyCreate(d, s)
             \/ GuildsDone(d)
             \/ \E u \in User, s \in Sess : \E n \in 1..seen[s] : ResumeFind(d, u, s, n)
             \/ ReplayLock(d) \/ ReplaySkip(d) \/ ReplayUnlock(d) \/ CloseWS(d)
      PROVE  SocketMove(c)
  <2>1. UNCHANGED <<send, queue, chanOpen, pump, wire>>
    BY <1>8 DEF IdentifyLock, IdentifyCreate, ReapRemove, GuildsDone, ResumeFind,
                ReplayLock, ReplaySkip, ReplayUnlock, CloseWS
  <2>2. (sockUp'[c] => sockUp[c]) /\ (pc'[c] = "new" => pc[c] = "new")
    BY ZenonT(60), <1>8 DEF IdentifyLock, IdentifyCreate, GuildsDone, ResumeFind,
                ReplayLock, ReplaySkip, ReplayUnlock, CloseWS, Leave, TypeOK
  <2> QED BY <2>1, <2>2, QuietSocket
<1>9. ASSUME NEW d \in Conn, ReadEnds(d) PROVE SocketMove(c)
  <2>1. /\ UNCHANGED <<queue, chanOpen, pump, wire>>
        /\ sockUp'[c] => sockUp[c] /\ c # d
        /\ pc'[c] = "new" => pc[c] = "new"
    BY <1>9 DEF ReadEnds, Leave, TypeOK
  <2>2. c # d => \A s \in Sess : send[s] = c => send'[s] = c
    BY <1>9 DEF ReadEnds, detach, TypeOK
  <2> QED BY <2>1, <2>2 DEF SocketMove, QueueMove
<1>10. ASSUME NEW d \in Dispatcher,
              (\E u \in User : DispatchLock(d, u)) \/ DispatchSnapshot(d)
       PROVE  SocketMove(c)
  BY <1>10, QuietSocket DEF DispatchLock, DispatchSnapshot, ReapRemove
<1>11. ASSUME NEW s \in Sess, Expire(s) PROVE SocketMove(c)
  BY <1>11, QuietSocket DEF Expire
<1>12. CASE UNCHANGED vars
  BY <1>12, QuietSocket DEF vars
<1> QED
  BY <1>1, <1>2, <1>3, <1>4, <1>5, <1>6, <1>7, <1>8, <1>9, <1>10, <1>11, <1>12
     DEF Next, Identify, Resume, Pump, Dispatch

-----------------------------------------------------------------------------
(* The inductive invariant *)

\* The dispatch numbers queued in front of place i.
Before(q, i) == {q[j].seq : j \in {k \in 1..(i - 1) : IsDispatch(q[k])}}

\* The barrier at place i of the queue of c was queued on c, and every frame it
\* vouches for is written or still in front of it.
EntryOK(c, i) ==
    /\ queue[c][i].seq \in DOMAIN barriers
    /\ barriers[queue[c][i].seq].conn = c
    /\ barriers[queue[c][i].seq].before \subseteq Elems(wire[c]) \cup Before(queue[c], i)

\* A running pump has a connection that was opened; the barriers in its queue
\* stand behind their frames, and so do those it resolved.
BarrierInv ==
    /\ \A c \in Conn : pc[c] = "new" => queue[c] = <<>>
    /\ \A c \in Conn : sockUp[c] => pump[c] = "run"
    /\ \A b \in DOMAIN barriers : pc[barriers[b].conn] # "new"
    /\ \A c \in Conn : pump[c] = "run" =>
          \A i \in DOMAIN queue[c] : queue[c][i].kind = "flush" => EntryOK(c, i)
    /\ BarrierBehindFrames

\* What f owes to a socket o[1] that is still up, the frame o[2], is written;
\* or it is queued on a session f has still to visit; or it stands in front of
\* the barrier f waits for.
OwedOK(f, o) ==
    /\ pc[o[1]] # "new"
    /\ (excuse[f] = {} /\ chanOpen[o[1]] /\ sockUp[o[1]]) =>
          \/ o[2] \in Elems(wire[o[1]])
          \/ o[2] \in QueuedOn(o[1]) /\ \E s \in fleft[f] : send[s] = o[1]
          \/ /\ fpc[f] = "wait" /\ fwait[f] \in DOMAIN barriers
             /\ barriers[fwait[f]].conn = o[1]
             /\ o[2] \in barriers[fwait[f]].before

\* FlushContract made inductive.
OwedInv ==
    \A f \in Flusher :
        /\ fpc[f] = "idle" => owed[f] = {}
        /\ fpc[f] = "returned" => fleft[f] = {}
        /\ \A o \in owed[f] : OwedOK(f, o)

\* The three parts of the property follow.
LEMMA FlushInvImpliesSound == FlushTypeOK /\ BarrierInv /\ OwedInv => FlushSound
<1> SUFFICES ASSUME FlushTypeOK, BarrierInv, OwedInv PROVE FlushContract
  BY DEF FlushSound, BarrierInv
<1> SUFFICES ASSUME NEW f \in Flusher, fpc[f] = "returned", excuse[f] = {},
                    NEW o \in owed[f], chanOpen[o[1]], sockUp[o[1]]
             PROVE  o[2] \in Elems(wire[o[1]])
  BY DEF FlushContract
<1> QED BY DEF OwedInv, OwedOK

-----------------------------------------------------------------------------
(* Types *)

\* Sessions are created, never deleted from the set of those handed out.
LEMMA CreatedGrows == TypeOK /\ [Next]_vars => created \subseteq created'
<1> SUFFICES ASSUME [Next]_vars PROVE created \subseteq created'
  OBVIOUS
<1> USE DEF serverVars
<1>1. ASSUME NEW c \in Conn, NEW s \in Sess, IdentifyCreate(c, s)
      PROVE  created \subseteq created'
  BY <1>1 DEF IdentifyCreate
<1>2. ASSUME NEW c \in Conn,
             \/ Open(c) \/ Heartbeat(c) \/ OpReply(c) \/ Resume(c)
             \/ ReadEnds(c) \/ CloseWS(c) \/ Pump(c)
             \/ \E u \in User : IdentifyLock(c, u)
             \/ IdentifyAttach(c) \/ IdentifyReady(c) \/ GuildCreate(c) \/ GuildsDone(c)
      PROVE  created' = created
  BY <1>2 DEF Open, Heartbeat, OpReply, Resume, ReadEnds, CloseWS, Pump, IdentifyLock,
              IdentifyAttach, IdentifyReady, GuildCreate, GuildsDone, ResumeInvalid,
              ResumeFind, ResumeAttach, ReplayLock, ReplaySkip, ReplaySend, ReplayUnlock,
              ResumeResumed, PumpWrite, PumpFail, PumpEnd
<1>3. ASSUME NEW d \in Dispatcher, Dispatch(d) PROVE created' = created
  BY <1>3 DEF Dispatch, DispatchLock, DispatchSnapshot, DispatchDeliver
<1>4. ASSUME NEW s \in Sess, Expire(s) PROVE created' = created
  BY <1>4 DEF Expire
<1>5. CASE UNCHANGED vars
  BY <1>5 DEF vars
<1> QED BY <1>1, <1>2, <1>3, <1>4, <1>5 DEF Next, Identify

\* A step of FlushUser or of the pump that changes one queue only.
LEMMA QueueOnly ==
    ASSUME TypeOK, WriterInv, queue' \in [Conn -> Seq(Request)],
           UNCHANGED <<serverVars, sessionVars, connVars, chanOpen, pump, sockUp,
                       wire, seen, dispatchVars>>
    PROVE  TypeOK' /\ WriterInv'
BY DEF TypeOK, WriterInv, serverVars, sessionVars, connVars, dispatchVars

\* What is queued on a socket are numbers.
LEMMA QueuedNat ==
    ASSUME NEW c \in Conn, TypeOK
    PROVE  QueuedOn(c) \subseteq Nat
<1>1. queue[c] \in Seq(Request)
  BY DEF TypeOK
<1>2. \A i \in DOMAIN queue[c] : queue[c][i] \in Request
  BY <1>1, ElementOfSeq, LenProperties
<1> QED BY <1>2 DEF QueuedOn, Elems, Request

\* The barriers queued so far only grow, and the steps of FlushUser leave the
\* gateway's own state alone but for the queue it appends to.
LEMMA FlushTypes ==
    FlushTypeOK /\ WriterInv /\ BarrierInv /\ [FlushNext]_allVars => FlushTypeOK'
<1> SUFFICES ASSUME FlushTypeOK, WriterInv, BarrierInv, [FlushNext]_allVars
             PROVE  FlushTypeOK'
  OBVIOUS
<1>a. TypeOK
  BY DEF FlushTypeOK
<1>1. CASE Next /\ UNCHANGED flushVars
  <2>1. TypeOK'
    BY <1>a, <1>1, NextTypes
  <2>2. created \subseteq created'
    BY <1>1, <1>a, CreatedGrows
  <2> QED BY <1>1, <2>1, <2>2 DEF FlushTypeOK, flushVars
<1>2. ASSUME NEW f \in Flusher,
             \/ \E u \in User : FlushSnapshot(f, u)
             \/ \E s \in Sess : FlushSkip(f, s) \/ FlushFull(f, s)
             \/ FlushResolved(f) \/ FlushTimeout(f) \/ FlushReturn(f)
      PROVE  FlushTypeOK'
  <2>1. TypeOK'
    <3>1. UNCHANGED vars
      BY <1>2 DEF FlushSnapshot, FlushSkip, FlushFull, FlushResolved, FlushTimeout, FlushReturn
    <3> QED BY <1>a, <3>1, NextTypes
  <2>2. barriers' = barriers /\ resolved' = resolved /\ created' = created
    BY <1>2 DEF FlushSnapshot, FlushSkip, FlushFull, FlushResolved, FlushTimeout,
                FlushReturn, vars, serverVars
  <2>3. /\ fpc' \in [Flusher -> {"idle", "visit", "wait", "returned"}]
        /\ fwait' \in [Flusher -> Nat]
    <3>1. fwait' = fwait \/ fwait' = [fwait EXCEPT ![f] = 0]
      BY <1>2 DEF FlushSnapshot, FlushSkip, FlushFull, FlushResolved, FlushTimeout, FlushReturn
    <3>2. fpc' = fpc \/ \E x \in {"visit", "returned"} : fpc' = [fpc EXCEPT ![f] = x]
      BY <1>2 DEF FlushSnapshot, FlushSkip, FlushFull, FlushResolved, FlushTimeout, FlushReturn
    <3> QED BY <3>1, <3>2 DEF FlushTypeOK
  <2>4. excuse' \in [Flusher -> SUBSET {"full", "timeout"}]
    <3>1. \/ excuse' = excuse
          \/ \E x \in {"full", "timeout"} : excuse' = [excuse EXCEPT ![f] = @ \cup {x}]
      BY <1>2 DEF FlushSnapshot, FlushSkip, FlushFull, FlushResolved, FlushTimeout, FlushReturn
    <3> QED BY <3>1 DEF FlushTypeOK
  <2>6. fleft' \in [Flusher -> SUBSET created]
    <3>1. \/ fleft' = fleft
          \/ \E s \in Sess : fleft' = [fleft EXCEPT ![f] = @ \ {s}]
          \/ \E u \in User : fleft' = [fleft EXCEPT ![f] = {s \in sessions : owner[s] = u}]
      BY <1>2 DEF FlushSnapshot, FlushSkip, FlushFull, FlushResolved, FlushTimeout, FlushReturn
    <3>2. sessions \subseteq created
      BY <1>a DEF TypeOK
    <3> QED BY <3>1, <3>2 DEF FlushTypeOK
  <2>5. owed' \in [Flusher -> SUBSET (Conn \X Nat)]
    <3>1. ASSUME NEW u \in User, FlushSnapshot(f, u)
          PROVE  owed' \in [Flusher -> SUBSET (Conn \X Nat)]
      <4>1. ASSUME NEW s \in created, send[s] # None
            PROVE  send[s] \in Conn /\ QueuedOn(send[s]) \subseteq Nat
        <5>1. send[s] \in Conn
          BY <1>a, <4>1 DEF TypeOK
        <5> QED BY <1>a, <5>1, QueuedNat
      <4> DEFINE mine == {s \in sessions : owner[s] = u}
                 now == UNION {{send[s]} \X QueuedOn(send[s]) : s \in {t \in mine : send[t] # None}}
      <4>2. now \in SUBSET (Conn \X Nat)
        BY <4>1, <1>a DEF TypeOK
      <4>3. owed' = [owed EXCEPT ![f] = now]
        BY <3>1 DEF FlushSnapshot
      <4> HIDE DEF now
      <4> QED BY <4>2, <4>3 DEF FlushTypeOK
    <3> QED BY <1>2, <3>1 DEF FlushSkip, FlushFull, FlushResolved, FlushTimeout,
                              FlushReturn, FlushTypeOK
  <2> QED BY <2>1, <2>2, <2>3, <2>4, <2>5, <2>6 DEF FlushTypeOK
<1>3. ASSUME NEW f \in Flusher, NEW s \in Sess, FlushQueue(f, s) PROVE FlushTypeOK'
  <2> DEFINE b == [conn |-> send[s], before |-> QueuedOn(send[s])]
             r == [kind |-> "flush", seq |-> Len(barriers) + 1]
  <2>1. send[s] \in Conn
    BY <1>a, <1>3 DEF FlushQueue, TypeOK
  <2>2. b \in Barrier
    BY <1>a, <2>1, QueuedNat DEF Barrier
  <2>3. Len(barriers) + 1 \in Nat
    BY LenProperties DEF FlushTypeOK
  <2>4. r \in Request
    BY <2>3 DEF Request
  <2>5. /\ queue' = [queue EXCEPT ![send[s]] = Append(@, r)]
        /\ barriers' = Append(barriers, b)
        /\ UNCHANGED <<serverVars, sessionVars, connVars, chanOpen, pump, sockUp,
                       wire, seen, dispatchVars, excuse, resolved, owed>>
    BY <1>3 DEF FlushQueue
  <2>6. /\ fwait' = [fwait EXCEPT ![f] = Len(barriers) + 1]
        /\ fleft' = [fleft EXCEPT ![f] = @ \ {s}]
        /\ fpc' = [fpc EXCEPT ![f] = "wait"]
    BY <1>3 DEF FlushQueue
  <2> HIDE DEF b, r
  <2>7. queue' \in [Conn -> Seq(Request)]
    <3>1. Append(queue[send[s]], r) \in Seq(Request)
      BY <1>a, <2>1, <2>4, AppendProperties DEF TypeOK
    <3> QED BY <1>a, <2>5, <3>1 DEF TypeOK
  <2>8. TypeOK'
    BY <1>a, <2>5, <2>7, QueueOnly
  <2>9. barriers' \in Seq(Barrier) /\ DOMAIN barriers \subseteq DOMAIN barriers'
    <3>1. barriers \in Seq(Barrier)
      BY DEF FlushTypeOK
    <3> QED BY <2>2, <2>5, <3>1, AppendProperties, LenProperties
  <2>10. created' = created
    BY <2>5 DEF serverVars
  <2>11. fleft' \in [Flusher -> SUBSET created']
    BY <2>6, <2>10 DEF FlushTypeOK
  <2>12. fpc' \in [Flusher -> {"idle", "visit", "wait", "returned"}]
         /\ fwait' \in [Flusher -> Nat]
    BY <2>3, <2>6 DEF FlushTypeOK
  <2> QED BY <2>5, <2>8, <2>9, <2>11, <2>12 DEF FlushTypeOK
<1>4. ASSUME NEW c \in Conn, PumpBarrier(c) PROVE FlushTypeOK'
  <2>1. queue[c] \in Seq(Request) /\ queue[c] # <<>>
    BY <1>a, <1>4 DEF PumpBarrier, TypeOK
  <2>2. Tail(queue[c]) \in Seq(Request)
    BY <2>1, HeadTailProperties
  <2>3. queue' \in [Conn -> Seq(Request)]
    BY <1>a, <1>4, <2>2 DEF PumpBarrier, TypeOK
  <2>4. TypeOK'
    BY <1>a, <1>4, <2>3, QueueOnly DEF PumpBarrier
  <2>5. Head(queue[c]) = queue[c][1] /\ 1 \in DOMAIN queue[c]
    BY <2>1, EmptySeq, LenProperties, HeadTailProperties
  <2>6. Head(queue[c]).seq \in DOMAIN barriers
    BY <1>4, <2>5 DEF PumpBarrier, BarrierInv, EntryOK
  <2>7. resolved' \subseteq DOMAIN barriers
    BY <1>4, <2>6 DEF PumpBarrier, FlushTypeOK
  <2>8. UNCHANGED <<created, fpc, fleft, fwait, excuse, barriers, owed>>
    BY <1>4 DEF PumpBarrier, serverVars
  <2> QED BY <2>4, <2>7, <2>8 DEF FlushTypeOK
<1>5. CASE UNCHANGED allVars
  BY <1>a, <1>5, NextTypes DEF FlushTypeOK, allVars, flushVars, vars, serverVars
<1> QED BY <1>1, <1>2, <1>3, <1>4, <1>5 DEF FlushNext, Flush

-----------------------------------------------------------------------------
(* Barriers keep their place *)

\* Appending leaves what stands before a place as it was.
LEMMA BeforeAppend ==
    ASSUME NEW q \in Seq(Request), NEW r \in Request, NEW i \in 1..(Len(q) + 1)
    PROVE  Before(Append(q, r), i) = Before(q, i)
<1>1. Len(q) \in Nat /\ \A j \in 1..Len(q) : Append(q, r)[j] = q[j]
  BY AppendProperties, LenProperties
<1>2. \A k \in 1..(i - 1) : Append(q, r)[k] = q[k]
  BY <1>1
<1> QED BY <1>2 DEF Before

\* All that is queued stands before a frame that is appended.
LEMMA BeforeLast ==
    ASSUME NEW q \in Seq(Request)
    PROVE  Before(q, Len(q) + 1) = {r.seq : r \in {x \in Elems(q) : IsDispatch(x)}}
<1>1. DOMAIN q = 1..Len(q) /\ Len(q) \in Nat
  BY LenProperties
<1>2. 1..((Len(q) + 1) - 1) = DOMAIN q
  BY <1>1
<1> QED BY <1>2 DEF Before, Elems

\* Taking the head moves every place up by one; only the head is lost.
LEMMA BeforeTail ==
    ASSUME NEW q \in Seq(Request), q # <<>>, NEW i \in DOMAIN Tail(q)
    PROVE  /\ Tail(q)[i] = q[i + 1] /\ i + 1 \in DOMAIN q
           /\ Before(q, i + 1) \subseteq Before(Tail(q), i) \cup {Head(q).seq}
           /\ ~IsDispatch(Head(q)) => Before(q, i + 1) \subseteq Before(Tail(q), i)
<1>1. /\ DOMAIN q = 1..Len(q) /\ Len(q) \in Nat \ {0}
      /\ Tail(q) \in Seq(Request) /\ Len(Tail(q)) = Len(q) - 1
      /\ Head(q) = q[1]
  BY EmptySeq, LenProperties, HeadTailProperties
<1>2. DOMAIN Tail(q) = 1..(Len(q) - 1)
  BY <1>1, LenProperties
<1>3. \A j \in 1..(Len(q) - 1) : Tail(q)[j] = q[j + 1]
  BY <1>1, <1>2, HeadTailProperties
<1>4. ASSUME NEW k \in 1..((i + 1) - 1), IsDispatch(q[k])
      PROVE  k = 1 \/ q[k].seq \in Before(Tail(q), i)
  <2>1. SUFFICES ASSUME k # 1 PROVE q[k].seq \in Before(Tail(q), i)
    OBVIOUS
  <2>2. k - 1 \in 1..(i - 1) /\ k - 1 \in 1..(Len(q) - 1) /\ (k - 1) + 1 = k
    BY <1>1, <1>2, <2>1
  <2>3. Tail(q)[k - 1] = q[k]
    BY <1>3, <2>2
  <2> QED BY <1>4, <2>2, <2>3 DEF Before
<1> QED BY SMTT(60), <1>1, <1>2, <1>3, <1>4 DEF Before

\* Every barrier in the queue of c is where it should be.
EntriesOK(c) == \A i \in DOMAIN queue[c] : queue[c][i].kind = "flush" => EntryOK(c, i)

\* What the gateway does to a queue leaves its barriers behind their frames.
LEMMA MoveEntries ==
    ASSUME TypeOK, NEW c \in Conn, QueueMove(c), barriers' = barriers, EntriesOK(c)
    PROVE  EntriesOK(c)' /\ Elems(wire[c]) \subseteq Elems(wire'[c])
<1>1. /\ queue[c] \in Seq(Request) /\ wire[c] \in Seq(Nat)
      /\ DOMAIN queue[c] = 1..Len(queue[c]) /\ Len(queue[c]) \in Nat
  BY LenProperties DEF TypeOK
<1>2. CASE UNCHANGED <<queue[c], wire[c]>>
  BY <1>2 DEF EntriesOK, EntryOK
<1>3. ASSUME NEW r \in Request, r.kind # "flush", queue'[c] = Append(queue[c], r),
             wire'[c] = wire[c]
      PROVE  EntriesOK(c)'
  <2>1. SUFFICES ASSUME NEW i \in DOMAIN queue'[c], queue'[c][i].kind = "flush"
                 PROVE  EntryOK(c, i)'
    BY DEF EntriesOK
  <2>2. DOMAIN queue'[c] = 1..(Len(queue[c]) + 1)
    BY <1>1, <1>3, AppendProperties
  <2>3. i \in 1..Len(queue[c]) /\ queue'[c][i] = queue[c][i]
    <3>1. queue'[c][Len(queue[c]) + 1] = r
      BY <1>1, <1>3, AppendProperties
    <3>2. i # Len(queue[c]) + 1
      BY <1>3, <2>1, <3>1
    <3>3. i \in 1..Len(queue[c])
      BY <1>1, <2>1, <2>2, <3>2
    <3> QED BY <1>1, <1>3, <3>3, AppendProperties
  <2>4. Before(queue'[c], i) = Before(queue[c], i)
    <3>1. i \in 1..(Len(queue[c]) + 1)
      BY <2>1, <2>2
    <3> QED BY <1>1, <1>3, <3>1, BeforeAppend
  <2>5. EntryOK(c, i)
    BY <1>1, <2>1, <2>3 DEF EntriesOK
  <2> QED BY <1>3, <2>3, <2>4, <2>5 DEF EntryOK
<1>4. ASSUME queue[c] # <<>>, Head(queue[c]).kind # "flush", queue'[c] = Tail(queue[c]),
             \/ wire'[c] = Append(wire[c], Head(queue[c]).seq)
             \/ wire'[c] = wire[c] /\ ~IsDispatch(Head(queue[c]))
      PROVE  EntriesOK(c)' /\ Elems(wire[c]) \subseteq Elems(wire'[c])
  <2>1. Head(queue[c]) \in Request /\ Head(queue[c]).seq \in Nat
    <3>1. Head(queue[c]) \in Request
      BY <1>1, <1>4, ElemsTail, HeadTailProperties
    <3> QED BY <3>1 DEF Request
  <2>2. \/ Elems(wire'[c]) = Elems(wire[c]) \cup {Head(queue[c]).seq}
        \/ wire'[c] = wire[c] /\ ~IsDispatch(Head(queue[c]))
    <3>1. Elems(Append(wire[c], Head(queue[c]).seq)) = Elems(wire[c]) \cup {Head(queue[c]).seq}
      BY <1>1, <2>1, ElemsAppend
    <3> QED BY <1>4, <3>1
  <2>3. ASSUME NEW i \in DOMAIN queue'[c], queue'[c][i].kind = "flush"
        PROVE  EntryOK(c, i)'
    <3>1. /\ queue'[c][i] = queue[c][i + 1] /\ i + 1 \in DOMAIN queue[c]
          /\ Before(queue[c], i + 1) \subseteq Before(queue'[c], i) \cup {Head(queue[c]).seq}
          /\ ~IsDispatch(Head(queue[c])) =>
                 Before(queue[c], i + 1) \subseteq Before(queue'[c], i)
      BY <1>1, <1>4, <2>3, BeforeTail
    <3>2. EntryOK(c, i + 1)
      BY <2>3, <3>1 DEF EntriesOK
    <3> QED BY <2>2, <3>1, <3>2 DEF EntryOK
  <2> QED BY <2>2, <2>3 DEF EntriesOK
<1>5. CASE UNCHANGED wire[c]
  BY <1>2, <1>3, <1>4, <1>5 DEF QueueMove
<1> QED BY <1>2, <1>3, <1>4 DEF QueueMove

\* The gateway's own steps keep the barriers behind their frames.
LEMMA NextBarrier ==
    ASSUME FlushTypeOK, WriterInv, BarrierInv, Next, UNCHANGED flushVars
    PROVE  BarrierInv'
<1>1. TypeOK
  BY DEF FlushTypeOK
<1>2. \A c \in Conn : SocketMove(c)
  BY <1>1, SocketStep DEF BarrierInv
<1>3. barriers' = barriers /\ resolved' = resolved
  BY DEF flushVars
<1>4. \A b \in DOMAIN barriers : barriers[b].conn \in Conn
  <2>1. \A b \in DOMAIN barriers : barriers[b] \in Barrier
    BY ElementOfSeq, LenProperties DEF FlushTypeOK
  <2> QED BY <2>1 DEF Barrier
<1>5. ASSUME NEW c \in Conn, pump'[c] = "run"
      PROVE  EntriesOK(c)' /\ (pc[c] # "new" => Elems(wire[c]) \subseteq Elems(wire'[c]))
  <2>1. EntriesOK(c)
    <3>1. CASE pc[c] = "new"
      <4>1. DOMAIN queue[c] = {}
        BY <3>1 DEF BarrierInv
      <4> QED BY <4>1 DEF EntriesOK
    <3>2. CASE pc[c] # "new"
      BY <1>2, <1>5, <3>2 DEF SocketMove, BarrierInv, EntriesOK
    <3> QED BY <3>1, <3>2
  <2> QED BY <1>1, <1>2, <1>3, <1>5, <2>1, MoveEntries DEF SocketMove
<1>6. \A c \in Conn : pc'[c] = "new" => queue'[c] = <<>>
  BY <1>2 DEF SocketMove, BarrierInv
<1>7. \A c \in Conn : sockUp'[c] => pump'[c] = "run"
  BY <1>2 DEF SocketMove, BarrierInv
<1>8. \A b \in DOMAIN barriers : pc'[barriers[b].conn] # "new"
  BY <1>2, <1>4 DEF SocketMove, BarrierInv
<1>9. BarrierBehindFrames'
  <2>1. SUFFICES ASSUME NEW b \in resolved, pump'[barriers[b].conn] = "run"
                 PROVE  barriers[b].before \subseteq Elems(wire'[barriers[b].conn])
    BY <1>3 DEF BarrierBehindFrames
  <2>2. b \in DOMAIN barriers /\ barriers[b].conn \in Conn
    BY <1>4 DEF FlushTypeOK
  <2>3. pc[barriers[b].conn] # "new" /\ pump[barriers[b].conn] = "run"
    BY <1>2, <2>1, <2>2 DEF SocketMove, BarrierInv
  <2> QED BY <1>5, <2>1, <2>2, <2>3 DEF BarrierInv, BarrierBehindFrames
<1> QED BY <1>3, <1>5, <1>6, <1>7, <1>8, <1>9 DEF BarrierInv, EntriesOK

\* So do the steps of FlushUser and the pump.
LEMMA FlushBarrier ==
    FlushTypeOK /\ WriterInv /\ BarrierInv /\ [FlushNext]_allVars => BarrierInv'
<1> SUFFICES ASSUME FlushTypeOK, WriterInv, BarrierInv, [FlushNext]_allVars
             PROVE  BarrierInv'
  OBVIOUS
<1>a. TypeOK
  BY DEF FlushTypeOK
<1>1. CASE Next /\ UNCHANGED flushVars
  BY <1>1, NextBarrier
<1>2. CASE UNCHANGED <<pc, queue, pump, sockUp, wire, barriers, resolved>>
  BY <1>2 DEF BarrierInv, EntryOK, BarrierBehindFrames
<1>3. ASSUME NEW f \in Flusher,
             \/ \E u \in User : FlushSnapshot(f, u)
             \/ \E s \in Sess : FlushSkip(f, s) \/ FlushFull(f, s)
             \/ FlushResolved(f) \/ FlushTimeout(f) \/ FlushReturn(f)
      PROVE  BarrierInv'
  BY <1>2, <1>3 DEF FlushSnapshot, FlushSkip, FlushFull, FlushResolved, FlushTimeout,
                    FlushReturn, vars, connVars, sockVars
<1>4. ASSUME NEW f \in Flusher, NEW s \in Sess, FlushQueue(f, s) PROVE BarrierInv'
  <2> DEFINE n == Len(barriers) + 1
             b == [conn |-> send[s], before |-> QueuedOn(send[s])]
             r == [kind |-> "flush", seq |-> n]
             q == queue[send[s]]
  <2>1. send[s] \in Conn /\ pc[send[s]] # "new"
    <3>1. s \in Sess /\ send[s] # None
      BY <1>4 DEF FlushQueue
    <3>2. pc[send[s]] \in Attached
      BY <3>1 DEF WriterInv
    <3>3. send[s] \in Conn
      BY <1>a, <3>1 DEF TypeOK
    <3> QED BY <3>2, <3>3 DEF Attached
  <2>2. /\ queue' = [queue EXCEPT ![send[s]] = Append(@, r)]
        /\ barriers' = Append(barriers, b)
        /\ UNCHANGED <<pc, pump, sockUp, wire, resolved>>
    BY <1>4 DEF FlushQueue, connVars
  <2>3. /\ barriers \in Seq(Barrier) /\ b \in Barrier
        /\ q \in Seq(Request) /\ r \in Request
        /\ n \in Nat /\ DOMAIN barriers = 1..Len(barriers) /\ Len(barriers) \in Nat
    <3>1. barriers \in Seq(Barrier)
      BY DEF FlushTypeOK
    <3>2. n \in Nat /\ DOMAIN barriers = 1..Len(barriers) /\ Len(barriers) \in Nat
      BY <3>1, LenProperties
    <3>3. r \in Request
      BY <3>2 DEF Request
    <3>4. b \in Barrier
      BY <1>a, <2>1, QueuedNat DEF Barrier
    <3> QED BY <1>a, <2>1, <3>1, <3>2, <3>3, <3>4 DEF TypeOK
  <2>4. /\ DOMAIN barriers' = 1..n /\ barriers'[n] = b
        /\ \A k \in DOMAIN barriers : barriers'[k] = barriers[k]
        /\ DOMAIN barriers \subseteq DOMAIN barriers' /\ n \in DOMAIN barriers'
    BY <2>2, <2>3, AppendProperties, LenProperties
  <2>5. b.conn = send[s] /\ b.before = QueuedOn(send[s]) /\ r.kind = "flush" /\ r.seq = n
    OBVIOUS
  <2> HIDE DEF b, r, n
  <2>6. ASSUME NEW c \in Conn, NEW i \in DOMAIN queue[c], pump[c] = "run",
               queue[c][i].kind = "flush", queue'[c][i] = queue[c][i],
               Before(queue'[c], i) = Before(queue[c], i)
        PROVE  EntryOK(c, i)'
    <3>1. EntryOK(c, i)
      BY <2>6 DEF BarrierInv
    <3> QED BY <2>2, <2>4, <2>6, <3>1 DEF EntryOK
  <2>7. ASSUME NEW c \in Conn, pump[c] = "run", c # send[s] PROVE EntriesOK(c)'
    <3>1. queue'[c] = queue[c]
      BY <1>a, <2>2, <2>7 DEF TypeOK
    <3> QED BY <2>6, <2>7, <3>1 DEF EntriesOK
  <2>8. ASSUME NEW c \in Conn, pump[c] = "run", c = send[s] PROVE EntriesOK(c)'
    <3>1. queue'[c] = Append(q, r) /\ queue[c] = q
      BY <1>a, <2>1, <2>2, <2>8 DEF TypeOK
    <3> HIDE DEF q
    <3>2. /\ DOMAIN q = 1..Len(q) /\ Len(q) \in Nat
          /\ DOMAIN queue'[c] = 1..(Len(q) + 1)
          /\ \A i \in 1..Len(q) : queue'[c][i] = q[i]
          /\ queue'[c][Len(q) + 1] = r
      BY <2>3, <3>1, AppendProperties, LenProperties
    <3>3. ASSUME NEW i \in 1..Len(q), q[i].kind = "flush" PROVE EntryOK(c, i)'
      <4>1. Before(queue'[c], i) = Before(q, i)
        <5>1. i \in 1..(Len(q) + 1)
          BY <3>2
        <5> QED BY <2>3, <3>1, <5>1, BeforeAppend
      <4> QED BY <2>6, <2>8, <3>1, <3>2, <3>3, <4>1
    <3>4. ASSUME NEW m, m = Len(q) + 1 PROVE EntryOK(c, m)'
      <4>1. Before(queue'[c], m) = QueuedOn(c)
        <5>1. m \in 1..(Len(q) + 1)
          BY <3>2, <3>4
        <5>2. Before(queue'[c], m) = Before(q, m)
          BY <2>3, <3>1, <5>1, BeforeAppend
        <5> QED BY <2>3, <3>1, <3>4, <5>2, BeforeLast DEF QueuedOn
      <4>2. queue'[c][m].seq = n
        BY <2>5, <3>2, <3>4
      <4> QED BY <2>4, <2>5, <2>8, <4>1, <4>2 DEF EntryOK
    <3>5. \A i \in DOMAIN queue'[c] : i \in 1..Len(q) \/ i = Len(q) + 1
      BY <3>2
    <3> QED BY <3>2, <3>3, <3>4, <3>5 DEF EntriesOK
  <2>9. \A c \in Conn : pump'[c] = "run" => EntriesOK(c)'
    BY <2>2, <2>7, <2>8
  <2>10. \A c \in Conn : pc'[c] = "new" => queue'[c] = <<>>
    BY <1>a, <2>1, <2>2 DEF BarrierInv, TypeOK
  <2>11. \A k \in DOMAIN barriers' : pc'[barriers'[k].conn] # "new"
    <3>1. \A k \in DOMAIN barriers' : k = n \/ k \in DOMAIN barriers
      BY <2>3, <2>4 DEF n
    <3> QED BY <2>1, <2>2, <2>4, <2>5, <3>1 DEF BarrierInv
  <2>12. BarrierBehindFrames'
    BY <2>2, <2>4 DEF BarrierInv, BarrierBehindFrames, FlushTypeOK
  <2> QED BY <2>2, <2>9, <2>10, <2>11, <2>12 DEF BarrierInv, EntriesOK
<1>5. ASSUME NEW c \in Conn, PumpBarrier(c) PROVE BarrierInv'
  <2>1. /\ queue' = [queue EXCEPT ![c] = Tail(@)] /\ queue[c] # <<>> /\ pump[c] = "run"
        /\ Head(queue[c]).kind = "flush" /\ resolved' = resolved \cup {Head(queue[c]).seq}
        /\ UNCHANGED <<pc, pump, sockUp, wire, barriers>>
    BY <1>5 DEF PumpBarrier, connVars
  <2>2. queue[c] \in Seq(Request) /\ Head(queue[c]) = queue[c][1] /\ 1 \in DOMAIN queue[c]
    BY <1>a, <2>1, EmptySeq, LenProperties, HeadTailProperties DEF TypeOK
  <2>3. EntryOK(c, 1)
    BY <2>1, <2>2 DEF BarrierInv
  <2>4. Before(queue[c], 1) = {}
    BY DEF Before
  <2>5. ~IsDispatch(Head(queue[c]))
    BY <2>1 DEF IsDispatch
  <2>6. BarrierBehindFrames'
    BY <2>1, <2>2, <2>3, <2>4 DEF BarrierInv, BarrierBehindFrames, EntryOK
  <2>7. ASSUME NEW i \in DOMAIN queue'[c], queue'[c][i].kind = "flush"
        PROVE  EntryOK(c, i)'
    <3>1. queue'[c] = Tail(queue[c])
      BY <1>a, <2>1 DEF TypeOK
    <3>2. /\ queue'[c][i] = queue[c][i + 1] /\ i + 1 \in DOMAIN queue[c]
          /\ Before(queue[c], i + 1) \subseteq Before(queue'[c], i)
      BY <2>1, <2>2, <2>5, <2>7, <3>1, BeforeTail
    <3>3. EntryOK(c, i + 1)
      BY <2>1, <2>7, <3>2 DEF BarrierInv
    <3> QED BY <2>1, <3>2, <3>3 DEF EntryOK
  <2>8. ASSUME NEW d \in Conn, d # c PROVE queue'[d] = queue[d]
    BY <1>a, <2>1, <2>8 DEF TypeOK
  <2>9. \A d \in Conn : pump'[d] = "run" =>
            \A i \in DOMAIN queue'[d] : queue'[d][i].kind = "flush" => EntryOK(d, i)'
    BY <2>1, <2>7, <2>8 DEF BarrierInv, EntryOK
  <2>10. pc[c] # "new"
    BY <2>1 DEF BarrierInv
  <2>11. \A d \in Conn : pc'[d] = "new" => queue'[d] = <<>>
    BY <2>1, <2>8, <2>10 DEF BarrierInv
  <2> QED BY <2>1, <2>6, <2>9, <2>11 DEF BarrierInv
<1>6. CASE UNCHANGED allVars
  BY <1>2, <1>6 DEF allVars, flushVars, vars, connVars, sockVars
<1> QED BY <1>1, <1>3, <1>4, <1>5, <1>6 DEF FlushNext, Flush

-----------------------------------------------------------------------------
(* What FlushUser owes *)

\* A step that leaves FlushUser alone keeps what it owes, if what was queued on
\* a socket that stays up is written or still queued, and its writer stays.
LEMMA QuietOwed ==
    ASSUME FlushTypeOK, OwedInv, UNCHANGED <<fpc, fleft, fwait, excuse, owed>>,
           DOMAIN barriers \subseteq DOMAIN barriers',
           \A b \in DOMAIN barriers : barriers'[b] = barriers[b],
           \A c \in Conn : pc'[c] = "new" => pc[c] = "new",
           \A c \in Conn : (pc[c] # "new" /\ chanOpen'[c] /\ sockUp'[c]) =>
               /\ chanOpen[c] /\ sockUp[c]
               /\ Elems(wire[c]) \subseteq Elems(wire'[c])
               /\ QueuedOn(c) \subseteq Elems(wire'[c]) \cup QueuedOn(c)'
               /\ \A s \in Sess : send[s] = c => send'[s] = c
    PROVE  OwedInv'
<1>1. ASSUME NEW f \in Flusher, NEW o \in owed[f] PROVE OwedOK(f, o)'
  <2>1. OwedOK(f, o) /\ o[1] \in Conn /\ fleft[f] \subseteq Sess
    <3>1. o \in Conn \X Nat
      BY DEF FlushTypeOK
    <3> QED BY <3>1 DEF FlushTypeOK, TypeOK, OwedInv
  <2> QED BY <2>1 DEF OwedOK
<1> QED BY <1>1 DEF OwedInv

\* What the gateway itself does to a socket that stays up loses no frame.
LEMMA MoveQueued ==
    ASSUME TypeOK, NEW c \in Conn, QueueMove(c)
    PROVE  /\ Elems(wire[c]) \subseteq Elems(wire'[c])
           /\ QueuedOn(c) \subseteq Elems(wire'[c]) \cup QueuedOn(c)'
<1>1. queue[c] \in Seq(Request) /\ wire[c] \in Seq(Nat)
  BY DEF TypeOK
<1>2. CASE UNCHANGED <<queue[c], wire[c]>>
  BY <1>2 DEF QueuedOn
<1>3. ASSUME NEW r \in Request, queue'[c] = Append(queue[c], r), wire'[c] = wire[c]
      PROVE  QueuedOn(c) \subseteq QueuedOn(c)'
  <2>1. Elems(queue'[c]) = Elems(queue[c]) \cup {r}
    BY <1>1, <1>3, ElemsAppend
  <2> QED BY <2>1 DEF QueuedOn
<1>4. ASSUME queue[c] # <<>>, queue'[c] = Tail(queue[c]),
             \/ wire'[c] = Append(wire[c], Head(queue[c]).seq)
             \/ wire'[c] = wire[c] /\ ~IsDispatch(Head(queue[c]))
      PROVE  /\ Elems(wire[c]) \subseteq Elems(wire'[c])
             /\ QueuedOn(c) \subseteq Elems(wire'[c]) \cup QueuedOn(c)'
  <2>1. Elems(queue[c]) = {Head(queue[c])} \cup Elems(queue'[c])
    BY <1>1, <1>4, ElemsTail
  <2>2. Head(queue[c]).seq \in Nat
    <3>1. Head(queue[c]) \in Request
      BY <1>1, <1>4, ElemsTail, HeadTailProperties
    <3> QED BY <3>1 DEF Request
  <2>3. Elems(Append(wire[c], Head(queue[c]).seq)) = Elems(wire[c]) \cup {Head(queue[c]).seq}
    BY <1>1, <2>2, ElemsAppend
  <2> QED BY <1>4, <2>1, <2>3 DEF QueuedOn
<1> QED BY <1>2, <1>3, <1>4 DEF QueueMove

\* The flusher visits its next session, or goes on without a barrier.
LEMMA FlushOwed ==
    FlushTypeOK /\ WriterInv /\ BarrierInv /\ OwedInv /\ [FlushNext]_allVars => OwedInv'
<1> SUFFICES ASSUME FlushTypeOK, WriterInv, BarrierInv, OwedInv, [FlushNext]_allVars
             PROVE  OwedInv'
  OBVIOUS
<1>a. TypeOK
  BY DEF FlushTypeOK
<1>b. ASSUME NEW f \in Flusher, NEW o \in owed[f]
      PROVE  OwedOK(f, o) /\ o[1] \in Conn /\ fleft[f] \subseteq Sess
  <2>1. o \in Conn \X Nat
    BY <1>b DEF FlushTypeOK
  <2> QED BY <1>a, <1>b, <2>1 DEF FlushTypeOK, TypeOK, OwedInv
<1>1. CASE Next /\ UNCHANGED flushVars
  <2>1. \A c \in Conn : SocketMove(c)
    BY <1>a, <1>1, SocketStep DEF BarrierInv
  <2>2. ASSUME NEW c \in Conn, pc[c] # "new", chanOpen'[c], sockUp'[c]
        PROVE  /\ chanOpen[c] /\ sockUp[c]
               /\ Elems(wire[c]) \subseteq Elems(wire'[c])
               /\ QueuedOn(c) \subseteq Elems(wire'[c]) \cup QueuedOn(c)'
               /\ \A s \in Sess : send[s] = c => send'[s] = c
    <3>1. chanOpen[c] /\ sockUp[c] /\ QueueMove(c)
      BY <2>1, <2>2 DEF SocketMove, BarrierInv
    <3>2. \A s \in Sess : send[s] = c => send'[s] = c
      BY <2>1, <2>2 DEF SocketMove
    <3> QED BY <1>a, <3>1, <3>2, MoveQueued
  <2>3. \A c \in Conn : pc'[c] = "new" => pc[c] = "new"
    BY <2>1 DEF SocketMove
  <2>4. UNCHANGED <<fpc, fleft, fwait, excuse, owed, barriers>>
    BY <1>1 DEF flushVars
  <2> QED BY <2>2, <2>3, <2>4, QuietOwed
<1>2. ASSUME NEW f \in Flusher, NEW u \in User, FlushSnapshot(f, u) PROVE OwedInv'
  <2> DEFINE mine == {s \in sessions : owner[s] = u}
             now == UNION {{send[s]} \X QueuedOn(send[s]) : s \in {t \in mine : send[t] # None}}
  <2>1. /\ fpc' = [fpc EXCEPT ![f] = "visit"] /\ fleft' = [fleft EXCEPT ![f] = mine]
        /\ owed' = [owed EXCEPT ![f] = now]
        /\ UNCHANGED <<fwait, excuse, barriers, pc, send, queue, chanOpen, sockUp, wire>>
    BY <1>2 DEF FlushSnapshot, vars, sessionVars, connVars, sockVars
  <2>2. ASSUME NEW o \in now PROVE OwedOK(f, o)'
    <3>1. PICK s \in mine : send[s] # None /\ o[1] = send[s] /\ o[2] \in QueuedOn(send[s])
      OBVIOUS
    <3>2. s \in Sess
      BY <1>a DEF TypeOK
    <3>3. pc[o[1]] # "new"
      BY <3>1, <3>2 DEF WriterInv, Attached
    <3>4. QueuedOn(o[1])' = QueuedOn(o[1])
      BY <2>1 DEF QueuedOn
    <3>5. s \in fleft'[f] /\ send'[s] = o[1]
      BY <2>1, <3>1 DEF FlushTypeOK
    <3> QED BY <2>1, <3>1, <3>3, <3>4, <3>5 DEF OwedOK
  <2>3. ASSUME NEW g \in Flusher, g # f, NEW o \in owed[g] PROVE OwedOK(g, o)'
    BY <1>b, <2>1, <2>3 DEF OwedOK, QueuedOn, FlushTypeOK
  <2> HIDE DEF now, mine
  <2> QED BY <2>1, <2>2, <2>3 DEF OwedInv, FlushTypeOK
<1>3. ASSUME NEW f \in Flusher, NEW s \in Sess, FlushSkip(f, s) PROVE OwedInv'
  <2>1. /\ fpc[f] = "visit" /\ send[s] = None /\ fleft' = [fleft EXCEPT ![f] = @ \ {s}]
        /\ UNCHANGED <<fpc, fwait, excuse, owed, barriers, pc, send, queue, chanOpen,
                       sockUp, wire>>
    BY <1>3 DEF FlushSkip, vars, sessionVars, connVars, sockVars
  <2>2. ASSUME NEW g \in Flusher, NEW o \in owed[g] PROVE OwedOK(g, o)'
    <3>1. ASSUME NEW t \in fleft[g], send[t] = o[1] PROVE t \in fleft'[g]
      <4>1. t # s
        BY <1>b, <2>1, <2>2, <3>1, NoneAssumption
      <4> QED BY <2>1, <3>1, <4>1 DEF FlushTypeOK
    <3> QED BY <1>b, <2>1, <2>2, <3>1 DEF OwedOK, QueuedOn
  <2> QED BY <2>1, <2>2 DEF OwedInv, FlushTypeOK
<1>4. ASSUME NEW f \in Flusher, NEW s \in Sess, FlushQueue(f, s) PROVE OwedInv'
  <2> DEFINE n == Len(barriers) + 1
             b == [conn |-> send[s], before |-> QueuedOn(send[s])]
             r == [kind |-> "flush", seq |-> n]
  <2>1. /\ fpc[f] = "visit" /\ fleft' = [fleft EXCEPT ![f] = @ \ {s}]
        /\ fpc' = [fpc EXCEPT ![f] = "wait"] /\ fwait' = [fwait EXCEPT ![f] = n]
        /\ queue' = [queue EXCEPT ![send[s]] = Append(@, r)]
        /\ barriers' = Append(barriers, b)
        /\ UNCHANGED <<excuse, owed, pc, send, chanOpen, sockUp, wire>>
    BY <1>4 DEF FlushQueue, sessionVars, connVars
  <2>2. /\ send[s] \in Conn /\ barriers \in Seq(Barrier) /\ b \in Barrier /\ r \in Request
    <3>1. send[s] \in Conn
      BY <1>a, <1>4 DEF FlushQueue, TypeOK
    <3>2. b \in Barrier
      BY <1>a, <3>1, QueuedNat DEF Barrier
    <3>3. n \in Nat
      BY LenProperties DEF FlushTypeOK
    <3>4. r \in Request
      BY <3>3 DEF Request
    <3> QED BY <3>1, <3>2, <3>4 DEF FlushTypeOK
  <2>3. /\ n \in DOMAIN barriers' /\ barriers'[n] = b
        /\ DOMAIN barriers \subseteq DOMAIN barriers'
        /\ \A k \in DOMAIN barriers : barriers'[k] = barriers[k]
    BY <2>1, <2>2, AppendProperties, LenProperties
  <2>4. b.conn = send[s] /\ b.before = QueuedOn(send[s])
    OBVIOUS
  <2> HIDE DEF n, b, r
  <2>5. \A c \in Conn : QueuedOn(c) \subseteq QueuedOn(c)'
    <3>1. ASSUME NEW c \in Conn PROVE Elems(queue[c]) \subseteq Elems(queue'[c])
      <4>1. queue'[c] = queue[c] \/ queue'[c] = Append(queue[c], r)
        BY <1>a, <2>1, <2>2 DEF TypeOK
      <4>2. queue[c] \in Seq(Request)
        BY <1>a DEF TypeOK
      <4>3. Elems(Append(queue[c], r)) = Elems(queue[c]) \cup {r}
        BY <2>2, <4>2, ElemsAppend
      <4> QED BY <4>1, <4>3
    <3> QED BY <3>1 DEF QueuedOn
  <2>6. ASSUME NEW o \in owed[f] PROVE OwedOK(f, o)'
    <3>1. fleft'[f] = fleft[f] \ {s} /\ fpc'[f] = "wait" /\ fwait'[f] = n
      BY <2>1 DEF FlushTypeOK
    <3>2. CASE o[1] = send[s] /\ o[2] \in QueuedOn(o[1])
      BY <1>b, <2>1, <2>3, <2>4, <2>6, <3>1, <3>2 DEF OwedOK
    <3>3. CASE o[1] # send[s] \/ o[2] \notin QueuedOn(o[1])
      BY <1>b, <2>1, <2>5, <2>6, <3>1, <3>3 DEF OwedOK
    <3> QED BY <3>2, <3>3
  <2>7. ASSUME NEW g \in Flusher, g # f, NEW o \in owed[g] PROVE OwedOK(g, o)'
    <3>1. UNCHANGED <<fleft[g], fpc[g], fwait[g]>>
      BY <2>1, <2>7 DEF FlushTypeOK
    <3> QED BY <1>b, <2>1, <2>3, <2>5, <2>7, <3>1 DEF OwedOK
  <2>8. /\ \A g \in Flusher : fpc'[g] = "idle" => owed'[g] = {}
        /\ \A g \in Flusher : fpc'[g] = "returned" => fleft'[g] = {}
    BY <2>1 DEF OwedInv, FlushTypeOK
  <2> QED BY <2>1, <2>6, <2>7, <2>8 DEF OwedInv
<1>5. ASSUME NEW f \in Flusher, UNCHANGED <<fleft, owed, barriers, pc, send, queue, chanOpen, sockUp, wire>>,
             \A g \in Flusher \ {f} : UNCHANGED <<fpc[g], fwait[g], excuse[g]>>,
             fpc'[f] # "idle", fpc'[f] = "returned" => fleft[f] = {},
             \/ excuse'[f] # {}
             \/ /\ excuse'[f] = excuse[f]
                /\ fpc[f] = "wait" => fwait[f] \in resolved
      PROVE  OwedInv'
  <2>1. ASSUME NEW o \in owed[f] PROVE OwedOK(f, o)'
    <3>1. OwedOK(f, o) /\ o[1] \in Conn
      BY <1>b, <2>1
    <3>2. ASSUME fpc[f] = "wait", fwait[f] \in resolved, sockUp[o[1]],
                 barriers[fwait[f]].conn = o[1], o[2] \in barriers[fwait[f]].before
          PROVE  o[2] \in Elems(wire[o[1]])
      BY <3>1, <3>2 DEF BarrierInv, BarrierBehindFrames
    <3> QED BY <1>5, <3>1, <3>2 DEF OwedOK, QueuedOn
  <2>2. ASSUME NEW g \in Flusher, g # f, NEW o \in owed[g] PROVE OwedOK(g, o)'
    BY <1>b, <1>5, <2>2 DEF OwedOK, QueuedOn
  <2> QED BY <1>5, <2>1, <2>2 DEF OwedInv
<1>6. ASSUME NEW f \in Flusher, NEW s \in Sess, FlushFull(f, s) PROVE OwedInv'
  <2>1. /\ fpc[f] = "visit" /\ fleft' = [fleft EXCEPT ![f] = @ \ {s}]
        /\ excuse' = [excuse EXCEPT ![f] = @ \cup {"full"}]
        /\ UNCHANGED <<fpc, fwait, owed, barriers, pc, send, queue, chanOpen, sockUp, wire>>
    BY <1>6 DEF FlushFull, vars, sessionVars, connVars, sockVars
  <2>2. ASSUME NEW o \in owed[f] PROVE OwedOK(f, o)'
    <3>1. excuse'[f] # {}
      BY <2>1 DEF FlushTypeOK
    <3> QED BY <1>b, <2>1, <2>2, <3>1 DEF OwedOK
  <2>3. ASSUME NEW g \in Flusher, g # f, NEW o \in owed[g] PROVE OwedOK(g, o)'
    <3>1. fleft'[g] = fleft[g] /\ excuse'[g] = excuse[g]
      BY <2>1, <2>3 DEF FlushTypeOK
    <3> QED BY <1>b, <2>1, <2>3, <3>1 DEF OwedOK, QueuedOn
  <2> QED BY <2>1, <2>2, <2>3 DEF OwedInv, FlushTypeOK
<1>7. ASSUME NEW f \in Flusher, FlushResolved(f) \/ FlushTimeout(f) \/ FlushReturn(f)
      PROVE  OwedInv'
  <2>1. UNCHANGED <<fleft, owed, barriers, pc, send, queue, chanOpen, sockUp, wire>>
    BY <1>7 DEF FlushResolved, FlushTimeout, FlushReturn, vars, sessionVars, connVars, sockVars
  <2>2. \A g \in Flusher \ {f} : UNCHANGED <<fpc[g], fwait[g], excuse[g]>>
    BY <1>7 DEF FlushResolved, FlushTimeout, FlushReturn, FlushTypeOK
  <2>3. fpc'[f] # "idle" /\ (fpc'[f] = "returned" => fleft[f] = {})
    BY <1>7 DEF FlushResolved, FlushTimeout, FlushReturn, FlushTypeOK
  <2>4. \/ excuse'[f] # {}
        \/ excuse'[f] = excuse[f] /\ (fpc[f] = "wait" => fwait[f] \in resolved)
    BY ZenonT(60), <1>7 DEF FlushResolved, FlushTimeout, FlushReturn, FlushTypeOK
  <2> QED BY <1>5, <2>1, <2>2, <2>3, <2>4
<1>8. ASSUME NEW c \in Conn, PumpBarrier(c) PROVE OwedInv'
  <2>1. /\ queue' = [queue EXCEPT ![c] = Tail(@)] /\ queue[c] # <<>>
        /\ Head(queue[c]).kind = "flush"
        /\ UNCHANGED <<fpc, fleft, fwait, excuse, owed, barriers, pc, send, chanOpen,
                       sockUp, wire>>
    BY <1>8 DEF PumpBarrier, sessionVars, connVars
  <2>2. \A d \in Conn : QueuedOn(d) \subseteq QueuedOn(d)'
    <3>1. Elems(queue[c]) = {Head(queue[c])} \cup Elems(queue'[c])
      BY <1>a, <2>1, ElemsTail DEF TypeOK
    <3>2. ~IsDispatch(Head(queue[c]))
      BY <2>1 DEF IsDispatch
    <3>3. \A d \in Conn \ {c} : queue'[d] = queue[d]
      BY <1>a, <2>1 DEF TypeOK
    <3> QED BY <3>1, <3>2, <3>3 DEF QueuedOn
  <2> QED BY <2>1, <2>2, QuietOwed
<1>9. CASE UNCHANGED allVars
  <2>1. UNCHANGED <<fpc, fleft, fwait, excuse, owed, barriers, pc, send, queue, chanOpen, sockUp, wire>>
    BY <1>9 DEF allVars, flushVars, vars, sessionVars, connVars, sockVars
  <2> QED BY <2>1 DEF OwedInv, OwedOK, QueuedOn
<1> QED BY <1>1, <1>2, <1>3, <1>4, <1>6, <1>7, <1>8, <1>9 DEF FlushNext, Flush

\* The steps of FlushUser and of the pump leave writers alone.
LEMMA FlushWriter ==
    FlushTypeOK /\ WriterInv /\ [FlushNext]_allVars => WriterInv'
<1> SUFFICES ASSUME FlushTypeOK, WriterInv, [FlushNext]_allVars PROVE WriterInv'
  OBVIOUS
<1>a. TypeOK
  BY DEF FlushTypeOK
<1>1. CASE [Next]_vars
  BY <1>a, <1>1, NextWriter
<1>2. CASE UNCHANGED <<send, chanOpen, pc, sess>>
  BY <1>2 DEF WriterInv
<1>3. ASSUME NEW f \in Flusher, Flush(f) PROVE WriterInv'
  BY <1>1, <1>2, <1>3 DEF Flush, FlushSnapshot, FlushSkip, FlushQueue, FlushFull,
     FlushResolved, FlushTimeout, FlushReturn, sessionVars, connVars
<1>4. ASSUME NEW c \in Conn, PumpBarrier(c) PROVE WriterInv'
  BY <1>2, <1>4 DEF PumpBarrier, sessionVars, connVars
<1>5. CASE UNCHANGED allVars
  BY <1>1, <1>5 DEF allVars
<1> QED BY <1>1, <1>3, <1>4, <1>5 DEF FlushNext

\* A REST handler that waited for FlushUser answers after the frames it owes:
\* on every socket that is still up, what was queued for the user at the call
\* is written, unless a queue was full or the second ran out; and a barrier is
\* resolved only behind its frames (server.go:199-203, 264-275).
THEOREM FlushKeepsItsContract == FlushSpec => []FlushSound
<1>1. FlushInit => FlushTypeOK /\ WriterInv /\ BarrierInv /\ OwedInv
  <2> SUFFICES ASSUME FlushInit PROVE FlushTypeOK /\ WriterInv /\ BarrierInv /\ OwedInv
    OBVIOUS
  <2>1. TypeOK /\ WriterInv
    BY InitTypes DEF FlushInit, Init, WriterInv
  <2>2. barriers \in Seq(Barrier) /\ DOMAIN barriers = {}
    BY EmptySeq DEF FlushInit
  <2>3. FlushTypeOK
    BY <2>1, <2>2 DEF FlushInit, FlushTypeOK
  <2>4. BarrierInv
    BY <2>2 DEF FlushInit, Init, BarrierInv, BarrierBehindFrames
  <2>5. OwedInv
    BY DEF FlushInit, OwedInv
  <2> QED BY <2>1, <2>3, <2>4, <2>5
<1>2. FlushTypeOK /\ WriterInv /\ BarrierInv /\ OwedInv /\ [FlushNext]_allVars
        => (FlushTypeOK /\ WriterInv /\ BarrierInv /\ OwedInv)'
  BY FlushTypes, FlushWriter, FlushBarrier, FlushOwed
<1>3. FlushTypeOK /\ BarrierInv /\ OwedInv => FlushSound
  BY FlushInvImpliesSound
<1> QED BY <1>1, <1>2, <1>3, PTL DEF FlushSpec

=============================================================================
