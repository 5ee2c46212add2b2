---------------------------- MODULE GatewayFlush ----------------------------
(***************************************************************************)
(* Gateway together with FlushUser (server.go, session.go): the write      *)
(* barrier a REST handler waits for, after a Dispatch and before its HTTP  *)
(* response, so that the client has the event first.                       *)
(*                                                                         *)
(* FlushUser takes a snapshot of the user's sessions, queues a barrier on  *)
(* each that is online and waits for it, one second at most.  The pump     *)
(* resolves a barrier when it reaches it.                                  *)
(***************************************************************************)
EXTENDS Gateway

CONSTANT Flusher  \* goroutines calling FlushUser, once each

VARIABLES
    fpc,       \* where FlushUser is
    fleft,     \* sessions of its snapshot not yet visited
    fwait,     \* the barrier it waits for
    excuse,    \* why it went on without a resolved barrier, if it did
    barriers,  \* history: the barriers queued, a barrier's number is its place
    resolved,  \* barriers whose done channel the pump closed
    owed       \* history: <<connection, number>> queued when FlushUser began

flushVars == <<fpc, fleft, fwait, excuse, barriers, resolved, owed>>
allVars == <<vars, flushVars>>

Barrier == [conn : Conn, before : SUBSET Nat]

FlushTypeOK ==
    /\ TypeOK
    /\ fpc \in [Flusher -> {"idle", "visit", "wait", "returned"}]
    /\ fleft \in [Flusher -> SUBSET created]
    /\ fwait \in [Flusher -> Nat]
    /\ excuse \in [Flusher -> SUBSET {"full", "timeout"}]
    /\ barriers \in Seq(Barrier)
    /\ resolved \subseteq DOMAIN barriers
    /\ owed \in [Flusher -> SUBSET (Conn \X Nat)]

FlushInit ==
    /\ Init
    /\ fpc = [f \in Flusher |-> "idle"]
    /\ fleft = [f \in Flusher |-> {}]
    /\ fwait = [f \in Flusher |-> 0]
    /\ excuse = [f \in Flusher |-> {}]
    /\ barriers = <<>>
    /\ resolved = {}
    /\ owed = [f \in Flusher |-> {}]

-----------------------------------------------------------------------------
QueuedOn(c) == {r.seq : r \in {q \in Elems(queue[c]) : IsDispatch(q)}}

\* The snapshot, under Server.mu for reading.
FlushSnapshot(f, u) ==
    /\ fpc[f] = "idle"
    /\ mu = None
    /\ LET mine == {s \in sessions : owner[s] = u}
       IN  /\ fleft' = [fleft EXCEPT ![f] = mine]
           /\ owed' = [owed EXCEPT ![f] =
                 UNION {{send[s]} \X QueuedOn(send[s]) :
                            s \in {t \in mine : send[t] # None}}]
    /\ fpc' = [fpc EXCEPT ![f] = "visit"]
    /\ UNCHANGED <<vars, fwait, excuse, barriers, resolved>>

\* offline: nothing to wait for.
FlushSkip(f, s) ==
    /\ fpc[f] = "visit" /\ s \in fleft[f]
    /\ ~Locked(s)
    /\ send[s] = None
    /\ fleft' = [fleft EXCEPT ![f] = @ \ {s}]
    /\ UNCHANGED <<vars, fpc, fwait, excuse, barriers, resolved, owed>>

\* Mutant: the barrier overtakes what is queued.
FlushQueueFirst(f, s) ==
    /\ fpc[f] = "visit" /\ s \in fleft[f]
    /\ ~Locked(s)
    /\ send[s] # None /\ HasRoom(send[s])
    /\ queue' = [queue EXCEPT ![send[s]] =
                    <<[kind |-> "flush", seq |-> Len(barriers) + 1]>> \o @]
    /\ barriers' = Append(barriers, [conn |-> send[s], before |-> QueuedOn(send[s])])
    /\ fwait' = [fwait EXCEPT ![f] = Len(barriers) + 1]
    /\ fleft' = [fleft EXCEPT ![f] = @ \ {s}]
    /\ fpc' = [fpc EXCEPT ![f] = "wait"]
    /\ UNCHANGED <<serverVars, sessionVars, connVars, chanOpen, pump, sockUp,
                   wire, seen, dispatchVars, excuse, resolved, owed>>

\* queueFlush: the barrier takes its place behind what is queued.
FlushQueue(f, s) ==
    /\ fpc[f] = "visit" /\ s \in fleft[f]
    /\ ~Locked(s)
    /\ send[s] # None /\ HasRoom(send[s])
    /\ queue' = [queue EXCEPT ![send[s]] =
                    Append(@, [kind |-> "flush", seq |-> Len(barriers) + 1])]
    /\ barriers' = Append(barriers, [conn |-> send[s], before |-> QueuedOn(send[s])])
    /\ fwait' = [fwait EXCEPT ![f] = Len(barriers) + 1]
    /\ fleft' = [fleft EXCEPT ![f] = @ \ {s}]
    /\ fpc' = [fpc EXCEPT ![f] = "wait"]
    /\ UNCHANGED <<serverVars, sessionVars, connVars, chanOpen, pump, sockUp,
                   wire, seen, dispatchVars, excuse, resolved, owed>>

\* queueFlush on a full queue: done is closed at once.
FlushFull(f, s) ==
    /\ fpc[f] = "visit" /\ s \in fleft[f]
    /\ ~Locked(s)
    /\ send[s] # None /\ ~HasRoom(send[s])
    /\ excuse' = [excuse EXCEPT ![f] = @ \cup {"full"}]
    /\ fleft' = [fleft EXCEPT ![f] = @ \ {s}]
    /\ UNCHANGED <<vars, fpc, fwait, barriers, resolved, owed>>

\* The wait ends, with the barrier resolved ...
FlushResolved(f) ==
    /\ fpc[f] = "wait" /\ fwait[f] \in resolved
    /\ fpc' = [fpc EXCEPT ![f] = "visit"]
    /\ fwait' = [fwait EXCEPT ![f] = 0]
    /\ UNCHANGED <<vars, fleft, excuse, barriers, resolved, owed>>

\* ... or after a second.
FlushTimeout(f) ==
    /\ fpc[f] = "wait"
    /\ fpc' = [fpc EXCEPT ![f] = "visit"]
    /\ fwait' = [fwait EXCEPT ![f] = 0]
    /\ excuse' = [excuse EXCEPT ![f] = @ \cup {"timeout"}]
    /\ UNCHANGED <<vars, fleft, barriers, resolved, owed>>

FlushReturn(f) ==
    /\ fpc[f] = "visit" /\ fleft[f] = {}
    /\ fpc' = [fpc EXCEPT ![f] = "returned"]
    /\ UNCHANGED <<vars, fleft, fwait, excuse, barriers, resolved, owed>>

\* writePump meets a barrier: it closes done and writes nothing.
PumpBarrier(c) ==
    /\ pump[c] = "run"
    /\ queue[c] # <<>> /\ Head(queue[c]).kind = "flush"
    /\ queue' = [queue EXCEPT ![c] = Tail(@)]
    /\ resolved' = resolved \cup {Head(queue[c]).seq}
    /\ UNCHANGED <<serverVars, sessionVars, connVars, chanOpen, pump, sockUp,
                   wire, seen, dispatchVars,
                   fpc, fleft, fwait, excuse, barriers, owed>>

Flush(f) ==
    \/ \E u \in User : FlushSnapshot(f, u)
    \/ \E s \in Sess : FlushSkip(f, s) \/ FlushQueue(f, s) \/ FlushFull(f, s)
    \/ FlushResolved(f) \/ FlushTimeout(f) \/ FlushReturn(f)

FlushNext ==
    \/ Next /\ UNCHANGED flushVars
    \/ \E f \in Flusher : Flush(f)
    \/ \E c \in Conn : PumpBarrier(c)

FlushSpec == FlushInit /\ [][FlushNext]_allVars

-----------------------------------------------------------------------------
\* A barrier the pump resolved stands behind its frames: everything queued on
\* the socket before it has been written (server.go:264-275, FIFO order, and a
\* failed write ends the pump before it reaches the barrier).
BarrierBehindFrames ==
    \A b \in resolved :
        LET c == barriers[b].conn
        IN  pump[c] = "run" => barriers[b].before \subseteq Elems(wire[c])

\* The contract of FlushUser where it neither timed out nor met a full queue:
\* what was queued for the user's sockets at the call is written on every
\* socket that is still up (server.go:199-203).
FlushContract ==
    \A f \in Flusher : (fpc[f] = "returned" /\ excuse[f] = {}) =>
        \A o \in owed[f] :
            (chanOpen[o[1]] /\ sockUp[o[1]]) => o[2] \in Elems(wire[o[1]])

\* FlushUser keeps its contract, and each barrier its place behind the frames
\* it vouches for (FlushUser, writePump).
FlushSound ==
  FlushTypeOK /\ BarrierBehindFrames /\ FlushContract

=============================================================================
