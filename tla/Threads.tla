------------------------------ MODULE Threads -------------------------------
(***************************************************************************)
(* A user's direct-message threads: the records, the (network, nick) index *)
(* over them, and what the client was told.  Queries and typing indicators *)
(* from IRC open threads, so does the client; Clyde, the bouncer's own     *)
(* peer, has one thread on a pseudo-network into which older per-network   *)
(* forks are migrated.  Connections of one user run this concurrently.     *)
(***************************************************************************)
EXTENDS Integers, FiniteSets

CONSTANTS
  Nets, ClydeNet,  \* the user's networks; the pseudo-network
  Peer, Clyde,     \* an IRC nick; the nick "Clyde", which a peer may hold too
  MaxThread,       \* bound: thread ids minted
  MaxNotes         \* bound: deliveries and client requests

ASSUME ThreadAssumption == Peer # Clyde /\ IsFiniteSet(Nets) /\ MaxThread \in Nat

VARIABLES
  thread,          \* DMChannel records by id
  owner,           \* the index from (network, nick) to id
  shown,           \* threads the client knows: READY, CHANNEL_CREATE, a reply
  task,            \* what each connection's goroutine is in the middle of
  lastThread, notes,
  silent,          \* threads opened by a typing indicator alone
  blind,           \* threads that got a message the client cannot place
  crossed          \* a close, or another connection's Clyde work, in between

threadVars == <<thread, owner, shown, task, lastThread, notes, silent, blind, crossed>>

Keys == (Nets \cup {ClydeNet}) \X {Peer, Clyde}
Live == DOMAIN thread
Listed == {owner[k] : k \in DOMAIN owner} \cap Live
NoTask == [pc |-> "none", dm |-> 0, forks |-> {}]

\* Forks of earlier sessions may be there; the client has read them.
ThreadInit ==
  /\ \E F \in SUBSET Nets :
       \E f \in [1 .. Cardinality(F) -> F] :
         /\ \A i, j \in DOMAIN f : i # j => f[i] # f[j]
         /\ thread = [i \in DOMAIN f |->
                        [net |-> f[i], nick |-> Clyde, fresh |-> FALSE, last |-> i]]
         /\ owner = [k \in F \X {Clyde} |-> CHOOSE i \in DOMAIN f : f[i] = k[1]]
         /\ lastThread = Cardinality(F)
  /\ shown = Listed /\ task = [n \in Nets |-> NoTask]
  /\ notes = 0 /\ silent = {} /\ blind = {} /\ crossed = FALSE

----------------------------------------------------------------------------
(* Storage.                                                                *)

\* The thread EnsureDMChannel answers with, and what it leaves behind.
EnsuredId(net, nick) ==
  IF <<net, nick>> \in DOMAIN owner THEN owner[<<net, nick>>] ELSE lastThread + 1

EnsureDMChannel(net, nick) ==
  IF <<net, nick>> \in DOMAIN owner THEN UNCHANGED <<thread, owner, lastThread>>
  ELSE LET id == lastThread + 1
       IN  /\ id <= MaxThread /\ lastThread' = id
           /\ thread' = [i \in Live \cup {id} |->
                           IF i = id THEN [net |-> net, nick |-> nick,
                                           fresh |-> TRUE, last |-> 0]
                           ELSE thread[i]]
           /\ owner' = [k \in DOMAIN owner \cup {<<net, nick>>} |->
                          IF k = <<net, nick>> THEN id ELSE owner[k]]

\* TouchDMChannel fails on a record that is gone, and nobody minds.
TouchDMChannel(id) ==
  thread' = IF id \in Live THEN [thread EXCEPT ![id].last = MaxThread + notes] ELSE thread

\* DeleteDMChannel drops the record and whatever its index entry holds; a
\* record that is gone is no error.
DeleteDMChannel(id) ==
  /\ thread' = [i \in Live \ {id} |-> thread[i]]
  /\ owner' = IF id \notin Live THEN owner
              ELSE [k \in DOMAIN owner \ {<<thread[id].net, thread[id].nick>>} |-> owner[k]]

\* SetDMNetwork moves record and index entry; what was there is replaced.
SetDMNetwork(id, net) ==
  LET old == <<thread[id].net, thread[id].nick>>
      new == <<net, thread[id].nick>>
  IN  /\ thread' = [thread EXCEPT ![id].net = net]
      /\ owner' = [k \in (DOMAIN owner \ {old}) \cup {new} |->
                     IF k = new THEN id ELSE owner[k]]

----------------------------------------------------------------------------
(* Queries, typing indicators and the client.                              *)

Note == notes < MaxNotes /\ notes' = notes + 1
Busy(n) == task[n] # NoTask
\* Work on Clyde's threads starts while another connection is at work.
Crosses(nick) == crossed' = (crossed \/ (nick = Clyde /\ \E m \in Nets : Busy(m)))

\* Mutant: no CHANNEL_CREATE on first contact.
DispatchQueryUnannounced(n, nick) ==
  /\ ~Busy(n) /\ Note
  /\ EnsureDMChannel(n, nick)
  /\ task' = [task EXCEPT ![n] = [NoTask EXCEPT !.pc = "say", !.dm = EnsuredId(n, nick)]]
  /\ Crosses(nick) /\ UNCHANGED <<shown, silent, blind>>

\* dispatchQuery: a thread younger than three seconds is announced.
DispatchQuery(n, nick) ==
  LET id == EnsuredId(n, nick)
  IN  /\ ~Busy(n) /\ Note
      /\ EnsureDMChannel(n, nick)
      /\ shown' = IF thread'[id].fresh THEN shown \cup {id} ELSE shown
      /\ task' = [task EXCEPT ![n] = [NoTask EXCEPT !.pc = "say", !.dm = id]]
      /\ Crosses(nick) /\ UNCHANGED <<silent, blind>>

\* The message goes to the client and into the thread's buffer; the thread
\* is touched.  The end of dispatchQuery and of clydeSay alike.
SayQuery(n) ==
  LET id == task[n].dm
  IN  /\ task[n].pc = "say"
      /\ blind' = IF id \in shown THEN blind ELSE blind \cup {id}
      /\ TouchDMChannel(id)
      /\ task' = [task EXCEPT ![n] = NoTask]
      /\ UNCHANGED <<owner, shown, lastThread, notes, silent, crossed>>

DispatchTyping(n, nick) ==
  /\ ~Busy(n) /\ Note
  /\ EnsureDMChannel(n, nick)
  /\ silent' = IF <<n, nick>> \in DOMAIN owner THEN silent ELSE silent \cup {lastThread'}
  /\ Crosses(nick) /\ UNCHANGED <<shown, task, blind>>

\* Three seconds pass.
Ages(id) ==
  /\ thread[id].fresh /\ thread' = [thread EXCEPT ![id].fresh = FALSE]
  /\ UNCHANGED <<owner, shown, task, lastThread, notes, silent, blind, crossed>>

\* CreateDMChannel: Clyde's thread is the one on the pseudo-network.
CreateDMChannel(n, nick) ==
  LET net == IF nick = Clyde THEN ClydeNet ELSE n
  IN  /\ Note /\ EnsureDMChannel(net, nick)
      /\ shown' = shown \cup {EnsuredId(net, nick)}
      /\ Crosses(nick) /\ UNCHANGED <<task, silent, blind>>

\* clydeCommand: the user's line and the answer go into the thread the
\* request named; only the activity stamp moves.
ClydeCommand(id) ==
  /\ id \in shown \cap Live /\ thread[id].net = ClydeNet /\ Note
  /\ TouchDMChannel(id)
  /\ UNCHANGED <<owner, shown, task, lastThread, silent, blind, crossed>>

CloseDM(id) ==
  /\ id \in shown \cap Live /\ Note
  /\ DeleteDMChannel(id)
  /\ shown' = shown \ {id}
  /\ crossed' = (crossed \/ \E n \in Nets : Busy(n))
  /\ UNCHANGED <<task, lastThread, silent, blind>>

\* A new session gets the listed threads.
Ready ==
  /\ shown # Listed /\ Note /\ shown' = Listed
  /\ UNCHANGED <<thread, owner, task, lastThread, silent, blind, crossed>>

----------------------------------------------------------------------------
(* clydeSay on top of clydeDM.                                             *)

\* The list that clydeDM works on: the canonical thread, or the most active
\* of the forks (any, among equals), and the forks to drop.
ClydeList(n) ==
  LET forks == {i \in Listed : thread[i].nick = Clyde /\ thread[i].net # ClydeNet}
      canon == {i \in Listed : thread[i].nick = Clyde /\ thread[i].net = ClydeNet}
      active == {i \in forks : \A j \in forks : thread[i].last >= thread[j].last}
      pc == IF canon = {} /\ forks # {} THEN "migrate" ELSE "drop"
  IN  /\ ~Busy(n) /\ Note
      /\ \E dm \in IF canon # {} THEN canon ELSE IF forks # {} THEN active ELSE {0} :
           task' = [task EXCEPT ![n] = [pc |-> pc, dm |-> dm, forks |-> forks \ {dm}]]
      /\ Crosses(Clyde)
      /\ UNCHANGED <<thread, owner, shown, lastThread, silent, blind>>

\* A fork that is gone is answered with all the same, and no fork dropped.
ClydeMigrate(n) ==
  LET id == task[n].dm
  IN  /\ task[n].pc = "migrate"
      /\ IF id \in Live
         THEN SetDMNetwork(id, ClydeNet) /\ task' = [task EXCEPT ![n].pc = "drop"]
         ELSE UNCHANGED <<thread, owner>> /\ task' = [task EXCEPT ![n].pc = "say"]
      /\ UNCHANGED <<shown, lastThread, notes, silent, blind, crossed>>

\* The other forks are dropped; the client is not told.
ClydeDrop(n, id) ==
  /\ task[n].pc = "drop" /\ id \in task[n].forks
  /\ DeleteDMChannel(id)
  /\ task' = [task EXCEPT ![n].forks = @ \ {id}]
  /\ UNCHANGED <<shown, lastThread, notes, silent, blind, crossed>>

\* Without any thread one is opened; a young thread is announced.
ClydeResolved(n) ==
  LET id == IF task[n].dm # 0 THEN task[n].dm ELSE EnsuredId(ClydeNet, Clyde)
  IN  /\ task[n].pc = "drop" /\ task[n].forks = {}
      /\ IF task[n].dm # 0 THEN UNCHANGED <<thread, owner, lastThread>>
         ELSE EnsureDMChannel(ClydeNet, Clyde)
      /\ shown' = IF id \in DOMAIN thread' /\ thread'[id].fresh THEN shown \cup {id}
                  ELSE shown
      /\ task' = [task EXCEPT ![n] = [pc |-> "say", dm |-> id, forks |-> {}]]
      /\ UNCHANGED <<notes, silent, blind, crossed>>

ThreadNext ==
  \/ Ready
  \/ \E n \in Nets :
       \/ SayQuery(n) \/ ClydeList(n) \/ ClydeMigrate(n) \/ ClydeResolved(n)
       \/ \E nick \in {Peer, Clyde} : \/ DispatchQuery(n, nick) \/ DispatchTyping(n, nick)
                                      \/ CreateDMChannel(n, nick)
       \/ \E id \in task[n].forks : ClydeDrop(n, id)
  \/ \E id \in Live : Ages(id) \/ ClydeCommand(id) \/ CloseDM(id)

ThreadSpec == ThreadInit /\ [][ThreadNext]_threadVars

----------------------------------------------------------------------------
(* Properties.                                                             *)

\* Every thread record is the one its index entry leads to, so the user can
\* list it, and no entry dangles (networks.go:214, 329, 352), unless Clyde
\* work of two connections, or a close, met in the middle.
ThreadsReachable ==
  ~crossed =>
    /\ \A id \in Live : LET k == <<thread[id].net, thread[id].nick>>
                        IN  k \in DOMAIN owner /\ owner[k] = id
    /\ \A k \in DOMAIN owner : owner[k] \in Live

\* A message reaches the client only in a thread it was told of; a thread a
\* typing indicator opened is the exception, since by the time the message
\* comes the thread may be too old to be announced (manager.go:1891).
MessageInKnownThread == ~crossed => blind \subseteq silent

\* Every thread can be listed and no message goes to one the client does not
\* know (EnsureDMChannel, clydeDM, dispatchQuery).
ThreadsSound ==
  ThreadsReachable /\ MessageInKnownThread

=============================================================================
