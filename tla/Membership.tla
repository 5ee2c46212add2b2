----------------------------- MODULE Membership -----------------------------
(***************************************************************************)
(* Memberships and the upstream connections that follow them: Join and     *)
(* Leave (core/network/network.go) over the records of storage/networks.go *)
(* and the connection manager (irc/ircmanage/manager.go) with its          *)
(* EnsureConn, RestartConn, Drop and supervisor goroutines.  The channels  *)
(* of a membership, and the JOINs that a merge of channels sends on a live *)
(* link, are left out.                                                     *)
(*                                                                         *)
(* All Joins name the same IRC server, so they meet in one entry of the    *)
(* connection string index.  A step is one database transaction, one hold  *)
(* of Manager.mu or one event of a supervisor.  Manager.mu is explicit     *)
(* because EnsureConn reads the database while it holds it.                *)
(***************************************************************************)
EXTENDS Naturals, FiniteSets

CONSTANTS
    User,    \* accounts
    Net,     \* network ids
    Link,    \* conn objects
    Caller,  \* goroutines serving REST calls
    MaxCalls, \* bound on the number of calls
    None

ASSUME NoneAssumption == None \notin (User \cup Net \cup Link \cup Caller)
ASSUME NoneKeyAssumption == None \notin Net \X User
ASSUME MaxCallsAssumption == MaxCalls \in Nat

VARIABLES
    nets,      \* stored network records
    index,     \* the network the connection string index names
    member,    \* stored membership records
    minted,    \* history: network ids handed out
    conns,     \* Manager.conns
    mu,        \* the holder of Manager.mu inside EnsureConn
    home,      \* the key a conn was made for
    sup,       \* where its supervisor is
    cancelled, \* conns whose cancel channel is closed
    pc,        \* where a call is
    call,      \* its arguments and locals
    outdated,  \* history: conns whose own user has changed the credentials
               \* since their configuration was read
    swept,     \* history: conns whose membership a cascade has deleted
    torn,      \* history: networks a crash has left without members
    calls      \* number of calls begun

storeVars == <<nets, index, member, minted>>
linkVars  == <<home, sup, cancelled, outdated>>
callVars  == <<pc, call>>
bookVars  == <<swept, torn, calls>>
vars == <<storeVars, conns, mu, linkVars, callVars, bookVars>>

Key == Net \X User

Unused == [user |-> None, net |-> None, rot |-> FALSE, link |-> None]

Call == [user : User \cup {None}, net : Net \cup {None}, rot : BOOLEAN,
         link : Link \cup {None}]

JoinSteps  == {"get", "create", "update", "member", "put", "open",
               "cancel", "await", "ensure", "register"}
LeaveSteps == {"delete", "drop", "dropWait", "count", "cascade"}

\* Steps at which a call holds on to a conn.
Holding == {"cancel", "await", "register", "dropWait"}

\* A supervisor is alive from the registration of its conn until done.
SupSteps == {"start", "dial", "up", "sync", "ended", "backoff"}

KeyOf(p) == <<call[p].net, call[p].user>>
Alive(l) == sup[l] \in SupSteps

TypeOK ==
    /\ nets \subseteq minted /\ minted \subseteq Net
    /\ index \in minted \cup {None}
    /\ member \subseteq minted \X User
    /\ conns \in [Key -> Link \cup {None}]
    /\ mu \in Caller \cup {None}
    /\ home \in [Link -> Key \cup {None}]
    /\ sup \in [Link -> SupSteps \cup {"unused", "made", "done"}]
    /\ cancelled \subseteq Link
    /\ pc \in [Caller -> {"idle"} \cup JoinSteps \cup LeaveSteps]
    /\ call \in [Caller -> Call]
    /\ \A p \in Caller : pc[p] = "create" => call[p].user \in User
    /\ \A p \in Caller : pc[p] \notin {"idle", "create"} =>
           call[p].user \in User /\ call[p].net \in minted
    /\ \A p \in Caller : pc[p] \in Holding => call[p].link \in Link
    /\ outdated \subseteq Link /\ swept \subseteq Link
    /\ torn \subseteq minted
    /\ calls \in 0..MaxCalls

Init ==
    /\ nets = {} /\ index = None /\ member = {} /\ minted = {}
    /\ conns = [k \in Key |-> None]
    /\ mu = None
    /\ home = [l \in Link |-> None]
    /\ sup = [l \in Link |-> "unused"]
    /\ cancelled = {}
    /\ pc = [p \in Caller |-> "idle"]
    /\ call = [p \in Caller |-> Unused]
    /\ outdated = {} /\ swept = {} /\ torn = {} /\ calls = 0

-----------------------------------------------------------------------------
(* Steps of a call *)

Goto(p, step) == pc' = [pc EXCEPT ![p] = step]

\* A call begins, on the network net as far as it is known ...
Begin(p, u, net, step) ==
    /\ pc[p] = "idle"
    /\ calls < MaxCalls
    /\ calls' = calls + 1
    /\ call' = [call EXCEPT ![p] = [user |-> u, net |-> net, rot |-> FALSE, link |-> None]]
    /\ Goto(p, step)

\* ... and returns.
Return(p) ==
    /\ pc' = [pc EXCEPT ![p] = "idle"]
    /\ call' = [call EXCEPT ![p] = Unused]

\* Join: NetworkByConnID reads the index ...
JoinIndex(p, u) ==
    /\ Begin(p, u, index, IF index = None THEN "create" ELSE "get")
    /\ UNCHANGED <<storeVars, conns, mu, linkVars, swept, torn>>

\* ... and the record, which a cascade may have removed.  The string may carry
\* channel keys or credentials other than the stored ones; credentials need a
\* new link.
JoinGet(p, changed, rot) ==
    /\ pc[p] = "get"
    /\ call[p].net \in nets
    /\ rot => changed
    /\ call' = [call EXCEPT ![p].rot = rot]
    /\ Goto(p, IF changed THEN "update" ELSE "member")
    /\ UNCHANGED <<storeVars, conns, mu, linkVars, bookVars>>

JoinGetNone(p) ==
    /\ pc[p] = "get"
    /\ call[p].net \notin nets
    /\ call' = [call EXCEPT ![p].net = None]
    /\ Goto(p, "create")
    /\ UNCHANGED <<storeVars, conns, mu, linkVars, bookVars>>

\* UpsertNetwork writes the record and its index entry.
UpsertNetwork(n) ==
    /\ nets' = nets \cup {n}
    /\ index' = n

JoinCreate(p, n) ==
    /\ pc[p] = "create"
    /\ n \notin minted
    /\ minted' = minted \cup {n}
    /\ UpsertNetwork(n)
    /\ call' = [call EXCEPT ![p].net = n]
    /\ Goto(p, "member")
    /\ UNCHANGED <<member, conns, mu, linkVars, bookVars>>

\* The changes go into the record read before.
JoinUpdate(p) ==
    /\ pc[p] = "update"
    /\ UpsertNetwork(call[p].net)
    /\ outdated' = outdated \cup {l \in Link : call[p].rot /\ home[l] = KeyOf(p)}
    /\ Goto(p, "member")
    /\ UNCHANGED <<member, minted, conns, mu, home, sup, cancelled, call,
                   bookVars>>

\* GetMembership: a member whose string brings no new channel needs no write.
JoinGetMember(p, new) ==
    /\ pc[p] = "member"
    /\ KeyOf(p) \notin member => new
    /\ Goto(p, IF new THEN "put" ELSE "open")
    /\ UNCHANGED <<storeVars, conns, mu, linkVars, call, bookVars>>

JoinPutMember(p) ==
    /\ pc[p] = "put"
    /\ member' = member \cup {KeyOf(p)}
    /\ Goto(p, "open")
    /\ UNCHANGED <<nets, index, minted, conns, mu, linkVars, call, bookVars>>

\* Mutant: the entry is removed only after the old supervisor has ended.
RestartTakeKeeps(p) ==
    /\ pc[p] = "open" /\ call[p].rot
    /\ mu = None
    /\ conns[KeyOf(p)] # None
    /\ call' = [call EXCEPT ![p].link = conns[KeyOf(p)]]
    /\ Goto(p, "cancel")
    /\ UNCHANGED <<storeVars, conns, mu, linkVars, bookVars>>

\* RestartConn takes the conn out of the map ...
RestartTake(p) ==
    /\ pc[p] = "open" /\ call[p].rot
    /\ mu = None
    /\ conns[KeyOf(p)] # None
    /\ call' = [call EXCEPT ![p].link = conns[KeyOf(p)]]
    /\ conns' = [conns EXCEPT ![KeyOf(p)] = None]
    /\ Goto(p, "cancel")
    /\ UNCHANGED <<storeVars, mu, linkVars, bookVars>>

\* ... or returns at once when there is none.
RestartNone(p) ==
    /\ pc[p] = "open" /\ call[p].rot
    /\ mu = None
    /\ conns[KeyOf(p)] = None
    /\ Return(p)
    /\ UNCHANGED <<storeVars, conns, mu, linkVars, bookVars>>

\* It closes cancel, waits for done and calls EnsureConn.
RestartCancel(p) ==
    /\ pc[p] = "cancel"
    /\ cancelled' = cancelled \cup {call[p].link}
    /\ Goto(p, "await")
    /\ UNCHANGED <<storeVars, conns, mu, home, sup, outdated, call,
                   bookVars>>

RestartWait(p) ==
    /\ pc[p] = "await"
    /\ sup[call[p].link] = "done"
    /\ call' = [call EXCEPT ![p].link = None]
    /\ Goto(p, "ensure")
    /\ UNCHANGED <<storeVars, conns, mu, linkVars, bookVars>>

Ensuring(p) == pc[p] = "ensure" \/ (pc[p] = "open" /\ ~call[p].rot)

\* EnsureConn takes Manager.mu.  It leaves an existing conn alone and gives up
\* when the network is missing ...
EnsureNothing(p) ==
    /\ Ensuring(p)
    /\ mu = None
    /\ conns[KeyOf(p)] # None \/ call[p].net \notin nets
    /\ Return(p)
    /\ UNCHANGED <<storeVars, conns, mu, linkVars, bookVars>>

\* An object nobody refers to stands for a new one.
Collectable(l) ==
    /\ sup[l] \in {"unused", "done"}
    /\ \A p \in Caller : call[p].link # l

\* Mutant: EnsureConn does not look for a conn.
EnsureConfigAgain(p, l) ==
    /\ Ensuring(p)
    /\ mu = None
    /\ call[p].net \in nets
    /\ Collectable(l)
    /\ mu' = p
    /\ home' = [home EXCEPT ![l] = KeyOf(p)]
    /\ sup' = [sup EXCEPT ![l] = "made"]
    /\ call' = [call EXCEPT ![p].link = l]
    /\ Goto(p, "register")
    /\ UNCHANGED <<storeVars, conns, cancelled, outdated, bookVars>>

\* ... else reads its configuration from the network record ...
EnsureConfig(p, l) ==
    /\ Ensuring(p)
    /\ mu = None
    /\ conns[KeyOf(p)] = None /\ call[p].net \in nets
    /\ Collectable(l)
    /\ mu' = p
    /\ home' = [home EXCEPT ![l] = KeyOf(p)]
    /\ sup' = [sup EXCEPT ![l] = "made"]
    /\ call' = [call EXCEPT ![p].link = l]
    /\ Goto(p, "register")
    /\ UNCHANGED <<storeVars, conns, cancelled, outdated, bookVars>>

\* Mutant: the membership is not looked up.
EnsureRegisterUnchecked(p) ==
    /\ pc[p] = "register"
    /\ mu' = None
    /\ conns' = [conns EXCEPT ![KeyOf(p)] = call[p].link]
    /\ sup' = [sup EXCEPT ![call[p].link] = "start"]
    /\ Return(p)
    /\ UNCHANGED <<storeVars, home, outdated, cancelled, bookVars>>

\* ... and registers the conn and starts its supervisor if the membership is
\* there.
EnsureRegister(p) ==
    /\ pc[p] = "register"
    /\ mu' = None
    /\ IF KeyOf(p) \in member
       THEN /\ conns' = [conns EXCEPT ![KeyOf(p)] = call[p].link]
            /\ sup' = [sup EXCEPT ![call[p].link] = "start"]
            /\ UNCHANGED <<home, outdated>>
       ELSE /\ sup' = [sup EXCEPT ![call[p].link] = "unused"]
            /\ home' = [home EXCEPT ![call[p].link] = None]
            /\ outdated' = outdated \ {call[p].link}
            /\ UNCHANGED conns
    /\ Return(p)
    /\ UNCHANGED <<storeVars, cancelled, bookVars>>

-----------------------------------------------------------------------------
(* Leave *)

LeaveCheck(p, n, u) ==
    /\ <<n, u>> \in member
    /\ Begin(p, u, n, "delete")
    /\ UNCHANGED <<storeVars, conns, mu, linkVars, swept, torn>>

LeaveDelete(p) ==
    /\ pc[p] = "delete"
    /\ member' = member \ {KeyOf(p)}
    /\ Goto(p, "drop")
    /\ UNCHANGED <<nets, index, minted, conns, mu, linkVars, call, bookVars>>

\* Drop takes the conn out of the map and closes cancel ...
LeaveDrop(p) ==
    /\ pc[p] = "drop"
    /\ mu = None
    /\ conns[KeyOf(p)] # None
    /\ call' = [call EXCEPT ![p].link = conns[KeyOf(p)]]
    /\ cancelled' = cancelled \cup {conns[KeyOf(p)]}
    /\ conns' = [conns EXCEPT ![KeyOf(p)] = None]
    /\ Goto(p, "dropWait")
    /\ UNCHANGED <<storeVars, mu, home, sup, outdated, bookVars>>

LeaveDropNone(p) ==
    /\ pc[p] = "drop"
    /\ mu = None
    /\ conns[KeyOf(p)] = None
    /\ Goto(p, "count")
    /\ UNCHANGED <<storeVars, conns, mu, linkVars, call, bookVars>>

\* Mutant: a Drop that takes too long ends the call.
LeaveDropWaitReturns(p) ==
    /\ pc[p] = "dropWait"
    /\ Return(p)
    /\ UNCHANGED <<storeVars, conns, mu, linkVars, bookVars>>

\* ... and waits for done, or five seconds.
LeaveDropWait(p) ==
    /\ pc[p] = "dropWait"
    /\ call' = [call EXCEPT ![p].link = None]
    /\ Goto(p, "count")
    /\ UNCHANGED <<storeVars, conns, mu, linkVars, bookVars>>

\* ListMemberships: is the network empty?
LeaveCount(p) ==
    /\ pc[p] = "count"
    /\ IF \E u \in User : <<call[p].net, u>> \in member
       THEN Return(p)
       ELSE Goto(p, "cascade") /\ UNCHANGED call
    /\ UNCHANGED <<storeVars, conns, mu, linkVars, bookVars>>

\* DeleteNetworkCascade deletes the record and every membership, not the entry
\* of the index.
LeaveCascade(p) ==
    /\ pc[p] = "cascade"
    /\ nets' = nets \ {call[p].net}
    /\ member' = member \ ({call[p].net} \X User)
    /\ swept' = swept \cup {conns[k] : k \in {j \in member : /\ j[1] = call[p].net
                                                          /\ conns[j] # None}}
    /\ Return(p)
    /\ UNCHANGED <<index, minted, conns, mu, linkVars, torn, calls>>

-----------------------------------------------------------------------------
(* The supervisor of a conn and the handlers of its client *)

Move(l, from, to) ==
    /\ sup[l] = from
    /\ sup' = [sup EXCEPT ![l] = to]
    /\ UNCHANGED <<nets, index, minted, conns, mu, home, cancelled, outdated,
                   callVars, bookVars>>

\* A fresh client is stored under Manager.mu and Connect is called.
SupConnect(l) == mu = None /\ Move(l, "start", "dial") /\ UNCHANGED member

\* Connect fails ...
SupDialFails(l) == Move(l, "dial", "ended") /\ UNCHANGED member

\* ... or the server welcomes us.  The CONNECTED handler reads the membership
\* and will write it back if the server has changed the nick.
SupConnected(l, renamed) ==
    /\ renamed => home[l] \in member
    /\ Move(l, "dial", IF renamed THEN "sync" ELSE "up")
    /\ UNCHANGED member

\* A NICK of our own later on: applyOwnNick reads the membership as well.
SupNick(l) ==
    /\ home[l] \in member
    /\ Move(l, "up", "sync")
    /\ UNCHANGED member

\* UpsertMembership writes the record back.
SupNickWrite(l) == Move(l, "sync", "up") /\ member' = member \cup {home[l]}

\* The link dies, on its own or because the client was closed.
SupLinkEnds(l) == Move(l, "up", "ended") /\ UNCHANGED member

\* The supervisor returns and closes done; the conn is garbage.
SupDone(l) ==
    /\ sup' = [sup EXCEPT ![l] = "done"]
    /\ home' = [home EXCEPT ![l] = None]
    /\ cancelled' = cancelled \ {l}
    /\ outdated' = outdated \ {l}
    /\ swept' = swept \ {l}
    /\ UNCHANGED <<storeVars, conns, mu, callVars, torn, calls>>

\* After Connect the supervisor looks at cancel ...
SupCheck(l) ==
    /\ sup[l] = "ended"
    /\ IF l \in cancelled THEN SupDone(l)
       ELSE Move(l, "ended", "backoff") /\ UNCHANGED member

\* ... and again while it backs off; once cancel is closed either arm of the
\* select may win.
SupRetry(l) == mu = None /\ Move(l, "backoff", "dial") /\ UNCHANGED member
SupStop(l)  == sup[l] = "backoff" /\ l \in cancelled /\ SupDone(l)

-----------------------------------------------------------------------------
\* The process dies and starts again: EnsureAll opens a connection for every
\* membership of every network before the first request is served.
Crash ==
    LET todo == {k \in member : k[1] \in nets}
    IN  \E made \in [todo -> Link] :
          /\ \A j, k \in todo : made[j] = made[k] => j = k
          /\ conns' = [k \in Key |-> IF k \in todo THEN made[k] ELSE None]
          /\ home' = [l \in Link |->
                IF \E k \in todo : made[k] = l
                THEN CHOOSE k \in todo : made[k] = l ELSE None]
          /\ sup' = [l \in Link |->
                IF \E k \in todo : made[k] = l THEN "start" ELSE "unused"]
    /\ mu' = None
    /\ cancelled' = {}
    /\ outdated' = {} /\ swept' = {}
    /\ pc' = [p \in Caller |-> "idle"]
    /\ call' = [p \in Caller |-> Unused]
    /\ torn' = torn \cup {n \in nets : \A u \in User : <<n, u>> \notin member}
    /\ UNCHANGED <<storeVars, calls>>

Join(p) ==
    \/ \E u \in User : JoinIndex(p, u)
    \/ \E changed, rot \in BOOLEAN : JoinGet(p, changed, rot)
    \/ JoinGetNone(p)
    \/ \E n \in Net : JoinCreate(p, n)
    \/ JoinUpdate(p) \/ JoinPutMember(p)
    \/ \E new \in BOOLEAN : JoinGetMember(p, new)
    \/ RestartTake(p) \/ RestartNone(p) \/ RestartCancel(p) \/ RestartWait(p)
    \/ EnsureNothing(p) \/ EnsureRegister(p)
    \/ \E l \in Link : EnsureConfig(p, l)

Leave(p) ==
    \/ \E n \in Net, u \in User : LeaveCheck(p, n, u)
    \/ LeaveDelete(p) \/ LeaveDrop(p) \/ LeaveDropNone(p) \/ LeaveDropWait(p)
    \/ LeaveCount(p) \/ LeaveCascade(p)

Supervise(l) ==
    \/ SupConnect(l) \/ SupDialFails(l) \/ \E b \in BOOLEAN : SupConnected(l, b)
    \/ SupNick(l) \/ SupNickWrite(l)
    \/ SupLinkEnds(l) \/ SupCheck(l) \/ SupRetry(l) \/ SupStop(l)

Next ==
    \/ \E p \in Caller : Join(p) \/ Leave(p)
    \/ \E l \in Link : Supervise(l)
    \/ Crash

Spec == Init /\ [][Next]_vars

-----------------------------------------------------------------------------
\* A live supervisor is never out of reach: its conn is registered under its
\* own key, or cancelled, or in the hands of the RestartConn that is about to
\* cancel it (manager.go:813-826, 855-872).  Otherwise nothing could ever end it.
NoStrayLink ==
    \A l \in Link : Alive(l) =>
        \/ conns[home[l]] = l /\ l \notin cancelled
        \/ l \in cancelled
        \/ \E p \in Caller : pc[p] = "cancel" /\ call[p].link = l

\* No cancel channel is closed a second time, which would end the process:
\* Drop closes the channel of the conn it finds registered, RestartConn that of
\* the conn it took out before (manager.go:815-824, 857-863).
ClosedOnce ==
    /\ \A k \in Key : conns[k] # None => conns[k] \notin cancelled
    /\ \A p \in Caller : pc[p] = "cancel" => call[p].link \notin cancelled

\* A registered connection belongs to a member, whatever Joins and Leaves do:
\* only while the Leave that deleted the membership is on its way to Drop, or
\* after another user's cascade took the membership, may it be without one
\* (network.go:1079-1090, manager.go:580-597).
LinkHasMember ==
    \A k \in Key : conns[k] # None =>
        \/ k \in member
        \/ conns[k] \in swept
        \/ \E p \in Caller : pc[p] = "drop" /\ KeyOf(p) = k

\* A user who rotated the network's credentials is never left on a link
\* configured with the old ones: such a link is registered only until the Join
\* that rotated them reaches RestartConn (network.go:757-762, manager.go:808-812).
RotationReplacesLink ==
    \A k \in Key : conns[k] # None /\ conns[k] \in outdated =>
        \E p \in Caller :
            /\ KeyOf(p) = k /\ call[p].rot
            /\ pc[p] \in {"member", "put", "open"}

\* Leaving collects an empty network, "so an accidental join leaves no residue"
\* (network.go:1074-1077): a network without members is one that a call is
\* still busy with, or that a crash cut a call off from.
NoEmptyNetwork ==
    \A n \in nets :
        \/ \E u \in User : <<n, u>> \in member
        \/ \E p \in Caller : call[p].net = n
        \/ n \in torn

=============================================================================
