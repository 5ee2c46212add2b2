-------------------------- MODULE MembershipProofs --------------------------
(***************************************************************************)
(* Theorems about Membership, for any users, networks, conns and callers,  *)
(* and about the member lists of a network (Occupancy), for any channels,  *)
(* people, sessions, number of refreshes at a time and number of events:   *)
(* no refresh is lost on its way, and every step is one the member list    *)
(* promise allows.                                                         *)
(***************************************************************************)
EXTENDS Membership, Occupancy, TLAPS

\* Manager.mu is held by the caller that is inside EnsureConn.
MuInv == \A p \in Caller : (pc[p] = "register") <=> (mu = p)

\* The life of a conn: nothing remembers one that is over, one being made is in
\* the hands of its maker, a running one has a key.
LinkInv ==
    \A l \in Link :
        /\ sup[l] \in {"unused", "done"} =>
               home[l] = None /\ l \notin cancelled /\ l \notin outdated
        /\ sup[l] = "made" => /\ l \notin cancelled
                              /\ \E p \in Caller : pc[p] = "register" /\ call[p].link = l
        /\ Alive(l) \/ sup[l] = "made" => home[l] \in minted \X User

\* A registered conn runs for its key and is in nobody's hands.
ConnInv ==
    \A k \in Key : conns[k] # None =>
        /\ home[conns[k]] = k
        /\ Alive(conns[k]) /\ conns[k] \notin cancelled
        /\ \A p \in Caller : call[p].link # conns[k]

\* A caller inside EnsureConn makes a conn for a key that has none; no two
\* callers hold the same conn.
CallInv ==
    /\ \A p \in Caller : pc[p] = "register" =>
           /\ sup[call[p].link] = "made"
           /\ home[call[p].link] = KeyOf(p)
           /\ conns[KeyOf(p)] = None
    /\ \A p \in Caller : pc[p] = "cancel" =>
           Alive(call[p].link) /\ call[p].link \notin cancelled
    /\ \A p, q \in Caller : call[p].link = call[q].link /\ call[p].link # None => p = q

Structure == TypeOK /\ MuInv /\ LinkInv /\ ConnInv /\ CallInv /\ NoStrayLink

\* What one step keeps of the types.
LEMMA TypeStep == TypeOK /\ LinkInv /\ [Next]_vars => TypeOK'
<1>. SUFFICES ASSUME TypeOK, LinkInv, [Next]_vars PROVE TypeOK'
  OBVIOUS
<1>. USE NoneAssumption, MaxCallsAssumption
         DEF TypeOK, JoinSteps, LeaveSteps, SupSteps, Holding, Alive, KeyOf, Key, Call,
             Unused, Goto, Return, storeVars, linkVars, callVars, bookVars
<1>1. ASSUME NEW p \in Caller, NEW u \in User, JoinIndex(p, u) PROVE TypeOK'
  BY <1>1 DEF JoinIndex, Begin
<1>2. ASSUME NEW p \in Caller, NEW changed \in BOOLEAN, NEW rot \in BOOLEAN,
             JoinGet(p, changed, rot)
      PROVE  TypeOK'
  BY <1>2 DEF JoinGet
<1>3. ASSUME NEW p \in Caller, JoinGetNone(p) PROVE TypeOK'
  BY <1>3 DEF JoinGetNone
<1>4. ASSUME NEW p \in Caller, NEW n \in Net, JoinCreate(p, n) PROVE TypeOK'
  BY <1>4 DEF JoinCreate, UpsertNetwork
<1>5. ASSUME NEW p \in Caller, JoinUpdate(p) PROVE TypeOK'
  BY <1>5 DEF JoinUpdate, UpsertNetwork
<1>6. ASSUME NEW p \in Caller, NEW new \in BOOLEAN, JoinGetMember(p, new) PROVE TypeOK'
  BY <1>6 DEF JoinGetMember
<1>7. ASSUME NEW p \in Caller, JoinPutMember(p) PROVE TypeOK'
  BY <1>7 DEF JoinPutMember
<1>8. ASSUME NEW p \in Caller, RestartTake(p) PROVE TypeOK'
  <2>. DEFINE l == conns[KeyOf(p)]
  <2>1. KeyOf(p) \in Key
    BY <1>8 DEF RestartTake
  <2>2. l \in Link
    BY <2>1, <1>8 DEF RestartTake
  <2>3. /\ conns' = [conns EXCEPT ![KeyOf(p)] = None]
        /\ call' = [call EXCEPT ![p].link = l]
        /\ pc' = [pc EXCEPT ![p] = "cancel"]
        /\ cancelled' = cancelled
        /\ UNCHANGED <<storeVars, mu, home, sup, outdated, bookVars>>
    BY <1>8 DEF RestartTake
  <2>4. call' \in [Caller -> Call] /\ conns' \in [Key -> Link \cup {None}]
    BY SMTT(60), <2>1, <2>2, <2>3
  <2>5. call[p].user \in User /\ call[p].net \in minted
    BY <1>8 DEF RestartTake
  <2>. HIDE DEF l
  <2>6. \A q \in Caller : /\ q # p => call'[q] = call[q] /\ pc'[q] = pc[q]
                         /\ call'[q].user = call[q].user /\ call'[q].net = call[q].net
    BY <2>3
  <2>7. call'[p].link = l /\ pc'[p] = "cancel"
    BY <2>3
  <2>. QED
    BY <2>2, <2>3, <2>4, <2>5, <2>6, <2>7
<1>9. ASSUME NEW p \in Caller, RestartNone(p) PROVE TypeOK'
  BY <1>9 DEF RestartNone
<1>10. ASSUME NEW p \in Caller, RestartCancel(p) PROVE TypeOK'
  BY <1>10 DEF RestartCancel
<1>11. ASSUME NEW p \in Caller, RestartWait(p) PROVE TypeOK'
  BY <1>11 DEF RestartWait
<1>12. ASSUME NEW p \in Caller, EnsureNothing(p) PROVE TypeOK'
  BY <1>12 DEF EnsureNothing, Ensuring
<1>13. ASSUME NEW p \in Caller, NEW l \in Link, EnsureConfig(p, l) PROVE TypeOK'
  BY <1>13 DEF EnsureConfig, Ensuring
<1>14. ASSUME NEW p \in Caller, EnsureRegister(p) PROVE TypeOK'
  <2>. DEFINE l == call[p].link
  <2>1. l \in Link /\ KeyOf(p) \in minted \X User /\ KeyOf(p) \in Key
    BY <1>14 DEF EnsureRegister
  <2>2. /\ mu' = None /\ UNCHANGED <<storeVars, cancelled, bookVars>>
        /\ pc' = [pc EXCEPT ![p] = "idle"] /\ call' = [call EXCEPT ![p] = Unused]
    BY <1>14 DEF EnsureRegister
  <2>3. \/ /\ conns' = [conns EXCEPT ![KeyOf(p)] = l]
           /\ sup' = [sup EXCEPT ![l] = "start"]
           /\ home' = home /\ outdated' = outdated
        \/ /\ sup' = [sup EXCEPT ![l] = "unused"]
           /\ home' = [home EXCEPT ![l] = None]
           /\ outdated' = outdated \ {l} /\ conns' = conns
    BY <1>14 DEF EnsureRegister
  <2>. HIDE DEF l, KeyOf, Key
  <2>4. conns' \in [Key -> Link \cup {None}] /\ outdated' \subseteq Link
    BY <2>1, <2>3
  <2>. QED
    BY SMTT(60), <2>1, <2>2, <2>3, <2>4 DEF Key
<1>15. ASSUME NEW p \in Caller, NEW n \in Net, NEW u \in User, LeaveCheck(p, n, u) PROVE TypeOK'
  BY <1>15 DEF LeaveCheck, Begin
<1>16. ASSUME NEW p \in Caller, LeaveDelete(p) PROVE TypeOK'
  BY <1>16 DEF LeaveDelete
<1>17. ASSUME NEW p \in Caller, LeaveDrop(p) PROVE TypeOK'
  <2>. DEFINE l == conns[KeyOf(p)]
  <2>1. KeyOf(p) \in Key
    BY <1>17 DEF LeaveDrop
  <2>2. l \in Link
    BY <2>1, <1>17 DEF LeaveDrop
  <2>3. /\ conns' = [conns EXCEPT ![KeyOf(p)] = None]
        /\ call' = [call EXCEPT ![p].link = l]
        /\ pc' = [pc EXCEPT ![p] = "dropWait"]
        /\ cancelled' = cancelled \cup {l}
        /\ UNCHANGED <<storeVars, mu, home, sup, outdated, bookVars>>
    BY <1>17 DEF LeaveDrop
  <2>4. call' \in [Caller -> Call] /\ conns' \in [Key -> Link \cup {None}]
    BY <2>1, <2>2, <2>3
  <2>5. call[p].user \in User /\ call[p].net \in minted
    BY <1>17 DEF LeaveDrop
  <2>. HIDE DEF l
  <2>6. \A q \in Caller : /\ q # p => call'[q] = call[q] /\ pc'[q] = pc[q]
                         /\ call'[q].user = call[q].user /\ call'[q].net = call[q].net
    BY <2>3
  <2>7. call'[p].link = l /\ pc'[p] = "dropWait"
    BY <2>3
  <2>. QED
    BY <2>2, <2>3, <2>4, <2>5, <2>6, <2>7
<1>18. ASSUME NEW p \in Caller, LeaveDropNone(p) PROVE TypeOK'
  BY <1>18 DEF LeaveDropNone
<1>19. ASSUME NEW p \in Caller, LeaveDropWait(p) PROVE TypeOK'
  BY <1>19 DEF LeaveDropWait
<1>20. ASSUME NEW p \in Caller, LeaveCount(p) PROVE TypeOK'
  <2>0. UNCHANGED <<storeVars, conns, mu, linkVars, bookVars>>
    BY <1>20 DEF LeaveCount
  <2>1. CASE Return(p)
    BY <2>0, <2>1
  <2>2. CASE Goto(p, "cascade") /\ UNCHANGED call
    BY <2>0, <2>2, <1>20 DEF LeaveCount
  <2>. QED
    BY <2>1, <2>2, <1>20 DEF LeaveCount
<1>21. ASSUME NEW p \in Caller, LeaveCascade(p) PROVE TypeOK'
  BY <1>21 DEF LeaveCascade
<1>22. ASSUME NEW l \in Link, SupConnect(l) PROVE TypeOK'
  BY <1>22 DEF SupConnect, Move
<1>23. ASSUME NEW l \in Link, SupDialFails(l) PROVE TypeOK'
  BY <1>23 DEF SupDialFails, Move
<1>24. ASSUME NEW l \in Link, NEW b \in BOOLEAN, SupConnected(l, b) PROVE TypeOK'
  BY <1>24 DEF SupConnected, Move
<1>25. ASSUME NEW l \in Link, SupNick(l) PROVE TypeOK'
  BY <1>25 DEF SupNick, Move
<1>26. ASSUME NEW l \in Link, SupNickWrite(l) PROVE TypeOK'
  BY <1>26 DEF SupNickWrite, LinkInv, Move
<1>27. ASSUME NEW l \in Link, SupLinkEnds(l) PROVE TypeOK'
  BY <1>27 DEF SupLinkEnds, Move
<1>28. ASSUME NEW l \in Link, SupCheck(l) PROVE TypeOK'
  BY <1>28 DEF SupCheck, Move, SupDone
<1>29. ASSUME NEW l \in Link, SupRetry(l) PROVE TypeOK'
  BY <1>29 DEF SupRetry, Move
<1>30. ASSUME NEW l \in Link, SupStop(l) PROVE TypeOK'
  BY <1>30 DEF SupStop, SupDone
<1>31. CASE Crash
  BY <1>31 DEF Crash
<1>32. CASE UNCHANGED vars
  BY <1>32 DEF vars
<1>. HIDE DEF TypeOK, JoinSteps, LeaveSteps, SupSteps, Holding, Alive, KeyOf, Key, Call,
              Unused, Goto, Return, storeVars, linkVars, callVars, bookVars
<1>33. QED
  BY <1>1, <1>2, <1>3, <1>4, <1>5, <1>6, <1>7, <1>8, <1>9, <1>10, <1>11,
     <1>12, <1>13, <1>14, <1>15, <1>16, <1>17, <1>18, <1>19, <1>20, <1>21,
     <1>22, <1>23, <1>24, <1>25, <1>26, <1>27, <1>28, <1>29, <1>30, <1>31, <1>32
  DEF Next, Join, Leave, Supervise

-----------------------------------------------------------------------------
(* The structure of conns and calls *)

\* A step of a call that is not inside EnsureConn, leaves the conns alone and at
\* most lets go of the conn it holds.
QuietCall(p) ==
    /\ pc[p] \notin {"register", "cancel"} /\ pc'[p] \notin {"register", "cancel"}
    /\ UNCHANGED <<conns, mu, home, sup, cancelled>>
    /\ minted \subseteq minted'
    /\ call'[p].link \in {None, call[p].link}
    /\ \A q \in Caller : q # p => call'[q] = call[q] /\ pc'[q] = pc[q]

\* Such a step of Join or Leave keeps the structure.
LEMMA QuietCallStep ==
    ASSUME Structure, TypeOK', NEW p \in Caller, QuietCall(p),
           \A l \in Link : l \in outdated' => l \in outdated \/ home[l] # None
    PROVE  MuInv' /\ LinkInv' /\ ConnInv' /\ CallInv' /\ NoStrayLink'
<1>. USE DEF Structure, QuietCall
<1>1. MuInv'
  BY NoneAssumption DEF MuInv, TypeOK
<1>2. LinkInv'
  <2>1. \A l \in Link : sup[l] = "made" =>
            \E q \in Caller : pc'[q] = "register" /\ call'[q].link = l
    BY DEF LinkInv
  <2>. QED
    BY <2>1 DEF LinkInv, Alive
<1>3. ConnInv'
  <2>1. \A k \in Key : conns[k] # None =>
            \A q \in Caller : call'[q].link # conns[k]
    BY DEF ConnInv
  <2>. QED
    BY <2>1 DEF ConnInv, Alive
<1>4. CallInv'
  <2>1. \A q \in Caller : pc'[q] \in {"register", "cancel"} =>
            pc[q] = pc'[q] /\ call'[q] = call[q]
    OBVIOUS
  <2>2. \A q \in Caller : call'[q].link = None \/ call'[q].link = call[q].link
    OBVIOUS
  <2>. QED
    BY <2>1, <2>2 DEF CallInv, KeyOf, Alive
<1>5. NoStrayLink'
  BY DEF NoStrayLink, Alive
<1>. QED
  BY <1>1, <1>2, <1>3, <1>4, <1>5

\* A live supervisor moves on.
QuietSup(l) ==
    /\ Alive(l)
    /\ \E step \in SupSteps : sup' = [sup EXCEPT ![l] = step]
    /\ UNCHANGED <<minted, conns, mu, home, cancelled, outdated, pc, call>>

\* So does a step of supervise.
LEMMA QuietSupStep ==
    ASSUME Structure, NEW l \in Link, QuietSup(l)
    PROVE  MuInv' /\ LinkInv' /\ ConnInv' /\ CallInv' /\ NoStrayLink'
<1>. USE DEF Structure, QuietSup
<1>1. PICK step \in SupSteps : sup' = [sup EXCEPT ![l] = step]
  OBVIOUS
<1>2. \A m \in Link : /\ Alive(m)' <=> Alive(m)
                      /\ m # l => sup'[m] = sup[m]
                      /\ sup'[m] = "made" <=> sup[m] = "made"
                      /\ sup'[m] \in {"unused", "done"} <=> sup[m] \in {"unused", "done"}
  BY <1>1 DEF TypeOK, Alive, SupSteps
<1>3. MuInv'
  BY DEF MuInv
<1>4. LinkInv'
  BY <1>2 DEF LinkInv
<1>5. ConnInv'
  BY <1>2 DEF ConnInv, TypeOK
<1>6. CallInv'
  BY <1>2 DEF CallInv, KeyOf, TypeOK, Holding
<1>7. NoStrayLink'
  BY <1>2 DEF NoStrayLink
<1>. QED
  BY <1>3, <1>4, <1>5, <1>6, <1>7

\* A cancelled supervisor ends: nobody has registered its conn.
LEMMA SupDoneStep ==
    ASSUME Structure, NEW l \in Link, Alive(l), l \in cancelled, SupDone(l)
    PROVE  MuInv' /\ LinkInv' /\ ConnInv' /\ CallInv' /\ NoStrayLink'
<1>. USE DEF Structure, SupDone, callVars, storeVars
<1>1. \A m \in Link : m # l => sup'[m] = sup[m] /\ home'[m] = home[m]
  BY DEF TypeOK
<1>2. sup'[l] = "done" /\ home'[l] = None /\ sup[l] # "made"
  BY DEF TypeOK, Alive, SupSteps
<1>3. \A k \in Key : conns[k] # None => conns[k] # l
  BY DEF ConnInv
<1>4. \A p \in Caller : pc[p] \in {"register", "cancel"} =>
          call[p].link # l /\ call[p].link \in Link
  BY <1>2 DEF CallInv, TypeOK, Holding
<1>5. MuInv'
  BY DEF MuInv
<1>6. LinkInv'
  BY <1>1, <1>2 DEF LinkInv, Alive, SupSteps
<1>7. ConnInv'
  BY <1>1, <1>3 DEF ConnInv, Alive, TypeOK
<1>8. CallInv'
  BY <1>1, <1>4 DEF CallInv, KeyOf, Alive
<1>9. NoStrayLink'
  BY <1>1, <1>2 DEF NoStrayLink, Alive, SupSteps
<1>. QED
  BY <1>5, <1>6, <1>7, <1>8, <1>9

\* RestartConn and Drop take the registered conn of a key into their hands.
TakesConn(p, step) ==
    /\ pc[p] \in {"open", "drop"} /\ step \in {"cancel", "dropWait"}
    /\ conns[KeyOf(p)] # None
    /\ conns' = [conns EXCEPT ![KeyOf(p)] = None]
    /\ call' = [call EXCEPT ![p].link = conns[KeyOf(p)]]
    /\ pc' = [pc EXCEPT ![p] = step]
    /\ cancelled' = IF step = "cancel" THEN cancelled ELSE cancelled \cup {conns[KeyOf(p)]}
    /\ UNCHANGED <<minted, mu, home, sup, outdated>>

\* The conn taken is alive and in one pair of hands, or cancelled.
LEMMA TakesConnStep ==
    ASSUME Structure, NEW p \in Caller, NEW step, TakesConn(p, step)
    PROVE  MuInv' /\ LinkInv' /\ ConnInv' /\ CallInv' /\ NoStrayLink'
<1>. DEFINE l == conns[KeyOf(p)]
<1>. USE DEF Structure, TakesConn
<1>1. KeyOf(p) \in Key /\ l \in Link
  BY DEF TypeOK, KeyOf, Key
<1>2. home[l] = KeyOf(p) /\ Alive(l) /\ \A q \in Caller : call[q].link # l
  BY <1>1 DEF ConnInv
<1>3. \A k \in Key : /\ conns'[k] = IF k = KeyOf(p) THEN None ELSE conns[k]
                     /\ conns'[k] # None => conns'[k] # l
  BY <1>1, <1>2 DEF TypeOK, ConnInv
<1>4. \A q \in Caller : /\ q # p => call'[q] = call[q] /\ pc'[q] = pc[q]
                        /\ KeyOf(q)' = KeyOf(q)
  BY DEF TypeOK, Call, KeyOf
<1>5. pc'[p] # "register" /\ pc[p] # "register" /\ call'[p].link = l
  BY DEF TypeOK, Call
<1>. HIDE DEF l
<1>6. MuInv'
  BY <1>4, <1>5 DEF MuInv
<1>7. LinkInv'
  <2>1. \A m \in Link : sup[m] = "made" =>
            m # l /\ \E q \in Caller : pc'[q] = "register" /\ call'[q].link = m
    BY <1>2, <1>4, <1>5 DEF LinkInv, Alive, SupSteps
  <2>2. cancelled' \subseteq cancelled \cup {l}
    BY DEF l
  <2>. QED
    BY <1>2, <2>1, <2>2 DEF LinkInv, Alive, SupSteps
<1>8. ConnInv'
  <2>1. cancelled' \subseteq cancelled \cup {l}
    BY DEF l
  <2>2. \A k \in Key : conns'[k] # None => \A q \in Caller : call'[q].link # conns'[k]
    BY <1>3, <1>4, <1>5 DEF ConnInv
  <2>. QED
    BY <1>3, <2>1, <2>2 DEF ConnInv, Alive
<1>9. CallInv'
  <2>1. \A q \in Caller : pc'[q] = "register" =>
            /\ pc[q] = "register" /\ call'[q] = call[q] /\ KeyOf(q) \in Key
    BY <1>4, <1>5 DEF TypeOK, KeyOf, Key
  <2>2. \A q, r \in Caller : call'[q].link = call'[r].link /\ call'[q].link # None => q = r
    BY <1>2, <1>4, <1>5 DEF CallInv
  <2>3. \A q \in Caller : pc'[q] = "cancel" =>
            sup'[call'[q].link] \in SupSteps /\ call'[q].link \notin cancelled'
    <3>1. CASE step = "cancel"
      BY <1>1, <1>2, <1>4, <1>5, <3>1 DEF CallInv, ConnInv, Alive, l
    <3>2. CASE step = "dropWait"
      <4>1. pc'[p] # "cancel" /\ cancelled' = cancelled \cup {l}
        BY <3>2 DEF l, TypeOK
      <4>. QED
        BY <1>2, <1>4, <4>1 DEF CallInv, Alive
    <3>. QED
      BY <3>1, <3>2
  <2>. QED
    BY <1>3, <1>4, <2>1, <2>2, <2>3 DEF CallInv, Alive
<1>10. NoStrayLink'
  <2>1. \A m \in Link : Alive(m) => home[m] \in Key
    BY DEF LinkInv, Key, TypeOK
  <2>2. l \in cancelled' \/ pc'[p] = "cancel"
    BY <1>1 DEF l, TypeOK
  <2>3. cancelled \subseteq cancelled'
    OBVIOUS
  <2>4. \A m \in Link : m # l /\ Alive(m) /\ conns[home[m]] = m =>
            conns'[home[m]] = m /\ (m \notin cancelled => m \notin cancelled')
    BY <1>1, <1>3, <2>1 DEF l
  <2>5. \A q \in Caller : pc[q] = "cancel" => pc'[q] = "cancel" /\ call'[q] = call[q]
    BY <1>4
  <2>. QED
    BY <1>5, <2>2, <2>3, <2>4, <2>5 DEF NoStrayLink, Alive
<1>. QED
  BY <1>6, <1>7, <1>8, <1>9, <1>10

\* RestartConn closes the cancel of the conn it has taken.
LEMMA RestartCancelStep ==
    ASSUME Structure, NEW p \in Caller, RestartCancel(p)
    PROVE  MuInv' /\ LinkInv' /\ ConnInv' /\ CallInv' /\ NoStrayLink'
<1>. USE DEF Structure, RestartCancel, Goto, storeVars
<1>1. \A q \in Caller : q # p => pc'[q] = pc[q]
  BY DEF TypeOK
<1>2. pc'[p] = "await" /\ pc[p] = "cancel" /\ call[p].link \in Link
  BY DEF TypeOK, Holding
<1>3. MuInv'
  BY <1>1, <1>2 DEF MuInv
<1>4. Alive(call[p].link)
  BY <1>2 DEF CallInv
<1>5. \A q \in Caller : pc[q] = "cancel" /\ q # p => call[q].link # call[p].link
  BY <1>2, NoneAssumption DEF CallInv
<1>6. LinkInv'
  BY <1>1, <1>2, <1>4 DEF LinkInv, Alive, SupSteps
<1>7. ConnInv'
  BY <1>1, <1>2 DEF ConnInv, Alive
<1>8. CallInv'
  BY <1>1, <1>2, <1>5 DEF CallInv, KeyOf, Alive
<1>9. NoStrayLink'
  BY <1>1, <1>2 DEF NoStrayLink, Alive
<1>. QED
  BY <1>3, <1>6, <1>7, <1>8, <1>9

\* EnsureConn makes a conn, alone under Manager.mu ...
LEMMA EnsureConfigStep ==
    ASSUME Structure, NEW p \in Caller, NEW l \in Link, EnsureConfig(p, l)
    PROVE  MuInv' /\ LinkInv' /\ ConnInv' /\ CallInv' /\ NoStrayLink'
<1>. USE DEF Structure, EnsureConfig, Collectable, Goto, storeVars
<1>1. pc[p] # "register" /\ KeyOf(p) \in minted \X User /\ KeyOf(p) \in Key
  BY DEF Ensuring, TypeOK, KeyOf, Key
<1>2. \A q \in Caller : /\ q # p => call'[q] = call[q] /\ pc'[q] = pc[q]
                        /\ KeyOf(q)' = KeyOf(q)
                        /\ q # p => pc[q] # "register"
  BY NoneAssumption DEF TypeOK, Call, KeyOf, MuInv
<1>3. pc'[p] = "register" /\ call'[p].link = l /\ mu' = p
  BY DEF TypeOK, Call
<1>4. \A m \in Link : m # l => sup'[m] = sup[m] /\ home'[m] = home[m]
  BY DEF TypeOK
<1>5. sup'[l] = "made" /\ home'[l] = KeyOf(p) /\ l \notin cancelled
  BY DEF TypeOK, LinkInv
<1>6. \A k \in Key : conns[k] # None => conns[k] # l /\ conns[k] \in Link
  BY DEF ConnInv, Alive, SupSteps, TypeOK
<1>7. MuInv'
  BY <1>2, <1>3 DEF MuInv
<1>8. LinkInv'
  <2>1. \A m \in Link : m # l => sup[m] # "made"
    BY <1>1, <1>2 DEF LinkInv
  <2>. QED
    BY <1>1, <1>3, <1>4, <1>5, <2>1 DEF LinkInv, Alive, SupSteps
<1>9. ConnInv'
  BY <1>2, <1>3, <1>4, <1>6 DEF ConnInv, Alive
<1>10. CallInv'
  <2>1. \A q \in Caller : pc[q] = "cancel" => call[q].link # l /\ call[q].link \in Link
    BY DEF TypeOK, Holding
  <2>. QED
    BY <1>1, <1>2, <1>3, <1>4, <1>5, <2>1 DEF CallInv, Alive
<1>11. NoStrayLink'
  <2>1. \A m \in Link : Alive(m)' => m # l /\ Alive(m) /\ home'[m] = home[m]
    BY <1>4, <1>5 DEF Alive, SupSteps
  <2>2. \A q \in Caller : pc[q] = "cancel" => pc'[q] = "cancel" /\ call'[q] = call[q]
    <3>1. pc[p] # "cancel"
      BY DEF Ensuring
    <3>. QED
      BY <1>2, <3>1
  <2>3. conns' = conns /\ cancelled' = cancelled
    OBVIOUS
  <2>. HIDE DEF EnsureConfig, Collectable
  <2>. QED
    BY <2>1, <2>2, <2>3 DEF NoStrayLink
<1>. QED
  BY <1>7, <1>8, <1>9, <1>10, <1>11

\* ... and registers it for a key that still has none, or throws it away.
LEMMA EnsureRegisterStep ==
    ASSUME Structure, NEW p \in Caller, EnsureRegister(p)
    PROVE  MuInv' /\ LinkInv' /\ ConnInv' /\ CallInv' /\ NoStrayLink'
<1>. DEFINE l == call[p].link
<1>. USE DEF Structure, EnsureRegister, Return, storeVars
<1>1. /\ pc[p] = "register" /\ KeyOf(p) \in minted \X User /\ KeyOf(p) \in Key /\ mu = p
      /\ l \in Link /\ sup[l] = "made" /\ home[l] = KeyOf(p) /\ conns[KeyOf(p)] = None
  BY DEF TypeOK, KeyOf, Key, MuInv, CallInv, Holding
<1>2. \A q \in Caller : q # p => /\ call'[q] = call[q] /\ pc'[q] = pc[q]
                                 /\ pc[q] # "register" /\ KeyOf(q)' = KeyOf(q)
                                 /\ call[q].link # l
  BY <1>1, NoneAssumption DEF TypeOK, MuInv, KeyOf, CallInv
<1>3. pc'[p] = "idle" /\ call'[p].link = None
  BY DEF TypeOK, Unused
<1>4. \A m \in Link : m # l => sup'[m] = sup[m] /\ home'[m] = home[m] /\ sup[m] # "made"
  BY <1>1, <1>2 DEF TypeOK, LinkInv
<1>5. l \notin cancelled /\ \A k \in Key : conns[k] # None => conns[k] # l /\ conns[k] \in Link
  BY <1>1 DEF LinkInv, ConnInv, Alive, SupSteps, TypeOK
<1>6. MuInv'
  BY <1>2, <1>3, NoneAssumption DEF MuInv
<1>7. CallInv'
  <2>1. \A q \in Caller : pc'[q] = "cancel" =>
            q # p /\ pc[q] = "cancel" /\ call[q].link # l /\ call[q].link \in Link
    BY <1>2, <1>3 DEF TypeOK, Holding
  <2>. QED
    BY <1>2, <1>3, <1>4, <2>1 DEF CallInv, Alive
<1>8. CASE KeyOf(p) \in member
  <2>1. /\ conns' = [conns EXCEPT ![KeyOf(p)] = l] /\ sup' = [sup EXCEPT ![l] = "start"]
        /\ UNCHANGED <<minted, home, outdated, cancelled>>
    BY <1>8
  <2>2. sup'[l] = "start"
    BY <1>1, <2>1 DEF TypeOK
  <2>3. LinkInv'
    BY <1>1, <1>4, <2>1, <2>2 DEF LinkInv, Alive
  <2>4. \A k \in Key : conns'[k] = IF k = KeyOf(p) THEN l ELSE conns[k]
    BY <1>1, <2>1 DEF TypeOK
  <2>5. \A q \in Caller : call'[q].link # l
    BY <1>1, <1>2, <1>3, NoneAssumption
  <2>6. \A k \in Key : k # KeyOf(p) /\ conns[k] # None =>
            \A q \in Caller : call'[q].link # conns[k]
    BY <1>2, <1>3 DEF ConnInv
  <2>. HIDE DEF l
  <2>7. ConnInv'
    <3>1. \A k \in Key : conns[k] # None =>
              /\ home'[conns[k]] = home[conns[k]] /\ sup'[conns[k]] = sup[conns[k]]
      BY <1>4, <1>5
    <3>. QED
      BY <1>1, <1>5, <2>1, <2>2, <2>4, <2>5, <2>6, <3>1 DEF ConnInv, Alive, SupSteps
  <2>8. NoStrayLink'
    <3>1. \A m \in Link : m # l /\ sup'[m] \in SupSteps => Alive(m) /\ home'[m] = home[m]
      BY <1>4 DEF Alive
    <3>2. \A m \in Link : Alive(m) => home[m] \in Key
      BY DEF LinkInv, Key, TypeOK
    <3>3. \A m \in Link : Alive(m) /\ conns[home[m]] = m => conns'[home[m]] = m
      BY <1>1, <2>4, <3>2, NoneAssumption
    <3>4. \A q \in Caller : pc[q] = "cancel" => pc'[q] = "cancel" /\ call'[q] = call[q]
      BY <1>1, <1>2
    <3>5. conns'[home'[l]] = l /\ l \notin cancelled'
      BY <1>1, <1>5, <2>1, <2>4
    <3>. QED
      BY <2>1, <3>1, <3>3, <3>4, <3>5 DEF NoStrayLink, Alive
  <2>. QED
    BY <1>6, <1>7, <2>3, <2>7, <2>8
<1>9. CASE KeyOf(p) \notin member
  <2>1. /\ conns' = conns /\ sup' = [sup EXCEPT ![l] = "unused"]
        /\ home' = [home EXCEPT ![l] = None] /\ outdated' = outdated \ {l}
        /\ UNCHANGED <<minted, cancelled>>
    BY <1>9
  <2>2. sup'[l] = "unused" /\ home'[l] = None
    BY <1>1, <2>1 DEF TypeOK
  <2>3. LinkInv'
    BY <1>4, <1>5, <2>1, <2>2 DEF LinkInv, Alive, SupSteps
  <2>4. \A k \in Key : conns[k] # None => \A q \in Caller : call'[q].link # conns[k]
    BY <1>2, <1>3 DEF ConnInv
  <2>5. ConnInv'
    <3>1. \A k \in Key : conns[k] # None =>
              /\ home'[conns[k]] = home[conns[k]] /\ sup'[conns[k]] = sup[conns[k]]
      BY <1>4, <1>5
    <3>. QED
      BY <2>1, <2>4, <3>1 DEF ConnInv, Alive
  <2>6. NoStrayLink'
    <3>1. \A m \in Link : sup'[m] \in SupSteps => Alive(m) /\ home'[m] = home[m]
      BY <1>4, <2>2 DEF Alive, SupSteps
    <3>2. \A q \in Caller : pc[q] = "cancel" => pc'[q] = "cancel" /\ call'[q] = call[q]
      BY <1>1, <1>2
    <3>. QED
      BY <2>1, <3>1, <3>2 DEF NoStrayLink, Alive
  <2>. QED
    BY <1>6, <1>7, <2>3, <2>5, <2>6
<1>. QED
  BY <1>8, <1>9

\* EnsureAll starts one supervisor for each membership after a restart.
LEMMA CrashStep ==
    ASSUME Structure, Crash
    PROVE  MuInv' /\ LinkInv' /\ ConnInv' /\ CallInv' /\ NoStrayLink'
<1>. DEFINE todo == {k \in member : k[1] \in nets}
<1>1. PICK made \in [todo -> Link] :
          /\ \A j, k \in todo : made[j] = made[k] => j = k
          /\ conns' = [k \in Key |-> IF k \in todo THEN made[k] ELSE None]
          /\ home' = [l \in Link |->
                IF \E k \in todo : made[k] = l
                THEN CHOOSE k \in todo : made[k] = l ELSE None]
          /\ sup' = [l \in Link |->
                IF \E k \in todo : made[k] = l THEN "start" ELSE "unused"]
  BY DEF Crash
<1>2. todo \subseteq minted \X User /\ todo \subseteq Key
  BY DEF Structure, TypeOK, Key
<1>3. /\ mu' = None /\ cancelled' = {} /\ outdated' = {} /\ minted' = minted
      /\ \A p \in Caller : pc'[p] = "idle" /\ call'[p].link = None
  BY DEF Crash, storeVars, Unused
<1>. HIDE DEF todo
<1>4. \A k \in todo : home'[made[k]] = k
  <2>. TAKE k \in todo
  <2>1. home'[made[k]] = CHOOSE j \in todo : made[j] = made[k]
    BY <1>1
  <2>2. (CHOOSE j \in todo : made[j] = made[k]) \in todo
        /\ made[CHOOSE j \in todo : made[j] = made[k]] = made[k]
    BY Zenon
  <2>. QED
    BY <1>1, <2>1, <2>2
<1>5. \A l \in Link : \/ \E k \in todo : made[k] = l /\ home'[l] = k /\ sup'[l] = "start"
                      \/ home'[l] = None /\ sup'[l] = "unused"
  BY <1>1, <1>4
<1>6. MuInv'
  BY <1>3, NoneAssumption DEF MuInv
<1>7. LinkInv'
  BY <1>2, <1>3, <1>5 DEF LinkInv, Alive, SupSteps
<1>8. ConnInv'
  <2>1. \A k \in Key : conns'[k] # None => k \in todo /\ conns'[k] = made[k] /\ made[k] \in Link
    BY <1>1
  <2>2. \A k \in todo : sup'[made[k]] = "start"
    BY <1>1
  <2>. QED
    BY <1>3, <1>4, <2>1, <2>2, NoneAssumption DEF ConnInv, Alive, SupSteps
<1>9. CallInv'
  BY <1>3 DEF CallInv
<1>10. NoStrayLink'
  <2>1. \A l \in Link : Alive(l)' => \E k \in todo : made[k] = l /\ home'[l] = k
    BY <1>5 DEF Alive, SupSteps
  <2>2. \A k \in todo : conns'[k] = made[k]
    BY <1>1, <1>2
  <2>. QED
    BY <1>3, <2>1, <2>2 DEF NoStrayLink
<1>. QED
  BY <1>6, <1>7, <1>8, <1>9, <1>10

\* Every step keeps the structure: it is a quiet step of a call or of a
\* supervisor, or one of the steps above.
LEMMA StructureStep == Structure /\ [Next]_vars => Structure'
<1>. DEFINE Rest == MuInv /\ LinkInv /\ ConnInv /\ CallInv /\ NoStrayLink
<1>. SUFFICES ASSUME Structure, [Next]_vars PROVE Structure'
  OBVIOUS
<1>0. TypeOK'
  BY TypeStep DEF Structure
<1>1. ASSUME NEW p \in Caller, QuietCall(p), outdated' = outdated PROVE Rest'
  BY <1>0, <1>1, QuietCallStep
<1>2. ASSUME NEW p \in Caller, Join(p) \/ Leave(p) PROVE Rest'
  <2>. USE DEF Structure, TypeOK, QuietCall, Call, Unused, Goto, Return, UpsertNetwork,
               storeVars, linkVars, bookVars
  <2>. HIDE DEF Rest
  <2>1. ASSUME NEW u \in User, JoinIndex(p, u) PROVE Rest'
    <3>1. QuietCall(p) /\ outdated' = outdated
      BY <2>1, NoneAssumption DEF JoinIndex, Begin
    <3>. QED
      BY <1>1, <3>1
  <2>2. ASSUME NEW changed \in BOOLEAN, NEW rot \in BOOLEAN, JoinGet(p, changed, rot) PROVE Rest'
    <3>1. QuietCall(p) /\ outdated' = outdated
      BY <2>2, NoneAssumption DEF JoinGet
    <3>. QED
      BY <1>1, <3>1
  <2>3. ASSUME JoinGetNone(p) PROVE Rest'
    <3>1. QuietCall(p) /\ outdated' = outdated
      BY <2>3, NoneAssumption DEF JoinGetNone
    <3>. QED
      BY <1>1, <3>1
  <2>4. ASSUME NEW n \in Net, JoinCreate(p, n) PROVE Rest'
    <3>1. QuietCall(p) /\ outdated' = outdated
      BY <2>4, NoneAssumption DEF JoinCreate
    <3>. QED
      BY <1>1, <3>1
  <2>5. ASSUME NEW new \in BOOLEAN, JoinGetMember(p, new) PROVE Rest'
    <3>1. QuietCall(p) /\ outdated' = outdated
      BY <2>5, NoneAssumption DEF JoinGetMember
    <3>. QED
      BY <1>1, <3>1
  <2>6. ASSUME JoinPutMember(p) PROVE Rest'
    <3>1. QuietCall(p) /\ outdated' = outdated
      BY <2>6, NoneAssumption DEF JoinPutMember
    <3>. QED
      BY <1>1, <3>1
  <2>7. ASSUME RestartNone(p) PROVE Rest'
    <3>1. QuietCall(p) /\ outdated' = outdated
      BY <2>7, NoneAssumption DEF RestartNone
    <3>. QED
      BY <1>1, <3>1
  <2>8. ASSUME RestartWait(p) PROVE Rest'
    <3>1. QuietCall(p) /\ outdated' = outdated
      BY <2>8, NoneAssumption DEF RestartWait
    <3>. QED
      BY <1>1, <3>1
  <2>9. ASSUME EnsureNothing(p) PROVE Rest'
    <3>1. QuietCall(p) /\ outdated' = outdated
      BY <2>9, NoneAssumption DEF EnsureNothing, Ensuring
    <3>. QED
      BY <1>1, <3>1
  <2>10. ASSUME NEW n \in Net, NEW u \in User, LeaveCheck(p, n, u) PROVE Rest'
    <3>1. QuietCall(p) /\ outdated' = outdated
      BY <2>10, NoneAssumption DEF LeaveCheck, Begin
    <3>. QED
      BY <1>1, <3>1
  <2>11. ASSUME LeaveDelete(p) PROVE Rest'
    <3>1. QuietCall(p) /\ outdated' = outdated
      BY <2>11, NoneAssumption DEF LeaveDelete
    <3>. QED
      BY <1>1, <3>1
  <2>12. ASSUME LeaveDropNone(p) PROVE Rest'
    <3>1. QuietCall(p) /\ outdated' = outdated
      BY <2>12, NoneAssumption DEF LeaveDropNone
    <3>. QED
      BY <1>1, <3>1
  <2>13. ASSUME LeaveDropWait(p) PROVE Rest'
    <3>1. QuietCall(p) /\ outdated' = outdated
      BY <2>13, NoneAssumption DEF LeaveDropWait
    <3>. QED
      BY <1>1, <3>1
  <2>14. ASSUME LeaveCount(p) PROVE Rest'
    <3>1. QuietCall(p) /\ outdated' = outdated
      BY <2>14, NoneAssumption DEF LeaveCount
    <3>. QED
      BY <1>1, <3>1
  <2>15. ASSUME LeaveCascade(p) PROVE Rest'
    <3>1. QuietCall(p) /\ outdated' = outdated
      BY <2>15, NoneAssumption DEF LeaveCascade
    <3>. QED
      BY <1>1, <3>1
  <2>16. ASSUME JoinUpdate(p) PROVE Rest'
    <3>1. QuietCall(p)
      BY <2>16, NoneAssumption DEF JoinUpdate
    <3>2. \A l \in Link : l \in outdated' => l \in outdated \/ home[l] # None
      <4>1. KeyOf(p) # None
        BY <2>16, NoneKeyAssumption DEF JoinUpdate, KeyOf
      <4>. QED
        BY <2>16, <4>1 DEF JoinUpdate
    <3>. QED
      BY <1>0, <3>1, <3>2, QuietCallStep DEF Rest
  <2>17. ASSUME RestartTake(p) PROVE Rest'
    <3>1. TakesConn(p, "cancel")
      BY <2>17 DEF RestartTake, TakesConn
    <3>. QED
      BY <3>1, TakesConnStep DEF Rest
  <2>18. ASSUME LeaveDrop(p) PROVE Rest'
    <3>1. TakesConn(p, "dropWait")
      BY <2>18 DEF LeaveDrop, TakesConn
    <3>. QED
      BY <3>1, TakesConnStep DEF Rest
  <2>19. ASSUME RestartCancel(p) PROVE Rest'
    BY <2>19, RestartCancelStep DEF Rest
  <2>20. ASSUME NEW l \in Link, EnsureConfig(p, l) PROVE Rest'
    BY <2>20, EnsureConfigStep DEF Rest
  <2>21. ASSUME EnsureRegister(p) PROVE Rest'
    BY <2>21, EnsureRegisterStep DEF Rest
  <2>. HIDE DEF Structure, TypeOK, QuietCall, Goto, Return
  <2>. QED
    BY <1>2, <2>1, <2>2, <2>3, <2>4, <2>5, <2>6, <2>7, <2>8, <2>9, <2>10,
       <2>11, <2>12, <2>13, <2>14, <2>15, <2>16, <2>17, <2>18, <2>19, <2>20, <2>21
    DEF Join, Leave
<1>3. ASSUME NEW l \in Link, Supervise(l) PROVE Rest'
  <2>. USE DEF Structure, TypeOK, QuietSup, Alive, SupSteps, Move, storeVars, callVars
  <2>. HIDE DEF Rest
  <2>0. ASSUME QuietSup(l) PROVE Rest'
    BY <2>0, QuietSupStep DEF Rest
  <2>1. ASSUME SupConnect(l) PROVE Rest'
    <3>1. QuietSup(l)
      BY <2>1 DEF SupConnect
    <3>. QED
      BY <2>0, <3>1
  <2>2. ASSUME SupDialFails(l) PROVE Rest'
    <3>1. QuietSup(l)
      BY <2>2 DEF SupDialFails
    <3>. QED
      BY <2>0, <3>1
  <2>3. ASSUME NEW b \in BOOLEAN, SupConnected(l, b) PROVE Rest'
    <3>1. QuietSup(l)
      BY <2>3 DEF SupConnected
    <3>. QED
      BY <2>0, <3>1
  <2>4. ASSUME SupNick(l) PROVE Rest'
    <3>1. QuietSup(l)
      BY <2>4 DEF SupNick
    <3>. QED
      BY <2>0, <3>1
  <2>5. ASSUME SupNickWrite(l) PROVE Rest'
    <3>1. QuietSup(l)
      BY <2>5 DEF SupNickWrite
    <3>. QED
      BY <2>0, <3>1
  <2>6. ASSUME SupLinkEnds(l) PROVE Rest'
    <3>1. QuietSup(l)
      BY <2>6 DEF SupLinkEnds
    <3>. QED
      BY <2>0, <3>1
  <2>7. ASSUME SupRetry(l) PROVE Rest'
    <3>1. QuietSup(l)
      BY <2>7 DEF SupRetry
    <3>. QED
      BY <2>0, <3>1
  <2>8. ASSUME SupCheck(l) PROVE Rest'
    <3>1. CASE l \in cancelled
      BY <2>8, <3>1, SupDoneStep DEF SupCheck, Rest
    <3>2. CASE l \notin cancelled
      <4>1. QuietSup(l)
        BY <2>8, <3>2 DEF SupCheck
      <4>. QED
        BY <2>0, <4>1
    <3>. QED
      BY <3>1, <3>2
  <2>9. ASSUME SupStop(l) PROVE Rest'
    BY <2>9, SupDoneStep DEF SupStop, Rest
  <2>. QED
    BY <1>3, <2>1, <2>2, <2>3, <2>4, <2>5, <2>6, <2>7, <2>8, <2>9 DEF Supervise
<1>4. CASE Crash
  BY <1>0, <1>4, CrashStep DEF Structure
<1>5. CASE UNCHANGED vars
  BY <1>0, <1>5 DEF Structure, MuInv, LinkInv, ConnInv, CallInv, NoStrayLink, KeyOf, Alive, vars,
              storeVars, linkVars, callVars, bookVars
<1>. QED
  BY <1>0, <1>2, <1>3, <1>4, <1>5 DEF Next, Structure

\* A manager without conns has the structure.
LEMMA StructureInit == Init => Structure
  BY NoneAssumption, MaxCallsAssumption
  DEF Init, Structure, TypeOK, MuInv, LinkInv, ConnInv, CallInv, NoStrayLink, Alive,
      SupSteps, Holding, Key, Call, Unused

\* Every reachable state has it.
LEMMA StructureHolds == Spec => []Structure
  BY StructureInit, StructureStep, PTL DEF Spec

\* Every record, conn and local of a call has its type, and a call past
\* NetworkByConnID works on a network id that was handed out.
THEOREM TypeCorrect == Spec => []TypeOK
  BY StructureHolds, PTL DEF Structure

\* For any users, networks, conns and callers, a live supervisor is registered
\* under its own key, or cancelled, or held by the RestartConn that is about to
\* cancel it.
THEOREM NoStrayLinks == Spec => []NoStrayLink
  BY StructureHolds, PTL DEF Structure

\* For any users, networks, conns and callers, neither Drop nor RestartConn closes
\* a cancel channel that is closed.
THEOREM CancelClosedOnce == Spec => []ClosedOnce
<1>1. Structure => ClosedOnce
  BY DEF Structure, ConnInv, CallInv, ClosedOnce
<1>. QED
  BY <1>1, StructureHolds, PTL

-----------------------------------------------------------------------------
(* Registered conns and memberships *)

\* A registered conn keeps its member, its mark or its dropper.
LEMMA LinkHasMemberStep ==
    Structure /\ TypeOK' /\ LinkHasMember /\ [Next]_vars => LinkHasMember'
<1>. SUFFICES ASSUME Structure, TypeOK', LinkHasMember, [Next]_vars PROVE LinkHasMember'
  OBVIOUS
<1>. DEFINE DroppersStay == \A q \in Caller : pc[q] = "drop" =>
                                pc'[q] = "drop" /\ call'[q].net = call[q].net
                                                /\ call'[q].user = call[q].user
<1>1. ASSUME \A k \in Key : conns'[k] \in {None, conns[k]},
             member \subseteq member', swept \subseteq swept', DroppersStay
      PROVE  LinkHasMember'
  BY <1>1 DEF LinkHasMember, KeyOf
<1>2. ASSUME NEW p \in Caller, Join(p) \/ Leave(p) PROVE LinkHasMember'
  <2>1. CASE LeaveDelete(p)
    <3>1. /\ member' = member \ {KeyOf(p)} /\ conns' = conns /\ swept' = swept
          /\ pc[p] # "drop" /\ pc'[p] = "drop" /\ call' = call
          /\ \A q \in Caller : q # p => pc'[q] = pc[q]
      BY <2>1 DEF LeaveDelete, Goto, bookVars, Structure, TypeOK
    <3>. QED
      BY <3>1 DEF LinkHasMember, KeyOf
  <2>2. CASE LeaveDrop(p) \/ LeaveDropNone(p)
    <3>1. /\ member' = member /\ swept' = swept /\ pc[p] = "drop"
          /\ \A q \in Caller : q # p => pc'[q] = pc[q] /\ call'[q] = call[q]
      BY <2>2 DEF LeaveDrop, LeaveDropNone, Goto, bookVars, storeVars, Structure, TypeOK
    <3>2. KeyOf(p) \in Key
      BY <3>1 DEF Structure, TypeOK, KeyOf, Key
    <3>3. \A k \in Key : conns'[k] = IF k = KeyOf(p) THEN None ELSE conns[k]
      BY <2>2, <3>2 DEF LeaveDrop, LeaveDropNone, Structure, TypeOK
    <3>. QED
      BY <3>1, <3>3 DEF LinkHasMember, KeyOf
  <2>3. CASE LeaveCascade(p)
    <3>1. /\ conns' = conns /\ pc[p] = "cascade"
          /\ \A q \in Caller : q # p => pc'[q] = pc[q] /\ call'[q] = call[q]
          /\ member' = member \ ({call[p].net} \X User)
          /\ swept' = swept \cup {conns[k] : k \in {j \in member : /\ j[1] = call[p].net
                                                                /\ conns[j] # None}}
      BY <2>3 DEF LeaveCascade, Return, Structure, TypeOK
    <3>2. \A k \in Key : k \in member /\ k \notin member' /\ conns[k] # None =>
              conns[k] \in swept'
      BY <3>1 DEF Key
    <3>. QED
      BY <3>1, <3>2 DEF LinkHasMember, KeyOf
  <2>4. CASE EnsureRegister(p)
    <3>1. KeyOf(p) \in Key /\ pc[p] # "drop"
      BY <2>4 DEF EnsureRegister, Structure, TypeOK, KeyOf, Key
    <3>2. \A k \in Key : conns'[k] # conns[k] => k = KeyOf(p) /\ KeyOf(p) \in member
      BY <2>4, <3>1 DEF EnsureRegister, Structure, TypeOK
    <3>3. /\ member' = member /\ swept' = swept
          /\ \A q \in Caller : q # p => pc'[q] = pc[q] /\ call'[q] = call[q]
      BY <2>4 DEF EnsureRegister, Return, bookVars, storeVars, Structure, TypeOK
    <3>. QED
      BY <3>1, <3>2, <3>3 DEF LinkHasMember, KeyOf
  <2>5. CASE RestartTake(p)
    <3>1. KeyOf(p) \in Key
      BY <2>5 DEF RestartTake, Structure, TypeOK, KeyOf, Key
    <3>2. \A k \in Key : conns'[k] \in {None, conns[k]}
      BY <2>5, <3>1 DEF RestartTake, Structure, TypeOK
    <3>3. DroppersStay /\ member' = member /\ swept' = swept
      BY <2>5 DEF RestartTake, Goto, bookVars, storeVars, Structure, TypeOK, Call
    <3>. QED
      BY <1>1, <3>2, <3>3
  <2>. DEFINE Quiet == conns' = conns /\ member \subseteq member' /\ swept' = swept /\ DroppersStay
  <2>6. ASSUME Quiet PROVE LinkHasMember'
    BY <1>1, <2>6
  <2>. USE DEF Structure, TypeOK, Call, Goto, Return, storeVars, bookVars
  <2>7. ASSUME NEW u \in User, JoinIndex(p, u) PROVE Quiet
    BY <2>7 DEF JoinIndex, Begin
  <2>8. ASSUME NEW changed \in BOOLEAN, NEW rot \in BOOLEAN, JoinGet(p, changed, rot) PROVE Quiet
    BY <2>8 DEF JoinGet
  <2>9. ASSUME JoinGetNone(p) PROVE Quiet
    BY <2>9 DEF JoinGetNone
  <2>10. ASSUME NEW n \in Net, JoinCreate(p, n) PROVE Quiet
    BY <2>10 DEF JoinCreate
  <2>11. ASSUME JoinUpdate(p) PROVE Quiet
    BY <2>11 DEF JoinUpdate
  <2>12. ASSUME NEW new \in BOOLEAN, JoinGetMember(p, new) PROVE Quiet
    BY <2>12 DEF JoinGetMember
  <2>13. ASSUME JoinPutMember(p) PROVE Quiet
    BY <2>13 DEF JoinPutMember
  <2>14. ASSUME RestartNone(p) PROVE Quiet
    BY <2>14 DEF RestartNone
  <2>15. ASSUME RestartCancel(p) PROVE Quiet
    BY <2>15 DEF RestartCancel
  <2>16. ASSUME RestartWait(p) PROVE Quiet
    BY <2>16 DEF RestartWait
  <2>17. ASSUME EnsureNothing(p) PROVE Quiet
    BY <2>17 DEF EnsureNothing, Ensuring
  <2>18. ASSUME NEW l \in Link, EnsureConfig(p, l) PROVE Quiet
    BY <2>18 DEF EnsureConfig, Ensuring
  <2>19. ASSUME NEW n \in Net, NEW u \in User, LeaveCheck(p, n, u) PROVE Quiet
    BY <2>19 DEF LeaveCheck, Begin
  <2>20. ASSUME LeaveDropWait(p) PROVE Quiet
    BY <2>20 DEF LeaveDropWait
  <2>21. ASSUME LeaveCount(p) PROVE Quiet
    BY <2>21 DEF LeaveCount
  <2>. HIDE DEF Structure, TypeOK, Call, Goto, Return, storeVars, bookVars, Quiet
  <2>. QED
    BY <1>2, <2>1, <2>2, <2>3, <2>4, <2>5, <2>6, <2>7, <2>8, <2>9, <2>10, <2>11,
       <2>12, <2>13, <2>14, <2>15, <2>16, <2>17, <2>18, <2>19, <2>20, <2>21
    DEF Join, Leave
<1>3. ASSUME NEW l \in Link, Supervise(l) PROVE LinkHasMember'
  <2>1. conns' = conns /\ member \subseteq member' /\ pc' = pc /\ call' = call
    BY <1>3 DEF Supervise, SupConnect, SupDialFails, SupConnected, SupNick, SupNickWrite,
                SupLinkEnds, SupCheck, SupRetry, SupStop, SupDone, Move, storeVars, callVars
  <2>2. swept \subseteq swept' \/ (swept' = swept \ {l} /\ l \in cancelled)
    BY <1>3 DEF Supervise, SupConnect, SupDialFails, SupConnected, SupNick, SupNickWrite,
                SupLinkEnds, SupCheck, SupRetry, SupStop, SupDone, Move, bookVars
  <2>3. \A k \in Key : conns[k] # None /\ conns[k] \in swept => conns[k] \in swept'
    BY <2>2 DEF Structure, ConnInv
  <2>. QED
    BY <2>1, <2>3 DEF LinkHasMember, KeyOf
<1>4. CASE Crash
  BY <1>4 DEF Crash, LinkHasMember, storeVars
<1>5. CASE UNCHANGED vars
  BY <1>5 DEF LinkHasMember, KeyOf, vars, storeVars, callVars, bookVars
<1>. QED
  BY <1>2, <1>3, <1>4, <1>5 DEF Next

\* For any users, networks, conns and callers a registered connection belongs to
\* a member, or the Leave that deleted the membership is on its way to Drop, or
\* a cascade has taken the membership.
THEOREM LinksHaveMembers == Spec => []LinkHasMember
<1>1. Init => LinkHasMember
  BY DEF Init, LinkHasMember
<1>. QED
  BY <1>1, StructureHolds, TypeStep, LinkHasMemberStep, PTL DEF Spec, Structure

-----------------------------------------------------------------------------
(* Rotated credentials *)

\* A Join that has rotated the credentials of key k and not yet restarted its conn.
Rotating(p, k) ==
    KeyOf(p) = k /\ call[p].rot /\ pc[p] \in {"member", "put", "open"}

\* RotationReplacesLink is inductive only with the conn that another call of the
\* same user is making from the old record: it is going to be registered.
OutdatedInv ==
    \A l \in outdated : sup[l] = "made" \/ conns[home[l]] = l =>
        \E p \in Caller : Rotating(p, home[l])

\* No step registers or keeps an outdated conn without its rotator.
LEMMA OutdatedStep ==
    Structure /\ Structure' /\ OutdatedInv /\ [Next]_vars => OutdatedInv'
<1>. SUFFICES ASSUME Structure, Structure', OutdatedInv, [Next]_vars PROVE OutdatedInv'
  OBVIOUS
<1>. DEFINE RotatorsStay == \A q \in Caller, k \in Key : Rotating(q, k) => Rotating(q, k)'
<1>0. \A l \in outdated : /\ sup[l] = "made" \/ Alive(l)
                          /\ l \in Link /\ home[l] \in Key
  BY DEF Structure, TypeOK, LinkInv, Alive, Key
<1>1. ASSUME outdated' \subseteq outdated, RotatorsStay,
             \A l \in outdated' : /\ home'[l] = home[l]
                                  /\ sup'[l] = "made" => sup[l] = "made"
                                  /\ conns'[home[l]] = l => sup[l] = "made" \/ conns[home[l]] = l
      PROVE  OutdatedInv'
  <2>. SUFFICES ASSUME NEW l \in outdated', sup'[l] = "made" \/ conns'[home'[l]] = l
                PROVE  \E p \in Caller : Rotating(p, home[l])'
    BY <1>1 DEF OutdatedInv, Rotating, KeyOf
  <2>1. l \in outdated /\ (sup[l] = "made" \/ conns[home[l]] = l)
    BY <1>1
  <2>2. PICK p \in Caller : Rotating(p, home[l])
    BY <2>1 DEF OutdatedInv
  <2>3. Rotating(p, home[l])'
    BY <1>0, <1>1, <2>1, <2>2 DEF Rotating, KeyOf
  <2>. QED
    BY <2>3
<1>2. ASSUME NEW p \in Caller, Join(p) \/ Leave(p) PROVE OutdatedInv'
  <2>. DEFINE Quiet == UNCHANGED <<conns, outdated, home, sup>> /\ RotatorsStay
  <2>0. ASSUME Quiet PROVE OutdatedInv'
    BY <1>0, <1>1, <2>0
  <2>1. CASE JoinUpdate(p)
    <3>1. /\ conns' = conns /\ home' = home /\ sup' = sup /\ call' = call
          /\ outdated' = outdated \cup {l \in Link : call[p].rot /\ home[l] = KeyOf(p)}
          /\ pc' = [pc EXCEPT ![p] = "member"] /\ pc[p] = "update"
      BY <2>1 DEF JoinUpdate, Goto
    <3>2. \A q \in Caller : Rotating(q, KeyOf(q)) => Rotating(q, KeyOf(q))'
      BY <3>1 DEF Rotating, KeyOf, Structure, TypeOK
    <3>3. \A l \in outdated' \ outdated : home[l] = KeyOf(p) /\ Rotating(p, KeyOf(p))'
      BY <3>1 DEF Rotating, KeyOf, Structure, TypeOK
    <3>. QED
      BY <3>1, <3>2, <3>3 DEF OutdatedInv, Rotating, KeyOf
  <2>a. ASSUME UNCHANGED <<home, sup, outdated>>, mu = None,
               \A q \in Caller : q # p => pc'[q] = pc[q] /\ call'[q] = call[q],
               \A l \in outdated : conns'[home[l]] = l => home[l] # KeyOf(p) /\ conns[home[l]] = l
        PROVE  OutdatedInv'
    <3>1. \A l \in Link : sup[l] # "made"
      BY <2>a, NoneAssumption DEF Structure, LinkInv, MuInv
    <3>2. \A q \in Caller, k \in Key : q # p /\ Rotating(q, k) => Rotating(q, k)'
      BY <2>a DEF Rotating, KeyOf
    <3>. SUFFICES ASSUME NEW l \in outdated, conns'[home[l]] = l
                  PROVE  \E q \in Caller : Rotating(q, home[l])'
      BY <1>0, <2>a, <3>1 DEF OutdatedInv, Rotating, KeyOf
    <3>3. PICK q \in Caller : Rotating(q, home[l])
      BY <2>a DEF OutdatedInv
    <3>4. q # p
      BY <2>a, <3>3 DEF Rotating
    <3>5. Rotating(q, home[l])'
      BY <1>0, <2>a, <3>2, <3>3, <3>4 DEF Rotating, KeyOf
    <3>. QED
      BY <3>5
  <2>2. CASE RestartNone(p)
    <3>1. /\ UNCHANGED <<conns, home, sup, outdated>>
          /\ \A q \in Caller : q # p => pc'[q] = pc[q] /\ call'[q] = call[q]
          /\ conns[KeyOf(p)] = None /\ mu = None
      BY <2>2 DEF RestartNone, Return, linkVars, Structure, TypeOK
    <3>2. \A l \in outdated : conns[home[l]] = l => home[l] # KeyOf(p)
      BY <1>0, <3>1, NoneAssumption
    <3>. QED
      BY <2>a, <3>1, <3>2
  <2>3. CASE RestartTake(p) \/ LeaveDrop(p)
    <3>1. /\ UNCHANGED <<home, sup, outdated>> /\ mu = None
          /\ \A q \in Caller : q # p => pc'[q] = pc[q] /\ call'[q] = call[q]
          /\ conns' = [conns EXCEPT ![KeyOf(p)] = None]
      BY <2>3 DEF RestartTake, LeaveDrop, Goto, linkVars, Structure, TypeOK
    <3>2. \A l \in outdated : conns'[home[l]] = l => home[l] # KeyOf(p) /\ conns[home[l]] = l
      BY <1>0, <3>1, NoneAssumption DEF Structure, TypeOK
    <3>. QED
      BY <2>a, <3>1, <3>2
  <2>4. ASSUME NEW l \in Link, EnsureConfig(p, l) PROVE OutdatedInv'
    <3>1. /\ conns' = conns /\ outdated' = outdated /\ sup[l] \in {"unused", "done"}
          /\ \A m \in Link : m # l => sup'[m] = sup[m] /\ home'[m] = home[m]
      BY <2>4 DEF EnsureConfig, Collectable, Structure, TypeOK
    <3>2. \A m \in outdated : m # l /\ m \in Link
      BY <3>1 DEF Structure, LinkInv, TypeOK
    <3>3. RotatorsStay
      BY <2>4 DEF EnsureConfig, Ensuring, Goto, Rotating, KeyOf, Structure, TypeOK, Call
    <3>. QED
      BY <1>1, <3>1, <3>2, <3>3
  <2>5. CASE EnsureRegister(p)
    <3>. DEFINE l == call[p].link
    <3>1. /\ l \in Link /\ KeyOf(p) \in Key /\ sup[l] = "made" /\ home[l] = KeyOf(p)
          /\ conns[KeyOf(p)] = None
      BY <2>5 DEF EnsureRegister, Structure, TypeOK, Holding, CallInv, KeyOf, Key
    <3>2. RotatorsStay
      BY <2>5 DEF EnsureRegister, Return, Rotating, KeyOf, Structure, TypeOK
    <3>3. outdated' \subseteq outdated
      BY <2>5 DEF EnsureRegister
    <3>4. CASE KeyOf(p) \in member
      <4>1. /\ conns' = [conns EXCEPT ![KeyOf(p)] = l] /\ home' = home
            /\ sup' = [sup EXCEPT ![l] = "start"]
        BY <2>5, <3>4 DEF EnsureRegister
      <4>2. \A m \in outdated : sup'[m] = "made" => sup[m] = "made"
        BY <1>0, <3>1, <4>1 DEF Structure, TypeOK
      <4>3. \A m \in outdated : conns'[home[m]] = m => sup[m] = "made" \/ conns[home[m]] = m
        BY <1>0, <3>1, <4>1 DEF Structure, TypeOK
      <4>. QED
        BY <1>1, <3>2, <3>3, <4>1, <4>2, <4>3
    <3>5. CASE KeyOf(p) \notin member
      <4>1. /\ conns' = conns /\ home' = [home EXCEPT ![l] = None]
            /\ sup' = [sup EXCEPT ![l] = "unused"] /\ outdated' = outdated \ {l}
        BY <2>5, <3>5 DEF EnsureRegister
      <4>2. \A m \in outdated' : m # l /\ m \in Link /\ sup'[m] = sup[m] /\ home'[m] = home[m]
        BY <1>0, <3>1, <4>1 DEF Structure, TypeOK
      <4>. HIDE DEF l
      <4>. QED
        BY <1>1, <3>2, <3>3, <4>1, <4>2
    <3>. QED
      BY <3>4, <3>5
  <2>. USE DEF Structure, TypeOK, Call, Goto, Return, Unused, Rotating, KeyOf, storeVars, linkVars,
               bookVars
  <2>6. ASSUME NEW u \in User, JoinIndex(p, u) PROVE Quiet
    BY <2>6 DEF JoinIndex, Begin
  <2>7. ASSUME NEW n \in Net, JoinCreate(p, n) PROVE Quiet
    BY <2>7 DEF JoinCreate
  <2>8. ASSUME NEW new \in BOOLEAN, JoinGetMember(p, new) PROVE Quiet
    BY <2>8 DEF JoinGetMember
  <2>9. ASSUME JoinPutMember(p) PROVE Quiet
    BY <2>9 DEF JoinPutMember
  <2>10. ASSUME RestartCancel(p) PROVE Quiet
    BY <2>10 DEF RestartCancel
  <2>11. ASSUME RestartWait(p) PROVE Quiet
    BY <2>11 DEF RestartWait
  <2>12. ASSUME EnsureNothing(p) PROVE Quiet
    BY <2>12 DEF EnsureNothing, Ensuring
  <2>13. ASSUME NEW changed \in BOOLEAN, NEW rot \in BOOLEAN, JoinGet(p, changed, rot) PROVE Quiet
    BY <2>13 DEF JoinGet
  <2>14. ASSUME JoinGetNone(p) PROVE Quiet
    BY <2>14 DEF JoinGetNone
  <2>15. ASSUME NEW n \in Net, NEW u \in User, LeaveCheck(p, n, u) PROVE Quiet
    BY <2>15 DEF LeaveCheck, Begin
  <2>16. ASSUME LeaveDelete(p) PROVE Quiet
    BY <2>16 DEF LeaveDelete
  <2>17. ASSUME LeaveDropNone(p) PROVE Quiet
    BY <2>17 DEF LeaveDropNone
  <2>18. ASSUME LeaveDropWait(p) PROVE Quiet
    BY <2>18 DEF LeaveDropWait
  <2>19. ASSUME LeaveCount(p) PROVE Quiet
    BY <2>19 DEF LeaveCount
  <2>20. ASSUME LeaveCascade(p) PROVE Quiet
    BY <2>20 DEF LeaveCascade
  <2>. HIDE DEF Structure, TypeOK, Call, Goto, Return, Unused, Rotating, KeyOf, storeVars, linkVars,
                bookVars, Quiet
  <2>. QED
    BY <1>2, <2>1, <2>2, <2>3, <2>4, <2>5, <2>0, <2>6, <2>7, <2>8, <2>9, <2>10,
       <2>11, <2>12, <2>13, <2>14, <2>15, <2>16, <2>17, <2>18, <2>19, <2>20
    DEF Join, Leave
<1>3. ASSUME NEW l \in Link, Supervise(l) PROVE OutdatedInv'
  <2>1. conns' = conns /\ pc' = pc /\ call' = call
    BY <1>3 DEF Supervise, SupConnect, SupDialFails, SupConnected, SupNick, SupNickWrite,
                SupLinkEnds, SupCheck, SupRetry, SupStop, SupDone, Move, storeVars, callVars
  <2>2. \/ home' = home /\ outdated' = outdated
        \/ home' = [home EXCEPT ![l] = None] /\ outdated' = outdated \ {l}
    BY <1>3 DEF Supervise, SupConnect, SupDialFails, SupConnected, SupNick, SupNickWrite,
                SupLinkEnds, SupCheck, SupRetry, SupStop, SupDone, Move
  <2>3. \E step \in SupSteps \cup {"done"} : sup' = [sup EXCEPT ![l] = step]
    BY <1>3 DEF Supervise, SupConnect, SupDialFails, SupConnected, SupNick, SupNickWrite,
                SupLinkEnds, SupCheck, SupRetry, SupStop, SupDone, Move, SupSteps
  <2>4. \A m \in Link : sup'[m] = "made" => sup[m] = "made"
    BY <2>3 DEF SupSteps, Structure, TypeOK
  <2>5. RotatorsStay
    BY <2>1 DEF Rotating, KeyOf
  <2>6. \A m \in outdated' : m \in outdated /\ home'[m] = home[m]
    BY <1>0, <2>2 DEF Structure, TypeOK
  <2>. QED
    BY <1>0, <1>1, <2>1, <2>4, <2>5, <2>6
<1>4. CASE Crash
  BY <1>4 DEF Crash, OutdatedInv
<1>5. CASE UNCHANGED vars
  BY <1>5 DEF OutdatedInv, Rotating, KeyOf, vars, linkVars, callVars
<1>. QED
  BY <1>2, <1>3, <1>4, <1>5 DEF Next

\* For any users, networks, conns and callers a user who rotated the credentials
\* is on a link with the old ones only until the rotating Join restarts it.
THEOREM RotationsReplaceLinks == Spec => []RotationReplacesLink
<1>1. Init => OutdatedInv
  BY DEF Init, OutdatedInv
<1>2. Structure /\ OutdatedInv => RotationReplacesLink
  BY DEF Structure, ConnInv, OutdatedInv, RotationReplacesLink, Rotating
<1>. QED
  BY <1>1, <1>2, StructureHolds, OutdatedStep, PTL DEF Spec

-----------------------------------------------------------------------------
(* Empty networks *)

\* A call that is about to fill network n or to look whether it is empty.
Busy(p, n) ==
    call[p].net = n /\ pc[p] \in {"member", "put", "drop", "dropWait", "count", "cascade"}

Empty(n) == \A u \in User : <<n, u>> \notin member

\* NoEmptyNetwork is inductive only with the steps at which the call can be: one
\* further on in Join would leave the network empty.
EmptyInv ==
    \A n \in nets : Empty(n) /\ n \notin torn => \E p \in Caller : Busy(p, n)

\* No step forgets an empty network.
LEMMA EmptyStep == Structure /\ EmptyInv /\ [Next]_vars => EmptyInv'
<1>. SUFFICES ASSUME Structure, EmptyInv, [Next]_vars PROVE EmptyInv'
  OBVIOUS
<1>. DEFINE BusyStay == \A q \in Caller, n \in Net : Busy(q, n) => Busy(q, n)'
<1>1. ASSUME nets' \subseteq nets, member \subseteq member', torn' = torn, BusyStay PROVE EmptyInv'
  BY <1>1 DEF EmptyInv, Empty, Structure, TypeOK
<1>2. ASSUME NEW p \in Caller, Join(p) \/ Leave(p) PROVE EmptyInv'
  <2>. DEFINE Quiet == nets' = nets /\ member' = member /\ torn' = torn /\ BusyStay
              Others == \A q \in Caller, n \in Net : q # p /\ Busy(q, n) => Busy(q, n)'
  <2>0. ASSUME Quiet PROVE EmptyInv'
    BY <1>1, <2>0
  <2>a. ASSUME NEW n \in Net, nets' \subseteq nets \cup {n}, torn' = torn, Others, Busy(p, n)',
               \A m \in Net : m # n => ~Busy(p, m),
               \A m \in Net : Empty(m)' => m = n \/ Empty(m)
        PROVE  EmptyInv'
    <3>. SUFFICES ASSUME NEW m \in nets', Empty(m)', m \notin torn, m # n
                  PROVE  \E q \in Caller : Busy(q, m)'
      BY <2>a DEF EmptyInv
    <3>1. m \in nets /\ m \in Net /\ Empty(m)
      BY <2>a DEF Structure, TypeOK
    <3>2. PICK q \in Caller : Busy(q, m)
      BY <3>1 DEF EmptyInv
    <3>. QED
      BY <2>a, <3>1, <3>2
  <2>b. ASSUME nets' \subseteq nets, torn' = torn, Others,
               \A m \in nets' : Busy(p, m) => ~Empty(m)',
               \A m \in nets' : Empty(m)' => Empty(m)
        PROVE  EmptyInv'
    <3>. SUFFICES ASSUME NEW m \in nets', Empty(m)', m \notin torn
                  PROVE  \E q \in Caller : Busy(q, m)'
      BY <2>b DEF EmptyInv
    <3>1. m \in nets /\ m \in Net /\ Empty(m)
      BY <2>b DEF Structure, TypeOK
    <3>2. PICK q \in Caller : Busy(q, m)
      BY <3>1 DEF EmptyInv
    <3>. QED
      BY <2>b, <3>1, <3>2
  <2>. USE DEF Structure, TypeOK, Call, Goto, Return, Unused, Busy, Empty, UpsertNetwork, KeyOf,
               storeVars, bookVars
  <2>1. ASSUME NEW n \in Net, JoinCreate(p, n) PROVE EmptyInv'
    <3>1. nets' \subseteq nets \cup {n} /\ torn' = torn /\ member' = member /\ Others
      BY <2>1 DEF JoinCreate
    <3>2. Busy(p, n)' /\ \A m \in Net : ~Busy(p, m)
      BY <2>1 DEF JoinCreate
    <3>. HIDE DEF Structure, TypeOK, Busy
    <3>. QED
      BY <2>a, <3>1, <3>2
  <2>2. CASE JoinUpdate(p)
    <3>0. call[p].net \in Net
      BY <2>2 DEF JoinUpdate
    <3>1. nets' \subseteq nets \cup {call[p].net} /\ torn' = torn /\ member' = member /\ Others
      BY <2>2 DEF JoinUpdate
    <3>2. call'[p] = call[p] /\ pc'[p] = "member" /\ \A m \in Net : ~Busy(p, m)
      BY <2>2 DEF JoinUpdate
    <3>3. \A n \in Net : n = call[p].net => Busy(p, n)'
      BY <3>2
    <3>. HIDE DEF Structure, TypeOK, Busy
    <3>. QED
      BY <2>a, <3>0, <3>1, <3>2, <3>3
  <2>3. ASSUME NEW new \in BOOLEAN, JoinGetMember(p, new) PROVE EmptyInv'
    <3>1. nets' = nets /\ torn' = torn /\ member' = member /\ call' = call /\ Others
      BY <2>3 DEF JoinGetMember
    <3>2. CASE new
      <4>1. BusyStay
        BY <2>3, <3>1, <3>2 DEF JoinGetMember
      <4>. QED
        BY <1>1, <3>1, <4>1
    <3>3. CASE ~new
      <4>1. call[p].user \in User /\ <<call[p].net, call[p].user>> \in member
        BY <2>3, <3>3 DEF JoinGetMember
      <4>. QED
        BY <2>b, <3>1, <4>1
    <3>. QED
      BY <3>2, <3>3
  <2>4. CASE JoinPutMember(p)
    <3>1. /\ nets' = nets /\ torn' = torn /\ Others
          /\ call[p].user \in User /\ member' = member \cup {<<call[p].net, call[p].user>>}
      BY <2>4 DEF JoinPutMember
    <3>. QED
      BY <2>b, <3>1
  <2>5. CASE LeaveDelete(p)
    <3>0. call[p].net \in Net /\ call[p].user \in User
      BY <2>5 DEF LeaveDelete
    <3>1. /\ nets' = nets /\ torn' = torn /\ Others
          /\ member' = member \ {<<call[p].net, call[p].user>>}
      BY <2>5 DEF LeaveDelete
    <3>2. call'[p] = call[p] /\ pc'[p] = "drop" /\ \A m \in Net : ~Busy(p, m)
      BY <2>5 DEF LeaveDelete
    <3>3. \A n \in Net : n = call[p].net => Busy(p, n)'
      BY <3>2
    <3>4. \A m \in Net : Empty(m)' => m = call[p].net \/ Empty(m)
      BY <3>0, <3>1
    <3>. HIDE DEF Structure, TypeOK, Busy, Empty
    <3>. QED
      BY <2>a, <3>0, <3>1, <3>2, <3>3, <3>4
  <2>6. CASE LeaveCount(p) \/ LeaveCascade(p)
    <3>1. CASE LeaveCascade(p)
      <4>1. /\ nets' = nets \ {call[p].net} /\ torn' = torn /\ Others
            /\ member' = member \ ({call[p].net} \X User)
        BY <3>1 DEF LeaveCascade
      <4>2. \A m \in nets' : m \in Net /\ m # call[p].net /\ (Empty(m)' => Empty(m))
        BY <4>1
      <4>. QED
        BY <2>b, <4>1, <4>2
    <3>2. CASE LeaveCount(p) /\ Empty(call[p].net)
      <4>1. nets' = nets /\ torn' = torn /\ member' = member /\ BusyStay
        BY <3>2 DEF LeaveCount
      <4>. QED
        BY <1>1, <4>1
    <3>3. CASE LeaveCount(p) /\ ~Empty(call[p].net)
      <4>1. nets' = nets /\ torn' = torn /\ member' = member /\ Others
        BY <3>3 DEF LeaveCount
      <4>. QED
        BY <2>b, <3>3, <4>1
    <3>. QED
      BY <2>6, <3>1, <3>2, <3>3
  <2>7. ASSUME NEW u \in User, JoinIndex(p, u) PROVE Quiet
    BY <2>7 DEF JoinIndex, Begin
  <2>8. ASSUME RestartTake(p) PROVE Quiet
    BY <2>8 DEF RestartTake
  <2>9. ASSUME RestartNone(p) PROVE Quiet
    BY <2>9 DEF RestartNone
  <2>10. ASSUME RestartCancel(p) PROVE Quiet
    BY <2>10 DEF RestartCancel
  <2>11. ASSUME RestartWait(p) PROVE Quiet
    BY <2>11 DEF RestartWait
  <2>12. ASSUME EnsureNothing(p) PROVE Quiet
    BY <2>12 DEF EnsureNothing, Ensuring
  <2>13. ASSUME NEW l \in Link, EnsureConfig(p, l) PROVE Quiet
    BY <2>13 DEF EnsureConfig, Ensuring
  <2>14. ASSUME EnsureRegister(p) PROVE Quiet
    BY <2>14 DEF EnsureRegister
  <2>15. ASSUME NEW changed \in BOOLEAN, NEW rot \in BOOLEAN, JoinGet(p, changed, rot) PROVE Quiet
    BY <2>15 DEF JoinGet
  <2>16. ASSUME JoinGetNone(p) PROVE Quiet
    BY <2>16 DEF JoinGetNone
  <2>17. ASSUME NEW n \in Net, NEW u \in User, LeaveCheck(p, n, u) PROVE Quiet
    BY <2>17 DEF LeaveCheck, Begin
  <2>18. ASSUME LeaveDrop(p) PROVE Quiet
    BY <2>18 DEF LeaveDrop
  <2>19. ASSUME LeaveDropNone(p) PROVE Quiet
    BY <2>19 DEF LeaveDropNone
  <2>20. ASSUME LeaveDropWait(p) PROVE Quiet
    BY <2>20 DEF LeaveDropWait
  <2>. HIDE DEF Structure, TypeOK, Call, Goto, Return, Unused, Busy, Empty, UpsertNetwork, KeyOf,
                storeVars, bookVars, Quiet, Others
  <2>. QED
    BY <1>2, <2>0, <2>1, <2>2, <2>3, <2>4, <2>5, <2>6, <2>7, <2>8, <2>9, <2>10,
       <2>11, <2>12, <2>13, <2>14, <2>15, <2>16, <2>17, <2>18, <2>19, <2>20
    DEF Join, Leave
<1>3. ASSUME NEW l \in Link, Supervise(l) PROVE EmptyInv'
  <2>1. /\ nets' = nets /\ member \subseteq member' /\ torn' = torn
        /\ pc' = pc /\ call' = call
    BY <1>3 DEF Supervise, SupConnect, SupDialFails, SupConnected, SupNick, SupNickWrite,
                SupLinkEnds, SupCheck, SupRetry, SupStop, SupDone, Move, storeVars, callVars,
                bookVars
  <2>. QED
    BY <1>1, <2>1 DEF Busy
<1>4. CASE Crash
  BY <1>4 DEF Crash, EmptyInv, Empty, storeVars
<1>5. CASE UNCHANGED vars
  BY <1>1, <1>5 DEF Busy, vars, storeVars, callVars, bookVars
<1>. QED
  BY <1>2, <1>3, <1>4, <1>5 DEF Next

\* For any users, networks, conns and callers a stored network without members is
\* one a call is still busy with, or one a crash cut a call off from.
THEOREM NoEmptyNetworks == Spec => []NoEmptyNetwork
<1>1. Init => EmptyInv
  BY DEF Init, EmptyInv
<1>2. EmptyInv => NoEmptyNetwork
  BY DEF EmptyInv, NoEmptyNetwork, Empty, Busy
<1>. QED
  BY <1>1, <1>2, StructureHolds, EmptyStep, PTL DEF Spec

-----------------------------------------------------------------------------
(* Types *)

IsJob(j) ==
  /\ j = [todo |-> j.todo, list |-> j.list, rows |-> j.rows]
  /\ j.todo \subseteq Lists /\ j.list \in Lists \cup {Nothing}

OccupancyTypes ==
  /\ roster = [c \in Chans |-> roster[c]]
  /\ subs = [s \in Sessions |-> subs[s]] /\ \A s \in Sessions : subs[s] \subseteq Lists
  /\ shown = [s \in Sessions |-> [l \in Lists |-> shown[s][l]]]
  /\ asking = [s \in Sessions |-> asking[s]] /\ \A s \in Sessions : IsJob(asking[s])
  /\ flush = [f \in Flushers |-> flush[f]] /\ \A f \in Flushers : IsJob(flush[f])

\* The marks are none of the lists.
LEMMA MarksApart == Nothing \notin Lists /\ Everyone \in Lists /\ Everyone \notin Chans /\ All \notin Lists
BY ChanAssumption DEF Nothing, Everyone, All, Lists

\* What MemberListPayload says depends on the rosters only.
LEMMA PayloadSame ==
  ASSUME NEW l, roster' = roster
  PROVE  MemberListPayload(l)' = MemberListPayload(l)
BY DEF MemberListPayload, ChannelMembersDetailed, ircOccupants, ModeIn

\* ... and for a channel on its own roster.
LEMMA PayloadElsewhere ==
  ASSUME NEW l \in Chans, roster'[l] = roster[l]
  PROVE  MemberListPayload(l)' = MemberListPayload(l)
<1>1. l # Everyone BY MarksApart
<1>2. ChannelMembersDetailed(l)' = ChannelMembersDetailed(l) BY DEF ChannelMembersDetailed
<1> QED BY <1>1, <1>2 DEF MemberListPayload, ModeIn

-----------------------------------------------------------------------------
(* Every step keeps the types and the jobs *)

\* The next list of a job and its rows make a job.
LEMMA BuildJob ==
  ASSUME NEW todo \in SUBSET Lists, todo # {}
  PROVE  /\ IsJob(Build(todo))
         /\ \A l \in todo : InHand(Build(todo), l) \/ ~up
         /\ Build(todo).list # Nothing \/ ~up
<1>1. PICK x : x = CHOOSE y \in todo : TRUE OBVIOUS
<1>2. x \in todo /\ x \in Lists BY <1>1
<1>3. Build(todo) = [todo |-> todo \ {x}, list |-> IF up THEN x ELSE Nothing,
                     rows |-> IF up THEN MemberListPayload(x) ELSE {}]
  BY <1>1 DEF Build
<1> HIDE DEF Build
<1>4. Build(todo).todo = todo \ {x} /\ (up => Build(todo).list = x /\ Build(todo).rows = MemberListPayload(x))
      /\ (~up => Build(todo).list = Nothing)
  BY <1>3
<1>5. IsJob(Build(todo)) BY <1>2, <1>3, <1>4 DEF IsJob
<1>6. \A l \in todo : InHand(Build(todo), l) \/ ~up BY <1>4 DEF InHand
<1> QED BY <1>2, <1>4, <1>5, <1>6, MarksApart

\* A resting job does nothing.
LEMMA RestingJob == IsJob(Resting) /\ Resting.todo = {} /\ Resting.list = Nothing
BY DEF IsJob, Resting

\* A job that dispatched keeps the lists it still has to do.
LEMMA SentJob ==
  ASSUME NEW j, IsJob(j)
  PROVE  /\ IsJob([Resting EXCEPT !.todo = j.todo])
         /\ [Resting EXCEPT !.todo = j.todo].todo = j.todo
BY DEF IsJob, Resting

\* What Dispatch leaves in the clients.
LEMMA DispatchShows ==
  ASSUME OccupancyTypes, NEW S \in SUBSET Sessions, NEW l \in Lists, NEW rows, Dispatch(S, l, rows)
  PROVE  /\ shown' = [s \in Sessions |-> [k \in Lists |-> shown'[s][k]]]
         /\ \A s \in Sessions, k \in Lists :
              shown'[s][k] = IF s \in S /\ k = l THEN rows ELSE shown[s][k]
<1>1. ASSUME NEW s \in Sessions
      PROVE  /\ shown'[s] = [k \in Lists |-> shown'[s][k]]
             /\ \A k \in Lists : shown'[s][k] = IF s \in S /\ k = l THEN rows ELSE shown[s][k]
  <2>1. shown[s] = [k \in Lists |-> shown[s][k]] BY DEF OccupancyTypes
  <2>2. shown'[s] = IF s \in S THEN [shown[s] EXCEPT ![l] = rows] ELSE shown[s] BY DEF Dispatch
  <2> QED BY <2>1, <2>2
<1>2. shown' = [s \in Sessions |-> shown'[s]] BY DEF Dispatch
<1> QED BY <1>1, <1>2

\* A job of one flusher or one session changes, the others stay.
LEMMA JobsKeep ==
  ASSUME NEW D, NEW jobs, jobs = [d \in D |-> jobs[d]], \A d \in D : IsJob(jobs[d]),
         NEW e \in D, NEW j, IsJob(j), NEW new, new = [jobs EXCEPT ![e] = j]
  PROVE  /\ new = [d \in D |-> new[d]] /\ \A d \in D : IsJob(new[d])
         /\ new[e] = j /\ \A d \in D : d # e => new[d] = jobs[d]
<1>1. new[e] = j /\ \A d \in D : d # e => new[d] = jobs[d] OBVIOUS
<1>2. \A d \in D : IsJob(new[d]) BY <1>1
<1>3. new = [d \in D |-> new[d]] OBVIOUS
<1> QED BY <1>1, <1>2, <1>3

-----------------------------------------------------------------------------
(* Every refresh stays due *)

\* RefreshDue, copy by copy.
LEMMA DueFact ==
  RefreshDue <=> \A s \in Sessions, l \in Lists :
    up /\ l \in subs[s] /\ <<s, l>> \notin overtaken /\ shown[s][l] # MemberListPayload(l) => Due(s, l)
<1>1. \A s \in Sessions, l \in Lists :
        <<s, l>> \in Held <=> up /\ l \in subs[s] /\ <<s, l>> \notin overtaken
  BY DEF Held
<1>2. ASSUME NEW h \in Held
      PROVE  h[1] \in Sessions /\ h[2] \in Lists /\ h = <<h[1], h[2]>>
  BY DEF Held
<1>3. \A s \in Sessions, l \in Lists : <<s, l>>[1] = s /\ <<s, l>>[2] = l OBVIOUS
<1> HIDE DEF Held, Due
<1> QED BY <1>1, <1>2, <1>3 DEF RefreshDue

\* The same of the state after a step.
LEMMA DueAfter ==
  ASSUME \A s \in Sessions, l \in Lists :
           up' /\ l \in subs'[s] /\ <<s, l>> \notin overtaken' /\ shown'[s][l] # MemberListPayload(l)'
             => Due(s, l)'
  PROVE  RefreshDue'
<1>1. \A s \in Sessions, l \in Lists :
        <<s, l>> \in Held' <=> up' /\ l \in subs'[s] /\ <<s, l>> \notin overtaken'
  BY DEF Held
<1>2. ASSUME NEW h \in Held'
      PROVE  h[1] \in Sessions /\ h[2] \in Lists /\ h = <<h[1], h[2]>>
  BY DEF Held
<1>3. ASSUME NEW h \in Held' PROVE shown'[h[1]][h[2]] # MemberListPayload(h[2])' => Due(h[1], h[2])'
  <2>1. PICK s \in Sessions, l \in Lists : h[1] = s /\ h[2] = l /\ h = <<s, l>> BY <1>2
  <2>2. up' /\ l \in subs'[s] /\ <<s, l>> \notin overtaken' BY <1>1, <2>1
  <2>3. shown'[s][l] # MemberListPayload(l)' => Due(s, l)' BY <2>2
  <2> QED BY <2>1, <2>3
<1> QED BY <1>3 DEF RefreshDue

\* A change of the rosters that the event being handled covers.
LEMMA EventKeeps ==
  ASSUME OccupancyTypes, RefreshDue, NEW what \in Chans \cup {All}, Event(what),
         roster' = [c \in Chans |-> roster'[c]],
         \A c \in Chans : ~Covers({what}, c) => roster'[c] = roster[c]
  PROVE  OccupancyTypes' /\ RefreshDue'
<1>1. /\ up /\ notifying = Nothing /\ notifying' = what
      /\ UNCHANGED <<up, who, occ, timer, flush, subs, asking, shown, overtaken>>
  BY DEF Event
<1>2. OccupancyTypes' BY <1>1 DEF OccupancyTypes
<1>3. what # Nothing BY ChanAssumption DEF Nothing, All
<1>4. ASSUME NEW s \in Sessions, NEW l \in Lists,
             up' /\ l \in subs'[s] /\ <<s, l>> \notin overtaken' /\ shown'[s][l] # MemberListPayload(l)'
      PROVE  Due(s, l)'
  <2>1. CASE Covers({what}, l) BY <1>1, <1>3, <2>1 DEF Due, Covers
  <2>2. CASE ~Covers({what}, l)
    <3>1. l \in Chans BY <2>2 DEF Covers, Lists
    <3>2. MemberListPayload(l)' = MemberListPayload(l) BY <2>2, <3>1, PayloadElsewhere
    <3>3. Due(s, l) BY <1>1, <1>4, <3>2, DueFact
    <3> HIDE DEF MemberListPayload
    <3> QED BY <1>1, <3>2, <3>3 DEF Due, InHand, Covers
  <2> QED BY <2>1, <2>2
<1> QED BY <1>2, <1>4, DueAfter

\* JOIN, PART, KICK, MODE and QUIT.
LEMMA RosterKeeps ==
  ASSUME OccupancyTypes, RefreshDue, NEW n \in Nicks, NEW c \in Chans,
         HandleJoin(n, c) \/ HandlePart(n, c) \/ HandleMode(n, c) \/ HandleQuit(n)
  PROVE  OccupancyTypes' /\ RefreshDue'
<1>1. roster = [d \in Chans |-> roster[d]] BY DEF OccupancyTypes
<1>2. ASSUME NEW v, roster' = [roster EXCEPT ![c] = v], Event(c) PROVE OccupancyTypes' /\ RefreshDue'
  <2>1. roster' = [d \in Chans |-> roster'[d]] BY <1>1, <1>2
  <2>2. \A d \in Chans : ~Covers({c}, d) => roster'[d] = roster[d] BY <1>1, <1>2 DEF Covers
  <2> QED BY <1>2, <2>1, <2>2, EventKeeps
<1>3. CASE HandleJoin(n, c) BY <1>2, <1>3 DEF HandleJoin
<1>4. CASE HandlePart(n, c) BY <1>2, <1>4 DEF HandlePart
<1>5. CASE HandleMode(n, c)
  <2>1. PICK v : v = [roster[c] EXCEPT ![n] = 1 - @] OBVIOUS
  <2>2. roster' = [roster EXCEPT ![c] = v] BY <1>5, <2>1 DEF HandleMode
  <2> QED BY <1>2, <1>5, <2>2 DEF HandleMode
<1>6. CASE HandleQuit(n)
  <2>1. roster' = [d \in Chans |-> roster'[d]] BY <1>6 DEF HandleQuit
  <2>2. \A d \in Chans : Covers({All}, d) BY DEF Covers
  <2> QED BY <1>6, <2>1, <2>2, EventKeeps DEF HandleQuit
<1> QED BY <1>3, <1>4, <1>5, <1>6

\* NAMES: the WHO sweep of the channel is still to end.
LEMMA NamesKeep ==
  ASSUME OccupancyTypes, RefreshDue, NEW n \in Nicks, NEW c \in Chans, Names(c, n)
  PROVE  OccupancyTypes' /\ RefreshDue'
<1>1. PICK v : roster' = [roster EXCEPT ![c] = v] BY DEF Names
<1>2. c \in who /\ UNCHANGED <<up, notifying, who, occ, timer, flush, subs, asking, shown, overtaken>>
  BY DEF Names
<1>3. /\ roster' = [d \in Chans |-> roster'[d]]
      /\ \A d \in Chans : d # c => roster'[d] = roster[d]
  BY <1>1 DEF OccupancyTypes
<1>4. OccupancyTypes' BY <1>2, <1>3 DEF OccupancyTypes
<1>5. ASSUME NEW s \in Sessions, NEW l \in Lists,
             up' /\ l \in subs'[s] /\ <<s, l>> \notin overtaken' /\ shown'[s][l] # MemberListPayload(l)'
      PROVE  Due(s, l)'
  <2>1. CASE l = c \/ l = Everyone BY <1>2, <2>1 DEF Due
  <2>2. CASE ~(l = c \/ l = Everyone)
    <3>1. l \in Chans BY <2>2 DEF Lists
    <3>2. MemberListPayload(l)' = MemberListPayload(l) BY <1>3, <2>2, <3>1, PayloadElsewhere
    <3>3. Due(s, l) BY <1>2, <1>5, <3>2, DueFact
    <3> QED BY <1>2, <3>2, <3>3 DEF Due, InHand, Covers
  <2> QED BY <2>1, <2>2
<1> QED BY <1>4, <1>5, DueAfter

\* RefreshOccupancy passes the event on to the entry, the end of a WHO on to
\* the event being handled, and flushOccupancy the entry on to a refresh.
LEMMA PassedOn ==
  ASSUME OccupancyTypes, RefreshDue,
         RefreshOccupancy \/ (\E c \in Chans : HandleEndOfWho(c)) \/ (\E f \in Flushers : FlushOccupancy(f))
  PROVE  OccupancyTypes' /\ RefreshDue'
<1>1. UNCHANGED <<roster, up, subs, asking, shown, overtaken>>
  BY DEF RefreshOccupancy, HandleEndOfWho, FlushOccupancy
<1>2. \A l : MemberListPayload(l)' = MemberListPayload(l) BY <1>1, PayloadSame
<1>3. ASSUME \A s \in Sessions, l \in Lists : up /\ l \in subs[s] /\ Due(s, l) => Due(s, l)'
      PROVE  RefreshDue'
  BY <1>1, <1>2, <1>3, DueFact, DueAfter
<1>4. CASE RefreshOccupancy
  <2>1. /\ notifying # Nothing /\ occ' = Coalesce(occ, notifying) /\ notifying' = Nothing
        /\ UNCHANGED <<who, flush>>
    BY <1>4 DEF RefreshOccupancy
  <2>2. OccupancyTypes' BY <1>1, <2>1 DEF OccupancyTypes
  <2>3. \A l \in Lists : Covers(occ, l) \/ Covers({notifying}, l) => Covers(occ', l) /\ occ' # {}
    BY <2>1 DEF Covers, Coalesce
  <2>4. ASSUME NEW s \in Sessions, NEW l \in Lists, Due(s, l) PROVE Due(s, l)'
    <3>1. MemberListPayload(l)' = MemberListPayload(l) BY <1>2
    <3> QED BY <1>1, <2>1, <2>3, <2>4, <3>1 DEF Due, InHand
  <2> QED BY <1>3, <2>2, <2>4
<1>5. ASSUME NEW c \in Chans, HandleEndOfWho(c) PROVE OccupancyTypes' /\ RefreshDue'
  <2>1. /\ notifying = Nothing /\ notifying' = c /\ who' = who \ {c} /\ UNCHANGED <<occ, flush>>
    BY <1>5 DEF HandleEndOfWho
  <2>2. OccupancyTypes' BY <1>1, <2>1 DEF OccupancyTypes
  <2>3. c # Nothing /\ Covers({c}, c) /\ Covers({c}, Everyone) BY MarksApart DEF Covers, Lists
  <2>4. ASSUME NEW s \in Sessions, NEW l \in Lists, Due(s, l) PROVE Due(s, l)'
    <3>1. MemberListPayload(l)' = MemberListPayload(l) BY <1>2
    <3> QED BY <1>1, <2>1, <2>3, <2>4, <3>1 DEF Due, InHand
  <2> QED BY <1>3, <2>2, <2>4
<1>6. ASSUME NEW f \in Flushers, FlushOccupancy(f) PROVE OccupancyTypes' /\ RefreshDue'
  <2> DEFINE T == {l \in Watched : Covers(occ, l)}
  <2>1. /\ flush[f] = Resting /\ flush' = [flush EXCEPT ![f] = [Resting EXCEPT !.todo = T]]
        /\ UNCHANGED <<notifying, who>>
    BY <1>6 DEF FlushOccupancy
  <2>2. T \subseteq Lists
    <3>1. \A s \in Sessions : subs[s] \subseteq Lists BY DEF OccupancyTypes
    <3> QED BY <3>1 DEF Watched
  <2>3. \A s \in Sessions : \A l \in subs[s] : Covers(occ, l) => l \in T BY DEF Watched
  <2> HIDE DEF T
  <2>4. IsJob([Resting EXCEPT !.todo = T]) /\ [Resting EXCEPT !.todo = T].todo = T
    BY <2>2 DEF IsJob, Resting
  <2>5. /\ flush' = [d \in Flushers |-> flush'[d]] /\ \A d \in Flushers : IsJob(flush'[d])
        /\ flush'[f].todo = T /\ \A d \in Flushers : d # f => flush'[d] = flush[d]
    BY <2>1, <2>4, JobsKeep DEF OccupancyTypes
  <2>6. OccupancyTypes' BY <1>1, <2>5 DEF OccupancyTypes, IsJob
  <2>7. \A l \in Lists : ~InHand(flush[f], l) BY <2>1, RestingJob, MarksApart DEF InHand
  <2>8. ASSUME NEW s \in Sessions, NEW l \in Lists, l \in subs[s], Due(s, l) PROVE Due(s, l)'
    <3>1. MemberListPayload(l)' = MemberListPayload(l) BY <1>2
    <3>2. CASE occ # {} /\ Covers(occ, l)
      <4>1. l \in flush'[f].todo BY <2>3, <2>5, <2>8, <3>2
      <4> QED BY <4>1 DEF Due, InHand
    <3>3. CASE \E d \in Flushers : InHand(flush[d], l)
      <4>1. PICK d \in Flushers : InHand(flush[d], l) BY <3>3
      <4>2. flush'[d] = flush[d] BY <2>5, <2>7, <4>1
      <4> QED BY <3>1, <4>1, <4>2 DEF Due, InHand
    <3> QED BY <1>1, <2>1, <2>8, <3>1, <3>2, <3>3 DEF Due, InHand
  <2> QED BY <1>3, <2>6, <2>8
<1> QED BY <1>4, <1>5, <1>6

\* flushOccupancy and the answer of op 14 build a list as it is now.
LEMMA BuildKeeps ==
  ASSUME OccupancyTypes, RefreshDue,
         (\E f \in Flushers : FlushBuild(f)) \/ (\E s \in Sessions : AnswerBuild(s))
  PROVE  OccupancyTypes' /\ RefreshDue'
<1>1. UNCHANGED <<roster, up, notifying, who, occ, subs, shown, overtaken>>
  BY DEF FlushBuild, AnswerBuild
<1>2. \A l : MemberListPayload(l)' = MemberListPayload(l) BY <1>1, PayloadSame
<1>3. ASSUME NEW j, IsJob(j), j.todo # {}, j.list = Nothing, NEW l \in Lists, InHand(j, l), up
      PROVE  InHand(Build(j.todo), l)
  <2>1. l \in j.todo BY <1>3, MarksApart DEF InHand
  <2> QED BY <1>3, <2>1, BuildJob DEF IsJob
<1>4. ASSUME NEW f \in Flushers, FlushBuild(f) PROVE OccupancyTypes' /\ RefreshDue'
  <2>1. PICK b : b = Build(flush[f].todo) OBVIOUS
  <2>2. /\ flush[f].list = Nothing /\ flush[f].todo # {} /\ IsJob(flush[f])
        /\ flush' = [flush EXCEPT ![f] = b] /\ asking' = asking
    BY <1>4, <2>1 DEF FlushBuild, OccupancyTypes
  <2>3. IsJob(b) BY <2>1, <2>2, BuildJob DEF IsJob
  <2>4. /\ flush' = [d \in Flushers |-> flush'[d]] /\ \A d \in Flushers : IsJob(flush'[d])
        /\ flush'[f] = b /\ \A d \in Flushers : d # f => flush'[d] = flush[d]
    BY <2>2, <2>3, JobsKeep DEF OccupancyTypes
  <2>5. OccupancyTypes' BY <1>1, <2>2, <2>4 DEF OccupancyTypes, IsJob
  <2>6. ASSUME NEW s \in Sessions, NEW l \in Lists, up, Due(s, l) PROVE Due(s, l)'
    <3>1. MemberListPayload(l)' = MemberListPayload(l) BY <1>2
    <3>2. CASE \E d \in Flushers : InHand(flush[d], l)
      <4>1. PICK d \in Flushers : InHand(flush[d], l) BY <3>2
      <4>2. InHand(flush'[d], l) BY <1>3, <2>1, <2>2, <2>4, <2>6, <4>1
      <4> QED BY <3>1, <4>2 DEF Due, InHand
    <3> QED BY <1>1, <2>2, <2>6, <3>1, <3>2 DEF Due, InHand
  <2> QED BY <1>1, <1>2, <2>5, <2>6, DueFact, DueAfter
<1>5. ASSUME NEW r \in Sessions, AnswerBuild(r) PROVE OccupancyTypes' /\ RefreshDue'
  <2>1. PICK b : b = Build(asking[r].todo) OBVIOUS
  <2>2. /\ asking[r].list = Nothing /\ asking[r].todo # {} /\ IsJob(asking[r])
        /\ asking' = [asking EXCEPT ![r] = b] /\ flush' = flush
    BY <1>5, <2>1 DEF AnswerBuild, OccupancyTypes
  <2>3. IsJob(b) BY <2>1, <2>2, BuildJob DEF IsJob
  <2>4. /\ asking' = [d \in Sessions |-> asking'[d]] /\ \A d \in Sessions : IsJob(asking'[d])
        /\ asking'[r] = b /\ \A d \in Sessions : d # r => asking'[d] = asking[d]
    BY <2>2, <2>3, JobsKeep DEF OccupancyTypes
  <2>5. OccupancyTypes' BY <1>1, <2>2, <2>4 DEF OccupancyTypes, IsJob
  <2>6. ASSUME NEW s \in Sessions, NEW l \in Lists, up, Due(s, l) PROVE Due(s, l)'
    <3>1. MemberListPayload(l)' = MemberListPayload(l) BY <1>2
    <3>2. CASE InHand(asking[s], l)
      <4>1. InHand(asking'[s], l) BY <1>3, <2>1, <2>2, <2>4, <2>6, <3>2
      <4> QED BY <3>1, <4>1 DEF Due, InHand
    <3> QED BY <1>1, <2>2, <2>6, <3>1, <3>2 DEF Due, InHand
  <2> QED BY <1>1, <1>2, <2>5, <2>6, DueFact, DueAfter
<1> QED BY <1>4, <1>5

\* A list is dispatched, to every session or to the one that asked: a copy
\* that was right and is wrong afterwards was overtaken.
LEMMA DispatchKeeps ==
  ASSUME OccupancyTypes, RefreshDue,
         (\E f \in Flushers : FlushDispatch(f)) \/ (\E s \in Sessions : AnswerDispatch(s))
  PROVE  OccupancyTypes' /\ RefreshDue'
<1>1. UNCHANGED <<roster, up, notifying, who, occ, subs>>
  BY DEF FlushDispatch, AnswerDispatch
<1>2. \A l : MemberListPayload(l)' = MemberListPayload(l) BY <1>1, PayloadSame
<1>3. ASSUME NEW S \in SUBSET Sessions, NEW k \in Lists, NEW rows, Dispatch(S, k, rows),
             NEW s \in Sessions, NEW l \in Lists,
             up' /\ l \in subs'[s] /\ <<s, l>> \notin overtaken' /\ shown'[s][l] # MemberListPayload(l)'
      PROVE  Due(s, l) /\ (s \in S /\ l = k => rows # MemberListPayload(l))
  <2>1. shown'[s][l] = IF s \in S /\ l = k THEN rows ELSE shown[s][l] BY <1>3, DispatchShows
  <2>2. overtaken' = IF rows = MemberListPayload(k) THEN overtaken \ {<<t, k>> : t \in S}
                     ELSE overtaken \cup Overtaken(S, k)
    BY <1>3 DEF Dispatch
  <2>3. CASE s \in S /\ l = k
    <3>1. rows # MemberListPayload(k) BY <1>2, <1>3, <2>1, <2>3
    <3>2. <<s, l>> \notin overtaken /\ <<s, l>> \notin Overtaken(S, k) BY <1>3, <2>2, <3>1
    <3>3. shown[s][l] # MemberListPayload(l) BY <2>3, <3>2 DEF Overtaken
    <3> QED BY <1>1, <1>3, <2>3, <3>1, <3>2, <3>3, DueFact
  <2>4. CASE ~(s \in S /\ l = k)
    <3>1. <<s, l>> \notin overtaken
      <4>1. <<s, l>> \notin {<<t, k>> : t \in S} BY <2>4
      <4> QED BY <1>3, <2>2, <4>1
    <3>2. shown[s][l] # MemberListPayload(l) BY <1>2, <1>3, <2>1, <2>4
    <3> QED BY <1>1, <1>3, <2>4, <3>1, <3>2, DueFact
  <2> QED BY <2>3, <2>4
<1>4. ASSUME NEW f \in Flushers, FlushDispatch(f) PROVE OccupancyTypes' /\ RefreshDue'
  <2>1. PICK k : k = flush[f].list OBVIOUS
  <2>2. PICK rows : rows = flush[f].rows OBVIOUS
  <2>3. PICK b : b = [Resting EXCEPT !.todo = flush[f].todo] OBVIOUS
  <2>4. /\ k \in Lists /\ Dispatch(Sessions, k, rows) /\ flush' = [flush EXCEPT ![f] = b]
        /\ asking' = asking
    BY <1>4, <2>1, <2>2, <2>3 DEF FlushDispatch, OccupancyTypes, IsJob
  <2>5. IsJob(b) /\ b.todo = flush[f].todo BY <2>3, SentJob DEF OccupancyTypes
  <2>6. /\ flush' = [d \in Flushers |-> flush'[d]] /\ \A d \in Flushers : IsJob(flush'[d])
        /\ flush'[f] = b /\ \A d \in Flushers : d # f => flush'[d] = flush[d]
    BY <2>4, <2>5, JobsKeep DEF OccupancyTypes
  <2>7. shown' = [s \in Sessions |-> [l \in Lists |-> shown'[s][l]]] BY <2>4, DispatchShows
  <2>8. OccupancyTypes' BY <1>1, <2>4, <2>6, <2>7 DEF OccupancyTypes, IsJob
  <2>9. ASSUME NEW s \in Sessions, NEW l \in Lists,
               up' /\ l \in subs'[s] /\ <<s, l>> \notin overtaken' /\ shown'[s][l] # MemberListPayload(l)'
        PROVE  Due(s, l)'
    <3>1. MemberListPayload(l)' = MemberListPayload(l) BY <1>2
    <3>2. Due(s, l) /\ (l = k => rows # MemberListPayload(l)) BY <1>3, <2>4, <2>9
    <3>3. CASE \E d \in Flushers : InHand(flush[d], l)
      <4>1. PICK d \in Flushers : InHand(flush[d], l) BY <3>3
      <4>2. InHand(flush'[d], l) BY <2>1, <2>2, <2>5, <2>6, <3>2, <4>1 DEF InHand
      <4> QED BY <3>1, <4>2 DEF Due, InHand
    <3> QED BY <1>1, <2>4, <3>1, <3>2, <3>3 DEF Due, InHand
  <2> QED BY <2>8, <2>9, DueAfter
<1>5. ASSUME NEW r \in Sessions, AnswerDispatch(r) PROVE OccupancyTypes' /\ RefreshDue'
  <2>1. PICK k : k = asking[r].list OBVIOUS
  <2>2. PICK rows : rows = asking[r].rows OBVIOUS
  <2>3. PICK b : b = [Resting EXCEPT !.todo = asking[r].todo] OBVIOUS
  <2>4. /\ k \in Lists /\ Dispatch({r}, k, rows) /\ asking' = [asking EXCEPT ![r] = b]
        /\ flush' = flush
    BY <1>5, <2>1, <2>2, <2>3 DEF AnswerDispatch, OccupancyTypes, IsJob
  <2>5. IsJob(b) /\ b.todo = asking[r].todo BY <2>3, SentJob DEF OccupancyTypes
  <2>6. /\ asking' = [d \in Sessions |-> asking'[d]] /\ \A d \in Sessions : IsJob(asking'[d])
        /\ asking'[r] = b /\ \A d \in Sessions : d # r => asking'[d] = asking[d]
    BY <2>4, <2>5, JobsKeep DEF OccupancyTypes
  <2>7. shown' = [s \in Sessions |-> [l \in Lists |-> shown'[s][l]]] BY <2>4, DispatchShows
  <2>8. OccupancyTypes' BY <1>1, <2>4, <2>6, <2>7 DEF OccupancyTypes, IsJob
  <2>9. ASSUME NEW s \in Sessions, NEW l \in Lists,
               up' /\ l \in subs'[s] /\ <<s, l>> \notin overtaken' /\ shown'[s][l] # MemberListPayload(l)'
        PROVE  Due(s, l)'
    <3>1. MemberListPayload(l)' = MemberListPayload(l) BY <1>2
    <3>2. Due(s, l) /\ (s = r /\ l = k => rows # MemberListPayload(l)) BY <1>3, <2>4, <2>9
    <3>3. CASE InHand(asking[s], l)
      <4>1. InHand(asking'[s], l) BY <2>1, <2>2, <2>5, <2>6, <3>2, <3>3 DEF InHand
      <4> QED BY <3>1, <4>1 DEF Due, InHand
    <3> QED BY <1>1, <2>4, <3>1, <3>2, <3>3 DEF Due, InHand
  <2> QED BY <2>8, <2>9, DueAfter
<1> QED BY <1>4, <1>5

\* Op 14 watches a list before it builds it, so a copy that has to follow from
\* now on is in hand.
LEMMA WatchKeeps ==
  ASSUME OccupancyTypes, RefreshDue, NEW r \in Sessions, NEW k \in Lists, WatchMemberList(r, k)
  PROVE  OccupancyTypes' /\ RefreshDue'
<1>1. /\ asking[r].todo = {} /\ asking[r].list = Nothing
      /\ subs' = [subs EXCEPT ![r] = @ \cup {k}]
      /\ UNCHANGED <<roster, up, notifying, who, occ, flush, shown, overtaken>>
  BY DEF WatchMemberList
<1>2. \A l : MemberListPayload(l)' = MemberListPayload(l) BY <1>1, PayloadSame
<1>3. PICK T : T = IF k = Everyone THEN Lists ELSE {k} OBVIOUS
<1>4. T \subseteq Lists /\ k \in T BY <1>3
<1>5. PICK b : b = [asking[r] EXCEPT !.todo = T] OBVIOUS
<1>6. asking' = [asking EXCEPT ![r] = b] BY <1>3, <1>5 DEF WatchMemberList, OccupancyTypes
<1>7. IsJob(asking[r]) BY DEF OccupancyTypes
<1>8. IsJob(b) /\ b.todo = T BY <1>4, <1>5, <1>7 DEF IsJob
<1>9. /\ asking' = [d \in Sessions |-> asking'[d]] /\ \A d \in Sessions : IsJob(asking'[d])
      /\ asking'[r] = b /\ \A d \in Sessions : d # r => asking'[d] = asking[d]
  BY <1>6, <1>8, JobsKeep DEF OccupancyTypes
<1>10. /\ subs' = [s \in Sessions |-> subs'[s]] /\ \A s \in Sessions : subs'[s] \subseteq Lists
       /\ subs'[r] = subs[r] \cup {k} /\ \A s \in Sessions : s # r => subs'[s] = subs[s]
  BY <1>1 DEF OccupancyTypes
<1>11. OccupancyTypes' BY <1>1, <1>9, <1>10 DEF OccupancyTypes, IsJob
<1>12. ASSUME NEW s \in Sessions, NEW l \in Lists,
              up' /\ l \in subs'[s] /\ <<s, l>> \notin overtaken' /\ shown'[s][l] # MemberListPayload(l)'
       PROVE  Due(s, l)'
  <2>1. MemberListPayload(l)' = MemberListPayload(l) BY <1>2
  <2>2. CASE s = r /\ l = k
    <3>1. l \in asking'[s].todo BY <1>4, <1>8, <1>9, <2>2
    <3> QED BY <3>1 DEF Due, InHand
  <2>3. CASE ~(s = r /\ l = k)
    <3>1. Due(s, l) BY <1>1, <1>10, <1>12, <2>1, <2>3, DueFact
    <3>2. InHand(asking[s], l) => s # r BY <1>1, MarksApart DEF InHand
    <3> QED BY <1>1, <1>9, <2>1, <3>1, <3>2 DEF Due, InHand
  <2> QED BY <2>2, <2>3
<1> QED BY <1>11, <1>12, DueAfter

\* A dead link obliges to nothing, and a new one sweeps every channel.
LEMMA LinkKeeps ==
  ASSUME OccupancyTypes, RefreshDue, LinkDies \/ Connected \/ UNCHANGED occupancyVars
  PROVE  OccupancyTypes' /\ RefreshDue'
<1>1. UNCHANGED <<subs, asking, flush, shown>> BY DEF LinkDies, Connected, occupancyVars
<1>2. roster' = [c \in Chans |-> roster'[c]]
  BY DEF LinkDies, Connected, occupancyVars, OccupancyTypes
<1>3. OccupancyTypes' BY <1>1, <1>2 DEF OccupancyTypes
<1>4. CASE LinkDies
  <2>1. ~up' BY <1>4 DEF LinkDies
  <2> QED BY <1>3, <2>1, DueAfter
<1>5. CASE Connected
  <2>1. who' = Chans BY <1>5 DEF Connected
  <2>2. \A l \in Lists : l \in who' \/ (l = Everyone /\ who' # {}) BY <2>1, ChanAssumption DEF Lists
  <2>3. ASSUME NEW s \in Sessions, NEW l \in Lists PROVE Due(s, l)' BY <2>2 DEF Due
  <2> QED BY <1>3, <2>3, DueAfter
<1>6. CASE UNCHANGED occupancyVars
  <2>1. UNCHANGED <<roster, up, notifying, who, occ, overtaken>> BY <1>6 DEF occupancyVars
  <2>2. \A l : MemberListPayload(l)' = MemberListPayload(l) BY <2>1, PayloadSame
  <2>3. ASSUME NEW s \in Sessions, NEW l \in Lists,
               up' /\ l \in subs'[s] /\ <<s, l>> \notin overtaken' /\ shown'[s][l] # MemberListPayload(l)'
        PROVE  Due(s, l)'
    <3>1. MemberListPayload(l)' = MemberListPayload(l) BY <2>2
    <3>2. Due(s, l) BY <1>1, <2>1, <2>3, <3>1, DueFact
    <3> QED BY <1>1, <2>1, <3>1, <3>2 DEF Due, InHand
  <2> QED BY <1>3, <2>3, DueAfter
<1> QED BY <1>4, <1>5, <1>6

-----------------------------------------------------------------------------
(* The theorems *)

\* At the start every list a session holds shows who is there.
LEMMA OccupancyStart == OccupancyInit => OccupancyTypes /\ RefreshDue
<1> SUFFICES ASSUME OccupancyInit PROVE OccupancyTypes /\ RefreshDue OBVIOUS
<1>1. /\ roster = [c \in Chans |-> [n \in {Me} |-> 0]]
      /\ subs \in [Sessions -> {{}, Lists}]
      /\ asking = [s \in Sessions |-> Resting] /\ flush = [f \in Flushers |-> Resting]
  BY DEF OccupancyInit
<1>2. PICK first : first = [l \in Lists |-> MemberListPayload(l)] OBVIOUS
<1>3. ASSUME NEW s \in Sessions, NEW l \in Lists
      PROVE  shown[s][l] = IF l \in subs[s] THEN MemberListPayload(l) ELSE {}
  BY DEF OccupancyInit
<1>4. shown = [s \in Sessions |-> [l \in Lists |-> shown[s][l]]]
  <2>1. \A s \in Sessions : shown[s] = [l \in Lists |-> shown[s][l]]
    <3>1. \A s \in Sessions : shown[s] = [l \in Lists |-> IF l \in subs[s] THEN MemberListPayload(l) ELSE {}]
      BY DEF OccupancyInit
    <3> HIDE DEF MemberListPayload
    <3> QED BY <1>3, <3>1
  <2>2. shown = [s \in Sessions |-> shown[s]] BY DEF OccupancyInit
  <2> QED BY <2>1, <2>2
<1>5. OccupancyTypes BY <1>1, <1>4, RestingJob DEF OccupancyTypes
<1>6. RefreshDue BY <1>3, DueFact
<1> QED BY <1>5, <1>6

\* Every step of the member lists keeps RefreshDue: one lemma per kind of step.
LEMMA OccupancyStep ==
  OccupancyTypes /\ RefreshDue /\ [OccupancyNext]_occupancyVars => OccupancyTypes' /\ RefreshDue'
<1> SUFFICES ASSUME OccupancyTypes, RefreshDue, [OccupancyNext]_occupancyVars
             PROVE  OccupancyTypes' /\ RefreshDue'
  OBVIOUS
<1>1. CASE FlusherNext BY <1>1, PassedOn, BuildKeeps, DispatchKeeps DEF FlusherNext
<1>2. CASE AnswerNext BY <1>2, BuildKeeps, DispatchKeeps DEF AnswerNext
<1>3. CASE LoopNext BY <1>3, PassedOn DEF LoopNext
<1>4. CASE WorldNext
  <2>1. ASSUME NEW n \in Nicks, HandleQuit(n) PROVE OccupancyTypes' /\ RefreshDue'
    <3>1. PICK c : c \in Chans BY ChanAssumption
    <3> QED BY <2>1, <3>1, RosterKeeps
  <2> QED BY <1>4, <2>1, RosterKeeps, NamesKeep, WatchKeeps, LinkKeeps DEF WorldNext
<1>5. CASE UNCHANGED occupancyVars BY <1>5, LinkKeeps
<1> QED BY <1>1, <1>2, <1>3, <1>4, <1>5 DEF OccupancyNext

\* No refresh is lost: while the link is up, a subscribed list that does not
\* show who is there is about to be notified, noted for the timer, being
\* rebuilt or behind a WHO that has yet to end, unless an older payload was
\* dispatched over a newer one (RefreshOccupancy, flushOccupancy, op 14).
THEOREM RefreshStaysDue == OccupancySpec => []RefreshDue
<1>1. OccupancyInit => OccupancyTypes /\ RefreshDue BY OccupancyStart
<1>2. OccupancyTypes /\ RefreshDue /\ [OccupancyNext]_occupancyVars => OccupancyTypes' /\ RefreshDue'
  BY OccupancyStep
<1> QED BY <1>1, <1>2, PTL DEF OccupancySpec

\* Every behaviour of the refreshes is one the promise of MemberMirror allows,
\* its liveness apart: clients start without a wrong list, and a step leaves
\* every copy alone or rewrites one list while the channels stay as they are
\* (flushOccupancy, dispatchMemberList).
THEOREM ListsMoveAsPromised == OccupancySpec => Promise!Moves
<1>1. OccupancyInit => Promise!Init
  <2> SUFFICES ASSUME OccupancyInit, NEW s \in Sessions, NEW l \in Lists
               PROVE  ~Promise!Wrong(s, l)
    BY DEF Promise!Init
  <2>1. shown[s][l] = IF l \in subs[s] THEN MemberListPayload(l) ELSE {} BY DEF OccupancyInit
  <2>2. <<s, l>> \in Held => l \in subs[s] BY DEF Held
  <2> HIDE DEF MemberListPayload
  <2> QED BY <2>1, <2>2 DEF Promise!Wrong
<1>2. OccupancyTypes /\ [OccupancyNext]_occupancyVars
        => [Promise!Next]_<<[l \in Lists |-> MemberListPayload(l)], shown, Held>>
  <2> SUFFICES ASSUME OccupancyTypes, [OccupancyNext]_occupancyVars PROVE Promise!Next
    OBVIOUS
  <2>1. ASSUME NEW S \in SUBSET Sessions, NEW k \in Lists, NEW rows, Dispatch(S, k, rows), roster' = roster
        PROVE  Promise!Next
    <3>1. \A l : MemberListPayload(l)' = MemberListPayload(l) BY <2>1, PayloadSame
    <3>2. ASSUME NEW s \in Sessions, NEW l \in Lists, l # k PROVE shown'[s][l] = shown[s][l]
      <4>1. \A t \in Sessions, m \in Lists :
              shown'[t][m] = IF t \in S /\ m = k THEN rows ELSE shown[t][m]
        BY <2>1, DispatchShows
      <4> QED BY <3>2, <4>1
    <3>3. Promise!Refresh(k) BY <3>1, <3>2 DEF Promise!Refresh
    <3> QED BY <2>1, <3>3 DEF Promise!Next
  <2>2. ASSUME NEW f \in Flushers, FlushDispatch(f) PROVE Promise!Next
    <3>1. flush[f].list \in Lists BY <2>2 DEF FlushDispatch, OccupancyTypes, IsJob
    <3> QED BY <2>1, <2>2, <3>1 DEF FlushDispatch
  <2>3. ASSUME NEW s \in Sessions, AnswerDispatch(s) PROVE Promise!Next
    <3>1. asking[s].list \in Lists BY <2>3 DEF AnswerDispatch, OccupancyTypes, IsJob
    <3> QED BY <2>1, <2>3, <3>1 DEF AnswerDispatch
  <2>4. CASE UNCHANGED shown BY <2>4 DEF Promise!Next, Promise!Move
  <2>5. \/ UNCHANGED shown
        \/ \E f \in Flushers : FlushDispatch(f)
        \/ \E s \in Sessions : AnswerDispatch(s)
    BY DEF OccupancyNext, FlusherNext, AnswerNext, LoopNext, WorldNext, occupancyVars, FlushOccupancy,
           FlushBuild, AnswerBuild, RefreshOccupancy, HandleEndOfWho, LinkDies, Connected, HandleQuit,
           HandleJoin, HandlePart, HandleMode, Names, WatchMemberList, Event
  <2> QED BY <2>2, <2>3, <2>4, <2>5
<1>3. OccupancySpec => []OccupancyTypes
  <2>1. OccupancyInit => OccupancyTypes /\ RefreshDue BY OccupancyStart
  <2>2. OccupancyTypes /\ RefreshDue /\ [OccupancyNext]_occupancyVars => OccupancyTypes' /\ RefreshDue'
    BY OccupancyStep
  <2> QED BY <2>1, <2>2, PTL DEF OccupancySpec
<1> QED BY <1>1, <1>2, <1>3, PTL DEF OccupancySpec, Promise!Moves

=============================================================================
