------------------------------ MODULE Pool_proofs ------------------------------
(***************************************************************************)
(* Proofs about Pool, for every finite set of WSConns and of sessions and  *)
(* any number of transports: the types, that no puller listens to an       *)
(* abandoned transport, that no live transport is lost, and that the load  *)
(* count is exact.                                                         *)
(***************************************************************************)
EXTENDS Pool, FiniteSetTheorems, TLAPS

-----------------------------------------------------------------------------
(* Where the processes are, and what a session has to try                   *)

\* A session that connects, or holds a reservation, has its WSConn at the head
\* of cand.
Places ==
    /\ at \in [Sessions \cup WSConns -> SessionStates \cup PullerStates]
    /\ \A s \in Sessions : at[s] \in SessionStates
    /\ \A w \in WSConns : at[w] \in PullerStates
    /\ cand \in [Sessions -> Seq(WSConns)]
    /\ \A s \in Sessions : at[s] \notin {"none", "try", "over"} => cand[s] # <<>>
    /\ stop = None \/ stop \in SUBSET WSConns

\* The head and the tail of what a session has to try.
LEMMA Heads ==
    \A q \in Seq(WSConns) : q # <<>> => Head(q) \in WSConns /\ Tail(q) \in Seq(WSConns)
OBVIOUS

\* What GetWSConn may sort is a sequence of WSConns.
LEMMA Sorted == \A S \in SUBSET WSConns : \A q \in SetToSeqs(S) : q \in Seq(WSConns)
<1> SUFFICES ASSUME NEW S \in SUBSET WSConns, NEW q \in SetToSeqs(S) PROVE q \in Seq(WSConns)
  OBVIOUS
<1>1. Cardinality(S) \in Nat
  BY PoolAssumption, FS_Subset, FS_CardinalityType
<1>2. q \in [1..Cardinality(S) -> S]
  BY DEF SetToSeqs
<1> QED BY <1>1, <1>2, Z3

\* At the start nobody has tried anything.
LEMMA PlacesInit == Init => Places
BY PoolAssumption DEF Init, Places, SessionStates, PullerStates

\* A session whose Connect fails drops the head of what it has to try.
LEMMA FailsFacts ==
    ASSUME Places, NEW p \in Sessions, cand[p] # <<>>, ConnectFails(p)
    PROVE  Places'
<1>1. Tail(cand[p]) \in Seq(WSConns)
  BY Heads DEF Places
<1>2. p \notin WSConns
  BY PoolAssumption
<1>3. /\ at' = [at EXCEPT ![p] = "try"]
      /\ cand' = [cand EXCEPT ![p] = Tail(cand[p])] /\ stop' = stop
  BY <1>2 DEF ConnectFails, Goto
<1>4. cand' \in [Sessions -> Seq(WSConns)]
  BY <1>1, <1>3 DEF Places
<1> QED BY <1>2, <1>3, <1>4 DEF Places, SessionStates, PullerStates

\* Every step moves one process, to a state of its own.
LEMMA PlacesNext == Places /\ [Next]_vars => Places'
<1> SUFFICES ASSUME Places, [Next]_vars PROVE Places'
  OBVIOUS
<1>a. \A p, q : p \in Sessions /\ q \in WSConns => p # q
  BY PoolAssumption
<1> USE <1>a, PoolAssumption, Heads DEF Places, SessionStates, PullerStates, wsVars,
        trVars, sesVars, pullVars, Goto, SesGoto, pullGoto, IsStopped
<1>1. ASSUME NEW p \in Sessions \cup WSConns, ConnectCheck(p) PROVE Places'
  <2>1. CASE p \in Sessions
    BY <1>1, <2>1, FailsFacts DEF ConnectCheck, ConnectOk
  <2>2. CASE p \in WSConns
    BY <1>1, <2>2, SMT, ZenonT(60) DEF ConnectCheck, ConnectOk, ConnectFails
  <2> QED BY <2>1, <2>2
<1>2. ASSUME NEW p \in Sessions \cup WSConns, ConnectDone(p) PROVE Places'
  BY <1>2 DEF ConnectDone, ConnectOk
<1>3. ASSUME NEW p \in Sessions \cup WSConns, DialFails(p) PROVE Places'
  <2>1. CASE p \in Sessions
    BY <1>3, <2>1, FailsFacts DEF DialFails
  <2>2. CASE p \in WSConns
    BY <1>3, <2>2 DEF DialFails, ConnectFails
  <2> QED BY <2>1, <2>2
<1>4. ASSUME NEW p \in Sessions \cup WSConns, DialOk(p) PROVE Places'
  BY <1>4 DEF DialOk
<1>5. ASSUME NEW s \in Sessions, Accept(s) PROVE Places'
  BY <1>5 DEF Accept
<1>6. ASSUME NEW s \in Sessions, GetWSConn(s) PROVE Places'
  <2>1. CASE IsStopped
    BY <1>6, <2>1 DEF GetWSConn
  <2>2. CASE ~IsStopped
    <3>1. PICK q \in SetToSeqs({w \in WSConns : CanConnectNow(w)}) :
              cand' = [cand EXCEPT ![s] = q]
      BY <1>6, <2>2 DEF GetWSConn
    <3>2. q \in Seq(WSConns)
      BY <3>1, Sorted
    <3>3. at[s] = "none" /\ at' = [at EXCEPT ![s] = "try"] /\ UNCHANGED stop
      BY <1>6, <2>2 DEF GetWSConn
    <3> QED BY ONLY <3>1, <3>2, <3>3, Places, <1>a, s \in Sessions
            DEF Places, SessionStates, PullerStates
  <2> QED BY <2>1, <2>2
<1>7. ASSUME NEW s \in Sessions, TryNext(s) PROVE Places'
  BY <1>7 DEF TryNext
<1>8. ASSUME NEW s \in Sessions, Reserve(s) PROVE Places'
  BY <1>8 DEF Reserve
<1>9. ASSUME NEW s \in Sessions, SendConnect(s) PROVE Places'
  BY <1>9 DEF SendConnect
<1>10. ASSUME NEW s \in Sessions, ConnectSent(s) PROVE Places'
  BY <1>10 DEF ConnectSent
<1>11. ASSUME NEW s \in Sessions, ConnectNotSent(s) PROVE Places'
  BY <1>11 DEF ConnectNotSent
<1>12. ASSUME NEW s \in Sessions, StoreConn(s) PROVE Places'
  BY <1>12 DEF StoreConn
<1>13. ASSUME NEW s \in Sessions, WaitAnswer(s) PROVE Places'
  BY <1>13 DEF WaitAnswer
<1>14. ASSUME NEW s \in Sessions, Leave(s) PROVE Places'
  BY <1>14 DEF Leave
<1>15. ASSUME NEW s \in Sessions, Left(s) PROVE Places'
  BY <1>15 DEF Left
<1>16. ASSUME NEW w \in WSConns, WebsocketPuller(w) PROVE Places'
  <2>1. CASE PullerTop(w)
    BY <2>1 DEF PullerTop
  <2>2. CASE PullerMakesChan(w)
    BY <2>2 DEF PullerMakesChan
  <2>3. CASE PullerWakes(w)
    BY <2>3 DEF PullerWakes, SleepEnds
  <2>4. CASE PullerCheck(w)
    BY <2>4 DEF PullerCheck
  <2>5. CASE PullerSlept(w)
    BY <2>5 DEF PullerSlept
  <2>6. CASE PullerTimer(w)
    BY <2>6 DEF PullerTimer
  <2>7. CASE SwitchDial(w)
    BY <2>7 DEF SwitchDial
  <2>8. CASE SwitchAnnounce(w)
    BY <2>8 DEF SwitchAnnounce
  <2>9. CASE SwitchFlush(w)
    BY <2>9 DEF SwitchFlush
  <2>10. CASE SwitchSwap(w)
    BY <2>10 DEF SwitchSwap
  <2>11. CASE PullerReads(w)
    BY <2>11 DEF PullerReads
  <2>12. ASSUME NEW s \in Cids, PullerGets(w, s) PROVE Places'
    BY <2>12 DEF PullerGets, Receives
  <2>13. CASE PullerReadFails(w)
    BY <2>13 DEF PullerReadFails
  <2>14. CASE PullerReply(w)
    BY <2>14 DEF PullerReply, BeginWrite, Target
  <2>15. CASE SwitchAnnounced(w)
    BY <2>15 DEF SwitchAnnounced, EndWrite
  <2>16. ASSUME NEW s \in Cids, SwitchGets(w, s) PROVE Places'
    BY <2>16 DEF SwitchGets, Receives
  <2>17. CASE SwitchFlushed(w)
    BY <2>17 DEF SwitchFlushed
  <2>18. CASE PullerReplied(w)
    BY <2>18 DEF PullerReplied, EndWrite
  <2> QED
    BY <1>16, <2>1, <2>2, <2>3, <2>4, <2>5, <2>6, <2>7, <2>8, <2>9, <2>10, <2>11, <2>12,
       <2>13, <2>14, <2>15, <2>16, <2>17, <2>18 DEF WebsocketPuller
<1>17. ASSUME NEW w \in WSConns, StopVisit(w) PROVE Places'
  BY <1>17 DEF StopVisit
<1>18. CASE StopDone
  BY <1>18 DEF StopDone
<1>19. ASSUME NEW t \in T, TransportDies(t) PROVE Places'
  BY <1>19 DEF TransportDies
<1>20. ASSUME NEW t \in T, NEW s \in Cids, RemoteSends(t, s) PROVE Places'
  BY <1>20 DEF RemoteSends
<1>21. CASE UNCHANGED vars
  BY <1>21 DEF vars
<1> QED
  BY <1>1, <1>2, <1>3, <1>4, <1>5, <1>6, <1>7, <1>8, <1>9, <1>10, <1>11, <1>12, <1>13,
     <1>14, <1>15, <1>16, <1>17, <1>18, <1>19, <1>20, <1>21
  DEF Next, Connect, GetsWSConn, Session
-----------------------------------------------------------------------------
(* Transports                                                               *)

\* A dial returns a transport nobody refers to.
LEMMA DialedFresh ==
    ASSUME Unused # {}
    PROVE  /\ Dialed \in T
           /\ \A w \in WSConns :
                  installed[w] # Dialed /\ reading[w] # Dialed /\ fresh[w] # Dialed
           /\ \A p \in Sessions \cup WSConns : taken[p] # Dialed
<1>1. Dialed \in Unused
  BY DEF Dialed
<1> QED BY <1>1 DEF Unused, Referred

\* The puller has dialed the transport to switch to; the WSConn has a transport.
Switching == {"announce", "announcing", "flush", "flushing", "swap"}
Linked == {"installed", "ttl", "switch", "read", "reading"} \cup Switching

\* Who refers to a transport when.
Links ==
    /\ installed \in [WSConns -> Ref]
    /\ reading \in [WSConns -> Ref]
    /\ fresh \in [WSConns -> Ref]
    /\ taken \in [Sessions \cup WSConns -> Ref]
    /\ DOMAIN sock = T
    /\ DOMAIN writer = T
    /\ DOMAIN connected = WSConns
    /\ \A w \in WSConns : connected[w] \/ at[w] \in Linked => installed[w] # None
    /\ \A s \in Sessions : at[s] = "installed" => installed[Head(cand[s])] # None
    /\ \A w \in WSConns : at[w] \in Switching <=> fresh[w] # None
    /\ \A w \in WSConns : at[w] \in {"reading", "flushing"} <=> reading[w] # None
    /\ \A w \in WSConns : at[w] = "announcing" => taken[w] = fresh[w]

\* The transport dialed for a switch is known to the puller alone, which alone
\* closes its writer.
Private ==
    /\ \A w \in WSConns : fresh[w] # None =>
          /\ writer[fresh[w]]
          /\ \A v \in WSConns : installed[v] # fresh[w] /\ (v # w => fresh[v] # fresh[w])
          /\ \A p \in Sessions \cup WSConns : p # w => taken[p] # fresh[w]

\* The invariant about transports.
Kept == Places /\ Links /\ Private /\ ReadsWhatIsUsed /\ NoTransportLost

\* A session that has something to try works on a WSConn.
LEMMA Aimed ==
    Places => \A s \in Sessions : cand[s] # <<>> =>
        Target(s) = Head(cand[s]) /\ Target(s) \in WSConns
BY PoolAssumption, Heads DEF Places, Target

\* A failed write closes no other writer and no transport.
LEMMA WriteErrorFacts ==
    ASSUME NEW w, NEW t, WriteError(w, t)
    PROVE  /\ ~Writes(t)
           /\ connected' = [connected EXCEPT ![w] = FALSE]
           /\ DOMAIN writer' = T /\ \A u \in T : writer[u] /\ u # t => writer'[u]
           /\ UNCHANGED <<canConnect, installed, unsignaled, lock, sock, heard, due, timed>>
BY DEF WriteError

\* Nor does a failed read.
LEMMA ReadErrorFacts ==
    ASSUME NEW w, ReadError(w)
    PROVE  /\ connected' = [connected EXCEPT ![w] = FALSE]
           /\ DOMAIN writer' = T /\ \A u \in T : writer[u] /\ u # installed[w] => writer'[u]
           /\ UNCHANGED <<canConnect, active, installed, unsignaled, lock, sock, heard, due,
                         timed>>
BY DEF ReadError

\* Closing transports leaves the others as they are.
LEMMA ClosedFacts ==
    ASSUME NEW old, Closed(old)
    PROVE  /\ DOMAIN sock' = T /\ DOMAIN writer' = T
           /\ \A t \in T : t \in old => sock'[t] = "closed"
           /\ \A t \in T : t \notin old => sock'[t] = sock[t] /\ (writer[t] => writer'[t])
BY DEF Closed

\* So does dialing one next to closing others.
LEMMA OpenedFacts ==
    ASSUME NEW old, Opened(old)
    PROVE  /\ Dialed \in T
           /\ \A w \in WSConns :
                  installed[w] # Dialed /\ reading[w] # Dialed /\ fresh[w] # Dialed
           /\ \A p \in Sessions \cup WSConns : taken[p] # Dialed
           /\ DOMAIN sock' = T /\ DOMAIN writer' = T
           /\ sock'[Dialed] = "open" /\ writer'[Dialed]
           /\ \A t \in T : t # Dialed /\ t \in old => sock'[t] = "closed"
           /\ \A t \in T : t # Dialed /\ t \notin old =>
                  sock'[t] = sock[t] /\ (writer[t] => writer'[t])
<1>1. Unused # {}
  BY DEF Opened
<1> QED BY <1>1, DialedFresh DEF Opened

\* At the start there is no transport.
LEMMA KeptInit == Init => Kept
<1> SUFFICES ASSUME Init PROVE Kept
  OBVIOUS
<1>1. Places
  BY PlacesInit
<1>2. Links /\ Private
  BY PoolAssumption DEF Init, Links, Private, Switching, Linked, Ref
<1>3. ReadsWhatIsUsed /\ NoTransportLost
  BY PoolAssumption DEF Init, ReadsWhatIsUsed, NoTransportLost
<1> QED BY <1>1, <1>2, <1>3 DEF Kept

\* Who refers to a transport is where the code gives or takes it.
LEMMA LinksNext == Kept /\ Places' /\ [Next]_vars => Links'
<1> SUFFICES ASSUME Kept /\ Places', [Next]_vars PROVE Links'
  OBVIOUS
<1>a. \A p, q : p \in Sessions /\ q \in WSConns => p # q
  BY PoolAssumption
<1>b. None \notin T
  BY PoolAssumption DEF T
<1> USE <1>a, <1>b DEF Kept, Places, Ref, wsVars, trVars, sesVars, pullVars, Goto,
        SesGoto, pullGoto, IsStopped, Links, Switching, Linked
<1>1. ASSUME NEW p \in Sessions \cup WSConns, ConnectCheck(p) PROVE Links'
  BY <1>1, Heads DEF ConnectCheck, ConnectOk, ConnectFails, Target, SignalConnChan
<1>2. ASSUME NEW p \in Sessions \cup WSConns, ConnectDone(p) PROVE Links'
  <2>1. CASE p \in Sessions
    <3>1. Target(p) = Head(cand[p]) /\ Target(p) \in WSConns
      BY <1>2, <2>1, Aimed DEF ConnectDone
    <3>2. installed[Target(p)] # None
      BY <1>2, <2>1, <3>1 DEF ConnectDone
    <3>3. /\ connected' = [connected EXCEPT ![Target(p)] = TRUE]
          /\ at' = [at EXCEPT ![p] = "reserve"]
          /\ UNCHANGED <<installed, reading, fresh, taken, sock, writer, cand>>
      BY <1>2, <2>1 DEF ConnectDone, ConnectOk
    <3> QED BY <2>1, <3>1, <3>2, <3>3
  <2>2. CASE p \in WSConns
    <3>1. /\ connected' = [connected EXCEPT ![p] = TRUE] /\ at[p] = "installed"
          /\ at' = [at EXCEPT ![p] = "ttl"]
          /\ UNCHANGED <<installed, reading, fresh, taken, sock, writer, cand>>
      BY <1>2, <2>2 DEF ConnectDone, ConnectOk, Target
    <3> QED BY <2>2, <3>1
  <2> QED BY <2>1, <2>2
<1>3. ASSUME NEW p \in Sessions \cup WSConns, DialFails(p) PROVE Links'
  <2>1. connected' = [connected EXCEPT ![Target(p)] = FALSE]
    BY <1>3 DEF DialFails
  <2>2. UNCHANGED <<installed, reading, fresh, taken, sock, writer>>
    BY <1>3 DEF DialFails, ConnectFails
  <2>3. CASE p \in Sessions
    <3>1. p \notin WSConns
      BY <2>3
    <3>2. /\ at' = [at EXCEPT ![p] = "try"]
          /\ cand' = [cand EXCEPT ![p] = Tail(cand[p])]
      BY <1>3, <3>1 DEF DialFails, ConnectFails
    <3> QED BY <2>1, <2>2, <2>3, <3>2, SMTT(30)
  <2>4. CASE p \in WSConns
    <3>1. at[p] = "dial" /\ at' = [at EXCEPT ![p] = "top"] /\ UNCHANGED cand
      BY <1>3, <2>4 DEF DialFails, ConnectFails
    <3>2. Target(p) = p
      BY <2>4 DEF Target
    <3> QED BY <2>1, <2>2, <2>4, <3>1, <3>2, SMTT(30)
  <2> QED BY <2>3, <2>4
<1>4. ASSUME NEW p \in Sessions \cup WSConns, DialOk(p) PROVE Links'
  BY <1>4, OpenedFacts, Heads DEF DialOk, Target, Replaced
<1>5. ASSUME NEW s \in Sessions, Accept(s) PROVE Links'
  BY <1>5 DEF Accept
<1>6. ASSUME NEW s \in Sessions, GetWSConn(s) PROVE Links'
  <2>1. CASE IsStopped
    BY <1>6, <2>1, SMTT(30), ZenonT(60) DEF GetWSConn
  <2>2. CASE ~IsStopped
    <3>1. PICK q : cand' = [cand EXCEPT ![s] = q]
      BY <1>6, <2>2 DEF GetWSConn
    <3>2. at[s] = "none" /\ at' = [at EXCEPT ![s] = "try"]
      BY <1>6, <2>2 DEF GetWSConn
    <3>3. UNCHANGED <<wsVars, trVars, pullVars, taken>>
      BY <1>6, <2>2 DEF GetWSConn
    <3> QED BY <3>1, <3>2, <3>3
  <2> QED BY <2>1, <2>2
<1>7. ASSUME NEW s \in Sessions, TryNext(s) PROVE Links'
  BY <1>7 DEF TryNext
<1>8. ASSUME NEW s \in Sessions, Reserve(s) PROVE Links'
  BY <1>8 DEF Reserve, AddActive, SignalConnChan, Target
<1>9. ASSUME NEW s \in Sessions, SendConnect(s) PROVE Links'
  <2>1. Target(s) \in WSConns
    BY <1>9, Aimed DEF SendConnect
  <2>2. PICK t \in Ref : taken' = [taken EXCEPT ![s] = t]
    BY <1>9, <2>1 DEF SendConnect, BeginWrite
  <2>3. PICK l \in {"sending", "over"} : at' = [at EXCEPT ![s] = l]
    BY <1>9 DEF SendConnect
  <2>4. UNCHANGED <<connected, installed, reading, fresh, cand, sock, writer>>
    BY <1>9 DEF SendConnect, AddActive
  <2> QED BY <2>2, <2>3, <2>4
<1>10. ASSUME NEW s \in Sessions, ConnectSent(s) PROVE Links'
  BY <1>10 DEF ConnectSent, EndWrite, Writes
<1>11. ASSUME NEW s \in Sessions, ConnectNotSent(s) PROVE Links'
  <2>1. /\ at' = [at EXCEPT ![s] = "over"] /\ taken' = [taken EXCEPT ![s] = None]
        /\ UNCHANGED <<installed, reading, fresh, cand, sock>>
    BY <1>11, WriteErrorFacts DEF ConnectNotSent, EndWrite
  <2>2. connected' = [connected EXCEPT ![Target(s)] = FALSE] /\ DOMAIN writer' = T
    BY <1>11, WriteErrorFacts DEF ConnectNotSent
  <2> QED BY <2>1, <2>2
<1>12. ASSUME NEW s \in Sessions, StoreConn(s) PROVE Links'
  BY <1>12 DEF StoreConn
<1>13. ASSUME NEW s \in Sessions, WaitAnswer(s) PROVE Links'
  BY <1>13 DEF WaitAnswer
<1>14. ASSUME NEW s \in Sessions, Leave(s) PROVE Links'
  <2>1. Target(s) \in WSConns
    BY <1>14, Aimed DEF Leave
  <2>2. PICK t \in Ref : taken' = [taken EXCEPT ![s] = t]
    BY <1>14, <2>1 DEF Leave, BeginWrite
  <2>3. PICK l \in {"closing", "over"} : at' = [at EXCEPT ![s] = l]
    BY <1>14 DEF Leave
  <2>4. UNCHANGED <<connected, installed, reading, fresh, cand, sock, writer>>
    BY <1>14 DEF Leave, AddActive
  <2> QED BY <2>2, <2>3, <2>4
<1>15. ASSUME NEW s \in Sessions, Left(s) PROVE Links'
  <2>1. /\ at' = [at EXCEPT ![s] = "over"] /\ taken' = [taken EXCEPT ![s] = None]
        /\ UNCHANGED <<installed, reading, fresh, cand, sock>>
    BY <1>15, WriteErrorFacts DEF Left, EndWrite
  <2>2. CASE WriteError(Target(s), taken[s])
    <3>1. connected' = [connected EXCEPT ![Target(s)] = FALSE] /\ DOMAIN writer' = T
      BY <2>2, WriteErrorFacts
    <3> QED BY <2>1, <3>1
  <2>3. CASE UNCHANGED <<connected, writer>>
    BY <2>1, <2>3
  <2> QED BY <1>15, <2>2, <2>3 DEF Left
<1>16. ASSUME NEW w \in WSConns, StopVisit(w) PROVE Links'
  BY <1>16, ClosedFacts DEF StopVisit, SignalConnChan
<1>17. CASE StopDone
  BY <1>17 DEF StopDone
<1>18. ASSUME NEW t \in T, TransportDies(t) PROVE Links'
  BY <1>18 DEF TransportDies
<1>19. ASSUME NEW t \in T, NEW s \in Cids, RemoteSends(t, s) PROVE Links'
  BY <1>19 DEF RemoteSends
<1>20. CASE UNCHANGED vars
  BY <1>20 DEF vars
<1>21. ASSUME NEW w \in WSConns, WebsocketPuller(w) PROVE Links'
  <2>1. CASE PullerTop(w)
    BY <2>1 DEF PullerTop
  <2>2. CASE PullerMakesChan(w)
    BY <2>2 DEF PullerMakesChan
  <2>3. CASE PullerWakes(w)
    BY <2>3, SMTT(30), ZenonT(60) DEF PullerWakes, SleepEnds
  <2>4. CASE PullerCheck(w)
    BY <2>4 DEF PullerCheck
  <2>5. CASE PullerSlept(w)
    BY <2>5, SMTT(30), ZenonT(60) DEF PullerSlept
  <2>6. CASE PullerTimer(w)
    <3>1. at[w] = "ttl" /\ (at' = [at EXCEPT ![w] = "read"] \/ at' = [at EXCEPT ![w] = "switch"])
      BY <2>6 DEF PullerTimer
    <3>2. UNCHANGED <<wsVars, trVars, pullVars, sesVars>>
      BY <2>6 DEF PullerTimer
    <3> QED BY <3>1, <3>2, SMTT(30), ZenonT(60)
  <2>7. CASE SwitchDial(w)
    <3>1. UNCHANGED <<installed, connected, reading, taken, cand>>
      BY <2>7 DEF SwitchDial
    <3>2. CASE at' = [at EXCEPT ![w] = "read"] /\ UNCHANGED <<trVars, fresh>>
      BY <2>7, <3>1, <3>2 DEF SwitchDial
    <3>3. CASE /\ Opened({}) /\ fresh' = [fresh EXCEPT ![w] = Dialed]
               /\ at' = [at EXCEPT ![w] = "announce"]
      <4>1. at[w] = "switch"
        BY <2>7 DEF SwitchDial
      <4>2. Dialed \in T /\ DOMAIN sock' = T /\ DOMAIN writer' = T
        BY <3>3, OpenedFacts
      <4> QED BY <3>1, <3>3, <4>1, <4>2
    <3> QED BY <2>7, <3>2, <3>3 DEF SwitchDial
  <2>8. CASE SwitchAnnounce(w)
    <3>1. at[w] = "announce" /\ UNCHANGED <<connected, installed, reading, sock, writer, cand>>
      BY <2>8 DEF SwitchAnnounce
    <3>2. CASE /\ taken' = [taken EXCEPT ![w] = fresh[w]] /\ UNCHANGED fresh
               /\ at' = [at EXCEPT ![w] = "announcing"]
      BY <3>1, <3>2
    <3>3. CASE /\ fresh' = [fresh EXCEPT ![w] = None] /\ UNCHANGED taken
               /\ at' = [at EXCEPT ![w] = "read"]
      BY <3>1, <3>3
    <3> QED BY <2>8, <3>2, <3>3 DEF SwitchAnnounce
  <2>9. CASE SwitchFlush(w)
    BY <2>9 DEF SwitchFlush
  <2>10. CASE SwitchSwap(w)
    BY <2>10, ClosedFacts DEF SwitchSwap, Swapped
  <2>11. CASE PullerReads(w)
    BY <2>11 DEF PullerReads
  <2>12. ASSUME NEW s \in Cids, PullerGets(w, s) PROVE Links'
    BY <2>12 DEF PullerGets, Receives
  <2>13. CASE PullerReadFails(w)
    BY <2>13, ReadErrorFacts DEF PullerReadFails
  <2>14. CASE PullerReply(w)
    <3>1. at[w] = "reply" /\ UNCHANGED <<wsVars, trVars, cand, pullVars>>
      BY <2>14 DEF PullerReply
    <3>2. CASE /\ taken' = [taken EXCEPT ![w] = installed[w]]
               /\ at' = [at EXCEPT ![w] = "replying"]
      BY <3>1, <3>2
    <3>3. CASE at' = [at EXCEPT ![w] = "top"] /\ UNCHANGED taken
      BY <3>1, <3>3
    <3> QED BY <2>14, <3>2, <3>3 DEF PullerReply, BeginWrite, Target
  <2>15. CASE SwitchAnnounced(w)
    BY <2>15, SMTT(30), ZenonT(60) DEF SwitchAnnounced, EndWrite
  <2>16. ASSUME NEW s \in Cids, SwitchGets(w, s) PROVE Links'
    BY <2>16 DEF SwitchGets, Receives
  <2>17. CASE SwitchFlushed(w)
    BY <2>17, ReadErrorFacts DEF SwitchFlushed
  <2>18. CASE PullerReplied(w)
    <3>1. /\ at[w] = "replying" /\ at' = [at EXCEPT ![w] = "top"]
          /\ taken' = [taken EXCEPT ![w] = None]
          /\ UNCHANGED <<installed, reading, fresh, cand, sock>>
      BY <2>18, WriteErrorFacts DEF PullerReplied, EndWrite
    <3>2. CASE UNCHANGED <<connected, writer>>
      BY <3>1, <3>2
    <3>3. CASE WriteError(w, taken[w])
      <4>1. connected' = [connected EXCEPT ![w] = FALSE] /\ DOMAIN writer' = T
        BY <3>3, WriteErrorFacts
      <4> QED BY <3>1, <4>1
    <3> QED BY <2>18, <3>2, <3>3 DEF PullerReplied
  <2> QED
    BY <1>21, <2>1, <2>2, <2>3, <2>4, <2>5, <2>6, <2>7, <2>8, <2>9, <2>10, <2>11, <2>12,
       <2>13, <2>14, <2>15, <2>16, <2>17, <2>18 DEF WebsocketPuller
<1> QED
  BY <1>1, <1>2, <1>3, <1>4, <1>5, <1>6, <1>7, <1>8, <1>9, <1>10, <1>11, <1>12,
     <1>13, <1>14, <1>15, <1>16, <1>17, <1>18, <1>19, <1>20, <1>21
  DEF Next, Connect, GetsWSConn, Session

\* A new transport is nobody else's until the swap installs it.
LEMMA PrivateNext == Kept /\ Places' /\ Links' /\ [Next]_vars => Private'
<1> SUFFICES ASSUME Kept /\ Places' /\ Links', [Next]_vars PROVE Private'
  OBVIOUS
<1>a. \A p, q : p \in Sessions /\ q \in WSConns => p # q
  BY PoolAssumption
<1>b. None \notin T
  BY PoolAssumption DEF T
<1> USE <1>a, <1>b DEF Kept, Places, Ref, wsVars, trVars, sesVars, pullVars, Goto,
        SesGoto, pullGoto, IsStopped, Links, Switching, Private
<1>1. ASSUME NEW p \in Sessions \cup WSConns, ConnectCheck(p) PROVE Private'
  BY <1>1, Heads DEF ConnectCheck, ConnectOk, ConnectFails, Target, SignalConnChan
<1>2. ASSUME NEW p \in Sessions \cup WSConns, ConnectDone(p) PROVE Private'
  BY <1>2 DEF ConnectDone, ConnectOk, Target, SignalConnChan
<1>3. ASSUME NEW p \in Sessions \cup WSConns, DialFails(p) PROVE Private'
  BY <1>3, Heads DEF DialFails, ConnectFails, Target, Unlock
<1>4. ASSUME NEW p \in Sessions \cup WSConns, DialOk(p) PROVE Private'
  BY <1>4, OpenedFacts, Heads DEF DialOk, Target, Replaced
<1>5. ASSUME NEW s \in Sessions, Accept(s) PROVE Private'
  BY <1>5 DEF Accept
<1>6. ASSUME NEW s \in Sessions, GetWSConn(s) PROVE Private'
  BY <1>6 DEF GetWSConn
<1>7. ASSUME NEW s \in Sessions, TryNext(s) PROVE Private'
  BY <1>7 DEF TryNext
<1>8. ASSUME NEW s \in Sessions, Reserve(s) PROVE Private'
  BY <1>8 DEF Reserve, AddActive, SignalConnChan, Target
<1>9. ASSUME NEW s \in Sessions, SendConnect(s) PROVE Private'
  <2>1. CASE UNCHANGED taken
    BY <1>9, <2>1 DEF SendConnect
  <2>2. CASE taken' = [taken EXCEPT ![s] = installed[Target(s)]]
    <3>1. UNCHANGED <<installed, fresh, writer>>
      BY <1>9 DEF SendConnect
    <3>2. Target(s) \in WSConns
      BY <1>9, Aimed DEF SendConnect
    <3> QED BY <2>2, <3>1, <3>2
  <2> QED BY <1>9, <2>1, <2>2 DEF SendConnect, BeginWrite
<1>10. ASSUME NEW s \in Sessions, ConnectSent(s) PROVE Private'
  BY <1>10 DEF ConnectSent, EndWrite, Writes
<1>11. ASSUME NEW s \in Sessions, ConnectNotSent(s) PROVE Private'
  BY <1>11, WriteErrorFacts DEF ConnectNotSent, EndWrite
<1>12. ASSUME NEW s \in Sessions, StoreConn(s) PROVE Private'
  BY <1>12 DEF StoreConn
<1>13. ASSUME NEW s \in Sessions, WaitAnswer(s) PROVE Private'
  BY <1>13 DEF WaitAnswer
<1>14. ASSUME NEW s \in Sessions, Leave(s) PROVE Private'
  <2>1. CASE UNCHANGED taken
    BY <1>14, <2>1 DEF Leave
  <2>2. CASE taken' = [taken EXCEPT ![s] = installed[Target(s)]]
    <3>1. UNCHANGED <<installed, fresh, writer>>
      BY <1>14 DEF Leave
    <3>2. Target(s) \in WSConns
      BY <1>14, Aimed DEF Leave
    <3> QED BY <2>2, <3>1, <3>2
  <2> QED BY <1>14, <2>1, <2>2 DEF Leave, BeginWrite
<1>15. ASSUME NEW s \in Sessions, Left(s) PROVE Private'
  BY <1>15, WriteErrorFacts DEF Left, EndWrite
<1>16. ASSUME NEW w \in WSConns, StopVisit(w) PROVE Private'
  BY <1>16, ClosedFacts DEF StopVisit, SignalConnChan
<1>17. CASE StopDone
  BY <1>17 DEF StopDone
<1>18. ASSUME NEW t \in T, TransportDies(t) PROVE Private'
  BY <1>18 DEF TransportDies
<1>19. ASSUME NEW t \in T, NEW s \in Cids, RemoteSends(t, s) PROVE Private'
  BY <1>19 DEF RemoteSends
<1>20. CASE UNCHANGED vars
  BY <1>20 DEF vars
<1>21. ASSUME NEW w \in WSConns, WebsocketPuller(w) PROVE Private'
  <2>1. CASE PullerTop(w)
    BY <2>1 DEF PullerTop
  <2>2. CASE PullerMakesChan(w)
    BY <2>2 DEF PullerMakesChan
  <2>3. CASE PullerWakes(w)
    BY <2>3 DEF PullerWakes, SleepEnds
  <2>4. CASE PullerCheck(w)
    BY <2>4 DEF PullerCheck
  <2>5. CASE PullerSlept(w)
    BY <2>5 DEF PullerSlept
  <2>6. CASE PullerTimer(w)
    BY <2>6, SMTT(30) DEF PullerTimer
  <2>7. CASE SwitchDial(w)
    BY <2>7, OpenedFacts DEF SwitchDial
  <2>8. CASE SwitchAnnounce(w)
    BY <2>8 DEF SwitchAnnounce
  <2>9. CASE SwitchFlush(w)
    BY <2>9 DEF SwitchFlush
  <2>10. CASE SwitchSwap(w)
    BY <2>10, ClosedFacts DEF SwitchSwap, Swapped
  <2>11. CASE PullerReads(w)
    BY <2>11 DEF PullerReads
  <2>12. ASSUME NEW s \in Cids, PullerGets(w, s) PROVE Private'
    BY <2>12 DEF PullerGets, Receives
  <2>13. CASE PullerReadFails(w)
    BY <2>13, ReadErrorFacts DEF PullerReadFails
  <2>14. CASE PullerReply(w)
    BY <2>14 DEF PullerReply, BeginWrite, Target
  <2>15. CASE SwitchAnnounced(w)
    BY <2>15 DEF SwitchAnnounced, EndWrite
  <2>16. ASSUME NEW s \in Cids, SwitchGets(w, s) PROVE Private'
    BY <2>16 DEF SwitchGets, Receives
  <2>17. CASE SwitchFlushed(w)
    BY <2>17, ReadErrorFacts DEF SwitchFlushed
  <2>18. CASE PullerReplied(w)
    BY <2>18, WriteErrorFacts DEF PullerReplied, EndWrite
  <2> QED
    BY <1>21, <2>1, <2>2, <2>3, <2>4, <2>5, <2>6, <2>7, <2>8, <2>9, <2>10, <2>11, <2>12,
       <2>13, <2>14, <2>15, <2>16, <2>17, <2>18 DEF WebsocketPuller
<1> QED
  BY <1>1, <1>2, <1>3, <1>4, <1>5, <1>6, <1>7, <1>8, <1>9, <1>10, <1>11, <1>12,
     <1>13, <1>14, <1>15, <1>16, <1>17, <1>18, <1>19, <1>20, <1>21
  DEF Next, Connect, GetsWSConn, Session

\* Who replaces the transport of a WSConn closes the old one, and no dial brings
\* back one that a puller still reads.
LEMMA ReadsNext == Kept /\ Places' /\ Links' /\ [Next]_vars => ReadsWhatIsUsed'
<1> SUFFICES ASSUME Kept /\ Places' /\ Links', [Next]_vars PROVE ReadsWhatIsUsed'
  OBVIOUS
<1>a. \A p, q : p \in Sessions /\ q \in WSConns => p # q
  BY PoolAssumption
<1>b. None \notin T
  BY PoolAssumption DEF T
<1> USE <1>a, <1>b DEF Kept, Places, Ref, wsVars, trVars, sesVars, pullVars, Goto,
        SesGoto, pullGoto, IsStopped, Links, Linked, ReadsWhatIsUsed
<1>1. ASSUME NEW p \in Sessions \cup WSConns, ConnectCheck(p) PROVE ReadsWhatIsUsed'
  BY <1>1, Heads DEF ConnectCheck, ConnectOk, ConnectFails, Target, SignalConnChan
<1>2. ASSUME NEW p \in Sessions \cup WSConns, ConnectDone(p) PROVE ReadsWhatIsUsed'
  BY <1>2 DEF ConnectDone, ConnectOk, Target, SignalConnChan
<1>3. ASSUME NEW p \in Sessions \cup WSConns, DialFails(p) PROVE ReadsWhatIsUsed'
  BY <1>3, Heads DEF DialFails, ConnectFails, Target, Unlock
<1>4. ASSUME NEW p \in Sessions \cup WSConns, DialOk(p) PROVE ReadsWhatIsUsed'
  BY <1>4, OpenedFacts, Heads DEF DialOk, Target, Replaced
<1>5. ASSUME NEW s \in Sessions, Accept(s) PROVE ReadsWhatIsUsed'
  BY <1>5 DEF Accept
<1>6. ASSUME NEW s \in Sessions, GetWSConn(s) PROVE ReadsWhatIsUsed'
  BY <1>6 DEF GetWSConn
<1>7. ASSUME NEW s \in Sessions, TryNext(s) PROVE ReadsWhatIsUsed'
  BY <1>7 DEF TryNext
<1>8. ASSUME NEW s \in Sessions, Reserve(s) PROVE ReadsWhatIsUsed'
  BY <1>8 DEF Reserve, AddActive, SignalConnChan, Target
<1>9. ASSUME NEW s \in Sessions, SendConnect(s) PROVE ReadsWhatIsUsed'
  BY <1>9, Aimed DEF SendConnect, BeginWrite
<1>10. ASSUME NEW s \in Sessions, ConnectSent(s) PROVE ReadsWhatIsUsed'
  BY <1>10 DEF ConnectSent, EndWrite, Writes
<1>11. ASSUME NEW s \in Sessions, ConnectNotSent(s) PROVE ReadsWhatIsUsed'
  BY <1>11, WriteErrorFacts DEF ConnectNotSent, EndWrite
<1>12. ASSUME NEW s \in Sessions, StoreConn(s) PROVE ReadsWhatIsUsed'
  BY <1>12 DEF StoreConn
<1>13. ASSUME NEW s \in Sessions, WaitAnswer(s) PROVE ReadsWhatIsUsed'
  BY <1>13 DEF WaitAnswer
<1>14. ASSUME NEW s \in Sessions, Leave(s) PROVE ReadsWhatIsUsed'
  BY <1>14, Aimed DEF Leave, BeginWrite
<1>15. ASSUME NEW s \in Sessions, Left(s) PROVE ReadsWhatIsUsed'
  BY <1>15, WriteErrorFacts DEF Left, EndWrite
<1>16. ASSUME NEW w \in WSConns, StopVisit(w) PROVE ReadsWhatIsUsed'
  BY <1>16, ClosedFacts DEF StopVisit, SignalConnChan
<1>17. CASE StopDone
  BY <1>17 DEF StopDone
<1>18. ASSUME NEW t \in T, TransportDies(t) PROVE ReadsWhatIsUsed'
  BY <1>18 DEF TransportDies
<1>19. ASSUME NEW t \in T, NEW s \in Cids, RemoteSends(t, s) PROVE ReadsWhatIsUsed'
  BY <1>19 DEF RemoteSends
<1>20. CASE UNCHANGED vars
  BY <1>20 DEF vars
<1>21. ASSUME NEW w \in WSConns, WebsocketPuller(w) PROVE ReadsWhatIsUsed'
  <2>1. CASE PullerTop(w)
    BY <2>1 DEF PullerTop
  <2>2. CASE PullerMakesChan(w)
    BY <2>2 DEF PullerMakesChan
  <2>3. CASE PullerWakes(w)
    BY <2>3 DEF PullerWakes, SleepEnds
  <2>4. CASE PullerCheck(w)
    BY <2>4 DEF PullerCheck
  <2>5. CASE PullerSlept(w)
    BY <2>5 DEF PullerSlept
  <2>6. CASE PullerTimer(w)
    BY <2>6, SMTT(30) DEF PullerTimer
  <2>7. CASE SwitchDial(w)
    BY <2>7, OpenedFacts DEF SwitchDial
  <2>8. CASE SwitchAnnounce(w)
    BY <2>8 DEF SwitchAnnounce
  <2>9. CASE SwitchFlush(w)
    BY <2>9 DEF SwitchFlush
  <2>10. CASE SwitchSwap(w)
    BY <2>10, ClosedFacts DEF SwitchSwap, Swapped
  <2>11. CASE PullerReads(w)
    BY <2>11 DEF PullerReads
  <2>12. ASSUME NEW s \in Cids, PullerGets(w, s) PROVE ReadsWhatIsUsed'
    BY <2>12 DEF PullerGets, Receives
  <2>13. CASE PullerReadFails(w)
    BY <2>13, ReadErrorFacts DEF PullerReadFails
  <2>14. CASE PullerReply(w)
    BY <2>14 DEF PullerReply, BeginWrite, Target
  <2>15. CASE SwitchAnnounced(w)
    BY <2>15 DEF SwitchAnnounced, EndWrite
  <2>16. ASSUME NEW s \in Cids, SwitchGets(w, s) PROVE ReadsWhatIsUsed'
    BY <2>16 DEF SwitchGets, Receives
  <2>17. CASE SwitchFlushed(w)
    BY <2>17, ReadErrorFacts DEF SwitchFlushed
  <2>18. CASE PullerReplied(w)
    BY <2>18, WriteErrorFacts DEF PullerReplied, EndWrite
  <2> QED
    BY <1>21, <2>1, <2>2, <2>3, <2>4, <2>5, <2>6, <2>7, <2>8, <2>9, <2>10, <2>11, <2>12,
       <2>13, <2>14, <2>15, <2>16, <2>17, <2>18 DEF WebsocketPuller
<1> QED
  BY <1>1, <1>2, <1>3, <1>4, <1>5, <1>6, <1>7, <1>8, <1>9, <1>10, <1>11, <1>12,
     <1>13, <1>14, <1>15, <1>16, <1>17, <1>18, <1>19, <1>20, <1>21
  DEF Next, Connect, GetsWSConn, Session

\* A transport leaves its WSConn closed, or never got through.
LEMMA LostNext == Kept /\ Places' /\ Links' /\ [Next]_vars => NoTransportLost'
<1> SUFFICES ASSUME Kept /\ Places' /\ Links', [Next]_vars PROVE NoTransportLost'
  OBVIOUS
<1>a. \A p, q : p \in Sessions /\ q \in WSConns => p # q
  BY PoolAssumption
<1>b. None \notin T
  BY PoolAssumption DEF T
<1> USE <1>a, <1>b DEF Kept, Places, Ref, wsVars, trVars, sesVars, pullVars, Goto,
        SesGoto, pullGoto, IsStopped, Links, Switching, Private, NoTransportLost
<1>1. ASSUME NEW p \in Sessions \cup WSConns, ConnectCheck(p) PROVE NoTransportLost'
  BY <1>1, Heads DEF ConnectCheck, ConnectOk, ConnectFails, Target, SignalConnChan
<1>2. ASSUME NEW p \in Sessions \cup WSConns, ConnectDone(p) PROVE NoTransportLost'
  BY <1>2 DEF ConnectDone, ConnectOk, Target, SignalConnChan
<1>3. ASSUME NEW p \in Sessions \cup WSConns, DialFails(p) PROVE NoTransportLost'
  BY <1>3, Heads DEF DialFails, ConnectFails, Target, Unlock
<1>4. ASSUME NEW p \in Sessions \cup WSConns, DialOk(p) PROVE NoTransportLost'
  <2> DEFINE w == Target(p)
  <2>1. /\ Opened({installed[w]} \cap T)
        /\ installed' = [installed EXCEPT ![w] = Dialed]
        /\ UNCHANGED <<fresh, stop>>
    BY <1>4 DEF DialOk, Replaced
  <2>2. w \in WSConns
    BY <1>4, Aimed DEF DialOk, Target
  <2> HIDE DEF w
  <2>3. ASSUME NEW t \in T, sock'[t] = "open", ~IsStopped
        PROVE  \E v \in WSConns : t \in {installed'[v], fresh'[v]}
    <3>1. CASE t = Dialed
      BY <2>1, <2>2, <3>1
    <3>2. CASE t # Dialed
      <4>1. sock[t] = "open" /\ t # installed[w]
        BY <2>1, <2>3, <3>2, OpenedFacts
      <4> QED BY <2>1, <2>3, <4>1
    <3> QED BY <3>1, <3>2
  <2> QED BY <2>1, <2>3
<1>5. ASSUME NEW s \in Sessions, Accept(s) PROVE NoTransportLost'
  BY <1>5 DEF Accept
<1>6. ASSUME NEW s \in Sessions, GetWSConn(s) PROVE NoTransportLost'
  BY <1>6 DEF GetWSConn
<1>7. ASSUME NEW s \in Sessions, TryNext(s) PROVE NoTransportLost'
  BY <1>7 DEF TryNext
<1>8. ASSUME NEW s \in Sessions, Reserve(s) PROVE NoTransportLost'
  BY <1>8 DEF Reserve, AddActive, SignalConnChan, Target
<1>9. ASSUME NEW s \in Sessions, SendConnect(s) PROVE NoTransportLost'
  BY <1>9, Aimed DEF SendConnect, BeginWrite
<1>10. ASSUME NEW s \in Sessions, ConnectSent(s) PROVE NoTransportLost'
  BY <1>10 DEF ConnectSent, EndWrite, Writes
<1>11. ASSUME NEW s \in Sessions, ConnectNotSent(s) PROVE NoTransportLost'
  BY <1>11, WriteErrorFacts DEF ConnectNotSent, EndWrite
<1>12. ASSUME NEW s \in Sessions, StoreConn(s) PROVE NoTransportLost'
  BY <1>12 DEF StoreConn
<1>13. ASSUME NEW s \in Sessions, WaitAnswer(s) PROVE NoTransportLost'
  BY <1>13 DEF WaitAnswer
<1>14. ASSUME NEW s \in Sessions, Leave(s) PROVE NoTransportLost'
  BY <1>14, Aimed DEF Leave, BeginWrite
<1>15. ASSUME NEW s \in Sessions, Left(s) PROVE NoTransportLost'
  BY <1>15, WriteErrorFacts DEF Left, EndWrite
<1>16. ASSUME NEW w \in WSConns, StopVisit(w) PROVE NoTransportLost'
  <2>1. stop \in SUBSET WSConns /\ stop' \in SUBSET WSConns
    BY <1>16 DEF StopVisit
  <2> QED BY <2>1, PoolAssumption
<1>17. CASE StopDone
  BY <1>17 DEF StopDone
<1>18. ASSUME NEW t \in T, TransportDies(t) PROVE NoTransportLost'
  BY <1>18 DEF TransportDies
<1>19. ASSUME NEW t \in T, NEW s \in Cids, RemoteSends(t, s) PROVE NoTransportLost'
  BY <1>19 DEF RemoteSends
<1>20. CASE UNCHANGED vars
  BY <1>20 DEF vars
<1>21. ASSUME NEW w \in WSConns, WebsocketPuller(w) PROVE NoTransportLost'
  <2>1. CASE PullerTop(w)
    BY <2>1 DEF PullerTop
  <2>2. CASE PullerMakesChan(w)
    BY <2>2 DEF PullerMakesChan
  <2>3. CASE PullerWakes(w)
    BY <2>3 DEF PullerWakes, SleepEnds
  <2>4. CASE PullerCheck(w)
    BY <2>4 DEF PullerCheck
  <2>5. CASE PullerSlept(w)
    BY <2>5 DEF PullerSlept
  <2>6. CASE PullerTimer(w)
    BY <2>6, SMTT(30) DEF PullerTimer
  <2>7. CASE SwitchDial(w)
    BY <2>7, OpenedFacts DEF SwitchDial
  <2>8. CASE SwitchAnnounce(w)
    <3>1. CASE UNCHANGED fresh
      BY <2>8, <3>1 DEF SwitchAnnounce
    <3>2. CASE IsStopped /\ UNCHANGED stop
      BY <3>2
    <3> QED BY <2>8, <3>1, <3>2 DEF SwitchAnnounce
  <2>9. CASE SwitchFlush(w)
    BY <2>9 DEF SwitchFlush
  <2>10. CASE SwitchSwap(w)
    <3>1. /\ Closed({installed[w]}) /\ fresh[w] # None
          /\ installed' = [installed EXCEPT ![w] = fresh[w]]
          /\ fresh' = [fresh EXCEPT ![w] = None]
          /\ UNCHANGED stop
      BY <2>10 DEF SwitchSwap, Swapped
    <3>2. ASSUME NEW t \in T, sock'[t] = "open", ~IsStopped
          PROVE  \E v \in WSConns : t \in {installed'[v], fresh'[v]}
      <4>1. sock[t] = "open" /\ t # installed[w]
        BY <3>1, <3>2, ClosedFacts
      <4>2. PICK v \in WSConns : t = installed[v] \/ t = fresh[v]
        BY <3>2, <4>1
      <4> QED BY <3>1, <4>1, <4>2
    <3> QED BY <3>1, <3>2
  <2>11. CASE PullerReads(w)
    BY <2>11 DEF PullerReads
  <2>12. ASSUME NEW s \in Cids, PullerGets(w, s) PROVE NoTransportLost'
    BY <2>12 DEF PullerGets, Receives
  <2>13. CASE PullerReadFails(w)
    BY <2>13, ReadErrorFacts DEF PullerReadFails
  <2>14. CASE PullerReply(w)
    BY <2>14 DEF PullerReply, BeginWrite, Target
  <2>15. CASE SwitchAnnounced(w)
    <3>1. UNCHANGED <<installed, sock, stop>>
      BY <2>15 DEF SwitchAnnounced
    <3>2. CASE UNCHANGED fresh
      BY <3>1, <3>2
    <3>3. CASE ~Writes(taken[w]) /\ fresh' = [fresh EXCEPT ![w] = None]
      <4>1. fresh[w] # None /\ writer[fresh[w]] /\ taken[w] = fresh[w]
        BY <2>15 DEF SwitchAnnounced
      <4>2. sock[fresh[w]] # "open"
        BY <3>3, <4>1 DEF Writes
      <4>3. ASSUME NEW t \in T, sock'[t] = "open", ~IsStopped
            PROVE  \E v \in WSConns : t \in {installed'[v], fresh'[v]}
        <5>1. PICK v \in WSConns : t = installed[v] \/ t = fresh[v]
          BY <3>1, <4>3
        <5> QED BY <3>1, <3>3, <4>2, <4>3, <5>1
      <4> QED BY <3>1, <4>3
    <3> QED BY <2>15, <3>2, <3>3 DEF SwitchAnnounced
  <2>16. ASSUME NEW s \in Cids, SwitchGets(w, s) PROVE NoTransportLost'
    BY <2>16 DEF SwitchGets, Receives
  <2>17. CASE SwitchFlushed(w)
    BY <2>17, ReadErrorFacts DEF SwitchFlushed
  <2>18. CASE PullerReplied(w)
    BY <2>18, WriteErrorFacts DEF PullerReplied, EndWrite
  <2> QED
    BY <1>21, <2>1, <2>2, <2>3, <2>4, <2>5, <2>6, <2>7, <2>8, <2>9, <2>10, <2>11, <2>12,
       <2>13, <2>14, <2>15, <2>16, <2>17, <2>18 DEF WebsocketPuller
<1> QED
  BY <1>1, <1>2, <1>3, <1>4, <1>5, <1>6, <1>7, <1>8, <1>9, <1>10, <1>11, <1>12,
     <1>13, <1>14, <1>15, <1>16, <1>17, <1>18, <1>19, <1>20, <1>21
  DEF Next, Connect, GetsWSConn, Session

\* Together.
LEMMA KeptNext == Kept /\ [Next]_vars => Kept'
BY PlacesNext, LinksNext, PrivateNext, ReadsNext, LostNext DEF Kept

\* No puller is left listening to an abandoned transport (ReadsWhatIsUsed), for
\* any number of WSConns, sessions and transports.
THEOREM NoDeafPuller == Spec => []ReadsWhatIsUsed
<1>1. Kept => ReadsWhatIsUsed
  BY DEF Kept
<1> QED BY <1>1, KeptInit, KeptNext, PTL DEF Spec

\* No live transport is lost (NoTransportLost), whoever reconnects, switches and
\* stops, in any order.
THEOREM NoTransportLeak == Spec => []NoTransportLost
<1>1. Kept => NoTransportLost
  BY DEF Kept
<1> QED BY <1>1, KeptInit, KeptNext, PTL DEF Spec

-----------------------------------------------------------------------------
(* The load count                                                           *)

\* A session between its reservation and its release.
InUse == {"send", "sending", "store", "wait", "ok", "closing"}

\* The count, with its type.
Counted == active \in [WSConns -> Nat] /\ ActiveIsExact

\* A step that reserves and releases nothing; a reservation; a release.
Steady ==
    /\ active' = active
    /\ \A s \in Sessions :
          /\ at[s] \in InUse <=> at'[s] \in InUse
          /\ at[s] \in InUse => cand'[s] = cand[s]

Joins(s) ==
    /\ at[s] \notin InUse /\ at' = [at EXCEPT ![s] = "send"]
    /\ cand[s] # <<>> /\ cand' = cand
    /\ active' = [active EXCEPT ![Target(s)] = @ + 1]

Leaves(s) ==
    /\ at[s] \in InUse /\ at' = [at EXCEPT ![s] = "over"]
    /\ cand[s] # <<>> /\ cand' = cand
    /\ active' = [active EXCEPT ![Target(s)] = @ + (-1)]

\* What a step does to the count.
Books == Steady \/ \E s \in Sessions : Joins(s) \/ Leaves(s)

\* The users of a WSConn are finitely many.
LEMMA UsersFacts ==
    \A w \in WSConns : IsFiniteSet(Users(w)) /\ Cardinality(Users(w)) \in Nat
<1> SUFFICES ASSUME NEW w \in WSConns
             PROVE  IsFiniteSet(Users(w)) /\ Cardinality(Users(w)) \in Nat
  OBVIOUS
<1>1. Users(w) \in SUBSET Sessions
  BY DEF Users
<1> QED BY <1>1, PoolAssumption, FS_Subset, FS_CardinalityType

\* The count follows.
LEMMA Balanced ==
    ASSUME Places, Counted, Books
    PROVE  Counted'
<1>a. \A s \in Sessions : s \notin WSConns
  BY PoolAssumption
<1>b. \A s \in Sessions : Target(s) = Head(cand[s]) /\ Target(s)' = Head(cand'[s])
  BY <1>a DEF Target
<1>1. CASE Steady
  <2>1. ASSUME NEW w \in WSConns PROVE Users(w)' = Users(w)
    BY <1>1, <1>b DEF Steady, Users, InUse
  <2> QED BY <1>1, <2>1 DEF Steady, Counted, ActiveIsExact
<1>2. ASSUME NEW s \in Sessions, Joins(s) PROVE Counted'
  <2>1. PICK v \in WSConns : v = Target(s)
    BY <1>2, Aimed DEF Joins
  <2>2. s \notin Users(v) /\ Users(v)' = Users(v) \cup {s}
    BY <1>2, <1>b, <2>1 DEF Joins, Users, InUse, Places
  <2>3. ASSUME NEW w \in WSConns, w # v PROVE Users(w)' = Users(w)
    BY <1>2, <1>b, <2>1, <2>3 DEF Joins, Users, InUse, Places
  <2>4. Cardinality(Users(v) \cup {s}) = Cardinality(Users(v)) + 1
    BY <2>1, <2>2, UsersFacts, FS_AddElement
  <2>5. ASSUME NEW w \in WSConns PROVE active'[w] = Cardinality(Users(w)')
    <3>1. CASE w = v
      BY <1>2, <2>1, <2>2, <2>4, <3>1 DEF Joins, Counted, ActiveIsExact
    <3>2. CASE w # v
      BY <1>2, <2>1, <2>3, <3>2 DEF Joins, Counted, ActiveIsExact
    <3> QED BY <3>1, <3>2
  <2>6. active' \in [WSConns -> Nat]
    BY <1>2, <2>1 DEF Joins, Counted
  <2> QED BY <2>5, <2>6 DEF Counted, ActiveIsExact
<1>3. ASSUME NEW s \in Sessions, Leaves(s) PROVE Counted'
  <2>1. PICK v \in WSConns : v = Target(s)
    BY <1>3, Aimed DEF Leaves
  <2>2. s \in Users(v) /\ Users(v)' = Users(v) \ {s}
    BY <1>3, <1>b, <2>1 DEF Leaves, Users, InUse, Places
  <2>3. ASSUME NEW w \in WSConns, w # v PROVE Users(w)' = Users(w)
    BY <1>3, <1>b, <2>1, <2>3 DEF Leaves, Users, InUse, Places
  <2>4. /\ Cardinality(Users(v) \ {s}) = Cardinality(Users(v)) - 1
        /\ Cardinality(Users(v) \ {s}) \in Nat
    BY <2>1, <2>2, UsersFacts, FS_RemoveElement, FS_CardinalityType
  <2>5. ASSUME NEW w \in WSConns PROVE active'[w] = Cardinality(Users(w)') /\ active'[w] \in Nat
    <3>1. CASE w = v
      BY <1>3, <2>1, <2>2, <2>4, <3>1 DEF Leaves, Counted, ActiveIsExact
    <3>2. CASE w # v
      BY <1>3, <2>1, <2>3, <3>2 DEF Leaves, Counted, ActiveIsExact
    <3> QED BY <3>1, <3>2
  <2>6. DOMAIN active' = WSConns /\ active' = [w \in WSConns |-> active'[w]]
    BY <1>3 DEF Leaves, Counted
  <2>7. active' \in [WSConns -> Nat]
    BY <2>5, <2>6
  <2> QED BY <2>5, <2>7 DEF Counted, ActiveIsExact
<1> QED BY <1>1, <1>2, <1>3, Books DEF Books

\* Every step keeps the books, each exit of a session included.
LEMMA BooksNext == Places /\ [Next]_vars => Books
<1> SUFFICES ASSUME Places, [Next]_vars PROVE Books
  OBVIOUS
<1>a. \A p, q : p \in Sessions /\ q \in WSConns => p # q
  BY PoolAssumption
<1> USE <1>a DEF Places, Books, Steady, Joins, Leaves, InUse, wsVars, trVars, sesVars,
        pullVars, Goto, SesGoto, pullGoto
<1>1. ASSUME NEW p \in Sessions \cup WSConns, ConnectCheck(p) PROVE Books
  BY <1>1 DEF ConnectCheck, ConnectOk, ConnectFails, SignalConnChan
<1>2. ASSUME NEW p \in Sessions \cup WSConns, ConnectDone(p) PROVE Books
  BY <1>2 DEF ConnectDone, ConnectOk, SignalConnChan
<1>3. ASSUME NEW p \in Sessions \cup WSConns, DialFails(p) PROVE Books
  BY <1>3 DEF DialFails, ConnectFails, Unlock
<1>4. ASSUME NEW p \in Sessions \cup WSConns, DialOk(p) PROVE Books
  BY <1>4 DEF DialOk, Replaced
<1>5. ASSUME NEW s \in Sessions, Accept(s) PROVE Books
  BY <1>5 DEF Accept
<1>6. ASSUME NEW s \in Sessions, GetWSConn(s) PROVE Books
  BY <1>6 DEF GetWSConn
<1>7. ASSUME NEW s \in Sessions, TryNext(s) PROVE Books
  BY <1>7 DEF TryNext
<1>8. ASSUME NEW s \in Sessions, Reserve(s) PROVE Books
  BY <1>8 DEF Reserve, AddActive, SignalConnChan
<1>9. ASSUME NEW s \in Sessions, SendConnect(s) PROVE Books
  BY <1>9 DEF SendConnect, AddActive, BeginWrite
<1>10. ASSUME NEW s \in Sessions, ConnectSent(s) PROVE Books
  BY <1>10 DEF ConnectSent, EndWrite, Writes
<1>11. ASSUME NEW s \in Sessions, ConnectNotSent(s) PROVE Books
  BY <1>11, WriteErrorFacts DEF ConnectNotSent, AddActive, EndWrite
<1>12. ASSUME NEW s \in Sessions, StoreConn(s) PROVE Books
  BY <1>12 DEF StoreConn
<1>13. ASSUME NEW s \in Sessions, WaitAnswer(s) PROVE Books
  BY <1>13 DEF WaitAnswer
<1>14. ASSUME NEW s \in Sessions, Leave(s) PROVE Books
  BY <1>14 DEF Leave, AddActive, BeginWrite
<1>15. ASSUME NEW s \in Sessions, Left(s) PROVE Books
  BY <1>15, WriteErrorFacts DEF Left, AddActive, EndWrite
<1>16. ASSUME NEW w \in WSConns, StopVisit(w) PROVE Books
  BY <1>16 DEF StopVisit, SignalConnChan
<1>17. CASE StopDone
  BY <1>17 DEF StopDone
<1>18. ASSUME NEW t \in T, TransportDies(t) PROVE Books
  BY <1>18 DEF TransportDies
<1>19. ASSUME NEW t \in T, NEW s \in Cids, RemoteSends(t, s) PROVE Books
  BY <1>19 DEF RemoteSends
<1>20. CASE UNCHANGED vars
  BY <1>20 DEF vars
<1>21. ASSUME NEW w \in WSConns, WebsocketPuller(w) PROVE Books
  <2>1. CASE PullerTop(w)
    BY <2>1 DEF PullerTop
  <2>2. CASE PullerMakesChan(w)
    BY <2>2 DEF PullerMakesChan
  <2>3. CASE PullerWakes(w)
    BY <2>3 DEF PullerWakes, SleepEnds
  <2>4. CASE PullerCheck(w)
    BY <2>4 DEF PullerCheck
  <2>5. CASE PullerSlept(w)
    BY <2>5 DEF PullerSlept
  <2>6. CASE PullerTimer(w)
    BY <2>6 DEF PullerTimer
  <2>7. CASE SwitchDial(w)
    BY <2>7 DEF SwitchDial
  <2>8. CASE SwitchAnnounce(w)
    BY <2>8 DEF SwitchAnnounce
  <2>9. CASE SwitchFlush(w)
    BY <2>9 DEF SwitchFlush
  <2>10. CASE SwitchSwap(w)
    BY <2>10 DEF SwitchSwap, Swapped
  <2>11. CASE PullerReads(w)
    BY <2>11 DEF PullerReads
  <2>12. ASSUME NEW s \in Cids, PullerGets(w, s) PROVE Books
    BY <2>12 DEF PullerGets, Receives
  <2>13. CASE PullerReadFails(w)
    BY <2>13, ReadErrorFacts DEF PullerReadFails
  <2>14. CASE PullerReply(w)
    BY <2>14 DEF PullerReply, BeginWrite, Target
  <2>15. CASE SwitchAnnounced(w)
    BY <2>15 DEF SwitchAnnounced, EndWrite
  <2>16. ASSUME NEW s \in Cids, SwitchGets(w, s) PROVE Books
    BY <2>16 DEF SwitchGets, Receives
  <2>17. CASE SwitchFlushed(w)
    BY <2>17, ReadErrorFacts DEF SwitchFlushed
  <2>18. CASE PullerReplied(w)
    BY <2>18, WriteErrorFacts DEF PullerReplied, EndWrite
  <2> QED
    BY <1>21, <2>1, <2>2, <2>3, <2>4, <2>5, <2>6, <2>7, <2>8, <2>9, <2>10, <2>11, <2>12,
       <2>13, <2>14, <2>15, <2>16, <2>17, <2>18 DEF WebsocketPuller
<1> QED
  BY <1>1, <1>2, <1>3, <1>4, <1>5, <1>6, <1>7, <1>8, <1>9, <1>10, <1>11, <1>12,
     <1>13, <1>14, <1>15, <1>16, <1>17, <1>18, <1>19, <1>20, <1>21
  DEF Next, Connect, GetsWSConn, Session

\* At the start no WSConn is used.
LEMMA CountedInit == Init => Counted
<1> SUFFICES ASSUME Init PROVE Counted
  OBVIOUS
<1>1. ASSUME NEW w \in WSConns PROVE Users(w) = {}
  BY PoolAssumption DEF Init, Users
<1> QED BY <1>1, FS_EmptySet DEF Init, Counted, ActiveIsExact

\* One step.
LEMMA CountedNext == Places /\ Counted /\ [Next]_vars => Counted'
BY BooksNext, Balanced

\* ws.Active is the number of sessions that hold a reservation (ActiveIsExact),
\* whichever of its exits a session takes.
THEOREM LoadIsExact == Spec => []ActiveIsExact
<1>1. Counted => ActiveIsExact
  BY DEF Counted
<1> QED BY <1>1, PlacesInit, PlacesNext, CountedInit, CountedNext, PTL DEF Spec

-----------------------------------------------------------------------------
(* The other variables                                                      *)

\* Their types.
Others ==
    /\ canConnect \in [WSConns -> BOOLEAN] /\ connected \in [WSConns -> BOOLEAN]
    /\ unsignaled \in [WSConns -> BOOLEAN] /\ armed \in [WSConns -> BOOLEAN]
    /\ lock \in [WSConns -> Sessions \cup WSConns \cup {None}]
    /\ sock \in [T -> {"open", "dead", "closed"}] /\ writer \in [T -> BOOLEAN]
    /\ heard \in [T -> SUBSET Cids] /\ due \in [T -> SUBSET Cids]
    /\ timed \in SUBSET T
    /\ stored \in SUBSET Sessions /\ answered \in SUBSET Sessions

\* At the start.
LEMMA OthersInit == Init => Others
BY PoolAssumption DEF Init, Others

\* Every step keeps them.
LEMMA OthersNext == Others /\ Links /\ [Next]_vars => Others'
<1> SUFFICES ASSUME Others, Links, [Next]_vars PROVE Others'
  OBVIOUS
<1> USE DEF Others, Cids, wsVars, trVars, sesVars, pullVars, Goto, SesGoto, pullGoto, IsStopped,
        WriteError, ReadError, Closed, Opened, Forgotten, SignalConnChan, Unlock
<1>1. ASSUME NEW p \in Sessions \cup WSConns, ConnectCheck(p) PROVE Others'
  <2>1. /\ unsignaled' = unsignaled \/ unsignaled' = [unsignaled EXCEPT ![Target(p)] = FALSE]
        /\ lock' = lock \/ lock' = [lock EXCEPT ![Target(p)] = p]
    BY <1>1 DEF ConnectCheck, ConnectOk, ConnectFails
  <2>2. UNCHANGED <<canConnect, connected, trVars>>
    BY <1>1 DEF ConnectCheck
  <2>3. /\ UNCHANGED <<stored, answered>>
        /\ armed' = armed \/ armed' = [armed EXCEPT ![p] = TRUE]
    <3>1. CASE ConnectOk(p)
      BY <3>1 DEF ConnectOk
    <3>2. CASE ConnectFails(p)
      BY <3>2 DEF ConnectFails
    <3>3. CASE UNCHANGED <<sesVars, pullVars>>
      BY <3>3
    <3> QED BY <1>1, <3>1, <3>2, <3>3 DEF ConnectCheck
  <2> QED BY <2>1, <2>2, <2>3
<1>2. ASSUME NEW p \in Sessions \cup WSConns, ConnectDone(p) PROVE Others'
  BY <1>2 DEF ConnectDone, ConnectOk, Target, SignalConnChan
<1>3. ASSUME NEW p \in Sessions \cup WSConns, DialFails(p) PROVE Others'
  BY <1>3 DEF DialFails, ConnectFails, Target, Unlock
<1>4. ASSUME NEW p \in Sessions \cup WSConns, DialOk(p) PROVE Others'
  BY <1>4 DEF DialOk, Target, Replaced
<1>5. ASSUME NEW s \in Sessions, Accept(s) PROVE Others'
  BY <1>5 DEF Accept
<1>6. ASSUME NEW s \in Sessions, GetWSConn(s) PROVE Others'
  BY <1>6 DEF GetWSConn
<1>7. ASSUME NEW s \in Sessions, TryNext(s) PROVE Others'
  BY <1>7 DEF TryNext
<1>8. ASSUME NEW s \in Sessions, Reserve(s) PROVE Others'
  BY <1>8 DEF Reserve, AddActive, SignalConnChan, Target
<1>9. ASSUME NEW s \in Sessions, SendConnect(s) PROVE Others'
  BY <1>9 DEF SendConnect, BeginWrite
<1>10. ASSUME NEW s \in Sessions, ConnectSent(s) PROVE Others'
  BY <1>10 DEF ConnectSent, EndWrite, Writes
<1>11. ASSUME NEW s \in Sessions, ConnectNotSent(s) PROVE Others'
  BY <1>11 DEF ConnectNotSent, EndWrite
<1>12. ASSUME NEW s \in Sessions, StoreConn(s) PROVE Others'
  BY <1>12 DEF StoreConn
<1>13. ASSUME NEW s \in Sessions, WaitAnswer(s) PROVE Others'
  BY <1>13 DEF WaitAnswer
<1>14. ASSUME NEW s \in Sessions, Leave(s) PROVE Others'
  BY <1>14 DEF Leave, BeginWrite
<1>15. ASSUME NEW s \in Sessions, Left(s) PROVE Others'
  BY <1>15 DEF Left, EndWrite
<1>16. ASSUME NEW w \in WSConns, StopVisit(w) PROVE Others'
  BY <1>16 DEF StopVisit, SignalConnChan
<1>17. CASE StopDone
  BY <1>17 DEF StopDone
<1>18. ASSUME NEW t \in T, TransportDies(t) PROVE Others'
  BY <1>18 DEF TransportDies
<1>19. ASSUME NEW t \in T, NEW s \in Cids, RemoteSends(t, s) PROVE Others'
  BY <1>19 DEF RemoteSends
<1>20. CASE UNCHANGED vars
  BY <1>20 DEF vars
<1>21. ASSUME NEW w \in WSConns, WebsocketPuller(w) PROVE Others'
  <2>1. CASE PullerTop(w)
    BY <2>1 DEF PullerTop
  <2>2. CASE PullerMakesChan(w)
    BY <2>2 DEF PullerMakesChan
  <2>3. CASE PullerWakes(w)
    BY <2>3 DEF PullerWakes, SleepEnds
  <2>4. CASE PullerCheck(w)
    BY <2>4 DEF PullerCheck
  <2>5. CASE PullerSlept(w)
    BY <2>5 DEF PullerSlept
  <2>6. CASE PullerTimer(w)
    BY <2>6 DEF PullerTimer
  <2>7. CASE SwitchDial(w)
    <3>1. UNCHANGED <<wsVars, armed, stored, answered>>
      BY <2>7 DEF SwitchDial
    <3>2. CASE UNCHANGED trVars
      BY <3>1, <3>2
    <3>3. CASE Opened({})
      BY <3>1, <3>3
    <3> QED BY <2>7, <3>2, <3>3 DEF SwitchDial
  <2>8. CASE SwitchAnnounce(w)
    BY <2>8 DEF SwitchAnnounce
  <2>9. CASE SwitchFlush(w)
    BY <2>9 DEF SwitchFlush
  <2>10. CASE SwitchSwap(w)
    BY <2>10 DEF SwitchSwap, Swapped
  <2>11. CASE PullerReads(w)
    BY <2>11 DEF PullerReads
  <2>12. ASSUME NEW s \in Cids, PullerGets(w, s) PROVE Others'
    BY <2>12 DEF PullerGets, Receives
  <2>13. CASE PullerReadFails(w)
    BY <2>13 DEF PullerReadFails
  <2>14. CASE PullerReply(w)
    BY <2>14 DEF PullerReply, BeginWrite, Target
  <2>15. CASE SwitchAnnounced(w)
    <3>1. installed[w] \in T
      BY <2>15 DEF SwitchAnnounced, Links, Linked, Switching, Ref
    <3> QED BY <2>15, <3>1 DEF SwitchAnnounced, EndWrite
  <2>16. ASSUME NEW s \in Cids, SwitchGets(w, s) PROVE Others'
    BY <2>16 DEF SwitchGets, Receives
  <2>17. CASE SwitchFlushed(w)
    BY <2>17, ReadErrorFacts DEF SwitchFlushed
  <2>18. CASE PullerReplied(w)
    BY <2>18, WriteErrorFacts DEF PullerReplied, EndWrite
  <2> QED
    BY <1>21, <2>1, <2>2, <2>3, <2>4, <2>5, <2>6, <2>7, <2>8, <2>9, <2>10, <2>11, <2>12,
       <2>13, <2>14, <2>15, <2>16, <2>17, <2>18 DEF WebsocketPuller
<1> QED
  BY <1>1, <1>2, <1>3, <1>4, <1>5, <1>6, <1>7, <1>8, <1>9, <1>10, <1>11, <1>12,
     <1>13, <1>14, <1>15, <1>16, <1>17, <1>18, <1>19, <1>20, <1>21
  DEF Next, Connect, GetsWSConn, Session

\* The types follow from the parts.
LEMMA TypesFollow == Places /\ Links /\ Counted /\ Others => TypeOK
<1> SUFFICES ASSUME Places, Links, Counted, Others PROVE TypeOK
  OBVIOUS
<1>1. ASSUME NEW w \in WSConns PROVE active[w] \in 0..Cardinality(Sessions)
  <2>1. Users(w) \in SUBSET Sessions
    BY DEF Users
  <2>2. /\ Cardinality(Users(w)) \in Nat /\ Cardinality(Sessions) \in Nat
        /\ Cardinality(Users(w)) <= Cardinality(Sessions)
    BY <2>1, PoolAssumption, FS_Subset, FS_CardinalityType
  <2> QED BY <2>2 DEF Counted, ActiveIsExact
<1>2. active \in [WSConns -> 0..Cardinality(Sessions)]
  BY <1>1 DEF Counted
<1>3. stop \in (SUBSET WSConns) \cup {None}
  BY DEF Places
<1>4. /\ \A s \in Sessions : at[s] \in SessionStates
      /\ \A w \in WSConns : at[w] \in PullerStates
      /\ \A s \in Sessions : cand[s] \in Seq(WSConns)
  BY DEF Places
<1>5. /\ installed \in [WSConns -> Ref] /\ taken \in [Sessions \cup WSConns -> Ref]
      /\ reading \in [WSConns -> Ref] /\ fresh \in [WSConns -> Ref]
  BY DEF Links
<1> QED BY <1>2, <1>3, <1>4, <1>5 DEF TypeOK, Others

\* The fields of every WSConn, transport and session stay within their types
\* (TypeOK): a session's WSConn is always one of the pool, and the count of a
\* WSConn is never negative nor above the number of sessions.
THEOREM TypeCorrect == Spec => []TypeOK
<1>1. Kept => Places /\ Links
  BY DEF Kept
<1> QED
  BY <1>1, KeptInit, KeptNext, CountedInit, CountedNext, OthersInit, OthersNext,
     TypesFollow, PTL DEF Spec
================================================================================
