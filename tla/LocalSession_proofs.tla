-------------------------- MODULE LocalSession_proofs --------------------------
(***************************************************************************)
(* Proofs about LocalSession, for every finite set of sessions, any number *)
(* of transports, messages and chunks and every capacity of MsgChan: the   *)
(* load count is exact, l.Conns holds no session whose goroutines are      *)
(* gone, and a session that is over leaves nothing at the remote.          *)
(***************************************************************************)
EXTENDS LocalSession, FiniteSetTheorems, TLAPS

-----------------------------------------------------------------------------
(* Where a session may be, and what it then has                             *)

\* HandleConn has not made its Conn yet.
Early == {"none", "get", "pick", "connect", "connecting", "store"}

Shape ==
    /\ handle \in [Sessions -> HandleStates]
    /\ from \in [Sessions -> FromStates]
    /\ to \in [Sessions -> ToStates]
    /\ made \in SUBSET Sessions /\ conns \subseteq made /\ released \subseteq made
    /\ puller = "deliver" => pulled[1] \in made

\* A Conn is made once, by a HandleConn that alone starts the copy loops; who
\* ends it takes it out of l.Conns and releases it.
ConnInv(s) ==
    /\ handle[s] \in Early => s \notin made
    /\ handle[s] \notin Early \cup {"over"} => s \in made
    /\ handle[s] # "ok" => from[s] = "off" /\ to[s] = "off"
    /\ handle[s] = "over" => s \notin conns /\ (s \in made => s \in released)
    /\ handle[s] \in {"closing", "release"} => s \notin conns
    /\ from[s] = "over" \/ to[s] = "over" => s \in released /\ s \notin conns

Inv == Shape /\ \A s \in Sessions : ConnInv(s)

\* A message makes CopyFromWS write, go on or exit; nothing else of the session
\* changes.
LEMMA FromSelectFacts ==
    ASSUME NEW s \in Sessions, FromSelect(s)
    PROVE  /\ from[s] = "run"
           /\ \/ from' = from
              \/ \E l \in {"write", "exit"} : from' = [from EXCEPT ![s] = l]
           /\ UNCHANGED <<handleVars, to, conns, quit, released, net, active, counted,
                          linkVars, taken, pullVars, stopVars, remoteVars, up>>
BY DEF FromSelect, FromGoto, fromUnchanged

LEMMA InvInit == Init => Inv
BY DEF Init, Inv, Shape, ConnInv, Early, HandleStates, FromStates, ToStates

\* Only HandleConn, CopyFromWS and CopyToWS move, and only they, the puller and
\* StopLocal take sessions out of l.Conns or release them.
LEMMA InvNext == Inv /\ [Next]_vars => Inv'
<1> SUFFICES ASSUME Inv, [Next]_vars PROVE Inv'
  OBVIOUS
<1> USE DEF Inv, Shape, ConnInv, Early, HandleStates, FromStates, ToStates,
        handleVars, connVars, pullVars, HandleGoto, FromGoto, ToGoto, ReleaseWSConn,
        fromUnchanged, pullUnchanged, stopUnchanged, envUnchanged
<1>1. ASSUME NEW s \in Sessions, Accept(s) PROVE Inv'
  BY <1>1 DEF Accept
<1>2. ASSUME NEW s \in Sessions, ProtoGet(s) PROVE Inv'
  BY <1>2 DEF ProtoGet, FailEarly
<1>3. ASSUME NEW s \in Sessions, GetWSConn(s) PROVE Inv'
  BY <1>3 DEF GetWSConn, FailEarly, Reserve
<1>4. ASSUME NEW s \in Sessions, SendConnect(s) PROVE Inv'
  BY <1>4 DEF SendConnect, FailEarly
<1>5. ASSUME NEW s \in Sessions, ConnectSent(s) PROVE Inv'
  BY <1>5 DEF ConnectSent, FailEarly
<1>6. ASSUME NEW s \in Sessions, StoreConn(s) PROVE Inv'
  BY <1>6 DEF StoreConn
<1>7. ASSUME NEW s \in Sessions, WaitAnswer(s) PROVE Inv'
  BY <1>7 DEF WaitAnswer
<1>8. ASSUME NEW s \in Sessions, ProtoAck(s) PROVE Inv'
  BY <1>8 DEF ProtoAck, Started
<1>9. ASSUME NEW s \in Sessions, FlushRead(s) PROVE Inv'
  BY <1>9 DEF FlushRead
<1>10. ASSUME NEW s \in Sessions, FlushSend(s) PROVE Inv'
  BY <1>10 DEF FlushSend
<1>11. ASSUME NEW s \in Sessions, FlushSent(s) PROVE Inv'
  BY <1>11 DEF FlushSent, Started
<1>12. ASSUME NEW s \in Sessions, Cleanup(s) PROVE Inv'
  BY <1>12 DEF Cleanup, Without
<1>13. ASSUME NEW s \in Sessions, CleanupClosed(s) PROVE Inv'
  BY <1>13 DEF CleanupClosed
<1>14. ASSUME NEW s \in Sessions, CleanupRelease(s) PROVE Inv'
  BY <1>14 DEF CleanupRelease
<1>15. ASSUME NEW s \in Sessions, FromSelect(s) PROVE Inv'
  BY <1>15, FromSelectFacts
<1>16. ASSUME NEW s \in Sessions, FromWriteFails(s) PROVE Inv'
  BY <1>16 DEF FromWriteFails
<1>17. ASSUME NEW s \in Sessions, FromExit(s) PROVE Inv'
  BY <1>17 DEF FromExit
<1>18. ASSUME NEW s \in Sessions, FromWritten(s) PROVE Inv'
  BY <1>18 DEF FromWritten
<1>19. ASSUME NEW s \in Sessions, ToReadFails(s) PROVE Inv'
  BY <1>19 DEF ToReadFails
<1>20. ASSUME NEW s \in Sessions, ToSend(s) PROVE Inv'
  BY <1>20 DEF ToSend
<1>21. ASSUME NEW s \in Sessions, ToSent(s) PROVE Inv'
  BY <1>21 DEF ToSent
<1>22. ASSUME NEW s \in Sessions, ToUpstream(s) PROVE Inv'
  BY <1>22 DEF ToUpstream
<1>23. ASSUME NEW s \in Sessions, ToClosed(s) PROVE Inv'
  BY <1>23 DEF ToClosed
<1>24. ASSUME NEW s \in Sessions, ToExit(s) PROVE Inv'
  BY <1>24 DEF ToExit
<1>25. ASSUME NEW s \in Sessions, ToRead(s) PROVE Inv'
  BY <1>25 DEF ToRead
<1>26. ASSUME NEW s \in Sessions, ClientGone(s) PROVE Inv'
  BY <1>26 DEF ClientGone
<1>27. ASSUME NEW s \in Sessions, RemoteAnswers(s) PROVE Inv'
  BY <1>27 DEF RemoteAnswers
<1>28. ASSUME NEW s \in Sessions, RemoteSends(s) PROVE Inv'
  BY <1>28 DEF RemoteSends
<1>29. ASSUME NEW s \in Sessions, StopVisit(s) PROVE Inv'
  BY <1>29 DEF StopVisit
<1>30. CASE PullerLoop
  BY <1>30 DEF PullerLoop
<1>31. CASE PullerRead
  BY <1>31 DEF PullerRead
<1>32. CASE PullerReadFails
  BY <1>32 DEF PullerReadFails
<1>33. CASE DeliverMessage
  BY <1>33 DEF DeliverMessage
<1>34. CASE PullerReply
  BY <1>34 DEF PullerReply
<1>35. CASE PullerReplied
  BY <1>35 DEF PullerReplied
<1>36. CASE StopDone
  BY <1>36 DEF StopDone
<1>37. CASE StopWSConns
  BY <1>37 DEF StopWSConns
<1>38. CASE StopOver
  BY <1>38 DEF StopOver
<1>39. CASE TransportDies
  BY <1>39 DEF TransportDies
<1>40. CASE UNCHANGED vars
  BY <1>40 DEF vars
<1> QED
  BY <1>1, <1>2, <1>3, <1>4, <1>5, <1>6, <1>7, <1>8, <1>9, <1>10, <1>11,
     <1>12, <1>13, <1>14, <1>15, <1>16, <1>17, <1>18, <1>19, <1>20, <1>21,
     <1>22, <1>23, <1>24, <1>25, <1>26, <1>27, <1>28, <1>29, <1>30, <1>31,
     <1>32, <1>33, <1>34, <1>35, <1>36, <1>37, <1>38, <1>39, <1>40
  DEF Next, HandleConn, CopyFromWS, CopyToWS, WebsocketPuller, StopLocal

\* l.Conns never keeps a session whose goroutines are gone, so that the puller
\* blocks on no full MsgChan of the dead.
THEOREM NoDeadEntry == Spec => []EntriesAreServed
<1>1. Inv => EntriesAreServed
  BY DEF Inv, Shape, ConnInv, EntriesAreServed, Done
<1> QED BY <1>1, InvInit, InvNext, PTL DEF Spec

-----------------------------------------------------------------------------
(* The load count                                                           *)

\* Counted once by ClientConnectionsClosed.
Ended(s) == s \in released \/ Done(s)

Holders == {s \in Sessions : Holding(s)}
EndedOnes == {s \in Sessions : Ended(s)}

Exact == active = Cardinality(Holders) /\ counted = Cardinality(EndedOnes)

One(b) == IF b THEN 1 ELSE 0

\* The step is one of session s, and the counts follow it.
Moves(s) ==
    /\ \A t \in Sessions \ {s} :
          /\ handle'[t] = handle[t] /\ from'[t] = from[t] /\ to'[t] = to[t]
          /\ t \in made' <=> t \in made
          /\ t \in released' <=> t \in released
    /\ active' = active - One(Holding(s)) + One(Holding(s)')
    /\ counted' = counted - One(Ended(s)) + One(Ended(s)')

\* Two sets of sessions that differ in s at most.
LEMMA OneMoves ==
    ASSUME NEW S \in SUBSET Sessions, NEW R \in SUBSET Sessions, NEW s \in Sessions,
           \A t \in Sessions \ {s} : t \in R <=> t \in S
    PROVE  Cardinality(R) = Cardinality(S) - One(s \in S) + One(s \in R)
<1>1. IsFiniteSet(S) /\ IsFiniteSet(R)
  BY SessionAssumption, FS_Subset
<1>2. Cardinality(S) \in Nat /\ Cardinality(R) \in Nat
  BY <1>1, FS_CardinalityType
<1>3. CASE s \in S /\ s \notin R
  <2>1. R = S \ {s}
    BY <1>3
  <2> QED BY <2>1, <1>1, <1>2, <1>3, FS_RemoveElement DEF One
<1>4. CASE s \notin S /\ s \in R
  <2>1. R = S \cup {s}
    BY <1>4
  <2> QED BY <2>1, <1>1, <1>2, <1>4, FS_AddElement DEF One
<1>5. CASE s \in S <=> s \in R
  <2>1. R = S
    BY <1>5
  <2> QED BY <2>1, <1>2, <1>5 DEF One
<1> QED BY <1>3, <1>4, <1>5

LEMMA MovesExact == ASSUME Exact, NEW s \in Sessions, Moves(s) PROVE Exact'
<1>1. /\ Holders \subseteq Sessions /\ Holders' \subseteq Sessions
      /\ EndedOnes \subseteq Sessions /\ EndedOnes' \subseteq Sessions
  BY DEF Holders, EndedOnes
<1>2. \A t \in Sessions \ {s} : t \in Holders' <=> t \in Holders
  BY DEF Holders, Moves, Holding
<1>3. \A t \in Sessions \ {s} : t \in EndedOnes' <=> t \in EndedOnes
  BY DEF EndedOnes, Moves, Ended, Done
<1>4. Cardinality(Holders') = Cardinality(Holders) - One(s \in Holders) + One(s \in Holders')
  BY <1>1, <1>2, OneMoves
<1>5. Cardinality(EndedOnes')
        = Cardinality(EndedOnes) - One(s \in EndedOnes) + One(s \in EndedOnes')
  BY <1>1, <1>3, OneMoves
<1>6. (s \in Holders <=> Holding(s)) /\ (s \in Holders' <=> Holding(s)')
  BY DEF Holders
<1>7. (s \in EndedOnes <=> Ended(s)) /\ (s \in EndedOnes' <=> Ended(s)')
  BY DEF EndedOnes
<1>8. active' = Cardinality(Holders')
  BY <1>4, <1>6 DEF Exact, Moves, One
<1>9. counted' = Cardinality(EndedOnes')
  BY <1>5, <1>7 DEF Exact, Moves, One
<1> QED BY <1>8, <1>9 DEF Exact

LEMMA RestExact ==
    ASSUME Exact, UNCHANGED <<handle, from, to, made, released, active, counted>>
    PROVE  Exact'
<1>1. Holders' = Holders /\ EndedOnes' = EndedOnes
  BY DEF Holders, EndedOnes, Holding, Ended, Done
<1> QED BY <1>1 DEF Exact

\* The Once of ReleaseWSConn.
LEMMA ReleaseFacts ==
    ASSUME NEW s \in Sessions, ReleaseWSConn({s}), active \in Int, counted \in Int
    PROVE  /\ released' = released \cup {s}
           /\ active' = active - One(s \notin released)
           /\ counted' = counted + One(s \notin released)
<1>1. CASE s \in released
  <2>1. {s} \ released = {}
    BY <1>1
  <2> QED BY <2>1, <1>1, FS_EmptySet DEF ReleaseWSConn, One
<1>2. CASE s \notin released
  <2>1. {s} \ released = {s}
    BY <1>2
  <2> QED BY <2>1, <1>2, FS_Singleton DEF ReleaseWSConn, One
<1> QED BY <1>1, <1>2

LEMMA ExactInit == Init => Exact
<1> SUFFICES ASSUME Init PROVE Exact
  OBVIOUS
<1>1. Holders = {} /\ EndedOnes = {}
  BY DEF Init, Holders, EndedOnes, Holding, Ended, Done
<1> QED BY <1>1, FS_EmptySet DEF Init, Exact

\* Each end of a session gives up what it holds, and only the first one counts.
LEMMA ExactNext == Inv /\ Exact /\ [Next]_vars => Exact'
<1> SUFFICES ASSUME Inv, Exact, [Next]_vars PROVE Exact'
  OBVIOUS
<1>0. active \in Int /\ counted \in Int
  <2>1. IsFiniteSet(Holders) /\ IsFiniteSet(EndedOnes)
    BY SessionAssumption, FS_Subset DEF Holders, EndedOnes
  <2> QED BY <2>1, FS_CardinalityType DEF Exact
<1> USE DEF handleVars, connVars, pullVars, HandleGoto, FromGoto, ToGoto,
        fromUnchanged, pullUnchanged, stopUnchanged, envUnchanged
<1>1. ASSUME NEW s \in Sessions, Accept(s) PROVE Exact'
  <2>1. Moves(s)
    BY <1>0, <1>1
    DEF Accept, Inv, Shape, ConnInv, Early, HandleStates,
        FromStates, ToStates, Moves, Holding, Ended, Done, One
  <2> QED BY <2>1, MovesExact
<1>2. ASSUME NEW s \in Sessions, ProtoGet(s) PROVE Exact'
  <2>1. Moves(s)
    BY <1>0, <1>2
    DEF ProtoGet, FailEarly, Inv, Shape, ConnInv, Early, HandleStates,
        FromStates, ToStates, Moves, Holding, Ended, Done, One
  <2> QED BY <2>1, MovesExact
<1>3. ASSUME NEW s \in Sessions, GetWSConn(s) PROVE Exact'
  <2>1. Moves(s)
    BY <1>0, <1>3
    DEF GetWSConn, FailEarly, Reserve, Inv, Shape, ConnInv, Early, HandleStates,
        FromStates, ToStates, Moves, Holding, Ended, Done, One
  <2> QED BY <2>1, MovesExact
<1>4. ASSUME NEW s \in Sessions, SendConnect(s) PROVE Exact'
  <2>1. Moves(s)
    BY <1>0, <1>4
    DEF SendConnect, FailEarly, Inv, Shape, ConnInv, Early, HandleStates,
        FromStates, ToStates, Moves, Holding, Ended, Done, One
  <2> QED BY <2>1, MovesExact
<1>5. ASSUME NEW s \in Sessions, ConnectSent(s) PROVE Exact'
  <2>1. Moves(s)
    BY <1>0, <1>5
    DEF ConnectSent, FailEarly, Inv, Shape, ConnInv, Early, HandleStates,
        FromStates, ToStates, Moves, Holding, Ended, Done, One
  <2> QED BY <2>1, MovesExact
<1>6. ASSUME NEW s \in Sessions, StoreConn(s) PROVE Exact'
  <2>1. Moves(s)
    BY <1>0, <1>6
    DEF StoreConn, Inv, Shape, ConnInv, Early, HandleStates,
        FromStates, ToStates, Moves, Holding, Ended, Done, One
  <2> QED BY <2>1, MovesExact
<1>7. ASSUME NEW s \in Sessions, WaitAnswer(s) PROVE Exact'
  <2>1. Moves(s)
    BY <1>0, <1>7
    DEF WaitAnswer, Inv, Shape, ConnInv, Early, HandleStates,
        FromStates, ToStates, Moves, Holding, Ended, Done, One
  <2> QED BY <2>1, MovesExact
<1>8. ASSUME NEW s \in Sessions, ProtoAck(s) PROVE Exact'
  <2>1. Moves(s)
    BY <1>0, <1>8
    DEF ProtoAck, Started, Inv, Shape, ConnInv, Early, HandleStates,
        FromStates, ToStates, Moves, Holding, Ended, Done, One
  <2> QED BY <2>1, MovesExact
<1>9. ASSUME NEW s \in Sessions, FlushRead(s) PROVE Exact'
  <2>1. Moves(s)
    BY <1>0, <1>9
    DEF FlushRead, Inv, Shape, ConnInv, Early, HandleStates,
        FromStates, ToStates, Moves, Holding, Ended, Done, One
  <2> QED BY <2>1, MovesExact
<1>10. ASSUME NEW s \in Sessions, FlushSend(s) PROVE Exact'
  <2>1. Moves(s)
    BY <1>0, <1>10
    DEF FlushSend, Inv, Shape, ConnInv, Early, HandleStates,
        FromStates, ToStates, Moves, Holding, Ended, Done, One
  <2> QED BY <2>1, MovesExact
<1>11. ASSUME NEW s \in Sessions, FlushSent(s) PROVE Exact'
  <2>1. Moves(s)
    BY <1>0, <1>11
    DEF FlushSent, Started, Inv, Shape, ConnInv, Early, HandleStates,
        FromStates, ToStates, Moves, Holding, Ended, Done, One
  <2> QED BY <2>1, MovesExact
<1>12. ASSUME NEW s \in Sessions, Cleanup(s) PROVE Exact'
  <2>1. Moves(s)
    BY <1>0, <1>12
    DEF Cleanup, Inv, Shape, ConnInv, Early, HandleStates,
        FromStates, ToStates, Moves, Holding, Ended, Done, One
  <2> QED BY <2>1, MovesExact
<1>13. ASSUME NEW s \in Sessions, CleanupClosed(s) PROVE Exact'
  <2>1. Moves(s)
    BY <1>0, <1>13
    DEF CleanupClosed, Inv, Shape, ConnInv, Early, HandleStates,
        FromStates, ToStates, Moves, Holding, Ended, Done, One
  <2> QED BY <2>1, MovesExact
<1>14. ASSUME NEW s \in Sessions, CleanupRelease(s) PROVE Exact'
  <2>1. Moves(s)
    BY <1>0, <1>14, ReleaseFacts
    DEF CleanupRelease, Inv, Shape, ConnInv, Early, HandleStates,
        FromStates, ToStates, Moves, Holding, Ended, Done, One
  <2> QED BY <2>1, MovesExact
<1>15. ASSUME NEW s \in Sessions, FromSelect(s) PROVE Exact'
  <2>1. Moves(s)
    BY <1>0, <1>15, FromSelectFacts
    DEF Inv, Shape, ConnInv, Early, HandleStates,
        FromStates, ToStates, Moves, Holding, Ended, Done, One
  <2> QED BY <2>1, MovesExact
<1>16. ASSUME NEW s \in Sessions, FromWriteFails(s) PROVE Exact'
  <2>1. Moves(s)
    BY <1>0, <1>16
    DEF FromWriteFails, Inv, Shape, ConnInv, Early, HandleStates,
        FromStates, ToStates, Moves, Holding, Ended, Done, One
  <2> QED BY <2>1, MovesExact
<1>17. ASSUME NEW s \in Sessions, FromExit(s) PROVE Exact'
  <2>1. Moves(s)
    BY <1>0, <1>17, ReleaseFacts
    DEF FromExit, Inv, Shape, ConnInv, Early, HandleStates,
        FromStates, ToStates, Moves, Holding, Ended, Done, One
  <2> QED BY <2>1, MovesExact
<1>18. ASSUME NEW s \in Sessions, FromWritten(s) PROVE Exact'
  <2>1. Moves(s)
    BY <1>0, <1>18
    DEF FromWritten, Inv, Shape, ConnInv, Early, HandleStates,
        FromStates, ToStates, Moves, Holding, Ended, Done, One
  <2> QED BY <2>1, MovesExact
<1>19. ASSUME NEW s \in Sessions, ToReadFails(s) PROVE Exact'
  <2>1. Moves(s)
    BY <1>0, <1>19
    DEF ToReadFails, Inv, Shape, ConnInv, Early, HandleStates,
        FromStates, ToStates, Moves, Holding, Ended, Done, One
  <2> QED BY <2>1, MovesExact
<1>20. ASSUME NEW s \in Sessions, ToSend(s) PROVE Exact'
  <2>1. Moves(s)
    BY <1>0, <1>20
    DEF ToSend, Inv, Shape, ConnInv, Early, HandleStates,
        FromStates, ToStates, Moves, Holding, Ended, Done, One
  <2> QED BY <2>1, MovesExact
<1>21. ASSUME NEW s \in Sessions, ToSent(s) PROVE Exact'
  <2>1. Moves(s)
    BY <1>0, <1>21
    DEF ToSent, Inv, Shape, ConnInv, Early, HandleStates,
        FromStates, ToStates, Moves, Holding, Ended, Done, One
  <2> QED BY <2>1, MovesExact
<1>22. ASSUME NEW s \in Sessions, ToUpstream(s) PROVE Exact'
  <2>1. Moves(s)
    BY <1>0, <1>22
    DEF ToUpstream, Inv, Shape, ConnInv, Early, HandleStates,
        FromStates, ToStates, Moves, Holding, Ended, Done, One
  <2> QED BY <2>1, MovesExact
<1>23. ASSUME NEW s \in Sessions, ToClosed(s) PROVE Exact'
  <2>1. Moves(s)
    BY <1>0, <1>23
    DEF ToClosed, Inv, Shape, ConnInv, Early, HandleStates,
        FromStates, ToStates, Moves, Holding, Ended, Done, One
  <2> QED BY <2>1, MovesExact
<1>24. ASSUME NEW s \in Sessions, ToExit(s) PROVE Exact'
  <2>1. Moves(s)
    BY <1>0, <1>24, ReleaseFacts
    DEF ToExit, Inv, Shape, ConnInv, Early, HandleStates,
        FromStates, ToStates, Moves, Holding, Ended, Done, One
  <2> QED BY <2>1, MovesExact
<1>25. ASSUME NEW s \in Sessions, ToRead(s) PROVE Exact'
  <2>1. Moves(s)
    BY <1>0, <1>25
    DEF ToRead, Inv, Shape, ConnInv, Early, HandleStates,
        FromStates, ToStates, Moves, Holding, Ended, Done, One
  <2> QED BY <2>1, MovesExact
<1>26. ASSUME NEW s \in Sessions, ClientGone(s) PROVE Exact'
  BY <1>26, RestExact DEF ClientGone
<1>27. ASSUME NEW s \in Sessions, RemoteAnswers(s) PROVE Exact'
  BY <1>27, RestExact DEF RemoteAnswers
<1>28. ASSUME NEW s \in Sessions, RemoteSends(s) PROVE Exact'
  BY <1>28, RestExact DEF RemoteSends
<1>29. ASSUME NEW s \in Sessions, StopVisit(s) PROVE Exact'
  BY <1>29, RestExact DEF StopVisit
<1>30. CASE PullerLoop
  BY <1>30, RestExact DEF PullerLoop
<1>31. CASE PullerRead
  BY <1>31, RestExact DEF PullerRead
<1>32. CASE PullerReadFails
  BY <1>32, RestExact DEF PullerReadFails
<1>33. CASE DeliverMessage
  <2>1. CASE UNCHANGED <<released, active, counted>>
    BY <1>33, <2>1, RestExact DEF DeliverMessage
  <2>2. CASE ~UNCHANGED <<released, active, counted>>
    <3>1. PICK s \in made : s = pulled[1]
      BY <1>33 DEF DeliverMessage, Inv, Shape
    <3>2. s \in Sessions /\ ReleaseWSConn({s})
      BY <1>33, <2>2, <3>1 DEF DeliverMessage, Inv, Shape
    <3>3. /\ released' = released \cup {s}
          /\ active' = active - One(s \notin released)
          /\ counted' = counted + One(s \notin released)
      BY <1>0, <3>2, ReleaseFacts
    <3>4. Moves(s)
      BY <1>0, <1>33, <3>1, <3>2, <3>3
      DEF DeliverMessage, Inv, Shape, ConnInv, Early, HandleStates, FromStates, ToStates, Moves, Holding, Ended, Done, One
    <3> QED BY <3>2, <3>4, MovesExact
  <2> QED BY <2>1, <2>2
<1>34. CASE PullerReply
  BY <1>34, RestExact DEF PullerReply
<1>35. CASE PullerReplied
  BY <1>35, RestExact DEF PullerReplied
<1>36. CASE StopDone
  BY <1>36, RestExact DEF StopDone
<1>37. CASE StopWSConns
  BY <1>37, RestExact DEF StopWSConns
<1>38. CASE StopOver
  BY <1>38, RestExact DEF StopOver
<1>39. CASE TransportDies
  BY <1>39, RestExact DEF TransportDies
<1>40. CASE UNCHANGED vars
  BY <1>40, RestExact DEF vars
<1> QED
  BY <1>1, <1>2, <1>3, <1>4, <1>5, <1>6, <1>7, <1>8, <1>9, <1>10, <1>11,
     <1>12, <1>13, <1>14, <1>15, <1>16, <1>17, <1>18, <1>19, <1>20, <1>21,
     <1>22, <1>23, <1>24, <1>25, <1>26, <1>27, <1>28, <1>29, <1>30, <1>31,
     <1>32, <1>33, <1>34, <1>35, <1>36, <1>37, <1>38, <1>39, <1>40
  DEF Next, HandleConn, CopyFromWS, CopyToWS, WebsocketPuller, StopLocal

\* ws.Active, on which the choice of a WSConn relies and which nothing resets, is
\* exact, and every session is counted once when it ends, whoever ends it.
THEOREM LoadIsExact == Spec => []Accounting
<1>1. Inv /\ Exact => Accounting
  <2> SUFFICES ASSUME Inv, Exact PROVE Accounting
    OBVIOUS
  <2>1. EndedOnes = released \cup {s \in Sessions : Done(s)}
    BY DEF EndedOnes, Ended, Inv, Shape
  <2>2. \A s \in Sessions : Done(s) => ~Holding(s)
    BY DEF Inv, Shape, ConnInv, Early, Done, Holding
  <2> QED BY <2>1, <2>2 DEF Accounting, Exact, Holders
<1> QED BY <1>1, InvInit, InvNext, ExactInit, ExactNext, PTL DEF Spec

-----------------------------------------------------------------------------
(* The last word to the remote                                              *)

\* The remote does not hold s, or its transport is about to go.
Told(s) == s \in held => ~writer \/ stop = "done"

\* A CLOSE that is being sent is on the transport in use, or there is none to
\* send it on: every message of s before it went up on an older transport.
SentInv(s) ==
    /\ handle[s] # "ok" => to[s] = "off"
    /\ handle[s] \in Early \ {"store"} => s \notin held
    /\ handle[s] = "closing" \/ to[s] = "closing" => taken[s] = epoch \/ s \notin held
    /\ handle[s] \in {"release", "over"} => Told(s)
    /\ to[s] \in {"exit", "over"} => Told(s)

RemoteInv ==
    /\ handle \in [Sessions -> HandleStates]
    /\ to \in [Sessions -> ToStates]
    /\ taken \in [Sessions -> Nat] /\ epoch \in Nat
    /\ held \in SUBSET Sessions
    /\ stop \in {"no", "done", "range", "over"}
    /\ ~alive => held = {}
    /\ stop \in {"range", "over"} => ~alive
    /\ \A s \in Sessions : SentInv(s)

LEMMA RemoteInit == Init => RemoteInv
BY DEF Init, RemoteInv, SentInv, Told, HandleStates, ToStates

\* What a write leaves of the transport and of what the remote holds.
LEMMA WriteFacts ==
    ASSUME RemoteInv, NEW e \in Nat, NEW s \in Sessions, NEW m \in {"connect", "data", "close"},
           WriteOk(e, s, m) \/ WriteError(e)
    PROVE  /\ epoch' = epoch /\ held' \subseteq held \cup {s}
           /\ (alive' <=> alive) /\ (writer' => writer)
           /\ ~alive' => held' = {}
           /\ m = "close" => held' \subseteq held
           /\ m = "close" /\ (e = epoch \/ s \notin held) => s \notin held' \/ ~writer'
<1>1. CASE WriteOk(e, s, m)
  <2>1. CASE alive
    BY <1>1, <2>1 DEF WriteOk, Received, linkVars, RemoteInv
  <2>2. CASE ~alive
    BY <1>1, <2>2 DEF WriteOk, linkVars, remoteVars, RemoteInv
  <2> QED BY <2>1, <2>2
<1>2. CASE WriteError(e)
  BY <1>2 DEF WriteError, remoteVars, RemoteInv
<1> QED BY <1>1, <1>2

LEMMA RemoteNext == RemoteInv /\ [Next]_vars => RemoteInv'
<1> SUFFICES ASSUME RemoteInv, [Next]_vars PROVE RemoteInv'
  OBVIOUS
<1> USE DEF RemoteInv, SentInv, Told, Early, HandleStates, ToStates, handleVars,
        linkVars, stopVars, remoteVars, HandleGoto, ToGoto, BeginWrite, WriteRefused,
        EndWrite, IsStopped, fromUnchanged, pullUnchanged, stopUnchanged, envUnchanged
<1>1. ASSUME NEW s \in Sessions, Accept(s) PROVE RemoteInv'
  BY <1>1 DEF Accept
<1>2. ASSUME NEW s \in Sessions, ProtoGet(s) PROVE RemoteInv'
  BY <1>2 DEF ProtoGet, FailEarly
<1>3. ASSUME NEW s \in Sessions, GetWSConn(s) PROVE RemoteInv'
  BY <1>3 DEF GetWSConn, FailEarly, Reserve, Connected, DialFails
<1>4. ASSUME NEW s \in Sessions, SendConnect(s) PROVE RemoteInv'
  BY <1>4 DEF SendConnect, FailEarly
<1>5. ASSUME NEW s \in Sessions, ConnectSent(s) PROVE RemoteInv'
  <2>1. WriteOk(taken[s], s, "connect") \/ WriteError(taken[s])
    BY <1>5 DEF ConnectSent
  <2>2. /\ epoch' = epoch /\ held' \subseteq held \cup {s}
        /\ (alive' <=> alive) /\ (writer' => writer) /\ (~alive' => held' = {})
    BY <2>1, WriteFacts
  <2>3. WriteError(taken[s]) => held' = held
    BY DEF WriteError
  <2> QED BY <1>5, <2>1, <2>2, <2>3 DEF ConnectSent, FailEarly
<1>6. ASSUME NEW s \in Sessions, StoreConn(s) PROVE RemoteInv'
  BY <1>6 DEF StoreConn
<1>7. ASSUME NEW s \in Sessions, WaitAnswer(s) PROVE RemoteInv'
  BY <1>7 DEF WaitAnswer
<1>8. ASSUME NEW s \in Sessions, ProtoAck(s) PROVE RemoteInv'
  BY <1>8 DEF ProtoAck, Started
<1>9. ASSUME NEW s \in Sessions, FlushRead(s) PROVE RemoteInv'
  BY <1>9 DEF FlushRead
<1>10. ASSUME NEW s \in Sessions, FlushSend(s) PROVE RemoteInv'
  BY <1>10 DEF FlushSend
<1>11. ASSUME NEW s \in Sessions, FlushSent(s) PROVE RemoteInv'
  <2>1. WriteOk(taken[s], s, "data") \/ WriteError(taken[s])
    BY <1>11 DEF FlushSent
  <2>2. /\ epoch' = epoch /\ held' \subseteq held \cup {s}
        /\ (alive' <=> alive) /\ (writer' => writer) /\ (~alive' => held' = {})
    BY <2>1, WriteFacts
  <2>3. WriteError(taken[s]) => held' = held
    BY DEF WriteError
  <2> QED BY <1>11, <2>1, <2>2, <2>3 DEF FlushSent, Started
<1>12. ASSUME NEW s \in Sessions, Cleanup(s) PROVE RemoteInv'
  BY <1>12 DEF Cleanup, Closes
<1>13. ASSUME NEW s \in Sessions, CleanupClosed(s) PROVE RemoteInv'
  <2>1. WriteOk(taken[s], s, "close") \/ WriteError(taken[s])
    BY <1>13 DEF CleanupClosed
  <2>2. /\ epoch' = epoch /\ held' \subseteq held \cup {s}
        /\ (alive' <=> alive) /\ (writer' => writer) /\ (~alive' => held' = {})
        /\ held' \subseteq held
        /\ taken[s] = epoch \/ s \notin held => s \notin held' \/ ~writer'
    BY <2>1, WriteFacts
  <2>3. WriteError(taken[s]) => held' = held
    BY DEF WriteError
  <2> QED BY <1>13, <2>1, <2>2, <2>3 DEF CleanupClosed
<1>14. ASSUME NEW s \in Sessions, CleanupRelease(s) PROVE RemoteInv'
  BY <1>14 DEF CleanupRelease
<1>15. ASSUME NEW s \in Sessions, FromSelect(s) PROVE RemoteInv'
  BY <1>15, FromSelectFacts
<1>16. ASSUME NEW s \in Sessions, FromWriteFails(s) PROVE RemoteInv'
  BY <1>16 DEF FromWriteFails
<1>17. ASSUME NEW s \in Sessions, FromExit(s) PROVE RemoteInv'
  BY <1>17 DEF FromExit
<1>18. ASSUME NEW s \in Sessions, FromWritten(s) PROVE RemoteInv'
  BY <1>18 DEF FromWritten
<1>19. ASSUME NEW s \in Sessions, ToReadFails(s) PROVE RemoteInv'
  BY <1>19 DEF ToReadFails
<1>20. ASSUME NEW s \in Sessions, ToSend(s) PROVE RemoteInv'
  BY <1>20 DEF ToSend
<1>21. ASSUME NEW s \in Sessions, ToSent(s) PROVE RemoteInv'
  <2>1. WriteOk(taken[s], s, "data") \/ WriteError(taken[s])
    BY <1>21 DEF ToSent
  <2>2. /\ epoch' = epoch /\ held' \subseteq held \cup {s}
        /\ (alive' <=> alive) /\ (writer' => writer) /\ (~alive' => held' = {})
    BY <2>1, WriteFacts
  <2>3. WriteError(taken[s]) => held' = held
    BY DEF WriteError
  <2> QED BY <1>21, <2>1, <2>2, <2>3 DEF ToSent
<1>22. ASSUME NEW s \in Sessions, ToUpstream(s) PROVE RemoteInv'
  BY <1>22 DEF ToUpstream
<1>23. ASSUME NEW s \in Sessions, ToClosed(s) PROVE RemoteInv'
  <2>1. WriteOk(taken[s], s, "close") \/ WriteError(taken[s])
    BY <1>23 DEF ToClosed
  <2>2. /\ epoch' = epoch /\ held' \subseteq held \cup {s}
        /\ (alive' <=> alive) /\ (writer' => writer) /\ (~alive' => held' = {})
        /\ held' \subseteq held
        /\ taken[s] = epoch \/ s \notin held => s \notin held' \/ ~writer'
    BY <2>1, WriteFacts
  <2>3. WriteError(taken[s]) => held' = held
    BY DEF WriteError
  <2> QED BY <1>23, <2>1, <2>2, <2>3 DEF ToClosed
<1>24. ASSUME NEW s \in Sessions, ToExit(s) PROVE RemoteInv'
  BY <1>24 DEF ToExit
<1>25. ASSUME NEW s \in Sessions, ToRead(s) PROVE RemoteInv'
  BY <1>25 DEF ToRead
<1>26. ASSUME NEW s \in Sessions, ClientGone(s) PROVE RemoteInv'
  BY <1>26 DEF ClientGone
<1>27. ASSUME NEW s \in Sessions, RemoteAnswers(s) PROVE RemoteInv'
  BY <1>27 DEF RemoteAnswers
<1>28. ASSUME NEW s \in Sessions, RemoteSends(s) PROVE RemoteInv'
  BY <1>28 DEF RemoteSends
<1>29. ASSUME NEW s \in Sessions, StopVisit(s) PROVE RemoteInv'
  BY <1>29 DEF StopVisit
<1>30. CASE PullerLoop
  BY <1>30 DEF PullerLoop, Connected, DialFails
<1>31. CASE PullerRead
  BY <1>31 DEF PullerRead
<1>32. CASE PullerReadFails
  BY <1>32 DEF PullerReadFails
<1>33. CASE DeliverMessage
  BY <1>33 DEF DeliverMessage
<1>34. CASE PullerReply
  BY <1>34 DEF PullerReply
<1>35. CASE PullerReplied
  <2>1. epoch' = epoch /\ held' \subseteq held /\ (alive' <=> alive) /\ (writer' => writer)
    <3>1. CASE WriteError(replying)
      BY <3>1 DEF WriteError
    <3>2. CASE WriteOk(replying, pulled[1], "close")
      BY <3>2 DEF WriteOk, Received
    <3> QED BY <1>35, <3>1, <3>2 DEF PullerReplied
  <2> QED BY <1>35, <2>1 DEF PullerReplied
<1>36. CASE StopDone
  BY <1>36 DEF StopDone
<1>37. CASE StopWSConns
  BY <1>37 DEF StopWSConns
<1>38. CASE StopOver
  BY <1>38 DEF StopOver
<1>39. CASE TransportDies
  BY <1>39 DEF TransportDies
<1>40. CASE UNCHANGED vars
  BY <1>40 DEF vars
<1> QED
  BY <1>1, <1>2, <1>3, <1>4, <1>5, <1>6, <1>7, <1>8, <1>9, <1>10, <1>11,
     <1>12, <1>13, <1>14, <1>15, <1>16, <1>17, <1>18, <1>19, <1>20, <1>21,
     <1>22, <1>23, <1>24, <1>25, <1>26, <1>27, <1>28, <1>29, <1>30, <1>31,
     <1>32, <1>33, <1>34, <1>35, <1>36, <1>37, <1>38, <1>39, <1>40
  DEF Next, HandleConn, CopyFromWS, CopyToWS, WebsocketPuller, StopLocal

\* A session that is over leaves no connection behind at the remote: its CLOSE is
\* the last word on the transport in use, or that transport is about to go.
THEOREM CloseIsLastWord == Spec => []NoOrphan
<1>1. RemoteInv => NoOrphan
  BY DEF RemoteInv, SentInv, Told, NoOrphan, Done
<1> QED BY <1>1, RemoteInit, RemoteNext, PTL DEF Spec

-----------------------------------------------------------------------------
(* Types                                                                    *)

\* What a session has besides its places, and what the puller holds.
ChanTypes ==
    /\ answer \in [Sessions -> Messages]
    /\ msgChan \in [Sessions -> Seq(Messages)]
    /\ \A s \in Sessions : Len(msgChan[s]) <= MsgCap
    /\ quit \in SUBSET Sessions
    /\ net \in [Sessions -> {"open", "gone", "closed"}]
    /\ puller \in PullerStates
    /\ pulled \in (Sessions \X Messages) \cup {None}
    /\ puller = "deliver" => pulled \in Sessions \X Messages
    /\ stop \in {"no", "done", "range", "over"} /\ unvisited \in SUBSET Sessions
    /\ up \in 0..MaxUp

\* The transport, its remote end, and the epochs that goroutines remember.
LinkTypes ==
    /\ epoch \in Epochs /\ alive \in BOOLEAN /\ writer \in BOOLEAN /\ connected \in BOOLEAN
    /\ inbox \in Seq(Sessions \X Messages)
    /\ remote \in [Sessions -> {"none", "asked", "answered"}]
    /\ held \in SUBSET Sessions
    /\ down \in 0..MaxDown

Remembered ==
    /\ taken \in [Sessions -> Epochs]
    /\ reading \in Epochs /\ replying \in Epochs

TInv == ChanTypes /\ LinkTypes /\ Remembered

LEMMA TypesInit == Init => TInv
<1> SUFFICES ASSUME Init PROVE TInv
  OBVIOUS
<1>1. ChanTypes
  <2>1. /\ answer \in [Sessions -> Messages] /\ msgChan = [s \in Sessions |-> <<>>]
        /\ <<>> \in Seq(Messages) /\ Len(<<>>) = 0 /\ MsgCap \in Nat /\ up \in 0..MaxUp
    BY SessionAssumption DEF Init, Messages
  <2> QED BY <2>1 DEF Init, ChanTypes, PullerStates
<1>2. LinkTypes
  <2>1. /\ epoch \in Epochs /\ inbox \in Seq(Sessions \X Messages) /\ down \in 0..MaxDown
    BY SessionAssumption DEF Init, Epochs
  <2> QED BY <2>1 DEF Init, LinkTypes
<1>3. Remembered
  BY SessionAssumption DEF Init, Remembered, Epochs
<1> QED BY <1>1, <1>2, <1>3 DEF TInv

\* A write, an answer of the remote, and a dial leave a transport as it should be.
LEMMA WriteTypes ==
    ASSUME LinkTypes, NEW e, NEW s, NEW m \in {"connect", "data", "close"},
           s \in Sessions \/ m = "close", WriteOk(e, s, m) \/ WriteError(e)
    PROVE  LinkTypes' /\ epoch' = epoch
<1>1. CASE WriteError(e)
  BY <1>1 DEF WriteError, LinkTypes, remoteVars
<1>2. CASE WriteOk(e, s, m) /\ alive
  <2>1. UNCHANGED <<linkVars, inbox, down>> /\ Received(s, m)
    BY <1>2 DEF WriteOk
  <2>2. held' \in SUBSET Sessions
    BY <2>1 DEF Received, LinkTypes
  <2>3. remote' \in [Sessions -> {"none", "asked", "answered"}]
    BY <2>1 DEF Received, LinkTypes
  <2> QED BY <2>1, <2>2, <2>3 DEF LinkTypes, linkVars
<1>3. CASE WriteOk(e, s, m) /\ ~alive
  BY <1>3 DEF WriteOk, LinkTypes, linkVars, remoteVars
<1> QED BY <1>1, <1>2, <1>3

LEMMA DialTypes ==
    ASSUME LinkTypes, down' = down, (Connected /\ epoch < MaxEpoch) \/ DialFails
    PROVE  LinkTypes'
<1>1. CASE Connected /\ epoch < MaxEpoch
  <2>1. epoch' \in Epochs
    BY <1>1, SessionAssumption DEF Connected, LinkTypes, Epochs
  <2> QED BY <1>1, <2>1 DEF Connected, LinkTypes
<1>2. CASE DialFails
  BY <1>2 DEF DialFails, LinkTypes
<1> QED BY <1>1, <1>2

\* A goroutine remembers only epochs of transports that there were, and what is on
\* its way comes from a session.
LEMMA LinkNext == TInv /\ [Next]_vars => LinkTypes' /\ Remembered'
<1> SUFFICES ASSUME TInv, [Next]_vars PROVE LinkTypes' /\ Remembered'
  OBVIOUS
<1>a. 0 \in Epochs
  BY SessionAssumption DEF Epochs
<1> USE DEF TInv, handleVars, connVars, pullVars, stopVars, fromUnchanged, pullUnchanged,
        stopUnchanged, envUnchanged
<1>1. CASE UNCHANGED <<linkVars, remoteVars, taken, reading, replying>>
  BY <1>1 DEF LinkTypes, Remembered, linkVars, remoteVars
<1>2. ASSUME NEW s \in Sessions,
             SendConnect(s) \/ FlushSend(s) \/ Cleanup(s) \/ ToSend(s) \/ ToUpstream(s)
      PROVE  LinkTypes' /\ Remembered'
  <2>1. /\ UNCHANGED <<linkVars, remoteVars, reading, replying>>
        /\ taken' = taken \/ taken' = [taken EXCEPT ![s] = epoch]
    BY <1>2 DEF SendConnect, FlushSend, Cleanup, ToSend, ToUpstream, BeginWrite, WriteRefused,
       FailEarly
  <2> QED BY <2>1 DEF LinkTypes, Remembered, linkVars, remoteVars
<1>3. ASSUME NEW s \in Sessions,
             ConnectSent(s) \/ FlushSent(s) \/ CleanupClosed(s) \/ ToSent(s) \/ ToClosed(s)
      PROVE  LinkTypes' /\ Remembered'
  <2>1. /\ \/ WriteOk(taken[s], s, "connect") \/ WriteOk(taken[s], s, "data")
           \/ WriteOk(taken[s], s, "close") \/ WriteError(taken[s])
        /\ EndWrite(s) /\ UNCHANGED <<reading, replying>>
    BY <1>3 DEF ConnectSent, FlushSent, CleanupClosed, ToSent, ToClosed, FailEarly
  <2>2. LinkTypes'
    BY <2>1, WriteTypes
  <2>3. Remembered'
    BY <1>a, <2>1 DEF EndWrite, Remembered
  <2> QED BY <2>2, <2>3
<1>4. ASSUME NEW s \in Sessions, GetWSConn(s) PROVE LinkTypes' /\ Remembered'
  <2>1. /\ UNCHANGED <<taken, reading, replying>>
        /\ \/ UNCHANGED <<linkVars, remoteVars>>
           \/ ((Connected /\ epoch < MaxEpoch) \/ DialFails) /\ down' = down
    BY <1>4 DEF GetWSConn, FailEarly, Reserve
  <2> QED BY <2>1, <1>1, DialTypes DEF Remembered
<1>5. CASE PullerLoop
  <2>1. /\ UNCHANGED <<taken, replying>> /\ reading' \in {reading, epoch, epoch'}
        /\ \/ UNCHANGED <<linkVars, remoteVars>>
           \/ ((Connected /\ epoch < MaxEpoch) \/ DialFails) /\ down' = down
    BY <1>5 DEF PullerLoop
  <2>2. LinkTypes'
    BY <2>1, DialTypes DEF LinkTypes, linkVars, remoteVars
  <2> QED BY <2>1, <2>2 DEF Remembered, LinkTypes
<1>6. CASE PullerRead
  <2>1. /\ inbox # <<>> /\ inbox' = Tail(inbox) /\ reading' = 0
        /\ UNCHANGED <<linkVars, replying, remote, held, down, taken>>
    BY <1>6 DEF PullerRead
  <2>2. inbox' \in Seq(Sessions \X Messages)
    BY <2>1 DEF LinkTypes
  <2> QED BY <1>a, <2>1, <2>2 DEF LinkTypes, Remembered, linkVars
<1>7. CASE PullerReadFails
  <2>1. /\ connected' = FALSE /\ writer' = FALSE /\ reading' = 0
        /\ UNCHANGED <<epoch, alive, replying, remoteVars, taken>>
    BY <1>7 DEF PullerReadFails
  <2> QED BY <1>a, <2>1 DEF LinkTypes, Remembered, remoteVars
<1>8. CASE PullerReply
  <2>1. /\ replying' \in {replying, epoch}
        /\ UNCHANGED <<linkVars, reading, remoteVars, taken>>
    BY <1>8 DEF PullerReply
  <2> QED BY <2>1 DEF LinkTypes, Remembered, linkVars, remoteVars
<1>9. CASE PullerReplied
  <2>1. /\ WriteOk(replying, pulled[1], "close") \/ WriteError(replying)
        /\ replying' = 0 /\ UNCHANGED <<reading, taken>>
    BY <1>9 DEF PullerReplied
  <2>2. LinkTypes'
    BY <2>1, WriteTypes
  <2> QED BY <1>a, <2>1, <2>2 DEF Remembered
<1>10. CASE StopWSConns
  <2>1. <<>> \in Seq(Sessions \X Messages)
    OBVIOUS
  <2> QED BY <1>10, <2>1 DEF StopWSConns, LinkTypes, Remembered
<1>11. CASE TransportDies
  BY <1>11 DEF TransportDies, LinkTypes, Remembered
<1>12. ASSUME NEW s \in Sessions, RemoteAnswers(s) \/ RemoteSends(s)
       PROVE  LinkTypes' /\ Remembered'
  <2>1. PICK m \in Messages :
           /\ inbox' = Append(inbox, <<s, m>>)
           /\ held' = held \/ held' = held \ {s}
           /\ remote' = remote \/ remote' = [remote EXCEPT ![s] = "answered"]
           /\ down' = down \/ (down > 0 /\ down' = down - 1)
           /\ UNCHANGED <<linkVars, taken, reading, replying>>
    BY <1>12 DEF RemoteAnswers, RemoteSends, Messages
  <2>2. inbox' \in Seq(Sessions \X Messages)
    BY <2>1 DEF LinkTypes
  <2>3. down' \in 0..MaxDown
    BY <2>1, SessionAssumption DEF LinkTypes
  <2> QED BY <2>1, <2>2, <2>3 DEF LinkTypes, Remembered, linkVars
<1>13. ASSUME NEW s \in Sessions,
              \/ Accept(s) \/ ProtoGet(s) \/ StoreConn(s) \/ WaitAnswer(s) \/ ProtoAck(s)
              \/ FlushRead(s) \/ CleanupRelease(s) \/ CopyFromWS(s) \/ FromWritten(s)
              \/ ToReadFails(s) \/ ToExit(s) \/ ToRead(s) \/ ClientGone(s) \/ StopVisit(s)
       PROVE  UNCHANGED <<linkVars, remoteVars, taken, reading, replying>>
  BY <1>13 DEF Accept, ProtoGet, FailEarly, StoreConn, WaitAnswer, ProtoAck, FlushRead,
     CleanupRelease, CopyFromWS, FromSelect, FromWriteFails, FromExit, FromWritten,
     ToReadFails, ToExit, ToRead, ClientGone, StopVisit
<1>14. CASE DeliverMessage \/ StopDone \/ StopOver \/ UNCHANGED vars
  BY <1>1, <1>14 DEF DeliverMessage, StopDone, StopOver, vars
<1> QED
  BY <1>1, <1>2, <1>3, <1>4, <1>5, <1>6, <1>7, <1>8, <1>9, <1>10, <1>11, <1>12, <1>13, <1>14
  DEF Next, HandleConn, CopyToWS, WebsocketPuller, StopLocal

\* A step that may close the socket and Quit of a session and nothing else here.
LEMMA QuietChan ==
    ASSUME ChanTypes, NEW s \in Sessions,
           net' \in {net, [net EXCEPT ![s] = "gone"], [net EXCEPT ![s] = "closed"]},
           quit' \in {quit, quit \cup {s}},
           UNCHANGED <<answer, msgChan, pullVars, stopVars, up>>
    PROVE  ChanTypes'
BY DEF ChanTypes, pullVars, stopVars

\* A session takes a message out of its channel.
LEMMA TakesChan ==
    ASSUME ChanTypes, NEW s \in Sessions, msgChan[s] # <<>>,
           msgChan' = [msgChan EXCEPT ![s] = Tail(@)],
           answer' \in {answer, [answer EXCEPT ![s] = Head(msgChan[s])]},
           UNCHANGED <<quit, net, pullVars, stopVars, up>>
    PROVE  ChanTypes'
<1>1. /\ Head(msgChan[s]) \in Messages /\ Tail(msgChan[s]) \in Seq(Messages)
      /\ Len(Tail(msgChan[s])) <= MsgCap
  BY SessionAssumption DEF ChanTypes
<1>2. answer' \in [Sessions -> Messages]
  BY <1>1 DEF ChanTypes
<1>3. msgChan' \in [Sessions -> Seq(Messages)]
  BY <1>1 DEF ChanTypes
<1>4. \A t \in Sessions : Len(msgChan'[t]) <= MsgCap
  BY <1>1 DEF ChanTypes
<1> QED BY <1>2, <1>3, <1>4 DEF ChanTypes, pullVars, stopVars

LEMMA ChanNext == Inv /\ TInv /\ [Next]_vars => ChanTypes'
<1> SUFFICES ASSUME Inv, TInv, [Next]_vars PROVE ChanTypes'
  OBVIOUS
<1> USE DEF TInv, fromUnchanged, pullUnchanged, stopUnchanged, envUnchanged
<1>1. ASSUME NEW s \in Sessions,
             \/ Accept(s) \/ ProtoGet(s) \/ GetWSConn(s) \/ SendConnect(s) \/ ConnectSent(s)
             \/ StoreConn(s) \/ ProtoAck(s) \/ FlushRead(s) \/ FlushSend(s) \/ Cleanup(s)
             \/ CleanupClosed(s) \/ CleanupRelease(s)
      PROVE  ChanTypes'
  <2>1. /\ net' \in {net, [net EXCEPT ![s] = "gone"], [net EXCEPT ![s] = "closed"]}
        /\ quit' \in {quit, quit \cup {s}}
        /\ UNCHANGED <<answer, msgChan, pullVars, stopVars, up>>
    BY <1>1 DEF Accept, ProtoGet, GetWSConn, Reserve, SendConnect, ConnectSent, FailEarly,
       StoreConn, ProtoAck, FlushRead, FlushSend, Cleanup, CleanupClosed, CleanupRelease,
       CloseNet, handleVars, connVars
  <2> QED BY <2>1, QuietChan
<1>2. ASSUME NEW s \in Sessions,
             \/ FromWriteFails(s) \/ FromExit(s) \/ FromWritten(s) \/ ToReadFails(s)
             \/ ToSend(s) \/ ToSent(s) \/ ToUpstream(s) \/ ToClosed(s) \/ ToExit(s)
             \/ ClientGone(s) \/ RemoteAnswers(s) \/ RemoteSends(s)
      PROVE  ChanTypes'
  <2>1. /\ net' \in {net, [net EXCEPT ![s] = "gone"], [net EXCEPT ![s] = "closed"]}
        /\ quit' \in {quit, quit \cup {s}}
        /\ UNCHANGED <<answer, msgChan, pullVars, stopVars, up>>
    BY <1>2 DEF FromWriteFails, FromExit, FromCloses, FromWritten, ToReadFails, ToSend, ToSent,
       ToUpstream, ToClosed, ToExit, ClientGone, RemoteAnswers, RemoteSends, CloseNet,
       handleVars, connVars
  <2> QED BY <2>1, QuietChan
<1>3. ASSUME NEW s \in Sessions, WaitAnswer(s) PROVE ChanTypes'
  <2>1. CASE msgChan' = msgChan /\ answer' = answer
    BY <1>3, <2>1, QuietChan DEF WaitAnswer
  <2>2. CASE /\ msgChan[s] # <<>> /\ msgChan' = [msgChan EXCEPT ![s] = Tail(@)]
             /\ answer' = [answer EXCEPT ![s] = Head(msgChan[s])]
    BY <1>3, <2>2, TakesChan DEF WaitAnswer
  <2> QED BY <1>3, <2>1, <2>2 DEF WaitAnswer
<1>4. ASSUME NEW s \in Sessions, FromSelect(s) PROVE ChanTypes'
  <2>1. UNCHANGED <<answer, quit, net, pullVars, stopVars, up>>
    BY <1>4 DEF FromSelect, handleVars
  <2>2. CASE msgChan' = msgChan
    BY <2>1, <2>2, QuietChan
  <2>3. CASE msgChan[s] # <<>> /\ msgChan' = [msgChan EXCEPT ![s] = Tail(@)]
    BY <2>1, <2>3, TakesChan
  <2> QED BY <1>4, <2>2, <2>3 DEF FromSelect
<1>5. ASSUME NEW s \in Sessions, FlushSent(s) \/ ToRead(s) PROVE ChanTypes'
  <2>1. /\ up' = up \/ (up > 0 /\ up' = up - 1)
        /\ UNCHANGED <<answer, msgChan, quit, net, pullVars, stopVars>>
    BY <1>5 DEF FlushSent, ToRead, handleVars, connVars
  <2>2. up' \in 0..MaxUp
    BY <2>1, SessionAssumption DEF ChanTypes
  <2> QED BY <2>1, <2>2 DEF ChanTypes, pullVars, stopVars
<1>6. CASE PullerRead
  <2>1. /\ inbox # <<>> /\ pulled' = Head(inbox) /\ puller' \in {"deliver", "reply"}
        /\ UNCHANGED <<answer, msgChan, quit, net, stopVars, up>>
    BY <1>6 DEF PullerRead, handleVars, connVars
  <2>2. pulled' \in Sessions \X Messages
    BY <2>1 DEF LinkTypes
  <2> QED BY <2>1, <2>2 DEF ChanTypes, stopVars, PullerStates
<1>7. CASE DeliverMessage
  <2>1. pulled \in Sessions \X Messages
    BY <1>7 DEF DeliverMessage, ChanTypes
  <2>2. PICK s \in Sessions, m \in Messages : pulled = <<s, m>>
    BY <2>1
  <2>3. UNCHANGED <<answer, stopVars, up>>
    BY <1>7 DEF DeliverMessage, handleVars
  <2>4. CASE /\ HasRoom(s) /\ msgChan' = [msgChan EXCEPT ![s] = Append(@, m)]
             /\ puller' = "loop" /\ pulled' = None /\ UNCHANGED <<quit, net>>
    <3>1. /\ Append(msgChan[s], m) \in Seq(Messages)
          /\ Len(Append(msgChan[s], m)) <= MsgCap
      BY <2>4, SessionAssumption DEF HasRoom, ChanTypes
    <3>2. msgChan' \in [Sessions -> Seq(Messages)]
      BY <2>4, <3>1 DEF ChanTypes
    <3>3. \A t \in Sessions : Len(msgChan'[t]) <= MsgCap
      BY <2>4, <3>1 DEF ChanTypes
    <3> QED BY <2>3, <2>4, <3>2, <3>3 DEF ChanTypes, stopVars, PullerStates
  <2>5. CASE /\ puller' = "loop" /\ pulled' = None /\ UNCHANGED <<msgChan, quit, net>>
    BY <2>3, <2>5 DEF ChanTypes, stopVars, PullerStates
  <2>6. CASE /\ quit' = quit \cup {s} /\ net' = [net EXCEPT ![s] = "closed"]
             /\ puller' = "reply" /\ UNCHANGED <<msgChan, pulled>>
    BY <2>3, <2>6 DEF ChanTypes, stopVars, PullerStates
  <2> QED BY <1>7, <2>2, <2>4, <2>5, <2>6 DEF DeliverMessage, CloseNet, connVars
<1>8. CASE PullerLoop \/ PullerReadFails \/ PullerReply \/ PullerReplied
  <2>1. /\ puller' \in {puller, "loop", "read", "over", "replying"}
        /\ pulled' \in {pulled, None}
        /\ puller' = puller => pulled' = pulled
        /\ UNCHANGED <<answer, msgChan, quit, net, stopVars, up>>
    BY <1>8 DEF PullerLoop, PullerReadFails, PullerReply, PullerReplied, handleVars, connVars
  <2> QED BY <2>1 DEF ChanTypes, stopVars, PullerStates
<1>9. CASE StopDone \/ StopWSConns \/ StopOver \/ TransportDies \/ UNCHANGED vars
  <2>1. /\ stop' \in {stop, "done", "range", "over"} /\ unvisited' \in {unvisited, Sessions}
        /\ UNCHANGED <<answer, msgChan, quit, net, pullVars, up>>
    BY <1>9 DEF StopDone, StopWSConns, StopOver, TransportDies, vars, handleVars, connVars,
       stopVars
  <2> QED BY <2>1 DEF ChanTypes, pullVars
<1>10. ASSUME NEW s \in Sessions, StopVisit(s) PROVE ChanTypes'
  <2>1. /\ unvisited' = unvisited \ {s} /\ stop' = stop
        /\ quit' \in {quit, quit \cup {s}}
        /\ net' \in {net, [net EXCEPT ![s] = "closed"]}
        /\ UNCHANGED <<answer, msgChan, pullVars, up>>
    BY <1>10 DEF StopVisit, StopCloses, CloseNet, handleVars
  <2> QED BY <2>1 DEF ChanTypes, pullVars
<1> QED
  BY <1>1, <1>2, <1>3, <1>4, <1>5, <1>6, <1>7, <1>8, <1>9, <1>10
  DEF Next, HandleConn, CopyFromWS, CopyToWS, WebsocketPuller, StopLocal

\* The channel of a session never holds more than MsgCap messages, and the puller
\* delivers only what came from a session's remote end, whatever goroutine ends
\* the session meanwhile (TypeOK).
THEOREM TypeCorrect == Spec => []TypeOK
<1>1. TInv /\ [Next]_vars /\ Inv => TInv'
  BY LinkNext, ChanNext DEF TInv
<1>2. Inv /\ Exact /\ TInv => TypeOK
  <2> SUFFICES ASSUME Inv, Exact, TInv PROVE TypeOK
    OBVIOUS
  <2>1. active \in Int /\ counted \in Int
    <3>1. Holders \subseteq Sessions /\ EndedOnes \subseteq Sessions
      BY DEF Holders, EndedOnes
    <3>2. Cardinality(Holders) \in Nat /\ Cardinality(EndedOnes) \in Nat
      BY <3>1, SessionAssumption, FS_Subset, FS_CardinalityType
    <3> QED BY <3>2 DEF Exact
  <2> QED BY <2>1 DEF TypeOK, Inv, Shape, TInv, ChanTypes, LinkTypes, Remembered
<1> QED
  BY <1>1, <1>2, InvInit, InvNext, ExactInit, ExactNext, TypesInit, PTL DEF Spec
=============================================================================
