--------------------------- MODULE RelayHop_proofs ---------------------------
(***************************************************************************)
(* Proofs about RelayHop: the load count of the relay is exact, and no     *)
(* client loses its Conn without a word, for every finite set of clients   *)
(* and any number of links and messages.                                   *)
(***************************************************************************)
EXTENDS RelayHop, FiniteSetTheorems, TLAPS

HandlerStates ==
    {"read", "pick", "store", "connect", "take", "write", "failed", "tell", "drop", "over"}
PullerStates ==
    {"loop", "connect", "take", "write", "failed", "snap", "pull", "pulled", "lost",
     "sweep", "swept", "drop"}

\* Where a handler has a Conn whose message it forwards or has forwarded.
Forwarding == {"connect", "take", "write", "failed", "drop"}

\* The client was told, closed the connection itself, or is gone.
Heard(c) == told[c] \in {"nack", "end"} \/ c \in closed \cup gone

\* A Conn is in Conns until it is released.
Shape ==
    /\ asked \in SUBSET Cids /\ picked \in SUBSET asked /\ released \in SUBSET picked
    /\ conns = picked \ released
    /\ pc \in [Procs -> HandlerStates \cup PullerStates]
    /\ \A c \in Cids : pc[c] \in HandlerStates
    /\ pc[Puller] \in PullerStates
    /\ op \in [Procs -> Ops] /\ op[Puller] = "REPLY"
    /\ told \in [Cids -> {"no", "ack", "nack", "end"}]

\* Who holds ConnectLock is in Connect, and nobody finds the relay connected.
LockInv ==
    /\ lock \in Procs \cup {Nobody}
    /\ lock # Nobody => ~connected /\ pc[lock] \in Callers

\* A handler that is at l stores its Conn once, and forwards and drops only what
\* it stored; CLOSE goes out for a client that closed, or is gone.
MayBeAt(c, l) ==
    /\ l \in {"pick", "store"} => c \in asked \ picked
    /\ l \in Forwarding =>
          /\ c \in picked
          /\ op[c] = "CLOSE" => c \in closed
          /\ op[c] = "SWEEP" => c \in gone
          /\ op[c] # "REPLY"
    /\ l = "drop" => op[c] \in {"CLOSE", "SWEEP"}

HandlerInv == \A c \in Cids : MayBeAt(c, pc[c])

\* The puller drops only Conns that were stored and whose client has heard.
PullerInv ==
    pc[Puller] \in {"swept", "drop"} => pulled[1] \in picked /\ Heard(pulled[1])

IInv ==
    /\ Shape
    /\ LockInv
    /\ HandlerInv
    /\ PullerInv
    /\ ActiveCountsConns
    /\ UpstreamIsTold

-----------------------------------------------------------------------------
\* Lemmas

\* What Goto does to the places of the processes.
LEMMA GotoFacts ==
    ASSUME Shape, NEW p \in Procs, NEW l \in HandlerStates \cup PullerStates, Goto(p, l)
    PROVE  /\ pc' \in [Procs -> HandlerStates \cup PullerStates]
           /\ pc'[p] = l
           /\ \A q \in Procs \ {p} : pc'[q] = pc[q]
BY DEF Shape, Goto

\* The puller is no handler.
LEMMA PullerIsNoCid == Puller \in Procs /\ Puller \notin Cids /\ Cids \subseteq Procs
BY RelayAssumption DEF Procs

\* A process that is not in Connect, or that moves while nobody is, leaves the
\* lock as it is.
LEMMA LockKept ==
    ASSUME Shape, LockInv, NEW p \in Procs, NEW l \in HandlerStates \cup PullerStates,
           Goto(p, l), lock' = lock, connected' \in {connected, FALSE},
           lock = Nobody \/ pc[p] \notin Callers
    PROVE  LockInv'
<1>1. lock # Nobody => lock # p /\ lock \in Procs
  BY DEF LockInv
<1>2. lock # Nobody => ~connected'
  BY DEF LockInv
<1>3. lock # Nobody => pc'[lock] \in Callers
  <2> SUFFICES ASSUME lock # Nobody
               PROVE  pc'[lock] \in Callers
    OBVIOUS
  <2>1. pc'[lock] = pc[lock]
    BY <1>1, GotoFacts
  <2> QED BY <2>1 DEF LockInv
<1> QED BY <1>2, <1>3 DEF LockInv

\* Conns may be released, clients may ask, close, go and hear, while one process
\* moves: IInv holds if the process may be where it goes and whoever loses its
\* Conn has heard of it or will.
LEMMA StepInv ==
    ASSUME IInv, NEW p \in Procs, NEW l \in HandlerStates \cup PullerStates, Goto(p, l),
           LockInv', ActiveCountsConns',
           picked' = picked, released \subseteq released', released' \subseteq picked,
           conns' = picked' \ released',
           told' \in [Cids -> {"no", "ack", "nack", "end"}],
           \A c \in Cids : Heard(c) => Heard(c)',
           \A c \in released' \ released : Heard(c)' \/ pc'[c] = "tell",
           op' \in [Procs -> Ops], \A q \in Procs \ {p} : op'[q] = op[q],
           asked \subseteq asked', asked' \subseteq Cids,
           closed \subseteq closed', gone \subseteq gone',
           p = Puller => l \in PullerStates /\ PullerInv' /\ op'[p] = "REPLY",
           p # Puller => /\ l \in HandlerStates /\ MayBeAt(p, l)'
                         /\ pulled' = pulled
                         /\ pc[p] = "tell" => Heard(p)'
    PROVE  IInv'
<1>1. /\ pc' \in [Procs -> HandlerStates \cup PullerStates]
      /\ pc'[p] = l
      /\ \A q \in Procs \ {p} : pc'[q] = pc[q]
  BY GotoFacts DEF IInv
<1>2. Shape'
  BY <1>1, PullerIsNoCid DEF IInv, Shape
<1>3. HandlerInv'
  <2> SUFFICES ASSUME NEW c \in Cids
               PROVE  MayBeAt(c, pc[c])'
    BY DEF HandlerInv
  <2>1. CASE c = p
    BY <2>1, <1>1, PullerIsNoCid DEF MayBeAt
  <2>2. CASE c # p
    <3>1. pc'[c] = pc[c] /\ op'[c] = op[c] /\ MayBeAt(c, pc[c])
      BY <2>2, <1>1, PullerIsNoCid DEF IInv, HandlerInv
    <3> QED BY <3>1 DEF MayBeAt
  <2> QED BY <2>1, <2>2
<1>4. PullerInv'
  <2>1. CASE p # Puller
    <3>1. pc'[Puller] = pc[Puller] /\ pulled' = pulled
      BY <2>1, <1>1, PullerIsNoCid
    <3>2. pc[Puller] \in {"swept", "drop"} =>
             pulled[1] \in picked /\ pulled[1] \in Cids /\ Heard(pulled[1])
      BY DEF IInv, PullerInv, Shape
    <3>3. pc[Puller] \in {"swept", "drop"} => Heard(pulled[1])'
      BY <3>1, <3>2 DEF Heard
    <3> QED BY <3>1, <3>2, <3>3 DEF PullerInv
  <2> QED BY <2>1
<1>5. UpstreamIsTold'
  <2> SUFFICES ASSUME NEW c \in picked' \ conns'
               PROVE  Heard(c)' \/ pc'[c] = "tell"
    BY DEF UpstreamIsTold, Heard
  <2>1. c \in Cids /\ c \in picked /\ c \in released'
    BY DEF IInv, Shape
  <2>2. CASE c \in released
    <3>1. Heard(c) \/ pc[c] = "tell"
      BY <2>1, <2>2 DEF IInv, Shape, UpstreamIsTold, Heard
    <3>2. c # p => pc'[c] = pc[c]
      BY <2>1, <1>1, PullerIsNoCid
    <3> QED BY <2>1, <3>1, <3>2, PullerIsNoCid
  <2>3. CASE c \notin released
    BY <2>1, <2>3
  <2> QED BY <2>2, <2>3
<1> QED BY <1>2, <1>3, <1>4, <1>5 DEF IInv

\* The simple case: no Conn and no client changes.
LEMMA MoveInv ==
    ASSUME IInv, NEW p \in Procs, NEW l \in HandlerStates \cup PullerStates, Goto(p, l),
           UNCHANGED <<connVars, told, op, asked, closed, gone>>,
           LockInv',
           p # Puller => pulled' = pulled,
           p = Puller => l \in PullerStates \ {"swept", "drop"},
           p # Puller => l \in HandlerStates /\ pc[p] # "tell" /\ MayBeAt(p, l)
    PROVE  IInv'
<1>1. pc'[p] = l
  BY GotoFacts DEF IInv
<1>2. p = Puller => PullerInv'
  BY <1>1 DEF PullerInv
<1>3. p # Puller => MayBeAt(p, l)'
  BY DEF MayBeAt, connVars
<1>4. /\ picked' = picked /\ released' = released /\ conns' = conns
      /\ conns = picked \ released /\ released \subseteq picked
      /\ told' = told /\ told \in [Cids -> {"no", "ack", "nack", "end"}]
      /\ op' = op /\ op \in [Procs -> Ops] /\ op[Puller] = "REPLY"
      /\ asked' = asked /\ asked \subseteq Cids /\ closed' = closed /\ gone' = gone
  BY DEF connVars, IInv, Shape
<1>5. ActiveCountsConns'
  BY DEF IInv, ActiveCountsConns, connVars
<1>6. \A c \in Cids : Heard(c) => Heard(c)'
  BY <1>4 DEF Heard
<1> QED BY <1>2, <1>3, <1>4, <1>5, <1>6, StepInv

\* Dropping a Conn that was stored keeps the load count, also when the Conn was
\* dropped before.
LEMMA DropFacts ==
    ASSUME Shape, ActiveCountsConns, NEW c \in picked, Drop(c)
    PROVE  /\ picked' = picked
           /\ released' = released \cup {c}
           /\ conns' = picked' \ released'
           /\ ActiveCountsConns'
<1>1. /\ picked' = picked /\ released' = released \cup {c}
      /\ conns' = conns \ {c} /\ conns = picked \ released
      /\ active' = IF c \in released THEN active ELSE active - 1
  BY DEF Drop, ReleaseRelay, Shape
<1>2. IsFiniteSet(conns)
  BY RelayAssumption, FS_Subset DEF Shape
<1>3. active' = Cardinality(conns')
  <2>1. CASE c \in released
    BY <2>1, <1>1 DEF ActiveCountsConns
  <2>2. CASE c \notin released
    <3>1. Cardinality(conns \ {c}) = Cardinality(conns) - 1
      BY <2>2, <1>1, <1>2, FS_RemoveElement
    <3> QED BY <2>2, <3>1, <1>1 DEF ActiveCountsConns
  <2> QED BY <2>1, <2>2
<1> QED BY <1>1, <1>3 DEF ActiveCountsConns

\* A client that has heard does not unhear, and one that is told of the end has
\* heard.
LEMMA TellsFacts ==
    ASSUME Shape, NEW c \in Cids, NEW what \in {"ack", "end"}, Tells(c, what),
           UNCHANGED <<closed, gone>>
    PROVE  /\ told' \in [Cids -> {"no", "ack", "nack", "end"}]
           /\ \A d \in Cids : Heard(d) => Heard(d)'
           /\ what = "end" => Heard(c)'
<1>1. Hears(c, what) \in {"no", "ack", "nack", "end"}
  BY DEF Hears, Shape
<1>2. /\ told' \in [Cids -> {"no", "ack", "nack", "end"}]
      /\ told'[c] = Hears(c, what)
      /\ \A d \in Cids \ {c} : told'[d] = told[d]
  BY <1>1 DEF Tells, Shape
<1>3. told[c] \in {"nack", "end"} => told'[c] \in {"nack", "end"}
  BY <1>2 DEF Hears
<1>4. what = "end" => told'[c] \in {"nack", "end"} \/ c \in gone
  BY <1>2 DEF Hears
<1> QED BY <1>2, <1>3, <1>4 DEF Heard

\* A step that moves no process and changes no Conn.
LEMMA QuietInv ==
    ASSUME IInv, LockInv', closed \subseteq closed', gone \subseteq gone',
           UNCHANGED <<connVars, told, pc, op, pulled, asked>>
    PROVE  IInv'
<1>1. \A c \in Cids : Heard(c) => Heard(c)'
  BY DEF Heard
<1>2. Shape' /\ ActiveCountsConns'
  BY DEF IInv, Shape, ActiveCountsConns, connVars
<1>3. HandlerInv'
  BY DEF IInv, HandlerInv, MayBeAt, connVars
<1>4. PullerInv'
  BY <1>1 DEF IInv, PullerInv, Heard, connVars
<1>5. UpstreamIsTold'
  BY DEF IInv, UpstreamIsTold, connVars
<1> QED BY <1>2, <1>3, <1>4, <1>5 DEF IInv

-----------------------------------------------------------------------------
\* Connect and WriteMessage

\* Whether Connect succeeds or fails, its caller may go on where it does.
LEMMA ConnectTargets ==
    ASSUME IInv, NEW p \in Procs, pc[p] \in Callers,
           NEW l \in {Connects(pc[p]), Refused(pc[p])}
    PROVE  /\ l \in HandlerStates \cup PullerStates
           /\ p = Puller => l \in PullerStates \ {"swept", "drop"}
           /\ p # Puller => l \in HandlerStates /\ pc[p] # "tell" /\ MayBeAt(p, l)
<1>1. CASE p = Puller
  <2>1. pc[p] \in {"connect", "loop"}
    BY <1>1 DEF IInv, Shape, PullerStates, Callers
  <2> QED BY <1>1, <2>1 DEF Connects, Refused, PullerStates
<1>2. CASE p # Puller
  <2>1. p \in Cids /\ pc[p] \in {"pick", "connect"} /\ MayBeAt(p, pc[p])
    BY <1>2 DEF IInv, Shape, HandlerInv, HandlerStates, Callers, Procs
  <2>2. CASE pc[p] = "pick"
    BY <1>2, <2>1, <2>2 DEF Connects, Refused, HandlerStates, MayBeAt, Forwarding
  <2>3. CASE pc[p] = "connect"
    BY <1>2, <2>1, <2>3 DEF Connects, Refused, HandlerStates, MayBeAt, Forwarding
  <2> QED BY <2>1, <2>2, <2>3
<1> QED BY <1>1, <1>2

\* Connect changes the link and ConnectLock only.
LEMMA ConnectInv == ASSUME IInv, NEW p \in Procs, Connect(p) PROVE IInv'
<1>1. CASE ConnectNot(p)
  <2> DEFINE l == Connects(pc[p])
  <2>1. /\ pc[p] \in Callers /\ connected /\ Goto(p, l)
        /\ UNCHANGED <<connVars, told, op, asked, closed, gone, pulled, lock, connected>>
    BY <1>1 DEF ConnectNot, relayVars, pullVars, clientVars
  <2>2. lock = Nobody
    BY <2>1 DEF IInv, LockInv
  <2>3. LockInv'
    BY <2>1, <2>2 DEF LockInv
  <2> HIDE DEF l
  <2>4. /\ l \in HandlerStates \cup PullerStates
        /\ p = Puller => l \in PullerStates \ {"swept", "drop"}
        /\ p # Puller => l \in HandlerStates /\ pc[p] # "tell" /\ MayBeAt(p, l)
    BY <2>1, ConnectTargets DEF l
  <2> QED BY <2>1, <2>3, <2>4, MoveInv
<1>2. CASE ConnectFails(p)
  <2> DEFINE l == Refused(pc[p])
  <2>1. /\ pc[p] \in Callers /\ lock = Nobody /\ Goto(p, l)
        /\ UNCHANGED <<connVars, told, op, asked, closed, gone, pulled, lock, connected>>
    BY <1>2 DEF ConnectFails, relayVars, pullVars, clientVars
  <2>2. LockInv'
    BY <2>1 DEF LockInv
  <2> HIDE DEF l
  <2>3. /\ l \in HandlerStates \cup PullerStates
        /\ p = Puller => l \in PullerStates \ {"swept", "drop"}
        /\ p # Puller => l \in HandlerStates /\ pc[p] # "tell" /\ MayBeAt(p, l)
    BY <2>1, ConnectTargets DEF l
  <2> QED BY <2>1, <2>2, <2>3, MoveInv
<1>3. CASE ConnectDials(p)
  <2>1. /\ pc[p] \in Callers /\ ~connected /\ lock' = p
        /\ UNCHANGED <<connVars, told, pc, op, pulled, asked, closed, gone, connected>>
    BY <1>3 DEF ConnectDials, procVars, pullVars, clientVars
  <2>2. LockInv'
    BY <2>1 DEF LockInv
  <2> QED BY <2>1, <2>2, QuietInv
<1>4. CASE ConnectEnds(p)
  <2> DEFINE l == Connects(pc[p])
  <2>1. /\ lock = p /\ lock' = Nobody /\ Goto(p, l)
        /\ UNCHANGED <<connVars, told, op, asked, closed, gone, pulled>>
    BY <1>4 DEF ConnectEnds, pullVars, clientVars
  <2>2. pc[p] \in Callers
    BY <2>1, RelayAssumption DEF IInv, LockInv, Procs
  <2>3. LockInv'
    BY <2>1 DEF LockInv
  <2> HIDE DEF l
  <2>4. /\ l \in HandlerStates \cup PullerStates
        /\ p = Puller => l \in PullerStates \ {"swept", "drop"}
        /\ p # Puller => l \in HandlerStates /\ pc[p] # "tell" /\ MayBeAt(p, l)
    BY <2>2, ConnectTargets DEF l
  <2> QED BY <2>1, <2>3, <2>4, MoveInv
<1> QED BY <1>1, <1>2, <1>3, <1>4 DEF Connect

\* A handler whose message could not be forwarded drops its Conn and tells the
\* client next; a CLOSE, and the puller, go on.
LEMMA FailedInv == ASSUME IInv, NEW p \in Procs, Failed(p) PROVE IInv'
<1>1. /\ pc[p] = "failed" /\ Goto(p, AfterFailure(p))
      /\ UNCHANGED <<told, op, asked, closed, gone, lock, connected>>
      /\ p # Puller => pulled' = pulled
  BY DEF Failed, relayVars, clientVars
<1>2. /\ told' \in [Cids -> {"no", "ack", "nack", "end"}]
      /\ op' \in [Procs -> Ops] /\ op' = op /\ op[Puller] = "REPLY"
      /\ asked \subseteq Cids /\ picked \subseteq Cids
      /\ conns = picked \ released /\ released \subseteq picked
  BY <1>1 DEF IInv, Shape
<1>3. \A c \in Cids : Heard(c) => Heard(c)'
  BY <1>1 DEF Heard
<1>4. CASE p # Puller /\ op[p] \in Ending
  <2>1. p \in Cids /\ MayBeAt(p, "failed")
    BY <1>1, <1>4 DEF Procs, IInv, HandlerInv
  <2>2. p \in picked /\ Drop(p) /\ AfterFailure(p) = "tell"
    <3>1. p \in picked
      BY <2>1 DEF MayBeAt, Forwarding
    <3>2. Drop(p)
      BY <1>4 DEF Failed
    <3>3. AfterFailure(p) = "tell"
      BY <1>4 DEF AfterFailure, Ending
    <3> QED BY <3>1, <3>2, <3>3
  <2>3. /\ Goto(p, "tell") /\ "tell" \in HandlerStates /\ MayBeAt(p, "tell")'
        /\ pc'[p] = "tell"
    BY <1>1, <2>2, GotoFacts DEF HandlerStates, MayBeAt, Forwarding, IInv
  <2>4. LockInv'
    BY <1>1, <2>3, LockKept DEF IInv, Callers
  <2>5. /\ picked' = picked /\ released' = released \cup {p}
        /\ conns' = picked' \ released' /\ ActiveCountsConns'
    BY <2>2, DropFacts DEF IInv
  <2> QED BY <1>1, <1>2, <1>3, <1>4, <2>2, <2>3, <2>4, <2>5, StepInv
<1>5. CASE p # Puller /\ op[p] \notin Ending
  <2>1. p \in Cids /\ MayBeAt(p, "failed")
    BY <1>1, <1>5 DEF Procs, IInv, HandlerInv
  <2>2. op[p] \in {"CLOSE", "SWEEP"} /\ UNCHANGED connVars
    BY <1>2, <1>5, <2>1 DEF MayBeAt, Forwarding, Failed, Ops, Ending
  <2>3. Goto(p, "drop") /\ "drop" \in HandlerStates /\ MayBeAt(p, "drop")
    BY <1>1, <2>1, <2>2 DEF HandlerStates, MayBeAt, Forwarding, AfterFailure, Ending
  <2>4. LockInv'
    BY <1>1, <2>3, LockKept DEF IInv, Callers
  <2> QED BY <1>1, <1>5, <2>2, <2>3, <2>4, MoveInv
<1>6. CASE p = Puller
  <2>1. /\ Goto(p, "loop") /\ "loop" \in PullerStates \ {"swept", "drop"}
        /\ UNCHANGED connVars
    BY <1>1, <1>2, <1>6 DEF PullerStates, AfterFailure, Back, Ending, Failed
  <2>2. LockInv'
    BY <1>1, <2>1, LockKept DEF IInv, Callers
  <2> QED BY <1>1, <1>6, <2>1, <2>2, MoveInv
<1> QED BY <1>4, <1>5, <1>6

\* WriteMessage keeps the Conn of its message until its result is known.
LEMMA WriteMessageInv == ASSUME IInv, NEW p \in Procs, WriteMessage(p) PROVE IInv'
<1>1. CASE TakeWriter(p)
  <2>1. /\ pc[p] = "take" /\ Goto(p, "write")
        /\ UNCHANGED <<connVars, told, op, asked, closed, gone, pulled, lock, connected>>
    BY <1>1 DEF TakeWriter, relayVars, pullVars, clientVars
  <2>2. "write" \in HandlerStates /\ "write" \in PullerStates \ {"swept", "drop"}
    BY DEF HandlerStates, PullerStates
  <2>3. LockInv'
    BY <2>1, <2>2, LockKept DEF IInv, Callers
  <2>4. p # Puller => MayBeAt(p, "write")
    BY <2>1 DEF Procs, IInv, HandlerInv, MayBeAt, Forwarding
  <2> QED BY <2>1, <2>2, <2>3, <2>4, MoveInv
<1>2. CASE WriteOk(p)
  <2> DEFINE l == IF op[p] \in {"CLOSE", "SWEEP"} THEN "drop" ELSE Back(p)
  <2>1. /\ pc[p] = "write" /\ Goto(p, l)
        /\ UNCHANGED <<connVars, told, op, asked, closed, gone, lock, connected>>
        /\ p # Puller => pulled' = pulled
    BY <1>2 DEF WriteOk, relayVars, clientVars
  <2>2. p = Puller => l = "loop"
    BY DEF IInv, Shape, Back
  <2>3. p # Puller => MayBeAt(p, "write") /\ l \in {"drop", "read"}
    BY <2>1 DEF Procs, IInv, HandlerInv, Back
  <2>4. p # Puller => MayBeAt(p, l)
    BY <2>3 DEF MayBeAt, Forwarding, Back
  <2> HIDE DEF l
  <2>5. /\ l \in HandlerStates \cup PullerStates
        /\ p = Puller => l \in PullerStates \ {"swept", "drop"}
        /\ p # Puller => l \in HandlerStates
    BY <2>2, <2>3 DEF HandlerStates, PullerStates
  <2>6. LockInv'
    BY <2>1, <2>5, LockKept DEF IInv, Callers
  <2> QED BY <2>1, <2>4, <2>5, <2>6, MoveInv
<1>3. CASE WriteFails(p)
  <2>1. /\ pc[p] = "write" /\ Goto(p, "failed") /\ connected' = FALSE
        /\ UNCHANGED <<connVars, told, op, asked, closed, gone, pulled, lock>>
    BY <1>3 DEF WriteFails, pullVars, clientVars
  <2>2. "failed" \in HandlerStates /\ "failed" \in PullerStates \ {"swept", "drop"}
    BY DEF HandlerStates, PullerStates
  <2>3. LockInv'
    BY <2>1, <2>2, LockKept DEF IInv, Callers
  <2>4. p # Puller => MayBeAt(p, "failed")
    BY <2>1 DEF Procs, IInv, HandlerInv, MayBeAt, Forwarding
  <2> QED BY <2>1, <2>2, <2>3, <2>4, MoveInv
<1> QED BY <1>1, <1>2, <1>3, FailedInv DEF WriteMessage

-----------------------------------------------------------------------------
\* The handlers

\* A handler that forwards a message goes to Connect with it.
LEMMA ForwardsFacts ==
    ASSUME Shape, NEW c \in Cids, NEW o \in Ops, Forwards(c, o)
    PROVE  /\ Goto(c, "connect")
           /\ op' \in [Procs -> Ops] /\ op'[c] = o
           /\ \A q \in Procs \ {c} : op'[q] = op[q]
BY PullerIsNoCid DEF Shape, Forwards

\* A handler that starts to forward (CONNECT excepted) has the Conn, and the
\* client's own word for a CLOSE.
LEMMA ForwardInv ==
    ASSUME IInv, NEW c \in Cids, c \in conns, pc[c] = "read", NEW o \in Ops, Forwards(c, o),
           UNCHANGED <<connVars, told, asked, gone, pulled, lock, connected>>,
           closed \subseteq closed',
           o = "CLOSE" => c \in closed', o = "SWEEP" => c \in gone, o # "REPLY"
    PROVE  IInv'
<1>1. /\ Goto(c, "connect") /\ c \in Procs /\ c # Puller
      /\ op' \in [Procs -> Ops] /\ op'[c] = o
      /\ \A q \in Procs \ {c} : op'[q] = op[q]
  BY ForwardsFacts, PullerIsNoCid DEF IInv
<1>2. "connect" \in HandlerStates
  BY DEF HandlerStates
<1>3. LockInv'
  BY <1>1, <1>2, LockKept DEF IInv, Callers
<1>4. /\ picked' = picked /\ released' = released /\ conns' = conns
      /\ conns = picked \ released /\ released \subseteq picked
      /\ told' = told /\ told \in [Cids -> {"no", "ack", "nack", "end"}]
      /\ asked' = asked /\ asked \subseteq Cids /\ gone' = gone
  BY DEF connVars, IInv, Shape
<1>5. MayBeAt(c, "connect")'
  BY <1>1, <1>4 DEF MayBeAt, Forwarding
<1>6. ActiveCountsConns'
  BY DEF IInv, ActiveCountsConns, connVars
<1>7. \A d \in Cids : Heard(d) => Heard(d)'
  BY <1>4 DEF Heard
<1> QED BY <1>1, <1>2, <1>3, <1>4, <1>5, <1>6, <1>7, StepInv

\* The messages of a client.
LEMMA RequestInv == ASSUME IInv, NEW c \in Cids, Request(c) PROVE IInv'
<1>1. c \in Procs /\ c # Puller
  BY PullerIsNoCid
<1>2. CASE HandleConnect(c)
  <2>1. /\ pc[c] = "read" /\ c \notin asked /\ asked' = asked \cup {c} /\ Goto(c, "pick")
        /\ UNCHANGED <<connVars, told, op, closed, gone, pulled, lock, connected>>
    BY <1>2 DEF HandleConnect, relayVars, pullVars
  <2>2. "pick" \in HandlerStates
    BY DEF HandlerStates
  <2>3. LockInv'
    BY <1>1, <2>1, <2>2, LockKept DEF IInv, Callers
  <2>4. /\ picked' = picked /\ released' = released /\ conns' = conns /\ c \notin picked
        /\ conns = picked \ released /\ released \subseteq picked
        /\ told' = told /\ told \in [Cids -> {"no", "ack", "nack", "end"}]
        /\ op' = op /\ op \in [Procs -> Ops]
        /\ asked' \subseteq Cids
    BY <2>1 DEF connVars, IInv, Shape
  <2>5. MayBeAt(c, "pick")'
    BY <2>1, <2>4 DEF MayBeAt, Forwarding
  <2>6. ActiveCountsConns'
    BY <2>1 DEF IInv, ActiveCountsConns, connVars
  <2>7. \A d \in Cids : Heard(d) => Heard(d)'
    BY <2>1 DEF Heard
  <2> QED BY <1>1, <2>1, <2>2, <2>3, <2>4, <2>5, <2>6, <2>7, StepInv
<1>3. CASE HandleData(c)
  <2>1. /\ pc[c] = "read"
        /\ UNCHANGED <<connVars, told, asked, closed, gone, pulled, lock, connected>>
    BY <1>3 DEF HandleData, relayVars, pullVars
  <2>2. CASE c \in conns
    <3>1. Forwards(c, "DATA") /\ "DATA" \in Ops
      BY <1>3, <2>2 DEF HandleData, Ops
    <3> QED BY <2>1, <2>2, <3>1, ForwardInv
  <2>3. CASE c \notin conns
    <3>1. Goto(c, "tell") /\ UNCHANGED op /\ "tell" \in HandlerStates
      BY <1>3, <2>3 DEF HandleData, HandlerStates
    <3>2. LockInv'
      BY <1>1, <2>1, <3>1, LockKept DEF IInv, Callers
    <3>3. MayBeAt(c, "tell")
      BY DEF MayBeAt, Forwarding
    <3> QED BY <1>1, <2>1, <3>1, <3>2, <3>3, MoveInv
  <2> QED BY <2>2, <2>3
<1>4. CASE HandleClose(c)
  <2>1. /\ pc[c] = "read" /\ closed' = closed \cup {c}
        /\ UNCHANGED <<connVars, told, asked, gone, pulled, lock, connected>>
    BY <1>4 DEF HandleClose, relayVars, pullVars
  <2>2. CASE c \in conns
    <3>1. Forwards(c, "CLOSE") /\ "CLOSE" \in Ops
      BY <1>4, <2>2 DEF HandleClose, Ops
    <3> QED BY <2>1, <2>2, <3>1, ForwardInv
  <2>3. CASE c \notin conns
    <3>1. UNCHANGED <<op, pc>>
      BY <1>4, <2>3 DEF HandleClose
    <3>2. LockInv'
      BY <2>1, <3>1 DEF IInv, LockInv
    <3> QED BY <2>1, <3>1, <3>2, QuietInv
  <2> QED BY <2>2, <2>3
<1> QED BY <1>2, <1>3, <1>4 DEF Request

\* A handler stores the Conn of a client that has none.
LEMMA StoreInv == ASSUME IInv, NEW c \in Cids, Store(c) PROVE IInv'
<1>1. /\ pc[c] = "store" /\ Forwards(c, "CONNECT") /\ "CONNECT" \in Ops
      /\ active' = active + 1 /\ picked' = picked \cup {c} /\ conns' = conns \cup {c}
      /\ UNCHANGED <<released, told, asked, closed, gone, pulled, lock, connected>>
  BY DEF Store, relayVars, pullVars, clientVars, Ops
<1>2. /\ Goto(c, "connect") /\ c \in Procs /\ c # Puller
      /\ op' \in [Procs -> Ops] /\ op'[c] = "CONNECT"
      /\ \A q \in Procs \ {c} : op'[q] = op[q]
  BY <1>1, ForwardsFacts, PullerIsNoCid DEF IInv
<1>3. "connect" \in HandlerStates
  BY DEF HandlerStates
<1>4. /\ pc' \in [Procs -> HandlerStates \cup PullerStates]
      /\ pc'[c] = "connect"
      /\ \A q \in Procs \ {c} : pc'[q] = pc[q]
  BY <1>2, <1>3, GotoFacts DEF IInv
<1>5. c \in asked /\ c \notin picked
  BY <1>1 DEF IInv, HandlerInv, MayBeAt
<1>6. LockInv'
  BY <1>1, <1>2, <1>3, LockKept DEF IInv, Callers
<1>7. Shape'
  BY <1>1, <1>2, <1>3, <1>4, <1>5, PullerIsNoCid DEF IInv, Shape
<1>8. HandlerInv'
  <2> SUFFICES ASSUME NEW d \in Cids
               PROVE  MayBeAt(d, pc[d])'
    BY DEF HandlerInv
  <2>1. CASE d = c
    BY <2>1, <1>1, <1>2, <1>4 DEF MayBeAt, Forwarding
  <2>2. CASE d # c
    <3>1. pc'[d] = pc[d] /\ op'[d] = op[d] /\ MayBeAt(d, pc[d])
      BY <2>2, <1>2, <1>4, PullerIsNoCid DEF IInv, HandlerInv
    <3> QED BY <2>2, <3>1, <1>1 DEF MayBeAt
  <2> QED BY <2>1, <2>2
<1>9. PullerInv'
  BY <1>1, <1>2, <1>4, PullerIsNoCid DEF IInv, PullerInv, Heard
<1>10. ActiveCountsConns'
  <2>1. IsFiniteSet(conns) /\ c \notin conns
    BY <1>5, RelayAssumption, FS_Subset DEF IInv, Shape
  <2>2. Cardinality(conns \cup {c}) = Cardinality(conns) + 1
    BY <2>1, FS_AddElement
  <2> QED BY <1>1, <2>2 DEF IInv, ActiveCountsConns
<1>11. UpstreamIsTold'
  BY <1>1, <1>2, <1>4, <1>5, PullerIsNoCid DEF IInv, UpstreamIsTold, Shape
<1> QED BY <1>6, <1>7, <1>8, <1>9, <1>10, <1>11 DEF IInv

\* The handler goes on once the client was told.
LEMMA TellInv == ASSUME IInv, NEW c \in Cids, Tell(c) PROVE IInv'
<1>1. /\ pc[c] = "tell" /\ Tells(c, "end") /\ Goto(c, "read") /\ "read" \in HandlerStates
      /\ UNCHANGED <<connVars, op, asked, closed, gone, pulled, lock, connected>>
      /\ c \in Procs /\ c # Puller
  BY PullerIsNoCid DEF Tell, relayVars, pullVars, clientVars, HandlerStates
<1>2. /\ told' \in [Cids -> {"no", "ack", "nack", "end"}]
      /\ \A d \in Cids : Heard(d) => Heard(d)'
      /\ Heard(c)'
  BY <1>1, TellsFacts DEF IInv
<1>3. LockInv'
  BY <1>1, LockKept DEF IInv, Callers
<1>4. /\ picked' = picked /\ released' = released /\ conns' = conns
      /\ conns = picked \ released /\ released \subseteq picked
      /\ op' = op /\ op \in [Procs -> Ops] /\ asked' = asked /\ asked \subseteq Cids
  BY <1>1 DEF connVars, IInv, Shape
<1>5. MayBeAt(c, "read")'
  BY DEF MayBeAt, Forwarding
<1>6. ActiveCountsConns'
  BY <1>1 DEF IInv, ActiveCountsConns, connVars
<1> QED BY <1>1, <1>2, <1>3, <1>4, <1>5, <1>6, StepInv

\* The Conn whose CLOSE went out is dropped; its client closed it or is gone.
LEMMA DroppedInv == ASSUME IInv, NEW c \in Cids, Dropped(c) PROVE IInv'
<1>1. /\ pc[c] = "drop" /\ Drop(c) /\ c \in Procs /\ c # Puller
      /\ UNCHANGED <<told, op, asked, closed, gone, pulled, lock, connected>>
  BY PullerIsNoCid DEF Dropped, relayVars, pullVars, clientVars
<1>2. PICK l \in {"over", "read"} : Goto(c, l)
  BY DEF Dropped
<1>3. l \in HandlerStates /\ MayBeAt(c, l)'
  BY <1>2 DEF HandlerStates, MayBeAt, Forwarding
<1>4. LockInv'
  BY <1>1, <1>2, <1>3, LockKept DEF IInv, Callers
<1>5. MayBeAt(c, "drop")
  BY <1>1 DEF IInv, HandlerInv
<1>6. c \in picked /\ (c \in closed \/ c \in gone)
  BY <1>5 DEF MayBeAt, Forwarding
<1>7. /\ picked' = picked /\ released' = released \cup {c}
      /\ conns' = picked' \ released' /\ ActiveCountsConns'
  BY <1>1, <1>6, DropFacts DEF IInv
<1>8. Heard(c)' /\ \A d \in Cids : Heard(d) => Heard(d)'
  BY <1>1, <1>6 DEF Heard
<1>9. /\ told' = told /\ told \in [Cids -> {"no", "ack", "nack", "end"}]
      /\ op' = op /\ op \in [Procs -> Ops] /\ asked' = asked /\ asked \subseteq Cids
      /\ released \subseteq picked
  BY <1>1 DEF IInv, Shape
<1> QED BY <1>1, <1>2, <1>3, <1>4, <1>6, <1>7, <1>8, <1>9, StepInv

\* What a handler does between two messages of its client.
LEMMA HandlerStepInv == ASSUME IInv, NEW c \in Cids, Handler(c) PROVE IInv'
<1>1. c \in Procs /\ c # Puller
  BY PullerIsNoCid
<1>2. CASE ReadFails(c)
  <2>1. /\ pc[c] = "read" /\ c \in gone
        /\ UNCHANGED <<connVars, told, asked, closed, gone, pulled, lock, connected>>
    BY <1>2 DEF ReadFails, relayVars, pullVars, clientVars
  <2>2. CASE c \in conns
    <3>1. Forwards(c, "SWEEP") /\ "SWEEP" \in Ops
      BY <1>2, <2>2 DEF ReadFails, Ops
    <3> QED BY <2>1, <2>2, <3>1, ForwardInv
  <2>3. CASE c \notin conns
    <3>1. Goto(c, "over") /\ UNCHANGED op /\ "over" \in HandlerStates
      BY <1>2, <2>3 DEF ReadFails, HandlerStates
    <3>2. LockInv'
      BY <1>1, <2>1, <3>1, LockKept DEF IInv, Callers
    <3>3. MayBeAt(c, "over")
      BY DEF MayBeAt, Forwarding
    <3> QED BY <1>1, <2>1, <3>1, <3>2, <3>3, MoveInv
  <2> QED BY <2>2, <2>3
<1>3. CASE Connect(c)
  BY <1>1, <1>3, ConnectInv
<1>4. CASE WriteMessage(c)
  BY <1>1, <1>4, WriteMessageInv
<1> QED BY <1>2, <1>3, <1>4, StoreInv, TellInv, DroppedInv DEF Handler

-----------------------------------------------------------------------------
\* The puller

\* The puller's steps that concern no Conn.
LEMMA PullerMoveInv ==
    ASSUME IInv, Snap \/ Pull \/ PullFails \/ Lost \/ SweepOver \/ Reply
    PROVE  IInv'
<1>1. PICK l \in {"pull", "pulled", "lost", "sweep", "loop", "connect"} :
        /\ Goto(Puller, l) /\ pc[Puller] \notin Callers
        /\ UNCHANGED <<connVars, told, op, asked, closed, gone, lock>>
        /\ connected' \in {connected, FALSE}
  <2>1. CASE Snap
    BY <2>1 DEF Snap, relayVars, clientVars, Callers
  <2>2. CASE Pull
    BY <2>2 DEF Pull, relayVars, clientVars, Callers
  <2>3. CASE PullFails
    BY <2>3 DEF PullFails, clientVars, Callers
  <2>4. CASE Lost
    BY <2>4 DEF Lost, clientVars, Callers
  <2>5. CASE SweepOver
    BY <2>5 DEF SweepOver, relayVars, clientVars, Callers
  <2>6. CASE Reply
    BY <2>6 DEF Reply, relayVars, clientVars, Callers
  <2> QED BY <2>1, <2>2, <2>3, <2>4, <2>5, <2>6
<1>2. l \in PullerStates \ {"swept", "drop"}
  BY DEF PullerStates
<1>3. LockInv'
  BY <1>1, <1>2, PullerIsNoCid, LockKept DEF IInv
<1> QED BY <1>1, <1>2, <1>3, PullerIsNoCid, MoveInv

\* The puller tells the client of a Conn something, and is to drop the Conn only
\* when the client heard of its end.
LEMMA PullerTellsInv ==
    ASSUME IInv, NEW c \in conns, pc[Puller] \notin Callers,
           NEW l \in {"loop", "drop", "swept"}, Goto(Puller, l),
           UNCHANGED <<connVars, op, asked, closed, gone, lock, connected>>,
           \/ l = "loop" /\ told' = told
           \/ l = "loop" /\ (Tells(c, "ack") \/ Tells(c, "end"))
           \/ pulled'[1] = c /\ Tells(c, "end")
    PROVE  IInv'
<1>1. /\ picked' = picked /\ released' = released /\ conns' = conns
      /\ conns = picked \ released /\ released \subseteq picked /\ c \in picked /\ c \in Cids
      /\ told \in [Cids -> {"no", "ack", "nack", "end"}]
      /\ op' = op /\ op \in [Procs -> Ops] /\ op[Puller] = "REPLY"
      /\ asked' = asked /\ asked \subseteq Cids /\ closed' = closed /\ gone' = gone
  BY DEF connVars, IInv, Shape
<1>2. l \in PullerStates
  BY DEF PullerStates
<1>3. pc'[Puller] = l
  BY <1>2, PullerIsNoCid, GotoFacts DEF IInv
<1>4. /\ told' \in [Cids -> {"no", "ack", "nack", "end"}]
      /\ \A d \in Cids : Heard(d) => Heard(d)'
      /\ l \in {"drop", "swept"} => pulled'[1] = c /\ Heard(c)'
  <2>1. CASE l = "loop" /\ told' = told
    BY <1>1, <2>1 DEF Heard
  <2>2. CASE l = "loop" /\ (Tells(c, "ack") \/ Tells(c, "end"))
    BY <1>1, <2>2, TellsFacts DEF IInv
  <2>3. CASE pulled'[1] = c /\ Tells(c, "end")
    BY <1>1, <2>3, TellsFacts DEF IInv
  <2> QED BY <2>1, <2>2, <2>3
<1>5. PullerInv'
  BY <1>1, <1>3, <1>4 DEF PullerInv, Heard
<1>6. LockInv'
  BY <1>2, PullerIsNoCid, LockKept DEF IInv
<1>7. ActiveCountsConns'
  BY DEF IInv, ActiveCountsConns, connVars
<1> QED BY <1>1, <1>2, <1>4, <1>5, <1>6, <1>7, PullerIsNoCid, StepInv

\* The puller drops a Conn whose client has heard.
LEMMA PullerDropsInv ==
    ASSUME IInv, pc[Puller] \in {"swept", "drop"}, Drop(pulled[1]),
           NEW l \in {"sweep", "loop"}, Goto(Puller, l),
           UNCHANGED <<told, op, asked, closed, gone, lock, connected>>
    PROVE  IInv'
<1> DEFINE c == pulled[1]
<1>1. c \in picked /\ Heard(c) /\ c \in Cids
  BY DEF IInv, PullerInv, Shape
<1>2. /\ told' = told /\ told \in [Cids -> {"no", "ack", "nack", "end"}]
      /\ op' = op /\ op \in [Procs -> Ops] /\ op[Puller] = "REPLY"
      /\ asked' = asked /\ asked \subseteq Cids /\ closed' = closed /\ gone' = gone
      /\ released \subseteq picked
  BY DEF IInv, Shape
<1>3. Drop(c)
  OBVIOUS
<1> HIDE DEF c
<1>4. /\ picked' = picked /\ released' = released \cup {c}
      /\ conns' = picked' \ released' /\ ActiveCountsConns'
  BY <1>1, <1>3, DropFacts DEF IInv
<1>5. l \in PullerStates
  BY DEF PullerStates
<1>6. pc'[Puller] = l
  BY <1>5, PullerIsNoCid, GotoFacts DEF IInv
<1>7. PullerInv'
  BY <1>6 DEF PullerInv
<1>8. LockInv'
  BY <1>5, PullerIsNoCid, LockKept DEF IInv, Callers
<1>9. told[c] \in {"nack", "end"} \/ c \in closed \cup gone
  BY <1>1 DEF Heard
<1>10. /\ \A d \in Cids : Heard(d) => Heard(d)'
       /\ \A d \in released' \ released : Heard(d)'
  BY <1>2, <1>4, <1>9 DEF Heard
<1> QED BY <1>1, <1>2, <1>4, <1>5, <1>7, <1>8, <1>10, PullerIsNoCid, StepInv

\* Every step of the puller.
LEMMA PullerStepInv == ASSUME IInv, WebsocketPuller PROVE IInv'
<1>1. CASE SweepVisit
  <2>1. PICK c \in todo :
          IF c \in conns
          THEN /\ Tells(c, "end")
               /\ pulled' = <<c, "CLOSE">>
               /\ Goto(Puller, "swept")
          ELSE UNCHANGED <<told, pulled, pc>>
    BY <1>1 DEF SweepVisit
  <2>2. /\ pc[Puller] \notin Callers
        /\ UNCHANGED <<connVars, op, asked, closed, gone, lock, connected>>
    BY <1>1 DEF SweepVisit, relayVars, clientVars, Callers
  <2>3. CASE c \in conns
    BY <2>1, <2>2, <2>3, PullerTellsInv
  <2>4. CASE c \notin conns
    <3>1. LockInv'
      BY <2>1, <2>2, <2>4 DEF IInv, LockInv
    <3> QED BY <2>1, <2>2, <2>4, <3>1, QuietInv
  <2> QED BY <2>3, <2>4
<1>2. CASE Respond
  <2>1. /\ pc[Puller] \notin Callers /\ pulled[1] \in conns
        /\ UNCHANGED <<connVars, op, asked, closed, gone, lock, connected>>
    BY <1>2 DEF Respond, relayVars, clientVars, Callers
  <2>2. CASE pulled[2] = "DATA"
    <3>1. told' = told /\ Goto(Puller, "loop")
      BY <1>2, <2>2 DEF Respond
    <3> QED BY <2>1, <3>1, PullerTellsInv
  <2>3. CASE pulled[2] = "ack"
    <3>1. Tells(pulled[1], "ack") /\ Goto(Puller, "loop")
      BY <1>2, <2>3 DEF Respond
    <3> QED BY <2>1, <3>1, PullerTellsInv
  <2>4. CASE pulled[2] \in {"CLOSE", "nack"}
    <3>1. Tells(pulled[1], "end") /\ Goto(Puller, "drop") /\ pulled' = pulled
      BY <1>2, <2>4 DEF Respond
    <3> QED BY <2>1, <3>1, PullerTellsInv
  <2>5. CASE pulled[2] \notin {"DATA", "ack", "CLOSE", "nack"}
    <3>1. Tells(pulled[1], "end") /\ Goto(Puller, "loop")
      BY <1>2, <2>5 DEF Respond
    <3> QED BY <2>1, <3>1, PullerTellsInv
  <2> QED BY <2>2, <2>3, <2>4, <2>5
<1>3. CASE SweepDrop
  <2>1. /\ pc[Puller] = "swept" /\ Drop(pulled[1]) /\ Goto(Puller, "sweep")
        /\ UNCHANGED <<told, op, asked, closed, gone, lock, connected>>
    BY <1>3 DEF SweepDrop, relayVars, clientVars
  <2> QED BY <2>1, PullerDropsInv
<1>4. CASE RespondDrop
  <2>1. /\ pc[Puller] = "drop" /\ Drop(pulled[1]) /\ Goto(Puller, "loop")
        /\ UNCHANGED <<told, op, asked, closed, gone, lock, connected>>
    BY <1>4 DEF RespondDrop, relayVars, clientVars
  <2> QED BY <2>1, PullerDropsInv
<1>5. CASE Connect(Puller) \/ WriteMessage(Puller)
  BY <1>5, PullerIsNoCid, ConnectInv, WriteMessageInv
<1> QED BY <1>1, <1>2, <1>3, <1>4, <1>5, PullerMoveInv DEF WebsocketPuller

-----------------------------------------------------------------------------
\* The clients, the links and the next hop touch neither Conns nor goroutines.
LEMMA OthersInv ==
    ASSUME IInv,
           \/ \E c \in Cids : ClientGone(c) \/ NextAnswers(c) \/ NextSends(c)
           \/ \E e \in Links : LinkDies(e)
           \/ UNCHANGED vars
    PROVE  IInv'
<1>1. /\ UNCHANGED <<connVars, told, connected, lock, pc, op, pulled, asked, closed>>
      /\ gone \subseteq gone'
  BY DEF ClientGone, NextAnswers, NextSends, LinkDies, vars, relayVars, procVars, pullVars,
         clientVars
<1>2. LockInv'
  BY <1>1 DEF IInv, LockInv
<1> QED BY <1>1, <1>2, QuietInv

LEMMA InitInv == Init => IInv
<1> SUFFICES ASSUME Init
             PROVE  IInv
  OBVIOUS
<1>1. Shape
  BY PullerIsNoCid DEF Init, Shape, HandlerStates, PullerStates, Ops
<1>2. LockInv
  BY DEF Init, LockInv
<1>3. \A c \in Cids : pc[c] = "read"
  BY PullerIsNoCid DEF Init
<1>4. HandlerInv
  BY <1>3 DEF HandlerInv, MayBeAt, Forwarding
<1>5. PullerInv
  BY PullerIsNoCid DEF Init, PullerInv
<1>6. ActiveCountsConns
  BY FS_EmptySet DEF Init, ActiveCountsConns
<1>7. UpstreamIsTold
  BY DEF Init, UpstreamIsTold
<1> QED BY <1>1, <1>2, <1>4, <1>5, <1>6, <1>7 DEF IInv

LEMMA NextInv == IInv /\ [Next]_vars => IInv'
<1> SUFFICES ASSUME IInv, [Next]_vars
             PROVE  IInv'
  OBVIOUS
<1> QED BY RequestInv, HandlerStepInv, PullerStepInv, OthersInv DEF Next

-----------------------------------------------------------------------------
\* The load count of a relay is the number of Conns that use it, however the
\* handlers and the puller, which all drop Conns, race.
THEOREM LoadIsExact == Spec => []ActiveCountsConns
<1>1. IInv => ActiveCountsConns
  BY DEF IInv
<1> QED BY <1>1, InitInv, NextInv, PTL DEF Spec

\* No Conn is dropped behind its client's back: the client has been told, or
\* closed it, or is gone, or its handler is about to tell it.
THEOREM NoSilentDrop == Spec => []UpstreamIsTold
<1>1. IInv => UpstreamIsTold
  BY DEF IInv
<1> QED BY <1>1, InitInv, NextInv, PTL DEF Spec

-----------------------------------------------------------------------------
\* What the links, the next hop and the hands of the processes hold.
LinkTypes ==
    /\ connected \in BOOLEAN
    /\ epoch \in 0..MaxLinks
    /\ alive \in SUBSET (1..epoch) /\ writerOpen \in SUBSET (1..epoch)
    /\ link \in [Procs -> 0..epoch]
    /\ pulled \in (Cids \X Answers) \cup {NoAnswer}
    /\ todo \in SUBSET Cids
    /\ gone \in SUBSET Cids /\ closed \in SUBSET asked
    /\ messages \in 0..MaxMessages
    /\ next \in [Cids -> 0..epoch] /\ pending \in SUBSET asked
    /\ down \in [Links -> Seq(Cids \X Answers)]

\* The puller reads a link only after one was dialed.
Dialed ==
    /\ connected \/ lock # Nobody \/ pc[Puller] = "snap" => epoch # 0
    /\ pc[Puller] = "pull" => link[Puller] # 0

TInv == LinkTypes /\ Dialed

\* At the start no link was dialed.
LEMMA TypesInit == Init => TInv
<1> SUFFICES ASSUME Init PROVE TInv
  OBVIOUS
<1>1. LinkTypes
  <2>1. /\ epoch \in 0..MaxLinks /\ link \in [Procs -> 0..epoch] /\ next \in [Cids -> 0..epoch]
        /\ messages \in 0..MaxMessages
    BY RelayAssumption DEF Init
  <2>2. down \in [Links -> Seq(Cids \X Answers)]
    BY DEF Init
  <2> QED BY <2>1, <2>2 DEF Init, LinkTypes
<1>2. Dialed
  BY RelayAssumption, PullerIsNoCid DEF Init, Dialed
<1> QED BY <1>1, <1>2 DEF TInv

\* Connect changes links and what they carry, WriteMessage what the next hop
\* knows of a Cid that has asked.
LEMMA TypesCommon ==
    ASSUME IInv, TInv, NEW p \in Procs, Connect(p) \/ WriteMessage(p)
    PROVE  TInv'
<1>a. /\ MaxLinks \in Nat /\ Puller \in Procs /\ Puller \notin Cids /\ Procs = Cids \cup {Puller}
      /\ Nobody \notin Procs
  BY RelayAssumption DEF Procs
<1>b. pc \in [Procs -> HandlerStates \cup PullerStates] /\ lock \in Procs \cup {Nobody}
  BY DEF IInv, Shape, LockInv
<1>c. p # Puller /\ pc[p] = "write" => p \in Cids /\ p \in asked
  BY <1>a, <1>b DEF IInv, HandlerInv, MayBeAt, Forwarding, Shape
<1>d. pc[p] = "write" /\ op[p] # "CLOSE" /\ op[p] # "SWEEP" /\ op[p] # "REPLY" =>
          op[p] \in {"CONNECT", "DATA"}
  BY DEF IInv, Shape, Ops
<1>e. op[Puller] = "REPLY" /\ op \in [Procs -> Ops]
  BY DEF IInv, Shape
<1> USE <1>a, <1>b DEF TInv, relayVars, clientVars, procVars, pullVars, nextVars, Goto
<1>1. CASE ConnectNot(p) \/ ConnectFails(p)
  <2>1. UNCHANGED <<link, relayVars, pullVars, clientVars, nextVars>>
    BY <1>1 DEF ConnectNot, ConnectFails
  <2>2. LinkTypes'
    BY <2>1 DEF LinkTypes
  <2>3. \/ connected /\ pc' = [pc EXCEPT ![p] = Connects(pc[p])]
        \/ pc' = [pc EXCEPT ![p] = Refused(pc[p])]
    BY <1>1 DEF ConnectNot, ConnectFails
  <2>4. pc[p] \in Callers => /\ Connects(pc[p]) # "pull"
                             /\ Refused(pc[p]) \notin {"snap", "pull"}
    BY DEF Callers, Connects, Refused
  <2>5. pc[p] \in Callers
    BY <1>1 DEF ConnectNot, ConnectFails
  <2>6. Dialed'
    BY <2>1, <2>3, <2>4, <2>5 DEF Dialed
  <2> QED BY <2>2, <2>6
<1>2. CASE ConnectDials(p)
  <2>1. /\ epoch < MaxLinks /\ lock' = p /\ epoch' = epoch + 1
        /\ alive' = (alive \ {epoch}) \cup {epoch + 1}
        /\ writerOpen' = (writerOpen \ {epoch}) \cup {epoch + 1}
        /\ next' = [c \in Cids |-> IF next[c] = epoch THEN 0 ELSE next[c]]
        /\ pending' = {c \in pending : next[c] # epoch}
        /\ UNCHANGED <<down, connected, procVars, pullVars, clientVars>>
    BY <1>2 DEF ConnectDials, EndsAt
  <2>2. epoch' \in 0..MaxLinks /\ 0..epoch \subseteq 0..epoch' /\ 1..epoch \subseteq 1..epoch'
        /\ epoch' \in 1..epoch' /\ epoch' # 0
    BY <2>1 DEF LinkTypes
  <2>3. LinkTypes'
    BY <2>1, <2>2 DEF LinkTypes
  <2>4. Dialed'
    BY <2>1, <2>2 DEF Dialed
  <2> QED BY <2>3, <2>4
<1>3. CASE ConnectEnds(p)
  <2>1. /\ lock = p /\ lock' = Nobody /\ connected' = TRUE
        /\ pc' = [pc EXCEPT ![p] = Connects(pc[p])]
        /\ UNCHANGED <<epoch, alive, writerOpen, link, pullVars, clientVars, nextVars>>
    BY <1>3 DEF ConnectEnds
  <2>2. LinkTypes'
    BY <2>1 DEF LinkTypes
  <2>3. pc[p] \in Callers
    BY <2>1 DEF IInv, LockInv
  <2>4. Connects(pc[p]) # "pull"
    BY <2>3 DEF Callers, Connects
  <2>5. Dialed'
    BY <2>1, <2>4 DEF Dialed
  <2> QED BY <2>2, <2>5
<1>4. CASE TakeWriter(p)
  <2>1. /\ pc[p] = "take" /\ link' = [link EXCEPT ![p] = epoch]
        /\ pc' = [pc EXCEPT ![p] = "write"]
        /\ UNCHANGED <<relayVars, pullVars, clientVars, nextVars>>
    BY <1>4 DEF TakeWriter
  <2>2. LinkTypes'
    BY <2>1 DEF LinkTypes
  <2>3. Dialed'
    BY <2>1 DEF Dialed
  <2> QED BY <2>2, <2>3
<1>5. CASE WriteOk(p)
  <2>1. PICK l \in {"drop", Back(p)} :
           /\ pc[p] = "write" /\ pc' = [pc EXCEPT ![p] = l]
           /\ link[p] \in writerOpen /\ link' = [link EXCEPT ![p] = 0]
           /\ pulled' \in {pulled, NoAnswer}
           /\ UNCHANGED <<relayVars, todo, clientVars>>
    BY <1>5 DEF WriteOk
  <2>2. NextHopGets(op[p], CidOf(p), link[p]) \/ UNCHANGED nextVars
    BY <1>5 DEF WriteOk
  <2>3. link[p] \in 0..epoch
    BY DEF LinkTypes
  <2>4. next' \in [Cids -> 0..epoch] /\ pending' \in SUBSET asked /\ down' = down
    <3>1. CASE UNCHANGED nextVars
      BY <3>1 DEF LinkTypes
    <3>2. CASE NextHopGets(op[p], CidOf(p), link[p]) /\ op[p] = "CONNECT"
      <4>1. CidOf(p) \in asked
        BY <1>c, <1>e, <2>1, <3>2 DEF CidOf
      <4>2. /\ next' = [next EXCEPT ![CidOf(p)] = link[p]]
            /\ pending' = pending \cup {CidOf(p)} /\ down' = down
        BY <3>2 DEF NextHopGets
      <4> QED BY <2>3, <4>1, <4>2 DEF LinkTypes
    <3>3. CASE NextHopGets(op[p], CidOf(p), link[p]) /\ op[p] = "DATA"
      <4>1. /\ next' = [next EXCEPT ![CidOf(p)] = IF @ = 0 THEN link[p] ELSE @]
            /\ pending' = pending /\ down' = down
        BY <3>3 DEF NextHopGets
      <4> QED BY <2>3, <4>1 DEF LinkTypes
    <3>4. CASE NextHopGets(op[p], CidOf(p), link[p]) /\ op[p] \notin {"CONNECT", "DATA"}
      <4>1. /\ next' = [next EXCEPT ![CidOf(p)] = 0]
            /\ pending' = pending \ {CidOf(p)} /\ down' = down
        BY <3>4 DEF NextHopGets
      <4>2. 0 \in 0..epoch /\ pending \in SUBSET asked /\ next \in [Cids -> 0..epoch]
        BY DEF LinkTypes
      <4> QED BY ONLY <4>1, <4>2
    <3> QED BY <2>2, <3>1, <3>2, <3>3, <3>4
  <2>5. LinkTypes'
    BY <2>1, <2>4 DEF LinkTypes
  <2>6. Dialed'
    BY <2>1 DEF Dialed, Back
  <2> QED BY <2>5, <2>6
<1>6. CASE WriteFails(p)
  <2>1. /\ pc[p] = "write" /\ writerOpen' = writerOpen \ {link[p]} /\ connected' = FALSE
        /\ link' = [link EXCEPT ![p] = 0] /\ pc' = [pc EXCEPT ![p] = "failed"]
        /\ UNCHANGED <<lock, epoch, alive, pullVars, clientVars, nextVars>>
    BY <1>6 DEF WriteFails
  <2>2. LinkTypes'
    <3>1. writerOpen' \in SUBSET (1..epoch)
      BY <2>1 DEF LinkTypes
    <3>2. link' \in [Procs -> 0..epoch]
      BY <2>1 DEF LinkTypes
    <3> QED BY <2>1, <3>1, <3>2 DEF LinkTypes
  <2>3. Dialed'
    BY <2>1 DEF Dialed
  <2> QED BY <2>2, <2>3
<1>7. CASE Failed(p)
  <2>1. /\ pc' = [pc EXCEPT ![p] = AfterFailure(p)] /\ pulled' \in {pulled, NoAnswer}
        /\ UNCHANGED <<relayVars, link, todo, clientVars, nextVars>>
    BY <1>7 DEF Failed
  <2>2. AfterFailure(p) \in {"tell", "drop", "loop", "read"}
    BY DEF AfterFailure, Back
  <2>3. LinkTypes'
    BY <2>1 DEF LinkTypes
  <2>4. Dialed'
    BY <2>1, <2>2 DEF Dialed
  <2> QED BY <2>3, <2>4
<1> QED BY <1>1, <1>2, <1>3, <1>4, <1>5, <1>6, <1>7 DEF Connect, WriteMessage

\* A step of a handler outside Connect and WriteMessage touches no link.
LEMMA TypesHandler ==
    ASSUME IInv, TInv, NEW c \in Cids,
           Request(c) \/ Store(c) \/ Tell(c) \/ ReadFails(c) \/ Dropped(c)
    PROVE  TInv'
<1>1. UNCHANGED <<relayVars, link, pullVars, gone, nextVars>>
  BY DEF Request, HandleConnect, HandleData, HandleClose, Store, Tell, ReadFails, Dropped,
         clientVars
<1>2. /\ asked \subseteq asked'
      /\ closed' \subseteq asked'
      /\ messages' \in 0..MaxMessages
  <2>0. /\ asked' \in {asked, asked \cup {c}}
        /\ closed' = closed \/ (closed' = closed \cup {c} /\ c \in asked)
        /\ messages' = messages \/ (messages > 0 /\ messages' = messages - 1)
    BY DEF Request, HandleConnect, HandleData, HandleClose, Store, Tell, ReadFails, Dropped,
           clientVars
  <2>1. messages' \in 0..MaxMessages
    BY <2>0, RelayAssumption DEF TInv, LinkTypes
  <2> QED BY <2>0, <2>1 DEF TInv, LinkTypes
<1>3. pc'[Puller] = pc[Puller]
  <2>1. pc' = pc \/ \E l : pc' = [pc EXCEPT ![c] = l]
    BY DEF Request, HandleConnect, HandleData, HandleClose, Store, Tell, ReadFails, Dropped,
           Forwards, Goto
  <2> QED BY <2>1, PullerIsNoCid DEF IInv, Shape
<1>4. LinkTypes'
  BY <1>1, <1>2 DEF TInv, LinkTypes, relayVars, pullVars, nextVars
<1>5. Dialed'
  BY <1>1, <1>3 DEF TInv, Dialed, relayVars
<1> QED BY <1>4, <1>5 DEF TInv

\* The puller outside Connect and WriteMessage.
LEMMA TypesPuller ==
    ASSUME IInv, TInv,
           \/ Snap \/ Pull \/ PullFails \/ Lost \/ SweepVisit \/ SweepDrop \/ SweepOver
           \/ Respond \/ RespondDrop \/ Reply
    PROVE  TInv'
<1>a. Puller \in Procs
  BY PullerIsNoCid
<1>b. pc \in [Procs -> HandlerStates \cup PullerStates]
  BY DEF IInv, Shape
<1> USE <1>a, <1>b DEF TInv, relayVars, clientVars, procVars, pullVars, nextVars, Goto
<1>1. CASE Snap
  <2>1. /\ link' = [link EXCEPT ![Puller] = epoch] /\ pc[Puller] = "snap"
        /\ pc' = [pc EXCEPT ![Puller] = "pull"]
        /\ UNCHANGED <<relayVars, pullVars, clientVars, nextVars>>
    BY <1>1 DEF Snap
  <2>2. link' \in [Procs -> 0..epoch]
    BY <2>1, RelayAssumption DEF LinkTypes
  <2>3. LinkTypes'
    BY <2>1, <2>2 DEF LinkTypes
  <2>4. Dialed'
    BY <2>1 DEF Dialed, LinkTypes
  <2> QED BY <2>3, <2>4
<1>2. CASE Pull
  <2>1. /\ pc[Puller] = "pull" /\ pc' = [pc EXCEPT ![Puller] = "pulled"]
        /\ down[link[Puller]] # <<>>
        /\ pulled' = Head(down[link[Puller]])
        /\ down' = [down EXCEPT ![link[Puller]] = Tail(@)]
        /\ link' = [link EXCEPT ![Puller] = 0]
        /\ UNCHANGED <<relayVars, todo, clientVars, next, pending>>
    BY <1>2 DEF Pull
  <2>2. link[Puller] \in Links
    BY <2>1, RelayAssumption DEF LinkTypes, Dialed, Links
  <2>3. /\ pulled' \in Cids \X Answers
        /\ Tail(down[link[Puller]]) \in Seq(Cids \X Answers)
    BY <2>1, <2>2 DEF LinkTypes
  <2>4. /\ down' \in [Links -> Seq(Cids \X Answers)]
        /\ link' \in [Procs -> 0..epoch]
    <3>1. /\ 0 \in 0..epoch /\ link \in [Procs -> 0..epoch] /\ epoch' = epoch
          /\ down \in [Links -> Seq(Cids \X Answers)]
      BY <2>1, RelayAssumption DEF LinkTypes
    <3> QED BY ONLY <2>1, <2>3, <3>1
  <2>5. LinkTypes'
    BY <2>1, <2>3, <2>4 DEF LinkTypes
  <2>6. Dialed'
    BY <2>1 DEF Dialed
  <2> QED BY <2>5, <2>6
<1>3. CASE PullFails
  <2>1. /\ connected' = FALSE /\ link' = [link EXCEPT ![Puller] = 0]
        /\ pc' = [pc EXCEPT ![Puller] = "lost"]
        /\ UNCHANGED <<lock, epoch, alive, writerOpen, pullVars, clientVars, nextVars>>
    BY <1>3 DEF PullFails
  <2>2. link' \in [Procs -> 0..epoch]
    BY <2>1, RelayAssumption DEF LinkTypes
  <2>3. LinkTypes'
    BY <2>1, <2>2 DEF LinkTypes
  <2>4. Dialed'
    BY <2>1 DEF Dialed
  <2> QED BY <2>3, <2>4
<1>4. CASE Lost
  <2>1. /\ writerOpen' = writerOpen \ {epoch} /\ todo' = Cids
        /\ pc' = [pc EXCEPT ![Puller] = "sweep"]
        /\ UNCHANGED <<connected, lock, epoch, alive, link, pulled, clientVars, nextVars>>
    BY <1>4 DEF Lost
  <2>2. writerOpen' \in SUBSET (1..epoch)
    BY <2>1 DEF LinkTypes
  <2>3. LinkTypes'
    BY <2>1, <2>2 DEF LinkTypes
  <2>4. Dialed'
    BY <2>1 DEF Dialed
  <2> QED BY <2>3, <2>4
<1>5. CASE SweepVisit
  <2>1. PICK c \in todo : /\ todo' = todo \ {c}
                          /\ pulled' \in {pulled, <<c, "CLOSE">>}
                          /\ pc' = pc \/ pc' = [pc EXCEPT ![Puller] = "swept"]
                          /\ UNCHANGED <<relayVars, link, clientVars, nextVars>>
    BY <1>5 DEF SweepVisit
  <2>2. <<c, "CLOSE">> \in Cids \X Answers
    BY DEF LinkTypes, Answers
  <2>3. LinkTypes'
    BY <2>1, <2>2 DEF LinkTypes
  <2>4. Dialed'
    BY <2>1 DEF Dialed
  <2> QED BY <2>3, <2>4
<1>6. CASE SweepDrop \/ SweepOver \/ Respond \/ RespondDrop \/ Reply
  <2>1. /\ pulled' \in {pulled, NoAnswer}
        /\ UNCHANGED <<relayVars, link, todo, clientVars, nextVars>>
    BY <1>6 DEF SweepDrop, SweepOver, Respond, RespondDrop, Reply
  <2>2. pc'[Puller] \in {"sweep", "loop", "drop", "connect"}
    BY <1>6 DEF SweepDrop, SweepOver, Respond, RespondDrop, Reply
  <2>3. LinkTypes'
    BY <2>1 DEF LinkTypes
  <2>4. Dialed'
    BY <2>1, <2>2 DEF Dialed
  <2> QED BY <2>3, <2>4
<1> QED BY <1>1, <1>2, <1>3, <1>4, <1>5, <1>6

\* Clients go, links die, and the next hop sends on the link of its Conn.
LEMMA TypesOthers ==
    ASSUME IInv, TInv,
           \/ \E c \in Cids : ClientGone(c) \/ NextAnswers(c) \/ NextSends(c)
           \/ \E e \in Links : LinkDies(e)
           \/ UNCHANGED vars
    PROVE  TInv'
<1> USE DEF TInv, relayVars, clientVars, procVars, pullVars, nextVars
<1>1. ASSUME NEW c \in Cids, ClientGone(c) PROVE TInv'
  BY <1>1 DEF ClientGone, LinkTypes, Dialed
<1>a. ASSUME NEW c \in Cids, NEW a \in Answers, Sends(c, a)
      PROVE  down' \in [Links -> Seq(Cids \X Answers)]
  <2>1. \A q \in Seq(Cids \X Answers) : Append(q, <<c, a>>) \in Seq(Cids \X Answers)
    OBVIOUS
  <2> QED BY <1>a, <2>1 DEF Sends, LinkTypes
<1>2. ASSUME NEW c \in Cids, NextAnswers(c) PROVE TInv'
  <2>1. down' \in [Links -> Seq(Cids \X Answers)]
    BY <1>2, <1>a DEF NextAnswers, Answers
  <2>2. /\ next' = next \/ next' = [next EXCEPT ![c] = 0]
        /\ pending' = pending \ {c}
        /\ UNCHANGED <<relayVars, procVars, pullVars, clientVars>>
    BY <1>2 DEF NextAnswers
  <2>3. next' \in [Cids -> 0..epoch]
    <3>1. 0 \in 0..epoch /\ next \in [Cids -> 0..epoch] /\ epoch' = epoch
      BY <2>2, RelayAssumption DEF LinkTypes
    <3> QED BY ONLY <2>2, <3>1
  <2> QED BY <2>1, <2>2, <2>3 DEF LinkTypes, Dialed
<1>3. ASSUME NEW c \in Cids, NextSends(c) PROVE TInv'
  <2>1. down' \in [Links -> Seq(Cids \X Answers)]
    BY <1>3, <1>a DEF NextSends, Answers
  <2>2. /\ next' = next \/ next' = [next EXCEPT ![c] = 0]
        /\ messages > 0 /\ messages' = messages - 1
        /\ UNCHANGED <<relayVars, procVars, pullVars, gone, asked, closed, pending>>
    BY <1>3 DEF NextSends
  <2>3. next' \in [Cids -> 0..epoch] /\ messages' \in 0..MaxMessages
    <3>1. /\ 0 \in 0..epoch /\ next \in [Cids -> 0..epoch] /\ epoch' = epoch
          /\ messages \in 0..MaxMessages /\ MaxMessages \in Nat
      BY <2>2, RelayAssumption DEF LinkTypes
    <3> QED BY ONLY <2>2, <3>1
  <2> QED BY <2>1, <2>2, <2>3 DEF LinkTypes, Dialed
<1>4. ASSUME NEW e \in Links, LinkDies(e) PROVE TInv'
  <2>1. /\ alive' = alive \ {e}
        /\ next' = [c \in Cids |-> IF next[c] = e THEN 0 ELSE next[c]]
        /\ pending' = {c \in pending : next[c] # e}
        /\ UNCHANGED <<down, connected, lock, epoch, writerOpen, procVars, pullVars, clientVars>>
    BY <1>4 DEF LinkDies, EndsAt
  <2>2. next' \in [Cids -> 0..epoch]
    BY <2>1, RelayAssumption DEF LinkTypes
  <2> QED BY <2>1, <2>2 DEF LinkTypes, Dialed
<1>5. CASE UNCHANGED vars
  BY <1>5 DEF vars, LinkTypes, Dialed
<1> QED BY <1>1, <1>2, <1>3, <1>4, <1>5

LEMMA TypesNext == IInv /\ TInv /\ [Next]_vars => TInv'
<1> SUFFICES ASSUME IInv, TInv, [Next]_vars PROVE TInv'
  OBVIOUS
<1> QED BY TypesCommon, TypesHandler, TypesPuller, TypesOthers, PullerIsNoCid
        DEF Next, Handler, WebsocketPuller

\* No process reaches a place, and no message a process, that it should not
\* (TypeOK): in particular the puller reads only links that were dialed, and the
\* next hop holds unanswered only what was asked for.
THEOREM TypeCorrect == Spec => []TypeOK
<1>1. IInv /\ TInv => TypeOK
  <2> SUFFICES ASSUME IInv, TInv PROVE TypeOK
    OBVIOUS
  <2>1. conns \in SUBSET picked /\ active \in Int
    <3>1. conns \in SUBSET Cids /\ conns \in SUBSET picked
      BY DEF IInv, Shape
    <3>2. Cardinality(conns) \in Nat
      BY <3>1, RelayAssumption, FS_Subset, FS_CardinalityType
    <3> QED BY <3>1, <3>2 DEF IInv, ActiveCountsConns
  <2>2. pc \in [Procs -> {"read", "pick", "store", "connect", "take", "write", "failed",
                         "tell", "drop", "over", "loop", "snap", "pull", "pulled",
                         "lost", "sweep", "swept"}]
    BY DEF IInv, Shape, HandlerStates, PullerStates
  <2> QED BY <2>1, <2>2 DEF TypeOK, IInv, Shape, LockInv, TInv, LinkTypes
<1> QED BY <1>1, InitInv, NextInv, TypesInit, TypesNext, PTL DEF Spec
=============================================================================
