-------------------------- MODULE ExitServer_proofs --------------------------
(***************************************************************************)
(* Proofs about ExitServer, for any number of client connections,          *)
(* WebSockets, Conn objects, messages and chunks: the state is well typed, *)
(* no entry of Conns outlives its WebSocket, every open target connection  *)
(* has somebody to close it, and an answered one has somebody to read it.  *)
(***************************************************************************)
EXTENDS ExitServer, TLAPS

-----------------------------------------------------------------------------
(* The invariant                                                            *)

Types ==
    /\ conns \in [Cids -> ConnIds \cup {NoConn}]
    /\ created \in 0..MaxConns
    /\ cidOf \in [ConnIds -> Cids \cup {NoCid}]
    /\ transport \in [ConnIds -> WSs \cup {0}]
    /\ netConn \in [ConnIds -> {"none", "open", "gone", "closed"}]
    /\ loop \in [ConnIds -> LoopStates]
    /\ loopWS \in [ConnIds -> WSs \cup {0}]
    /\ stream \in [ConnIds -> {"whole", "cut", "torn"}]
    /\ handler \in [WSs -> HandlerStates]
    /\ msg \in [WSs -> Message]
    /\ hand \in [WSs -> ConnIds \cup {NoConn}]
    /\ sendWS \in [WSs -> WSs \cup {0}]
    /\ todo \in [WSs -> SUBSET Cids]
    /\ oldWriters \in [WSs -> SUBSET WSs]
    /\ writerOpen \in SUBSET WSs
    /\ alive \in SUBSET WSs
    /\ inbox \in [WSs -> Seq(Message)]
    /\ current \in WSs \cup {0}
    /\ messages \in 0..MaxMessages
    /\ chunks \in 0..MaxChunks
    /\ asked \in SUBSET Cids
    /\ switching => current + 1 \in WSs

\* A Conn has its Cid, NetConn and WebSocket from the start, and there are no
\* others in Conns or in the hands of a handler; one whose RunLoop is over is
\* closed and gone from Conns.
Made ==
    /\ \A o \in ConnIds : o > created => loop[o] = "off" /\ netConn[o] = "none"
    /\ \A o \in ConnIds : o <= created =>
          netConn[o] # "none" /\ transport[o] \in WSs /\ cidOf[o] \in asked
    /\ \A o \in ConnIds : loop[o] = "over" => netConn[o] = "closed"
    /\ \A w \in WSs :
          /\ hand[w] <= created
          /\ handler[w] \in {"write", "close", "sweeping", "ack", "acking"} => hand[w] # NoConn
    /\ \A c \in Cids : conns[c] # NoConn =>
          conns[c] <= created /\ cidOf[conns[c]] = c /\ loop[conns[c]] # "over"

\* A handler whose cleanup has begun has its entries still before it.
Swept ==
    \A c \in Cids, w \in WSs : conns[c] # NoConn /\ transport[conns[c]] = w =>
        /\ handler[w] \notin {"unused", "over"}
        /\ handler[w] = "sweep" => c \in todo[w]
        /\ handler[w] = "sweeping" => c \in todo[w] \/ hand[w] = conns[c]

\* The handler is about some connection.
Busy == {"connect", "nack", "nacking", "ack", "acking", "load", "redial",
         "write", "tell", "telling", "close"}

\* What the client has sent is about connections it has asked for, and DATA
\* about answered ones.
Sent ==
    /\ acked \subseteq asked /\ closed \subseteq asked /\ reached \subseteq asked
    /\ \A w \in WSs : handler[w] \in Busy => msg[w].cid \in asked
    /\ \A w \in WSs : handler[w] = "redial" => msg[w].cmd = "DATA"
    /\ \A w \in WSs : handler[w] \in {"load", "redial"} /\ msg[w].cmd = "DATA"
                         => msg[w].cid \in acked
    /\ \A w \in WSs, m \in Message : m \in ToSet(inbox[w]) =>
          /\ m.cmd # "SWITCH" => m.cid \in asked
          /\ m.cmd = "DATA" => m.cid \in acked

\* CONNECT of c is on its way on w, or is being handled there.
Ask(c) == [cmd |-> "CONNECT", cid |-> c]
Asks(w, c) == Ask(c) \in ToSet(inbox[w])
Handles(w, c) == handler[w] \in {"connect", "ack", "acking"} /\ msg[w].cid = c

OnceIn(q) == \A i, j \in DOMAIN q : q[i].cmd = "CONNECT" /\ q[i] = q[j] => i = j

\* It is sent once and handled once.
Once ==
    /\ \A w \in WSs : OnceIn(inbox[w])
    /\ \A c \in Cids, v, w \in WSs :
          /\ Asks(v, c) /\ Asks(w, c) => v = w
          /\ Handles(v, c) /\ Handles(w, c) => v = w
          /\ ~(Handles(v, c) /\ Asks(w, c))

\* Until it is dialed there is no Conn of c, and until it is answered only the
\* one that HandleConnect holds or has left behind.
Unanswered ==
    /\ \A c \in Cids, w \in WSs :
          Asks(w, c) \/ (handler[w] = "connect" /\ msg[w].cid = c) =>
             c \notin acked /\ \A o \in ConnIds : o <= created => cidOf[o] # c
    /\ \A o \in ConnIds : o <= created /\ loop[o] = "off" =>
          /\ cidOf[o] \notin acked
          /\ \A p \in ConnIds : p <= created /\ cidOf[p] = cidOf[o] => p = o
          /\ netConn[o] # "closed" => conns[cidOf[o]] = o
    /\ \A w \in WSs : handler[w] \in {"ack", "acking"} =>
          /\ cidOf[hand[w]] = msg[w].cid
          /\ loop[hand[w]] = "off"

Inv == Types /\ Made /\ Swept /\ Sent /\ Once /\ Unanswered

\* The bounds are numbers, and what a handler that reads holds is a message.
LEMMA Const ==
    /\ MaxWS \in Nat /\ MaxConns \in Nat /\ MaxMessages \in Nat /\ MaxChunks \in Nat
    /\ NoCid \notin Cids /\ NoMsg \in Message
BY ExitServerAssumption DEF NoMsg, Message, Cmds

-----------------------------------------------------------------------------
(* The inboxes                                                              *)

\* Taking the first message, and adding a last one.
LEMMA TailOnce ==
    ASSUME NEW q \in Seq(Message), q # <<>>, OnceIn(q)
    PROVE  /\ OnceIn(Tail(q))
           /\ Head(q).cmd = "CONNECT" => Head(q) \notin ToSet(Tail(q))
<1> DEFINE t == Tail(q)
<1>1. /\ DOMAIN t = 1..(Len(q) - 1) /\ DOMAIN q = 1..Len(q)
      /\ \A i \in 1..(Len(q) - 1) : t[i] = q[i + 1]
      /\ Head(q) = q[1]
      /\ Len(q) \in Nat \ {0}
  OBVIOUS
<1> HIDE DEF t
<1>2. OnceIn(t)
  BY <1>1 DEF OnceIn
<1>3. ASSUME Head(q).cmd = "CONNECT", NEW i \in 1..(Len(q) - 1), t[i] = Head(q)
      PROVE  FALSE
  BY <1>1, <1>3 DEF OnceIn
<1>4. Head(q).cmd = "CONNECT" => Head(q) \notin ToSet(t)
  BY <1>1, <1>3 DEF ToSet
<1> QED BY <1>2, <1>4 DEF t

\* The first message is taken, a new one goes behind the others.
LEMMA TakesFirst ==
    ASSUME NEW q \in Seq(Message), q # <<>>
    PROVE  /\ Head(q) \in Message /\ Head(q) \in ToSet(q)
           /\ Tail(q) \in Seq(Message) /\ ToSet(Tail(q)) \subseteq ToSet(q)
<1> DEFINE t == Tail(q)
<1>1. /\ t \in Seq(Message) /\ DOMAIN t = 1..(Len(q) - 1) /\ DOMAIN q = 1..Len(q)
      /\ \A i \in 1..(Len(q) - 1) : t[i] = q[i + 1]
      /\ Head(q) = q[1] /\ Head(q) \in Message
      /\ Len(q) \in Nat \ {0}
  OBVIOUS
<1> HIDE DEF t
<1>2. Head(q) \in ToSet(q)
  BY <1>1 DEF ToSet
<1>3. \A i \in 1..(Len(q) - 1) : i + 1 \in 1..Len(q)
  BY <1>1
<1>4. ToSet(t) \subseteq ToSet(q)
  BY <1>1, <1>3 DEF ToSet
<1> QED BY <1>1, <1>2, <1>4 DEF t

LEMMA PutsLast ==
    ASSUME NEW q \in Seq(Message), NEW e \in Message
    PROVE  /\ Append(q, e) \in Seq(Message)
           /\ \A m \in ToSet(Append(q, e)) : m \in ToSet(q) \/ m = e
<1> DEFINE t == Append(q, e)
<1>1. /\ t \in Seq(Message) /\ DOMAIN t = 1..(Len(q) + 1) /\ DOMAIN q = 1..Len(q)
      /\ \A i \in 1..Len(q) : t[i] = q[i]
      /\ t[Len(q) + 1] = e
      /\ Len(q) \in Nat
  OBVIOUS
<1> HIDE DEF t
<1>2. \A i \in 1..(Len(q) + 1) : i \in 1..Len(q) \/ i = Len(q) + 1
  BY <1>1
<1>3. \A m \in ToSet(t) : m \in ToSet(q) \/ m = e
  BY <1>1, <1>2 DEF ToSet
<1> QED BY <1>1, <1>3 DEF t

LEMMA AppendOnce ==
    ASSUME NEW q \in Seq(Message), OnceIn(q), NEW e \in Message,
           e.cmd = "CONNECT" => e \notin ToSet(q)
    PROVE  OnceIn(Append(q, e))
<1> DEFINE t == Append(q, e)
<1>1. /\ DOMAIN t = 1..(Len(q) + 1) /\ DOMAIN q = 1..Len(q)
      /\ \A i \in 1..Len(q) : t[i] = q[i]
      /\ t[Len(q) + 1] = e
      /\ Len(q) \in Nat
  OBVIOUS
<1> HIDE DEF t
<1>2. \A i \in 1..Len(q) : q[i].cmd = "CONNECT" => q[i] # e
  BY <1>1 DEF ToSet
<1>3. OnceIn(t)
  BY <1>1, <1>2 DEF OnceIn
<1> QED BY <1>3 DEF t

\* A CONNECT is known by its Cid.
LEMMA AskFacts ==
    /\ \A c \in Cids : Ask(c) \in Message /\ Ask(c).cmd = "CONNECT" /\ Ask(c).cid = c
    /\ \A m \in Message : m.cmd = "CONNECT" => m = Ask(m.cid)
BY DEF Ask, Message, Cmds

-----------------------------------------------------------------------------
(* What the larger steps do                                                 *)

\* Read takes the first message off the inbox.
Reads(w) ==
    \E m \in Message, l \in {"connect", "load", "switch"}, q \in Seq(Message) :
      /\ m \in ToSet(inbox[w])
      /\ ToSet(q) \subseteq ToSet(inbox[w])
      /\ OnceIn(inbox[w]) => OnceIn(q) /\ (m.cmd = "CONNECT" => m \notin ToSet(q))
      /\ msg' = [msg EXCEPT ![w] = m]
      /\ inbox' = [inbox EXCEPT ![w] = q]
      /\ handler' = [handler EXCEPT ![w] = l]
      /\ l = "connect" <=> m.cmd = "CONNECT"
      /\ l = "load" <=> m.cmd \in {"DATA", "CLOSE"}
      /\ l = "switch" <=> m.cmd = "SWITCH"
      /\ todo' = todo \/ todo' = [todo EXCEPT ![w] = Cids]
      /\ handler[w] = "read"
      /\ UNCHANGED <<conns, connVars, loopVars, hand, sendWS, oldWriters, writerOpen,
                     alive, clientVars, replyVars, chunks>>

LEMMA ReadFacts == ASSUME Types, NEW w \in WSs, Read(w) PROVE Reads(w)
<1> DEFINE q == Tail(inbox[w])
<1>1. inbox[w] \in Seq(Message) /\ inbox[w] # <<>>
  BY DEF Types, Read
<1>2. PICK m \in Message : m = Head(inbox[w])
  BY <1>1, TakesFirst
<1>3. /\ m \in ToSet(inbox[w]) /\ q \in Seq(Message)
      /\ ToSet(q) \subseteq ToSet(inbox[w])
      /\ OnceIn(inbox[w]) => OnceIn(q) /\ (m.cmd = "CONNECT" => m \notin ToSet(q))
  BY <1>1, <1>2, TakesFirst, TailOnce
<1>4. \E l \in {"connect", "load", "switch"} :
             /\ handler' = [handler EXCEPT ![w] = l]
             /\ l = "connect" <=> m.cmd = "CONNECT"
             /\ l = "load" <=> m.cmd \in {"DATA", "CLOSE"}
             /\ l = "switch" <=> m.cmd = "SWITCH"
  BY <1>2 DEF Read, Goto, Set
<1>5. /\ msg' = [msg EXCEPT ![w] = m] /\ inbox' = [inbox EXCEPT ![w] = q]
      /\ todo' = todo \/ todo' = [todo EXCEPT ![w] = Cids]
      /\ handler[w] = "read"
      /\ UNCHANGED <<conns, connVars, loopVars, hand, sendWS, oldWriters, writerOpen,
                     alive, clientVars, replyVars, chunks>>
  BY <1>2 DEF Read, Set
<1> HIDE DEF q
<1> QED BY <1>3, <1>4, <1>5 DEF Reads

\* A message the client sends comes last in the inbox of the WebSocket in use.
Appends(cmd, c) ==
    \E e \in Message, q \in Seq(Message) :
      /\ e = [cmd |-> cmd, cid |-> c] /\ e.cmd = cmd /\ e.cid = c
      /\ current \in WSs
      /\ inbox' = [inbox EXCEPT ![current] = q]
      /\ \A m \in Message : m \in ToSet(q) => m \in ToSet(inbox[current]) \/ m = e
      /\ OnceIn(inbox[current]) /\ (cmd = "CONNECT" => e \notin ToSet(inbox[current]))
           => OnceIn(q)
      /\ UNCHANGED <<ServerKeeps, handler, writerOpen, alive, current, switching,
                     replyVars, chunks>>

LEMMA SendsFacts ==
    ASSUME Types, NEW cmd \in Cmds, NEW c \in Cids, Sends(cmd, c)
    PROVE  Appends(cmd, c)
<1> DEFINE e == [cmd |-> cmd, cid |-> c]
           q == Append(inbox[current], e)
<1>1. current \in WSs /\ inbox[current] \in Seq(Message)
  BY DEF Types, Sends
<1>2. e \in Message /\ e.cmd = cmd /\ e.cid = c
  BY DEF Message
<1>3. inbox' = [inbox EXCEPT ![current] = q]
  BY DEF Sends, Set
<1> HIDE DEF e
<1>4. /\ q \in Seq(Message)
      /\ \A m \in Message : m \in ToSet(q) => m \in ToSet(inbox[current]) \/ m = e
      /\ OnceIn(inbox[current]) /\ (cmd = "CONNECT" => e \notin ToSet(inbox[current]))
                  => OnceIn(q)
  BY <1>1, <1>2, PutsLast, AppendOnce
<1> HIDE DEF q
<1> QED BY <1>1, <1>2, <1>3, <1>4 DEF e, Appends, Sends

\* The first message on a new WebSocket of the client.
Switches ==
    \E q \in Seq(Message) :
      /\ inbox' = [inbox EXCEPT ![current + 1] = q]
      /\ \A m \in ToSet(q) : m.cmd = "SWITCH"
      /\ OnceIn(q)
      /\ current + 1 \in WSs
      /\ handler' = [handler EXCEPT ![current + 1] = "read"]
      /\ writerOpen' = writerOpen \cup {current + 1}
      /\ alive' = alive \cup {current + 1}
      /\ switching' = TRUE
      /\ UNCHANGED <<ServerKeeps, current, asked, closed, messages, replyVars, chunks>>

LEMMA SwitchFacts == ASSUME Types, ClientSwitches PROVE Switches
<1> DEFINE e == [cmd |-> "SWITCH", cid |-> NoCid]
           q == <<e>>
<1>1. e \in Message /\ e.cmd = "SWITCH"
  BY DEF Message, Cmds
<1>2. inbox' = [inbox EXCEPT ![current + 1] = q]
  BY DEF ClientSwitches, Set
<1> HIDE DEF e
<1>3. q \in Seq(Message) /\ DOMAIN q = {1} /\ q[1] = e
  BY <1>1
<1>4. (\A m \in ToSet(q) : m.cmd = "SWITCH") /\ OnceIn(q)
  BY <1>1, <1>3 DEF ToSet, OnceIn
<1> HIDE DEF q
<1> QED BY <1>2, <1>3, <1>4 DEF Switches, ClientSwitches, Opens, Set

\* The dial of a message: its Conn is the next one.
Dials(w, c) ==
    \E n \in ConnIds :
      /\ n = created + 1 /\ created' = n
      /\ cidOf' = [cidOf EXCEPT ![n] = c]
      /\ transport' = [transport EXCEPT ![n] = w]
      /\ netConn' = [netConn EXCEPT ![n] = "open"]
      /\ conns' = [conns EXCEPT ![c] = n]
      /\ hand' = [hand EXCEPT ![w] = n]

LEMMA NewConnFacts ==
    ASSUME Types, NEW w \in WSs, NEW c \in Cids, NewConn(w, c)
    PROVE  Dials(w, c)
<1>1. created + 1 \in ConnIds
  BY Const DEF Types, NewConn, ConnIds
<1> QED BY <1>1 DEF NewConn, Set, Dials

\* What Conns.Load finds.
Loads(w) ==
    /\ handler[w] = "load"
    /\ \E l \in {"write", "close", "redial", "read"}, h \in ConnIds \cup {NoConn}, m \in Message :
          /\ handler' = [handler EXCEPT ![w] = l]
          /\ hand' = [hand EXCEPT ![w] = h]
          /\ msg' = [msg EXCEPT ![w] = m]
          /\ l # "read" => m = msg[w]
          /\ l = "redial" => m.cmd = "DATA"
          /\ h = hand[w] \/ h = NoConn \/ h = conns[msg[w].cid]
          /\ l \in {"write", "close"} => h # NoConn
    /\ sendWS' \in [WSs -> WSs \cup {0}]
    /\ UNCHANGED <<conns, connVars, loopVars, todo, oldWriters, wsVars, clientVars,
                   replyVars, chunks>>

LEMMA LoadFacts ==
    ASSUME Types, NEW w \in WSs, msg[w].cid \in Cids, Load(w)
    PROVE  Loads(w)
<1> USE DEF Types, Set, Goto, Return
<1>1. /\ handler[w] = "load" /\ sendWS' \in [WSs -> WSs \cup {0}]
      /\ UNCHANGED <<conns, connVars, loopVars, todo, oldWriters, wsVars, clientVars,
                     replyVars, chunks>>
  BY DEF Load
<1>2. /\ msg = [msg EXCEPT ![w] = msg[w]] /\ hand = [hand EXCEPT ![w] = hand[w]]
      /\ msg[w] \in Message /\ hand[w] \in ConnIds \cup {NoConn}
      /\ conns[msg[w].cid] \in ConnIds \cup {NoConn}
  OBVIOUS
<1>3. CASE /\ conns[msg[w].cid] # NoConn
           /\ hand' = [hand EXCEPT ![w] = conns[msg[w].cid]]
           /\ \E l \in {"write", "close"} : handler' = [handler EXCEPT ![w] = l]
           /\ msg' = msg
  <2>1. PICK l \in {"write", "close"} : handler' = [handler EXCEPT ![w] = l]
    BY <1>3
  <2>2. PICK h \in ConnIds \cup {NoConn}, m \in Message :
          /\ h = conns[msg[w].cid] /\ h # NoConn /\ m = msg[w]
          /\ hand' = [hand EXCEPT ![w] = h]
          /\ msg' = [msg EXCEPT ![w] = m]
    BY <1>2, <1>3
  <2> QED BY <1>1, <2>1, <2>2 DEF Loads
<1>4. CASE /\ msg[w].cmd = "DATA" /\ handler' = [handler EXCEPT ![w] = "redial"]
           /\ msg' = msg /\ hand' = hand
  BY <1>1, <1>2, <1>4 DEF Loads
<1>5. CASE /\ handler' = [handler EXCEPT ![w] = "read"]
           /\ msg' = [msg EXCEPT ![w] = NoMsg] /\ hand' = [hand EXCEPT ![w] = NoConn]
  BY <1>1, <1>2, <1>5, Const DEF Loads
<1> QED BY <1>3, <1>4, <1>5 DEF Load

\* What HandleSwitch does to the next entry of Conns.
Visits(w) ==
    /\ handler[w] = "switch"
    /\ \E c \in Cids, s \in SUBSET Cids :
          /\ todo' = [todo EXCEPT ![w] = s]
          /\ \/ UNCHANGED <<transport, oldWriters>>
             \/ /\ conns[c] \in ConnIds
                /\ transport' = [transport EXCEPT ![conns[c]] = w]
                /\ \E x \in SUBSET WSs : oldWriters' = [oldWriters EXCEPT ![w] = x]
    /\ UNCHANGED <<conns, created, cidOf, netConn, loopVars, handler, msg, hand, sendWS,
                   wsVars, clientVars, replyVars, chunks>>

LEMMA VisitFacts ==
    ASSUME Types, Made, NEW w \in WSs, SwitchVisit(w)
    PROVE  Visits(w)
<1>1. PICK c \in todo[w] :
        /\ todo' = [todo EXCEPT ![w] = todo[w] \ {c}]
        /\ \/ /\ conns[c] # NoConn
              /\ transport' = [transport EXCEPT ![conns[c]] = w]
              /\ oldWriters' = [oldWriters EXCEPT ![w] = oldWriters[w] \cup {transport[conns[c]]}]
           \/ UNCHANGED <<transport, oldWriters>>
  BY DEF SwitchVisit, Set
<1>2. /\ c \in Cids /\ todo[w] \ {c} \in SUBSET Cids
      /\ conns[c] \in ConnIds \cup {NoConn} /\ oldWriters[w] \in SUBSET WSs
  BY DEF Types
<1>3. conns[c] # NoConn => oldWriters[w] \cup {transport[conns[c]]} \in SUBSET WSs
  BY <1>2 DEF Types, Made
<1>4. /\ handler[w] = "switch"
      /\ UNCHANGED <<conns, created, cidOf, netConn, loopVars, handler, msg, hand, sendWS,
                     wsVars, clientVars, replyVars, chunks>>
  BY DEF SwitchVisit
<1> QED BY <1>1, <1>2, <1>3, <1>4 DEF Visits

\* A message about a connection.
LEMMA MsgCid ==
    ASSUME Types, Sent, NEW w \in WSs
    PROVE  /\ msg[w] \in Message /\ msg[w].cmd \in Cmds
           /\ handler[w] \in Busy => msg[w].cid \in Cids /\ msg[w].cid \in asked
<1>1. msg[w] \in Message
  BY DEF Types
<1> QED BY <1>1 DEF Message, Types, Sent

-----------------------------------------------------------------------------
(* The invariant is inductive                                               *)

LEMMA InvInit == Init => Inv
<1> SUFFICES ASSUME Init PROVE Inv
  OBVIOUS
<1> USE Const DEF Init, WSs, ConnIds, NoConn
<1>1. Types
  BY DEF Types, LoopStates, HandlerStates
<1>2. Made /\ Swept
  BY DEF Made, Swept
<1>3. \A w \in WSs : ToSet(inbox[w]) = {} /\ OnceIn(inbox[w])
  BY DEF ToSet, OnceIn
<1>4. Sent
  BY <1>3 DEF Sent, Busy
<1>5. Once
  BY <1>3 DEF Once, Asks, Handles
<1>6. Unanswered
  BY <1>3 DEF Unanswered, Asks
<1> QED BY <1>1, <1>2, <1>4, <1>5, <1>6 DEF Inv

\* Every step keeps the types.
LEMMA TypesNext == Inv /\ [Next]_vars => Types'
<1> SUFFICES ASSUME Inv, [Next]_vars PROVE Types'
  OBVIOUS
<1>a. \A w \in WSs : Read(w) => Reads(w)
  BY ReadFacts DEF Inv
<1>b. \A w \in WSs : msg[w].cmd \in Cmds /\ (handler[w] \in Busy => msg[w].cid \in Cids /\ msg[w].cid \in asked)
  BY MsgCid DEF Inv
<1>c. \A w \in WSs, c \in Cids : NewConn(w, c) => Dials(w, c)
  BY NewConnFacts DEF Inv
<1>d. ClientSwitches => Switches
  BY SwitchFacts DEF Inv
<1>e. \A cmd \in {"CONNECT", "DATA", "CLOSE"}, c \in Cids : Sends(cmd, c) => Appends(cmd, c)
  BY SendsFacts DEF Inv, Cmds
<1>f. \A w \in WSs : Load(w) => Loads(w)
  BY LoadFacts, <1>b DEF Inv, Load, Busy
<1>g. \A w \in WSs : SwitchVisit(w) => Visits(w)
  BY VisitFacts DEF Inv
<1> USE Const DEF Inv, Types, WSs, ConnIds, NoConn, Busy, LoopStates, HandlerStates, connVars, loopVars, handlerVars, wsVars,
        replyVars, clientVars, Set, Goto, Return, ServerKeeps
<1>1. ASSUME NEW w \in WSs, Read(w) PROVE Types'
  <2>1. Reads(w)
    BY <1>1, <1>a
  <2> QED BY <2>1 DEF Reads
<1>2. ASSUME NEW w \in WSs, ReadFails(w) PROVE Types'
  <2>1. /\ handler[w] = "read" /\ handler' = [handler EXCEPT ![w] = "sweep"]
        /\ todo' = [todo EXCEPT ![w] = Cids]
        /\ UNCHANGED <<conns, connVars, loopVars, msg, hand, sendWS, oldWriters, wsVars,
                       clientVars, replyVars, chunks>>
    BY <1>2 DEF ReadFails
  <2> QED BY <2>1
<1>3. ASSUME NEW w \in WSs, Connect(w) PROVE Types'
  <2>1. msg[w].cid \in Cids /\ msg[w].cid \in asked
    BY <1>3, <1>b DEF Connect
  <2>2. CASE /\ Dials(w, msg[w].cid) /\ Goto(w, "ack")
               /\ handler[w] = "connect"
               /\ UNCHANGED <<loopVars, msg, sendWS, todo, oldWriters, wsVars,
                          clientVars, replyVars, chunks>>
    BY <2>1, <2>2, SMTT(30) DEF Dials
  <2>3. CASE /\ Goto(w, "nack") /\ UNCHANGED <<conns, connVars, hand>>
               /\ handler[w] = "connect"
               /\ UNCHANGED <<loopVars, msg, sendWS, todo, oldWriters, wsVars,
                          clientVars, replyVars, chunks>>
    BY <2>1, <2>3
  <2> QED BY <1>3, <2>1, <2>2, <2>3, <1>c DEF Connect
<1>4. ASSUME NEW w \in WSs, TakeWriter(w) PROVE Types'
  BY <1>4, SMTT(30) DEF TakeWriter
<1>5. ASSUME NEW w \in WSs, Acked(w) PROVE Types'
  BY <1>5 DEF Acked, SendOk, Delivered
<1>6. ASSUME NEW w \in WSs, AckFails(w) PROVE Types'
  BY <1>6 DEF AckFails, SendFails, Delivered
<1>7. ASSUME NEW w \in WSs, Told(w) PROVE Types'
  BY <1>7 DEF Told, SendOk, SendFails, Reach, Delivered
<1>8. ASSUME NEW w \in WSs, Load(w) PROVE Types'
  <2>1. Loads(w)
    BY <1>8, <1>f
  <2> QED BY <2>1 DEF Loads
<1>9. ASSUME NEW w \in WSs, Redial(w) PROVE Types'
  <2>1. msg[w].cid \in Cids /\ msg[w].cid \in asked
    BY <1>9, <1>b DEF Redial
  <2>2. CASE /\ Dials(w, msg[w].cid) /\ Goto(w, "write")
               /\ loop' = Set(loop, created', "read")
               /\ handler[w] = "redial"
               /\ UNCHANGED <<loopWS, stream, msg, sendWS, todo, oldWriters, wsVars,
                          clientVars, replyVars, chunks>>
    BY <2>1, <2>2 DEF Dials
  <2>3. CASE /\ Goto(w, "tell") /\ UNCHANGED <<conns, connVars, hand, loop>>
               /\ handler[w] = "redial"
               /\ UNCHANGED <<loopWS, stream, msg, sendWS, todo, oldWriters, wsVars,
                          clientVars, replyVars, chunks>>
    BY <2>1, <2>3
  <2> QED BY <1>9, <2>1, <2>2, <2>3, <1>c DEF Redial
<1>10. ASSUME NEW w \in WSs, Written(w) PROVE Types'
  BY <1>10 DEF Written
<1>11. ASSUME NEW w \in WSs, WriteFails(w) PROVE Types'
  BY <1>11 DEF WriteFails, CloseConn
<1>12. ASSUME NEW w \in WSs, Close(w) PROVE Types'
  BY <1>12 DEF Close, CloseConn
<1>13. ASSUME NEW w \in WSs, SwitchVisit(w) PROVE Types'
  <2>1. Visits(w)
    BY <1>13, <1>g
  <2> QED BY <2>1, SMT, ZenonT(60) DEF Visits
<1>14. ASSUME NEW w \in WSs, SwitchOver(w) PROVE Types'
  BY <1>14 DEF SwitchOver
<1>15. ASSUME NEW w \in WSs, SweepPass(w) PROVE Types'
  BY <1>15 DEF SweepPass, Finds, Mine
<1>16. ASSUME NEW w \in WSs, SweepFind(w) PROVE Types'
  BY <1>16, SMTT(30) DEF SweepFind, Finds, Mine
<1>17. ASSUME NEW w \in WSs, SweepClose(w) PROVE Types'
  BY <1>17 DEF SweepClose, CloseConn
<1>18. ASSUME NEW w \in WSs, SweepOver(w) PROVE Types'
  BY <1>18 DEF SweepOver
<1>19. ASSUME NEW o \in ConnIds, LoopRead(o) PROVE Types'
  BY <1>19 DEF LoopRead
<1>20. ASSUME NEW o \in ConnIds, LoopTakeWriter(o) PROVE Types'
  BY <1>20 DEF LoopTakeWriter
<1>21. ASSUME NEW o \in ConnIds, LoopSent(o) PROVE Types'
  BY <1>21 DEF LoopSent, SendOk, SendFails, Reach, Delivered, Arrived, Lost
<1>22. ASSUME NEW o \in ConnIds, LoopReadFails(o) PROVE Types'
  BY <1>22 DEF LoopReadFails
<1>23. ASSUME NEW o \in ConnIds, LoopTold(o) PROVE Types'
  BY <1>23 DEF LoopTold, SendOk, SendFails, Reach, Delivered
<1>24. ASSUME NEW o \in ConnIds, LoopExit(o) PROVE Types'
  BY <1>24 DEF LoopExit, CloseConn
<1>25. CASE ClientOpens
  BY <1>25 DEF ClientOpens, Opens
<1>26. CASE ClientSwitches
  <2>1. Switches
    BY <1>26, <1>d
  <2> QED BY <2>1 DEF Switches
<1>27. CASE ClientSwitched
  BY <1>27 DEF ClientSwitched
<1>28. ASSUME NEW c \in Cids, ClientConnect(c) PROVE Types'
  <2>1. Appends("CONNECT", c)
    BY <1>28, <1>e DEF ClientConnect
  <2> QED BY <1>28, <2>1 DEF ClientConnect, Appends
<1>29. ASSUME NEW c \in Cids, ClientData(c) PROVE Types'
  <2>1. Appends("DATA", c)
    BY <1>29, <1>e DEF ClientData
  <2> QED BY <1>29, <2>1 DEF ClientData, Appends
<1>30. ASSUME NEW c \in Cids, ClientClose(c) PROVE Types'
  <2>1. Appends("CLOSE", c)
    BY <1>30, <1>e DEF ClientClose
  <2>2. messages' \in 0..MaxMessages /\ UNCHANGED asked
    BY <1>30 DEF ClientClose
  <2> QED BY <2>1, <2>2 DEF Appends
<1>31. ASSUME NEW w \in WSs, TransportDies(w) PROVE Types'
  BY <1>31 DEF TransportDies
<1>32. ASSUME NEW o \in ConnIds, TargetGone(o) PROVE Types'
  BY <1>32 DEF TargetGone
<1>33. CASE UNCHANGED vars
  BY <1>33 DEF vars
<1> QED
  BY <1>1, <1>2, <1>3, <1>4, <1>5, <1>6, <1>7, <1>8, <1>9, <1>10, <1>11,
     <1>12, <1>13, <1>14, <1>15, <1>16, <1>17, <1>18, <1>19, <1>20, <1>21,
     <1>22, <1>23, <1>24, <1>25, <1>26, <1>27, <1>28, <1>29, <1>30, <1>31,
     <1>32, <1>33
  DEF Next, Handle, RunLoop, Environment

\* Every step keeps what Conn objects are.
LEMMA MadeNext == Inv /\ [Next]_vars => Made'
<1> SUFFICES ASSUME Inv, [Next]_vars PROVE Made'
  OBVIOUS
<1>a. \A w \in WSs : Read(w) => Reads(w)
  BY ReadFacts DEF Inv
<1>b. \A w \in WSs : msg[w].cmd \in Cmds /\ (handler[w] \in Busy => msg[w].cid \in Cids /\ msg[w].cid \in asked)
  BY MsgCid DEF Inv
<1>c. \A w \in WSs, c \in Cids : NewConn(w, c) => Dials(w, c)
  BY NewConnFacts DEF Inv
<1>d. ClientSwitches => Switches
  BY SwitchFacts DEF Inv
<1>e. \A cmd \in {"CONNECT", "DATA", "CLOSE"}, c \in Cids : Sends(cmd, c) => Appends(cmd, c)
  BY SendsFacts DEF Inv, Cmds
<1>f. \A w \in WSs : Load(w) => Loads(w)
  BY LoadFacts, <1>b DEF Inv, Load, Busy
<1>g. \A w \in WSs : SwitchVisit(w) => Visits(w)
  BY VisitFacts DEF Inv
<1> USE Const DEF Inv, WSs, ConnIds, NoConn, connVars, loopVars, handlerVars, wsVars,
        replyVars, clientVars, Set, Goto, Return, ServerKeeps, Types, Made, HandlerStates, Busy
<1>1. ASSUME NEW w \in WSs, Read(w) PROVE Made'
  <2>1. Reads(w)
    BY <1>1, <1>a
  <2> QED BY <2>1 DEF Reads
<1>2. ASSUME NEW w \in WSs, ReadFails(w) PROVE Made'
  <2>1. /\ handler[w] = "read" /\ handler' = [handler EXCEPT ![w] = "sweep"]
        /\ todo' = [todo EXCEPT ![w] = Cids]
        /\ UNCHANGED <<conns, connVars, loopVars, msg, hand, sendWS, oldWriters, wsVars,
                       clientVars, replyVars, chunks>>
    BY <1>2 DEF ReadFails
  <2> QED BY <2>1
<1>3. ASSUME NEW w \in WSs, Connect(w) PROVE Made'
  <2>1. msg[w].cid \in Cids /\ msg[w].cid \in asked
    BY <1>3, <1>b DEF Connect
  <2>2. CASE /\ Dials(w, msg[w].cid) /\ Goto(w, "ack")
               /\ handler[w] = "connect"
               /\ UNCHANGED <<loopVars, msg, sendWS, todo, oldWriters, wsVars,
                          clientVars, replyVars, chunks>>
    BY <2>1, <2>2, SMTT(30) DEF Dials
  <2>3. CASE /\ Goto(w, "nack") /\ UNCHANGED <<conns, connVars, hand>>
               /\ handler[w] = "connect"
               /\ UNCHANGED <<loopVars, msg, sendWS, todo, oldWriters, wsVars,
                          clientVars, replyVars, chunks>>
    BY <2>1, <2>3
  <2> QED BY <1>3, <2>1, <2>2, <2>3, <1>c DEF Connect
<1>4. ASSUME NEW w \in WSs, TakeWriter(w) PROVE Made'
  BY <1>4, SMTT(30) DEF TakeWriter
<1>5. ASSUME NEW w \in WSs, Acked(w) PROVE Made'
  BY <1>5, SMTT(30) DEF Acked, SendOk, Delivered
<1>6. ASSUME NEW w \in WSs, AckFails(w) PROVE Made'
  BY <1>6 DEF AckFails, SendFails, Delivered
<1>7. ASSUME NEW w \in WSs, Told(w) PROVE Made'
  BY <1>7 DEF Told, SendOk, SendFails, Reach, Delivered
<1>8. ASSUME NEW w \in WSs, Load(w) PROVE Made'
  <2>1. Loads(w) /\ msg[w].cid \in Cids
    BY <1>8, <1>b, <1>f DEF Load
  <2>2. conns[msg[w].cid] <= created /\ hand[w] <= created /\ NoConn <= created
    BY <2>1
  <2> QED BY <2>1, <2>2, SMTT(30) DEF Loads
<1>9. ASSUME NEW w \in WSs, Redial(w) PROVE Made'
  <2>1. msg[w].cid \in Cids /\ msg[w].cid \in asked
    BY <1>9, <1>b DEF Redial
  <2>2. CASE /\ Dials(w, msg[w].cid) /\ Goto(w, "write")
               /\ loop' = Set(loop, created', "read")
               /\ UNCHANGED <<loopWS, stream, msg, sendWS, todo, oldWriters, wsVars,
                          clientVars, replyVars, chunks>>
    <3>1. PICK n \in ConnIds :
             /\ n = created + 1 /\ created' = n
             /\ cidOf' = [cidOf EXCEPT ![n] = msg[w].cid]
             /\ transport' = [transport EXCEPT ![n] = w]
             /\ netConn' = [netConn EXCEPT ![n] = "open"]
             /\ conns' = [conns EXCEPT ![msg[w].cid] = n]
             /\ hand' = [hand EXCEPT ![w] = n]
      BY <2>2 DEF Dials
    <3>2. loop' = [loop EXCEPT ![n] = "read"] /\ handler' = [handler EXCEPT ![w] = "write"]
      BY <2>2, <3>1
    <3>3. UNCHANGED <<loopWS, stream, msg, sendWS, todo, oldWriters, wsVars,
                      clientVars, replyVars, chunks>>
      BY <2>2
    <3>4. \A o \in ConnIds : o > created' => o > created /\ o # n
      BY <3>1
    <3>5. \A o \in ConnIds : o <= created' => o <= created \/ o = n
      BY <3>1
    <3>6. /\ \A o \in ConnIds : o > created' => loop'[o] = "off" /\ netConn'[o] = "none"
          /\ \A o \in ConnIds : o <= created' =>
                netConn'[o] # "none" /\ transport'[o] \in WSs /\ cidOf'[o] \in asked'
      BY <2>1, <3>1, <3>2, <3>3, <3>4, <3>5
    <3>7. \A o \in ConnIds : loop'[o] = "over" => netConn'[o] = "closed"
      BY <3>1, <3>2
    <3>8. \A v \in WSs : /\ hand'[v] <= created'
                         /\ handler'[v] \in {"write", "close", "sweeping", "ack", "acking"} => hand'[v] # NoConn
      BY <3>1, <3>2
    <3>9. \A c \in Cids : conns'[c] # NoConn =>
             conns'[c] <= created' /\ cidOf'[conns'[c]] = c /\ loop'[conns'[c]] # "over"
      BY <2>1, <3>1, <3>2
    <3> QED BY <3>6, <3>7, <3>8, <3>9
  <2>3. CASE /\ Goto(w, "tell") /\ UNCHANGED <<conns, connVars, hand, loop>>
               /\ UNCHANGED <<loopWS, stream, msg, sendWS, todo, oldWriters, wsVars,
                          clientVars, replyVars, chunks>>
    BY <2>1, <2>3
  <2> QED BY <1>9, <2>1, <2>2, <2>3, <1>c DEF Redial
<1>10. ASSUME NEW w \in WSs, Written(w) PROVE Made'
  BY <1>10 DEF Written
<1>11. ASSUME NEW w \in WSs, WriteFails(w) PROVE Made'
  BY <1>11 DEF WriteFails, CloseConn
<1>12. ASSUME NEW w \in WSs, Close(w) PROVE Made'
  BY <1>12, SMTT(30) DEF Close, CloseConn
<1>13. ASSUME NEW w \in WSs, SwitchVisit(w) PROVE Made'
  <2>1. Visits(w)
    BY <1>13, <1>g
  <2>2. \A o \in ConnIds : transport[o] \in WSs => transport'[o] \in WSs
    BY <2>1 DEF Visits
  <2> QED BY <2>1, <2>2 DEF Visits
<1>14. ASSUME NEW w \in WSs, SwitchOver(w) PROVE Made'
  BY <1>14 DEF SwitchOver
<1>15. ASSUME NEW w \in WSs, SweepPass(w) PROVE Made'
  BY <1>15 DEF SweepPass, Finds, Mine
<1>16. ASSUME NEW w \in WSs, SweepFind(w) PROVE Made'
  BY <1>16 DEF SweepFind, Finds, Mine
<1>17. ASSUME NEW w \in WSs, SweepClose(w) PROVE Made'
  BY <1>17, SMTT(30) DEF SweepClose, CloseConn
<1>18. ASSUME NEW w \in WSs, SweepOver(w) PROVE Made'
  BY <1>18 DEF SweepOver
<1>19. ASSUME NEW o \in ConnIds, LoopRead(o) PROVE Made'
  BY <1>19 DEF LoopRead
<1>20. ASSUME NEW o \in ConnIds, LoopTakeWriter(o) PROVE Made'
  BY <1>20 DEF LoopTakeWriter
<1>21. ASSUME NEW o \in ConnIds, LoopSent(o) PROVE Made'
  BY <1>21 DEF LoopSent, SendOk, SendFails, Reach, Delivered, Arrived, Lost
<1>22. ASSUME NEW o \in ConnIds, LoopReadFails(o) PROVE Made'
  BY <1>22, SMTT(30) DEF LoopReadFails
<1>23. ASSUME NEW o \in ConnIds, LoopTold(o) PROVE Made'
  BY <1>23 DEF LoopTold, SendOk, SendFails, Reach, Delivered
<1>24. ASSUME NEW o \in ConnIds, LoopExit(o) PROVE Made'
  BY <1>24 DEF LoopExit, CloseConn
<1>25. CASE ClientOpens
  BY <1>25 DEF ClientOpens, Opens
<1>26. CASE ClientSwitches
  <2>1. Switches
    BY <1>26, <1>d
  <2> QED BY <2>1 DEF Switches
<1>27. CASE ClientSwitched
  BY <1>27 DEF ClientSwitched
<1>28. ASSUME NEW c \in Cids, ClientConnect(c) PROVE Made'
  <2>1. Appends("CONNECT", c)
    BY <1>28, <1>e DEF ClientConnect
  <2> QED BY <1>28, <2>1 DEF ClientConnect, Appends
<1>29. ASSUME NEW c \in Cids, ClientData(c) PROVE Made'
  <2>1. Appends("DATA", c)
    BY <1>29, <1>e DEF ClientData
  <2> QED BY <1>29, <2>1 DEF ClientData, Appends
<1>30. ASSUME NEW c \in Cids, ClientClose(c) PROVE Made'
  <2>1. Appends("CLOSE", c)
    BY <1>30, <1>e DEF ClientClose
  <2> QED BY <1>30, <2>1 DEF ClientClose, Appends
<1>31. ASSUME NEW w \in WSs, TransportDies(w) PROVE Made'
  BY <1>31 DEF TransportDies
<1>32. ASSUME NEW o \in ConnIds, TargetGone(o) PROVE Made'
  BY <1>32 DEF TargetGone
<1>33. CASE UNCHANGED vars
  BY <1>33 DEF vars
<1> QED
  BY <1>1, <1>2, <1>3, <1>4, <1>5, <1>6, <1>7, <1>8, <1>9, <1>10, <1>11,
     <1>12, <1>13, <1>14, <1>15, <1>16, <1>17, <1>18, <1>19, <1>20, <1>21,
     <1>22, <1>23, <1>24, <1>25, <1>26, <1>27, <1>28, <1>29, <1>30, <1>31,
     <1>32, <1>33
  DEF Next, Handle, RunLoop, Environment

\* Every step keeps the entries before the cleanup of their WebSocket.
LEMMA SweptNext == Inv /\ [Next]_vars => Swept'
<1> SUFFICES ASSUME Inv, [Next]_vars PROVE Swept'
  OBVIOUS
<1>a. \A w \in WSs : Read(w) => Reads(w)
  BY ReadFacts DEF Inv
<1>b. \A w \in WSs : msg[w].cmd \in Cmds /\ (handler[w] \in Busy => msg[w].cid \in Cids /\ msg[w].cid \in asked)
  BY MsgCid DEF Inv
<1>c. \A w \in WSs, c \in Cids : NewConn(w, c) => Dials(w, c)
  BY NewConnFacts DEF Inv
<1>d. ClientSwitches => Switches
  BY SwitchFacts DEF Inv
<1>e. \A cmd \in {"CONNECT", "DATA", "CLOSE"}, c \in Cids : Sends(cmd, c) => Appends(cmd, c)
  BY SendsFacts DEF Inv, Cmds
<1>f. \A w \in WSs : Load(w) => Loads(w)
  BY LoadFacts, <1>b DEF Inv, Load, Busy
<1>g. \A w \in WSs : SwitchVisit(w) => Visits(w)
  BY VisitFacts DEF Inv
<1> USE Const DEF Inv, WSs, ConnIds, NoConn, connVars, loopVars, handlerVars, wsVars,
        replyVars, clientVars, Set, Goto, Return, ServerKeeps, Types, Swept, HandlerStates
<1>1. ASSUME NEW w \in WSs, Read(w) PROVE Swept'
  <2>1. Reads(w)
    BY <1>1, <1>a
  <2> QED BY <2>1 DEF Reads
<1>2. ASSUME NEW w \in WSs, ReadFails(w) PROVE Swept'
  <2>1. /\ handler[w] = "read" /\ handler' = [handler EXCEPT ![w] = "sweep"]
        /\ todo' = [todo EXCEPT ![w] = Cids]
        /\ UNCHANGED <<conns, connVars, loopVars, msg, hand, sendWS, oldWriters, wsVars,
                       clientVars, replyVars, chunks>>
    BY <1>2 DEF ReadFails
  <2> QED BY <2>1
<1>3. ASSUME NEW w \in WSs, Connect(w) PROVE Swept'
  <2>1. msg[w].cid \in Cids
    BY <1>3, <1>b DEF Connect, Busy
  <2>2. CASE /\ Dials(w, msg[w].cid) /\ Goto(w, "ack")
             /\ UNCHANGED <<loopVars, msg, sendWS, todo, oldWriters, wsVars,
                            clientVars, replyVars, chunks>>
    BY <2>1, <2>2 DEF Dials, Made
  <2>3. CASE /\ Goto(w, "nack") /\ UNCHANGED <<conns, connVars, hand>>
             /\ UNCHANGED <<loopVars, msg, sendWS, todo, oldWriters, wsVars,
                            clientVars, replyVars, chunks>>
    BY <2>1, <2>3
  <2> QED BY <1>3, <2>1, <2>2, <2>3, <1>c DEF Connect
<1>4. ASSUME NEW w \in WSs, TakeWriter(w) PROVE Swept'
  BY <1>4 DEF TakeWriter
<1>5. ASSUME NEW w \in WSs, Acked(w) PROVE Swept'
  BY <1>5 DEF Acked, SendOk, Delivered
<1>6. ASSUME NEW w \in WSs, AckFails(w) PROVE Swept'
  BY <1>6 DEF AckFails, SendFails, Delivered
<1>7. ASSUME NEW w \in WSs, Told(w) PROVE Swept'
  BY <1>7 DEF Told, SendOk, SendFails, Reach, Delivered
<1>8. ASSUME NEW w \in WSs, Load(w) PROVE Swept'
  <2>1. Loads(w)
    BY <1>8, <1>f
  <2> QED BY <2>1, <1>b DEF Loads
<1>9. ASSUME NEW w \in WSs, Redial(w) PROVE Swept'
  <2>1. msg[w].cid \in Cids /\ msg[w].cid \in asked
    BY <1>9, <1>b DEF Redial, Busy
  <2>2. CASE /\ Dials(w, msg[w].cid) /\ Goto(w, "write")
               /\ loop' = Set(loop, created', "read")
               /\ UNCHANGED <<loopWS, stream, msg, sendWS, todo, oldWriters, wsVars,
                          clientVars, replyVars, chunks>>
    <3>1. PICK n \in ConnIds :
             /\ n = created + 1 /\ created' = n
             /\ cidOf' = [cidOf EXCEPT ![n] = msg[w].cid]
             /\ transport' = [transport EXCEPT ![n] = w]
             /\ netConn' = [netConn EXCEPT ![n] = "open"]
             /\ conns' = [conns EXCEPT ![msg[w].cid] = n]
             /\ hand' = [hand EXCEPT ![w] = n]
      BY <2>2 DEF Dials
    <3>2. loop' = [loop EXCEPT ![n] = "read"] /\ handler' = [handler EXCEPT ![w] = "write"]
      BY <2>2, <3>1
    <3>3. UNCHANGED <<loopWS, stream, msg, sendWS, todo, oldWriters, wsVars,
                      clientVars, replyVars, chunks>>
      BY <2>2
    <3> QED BY <2>1, <3>1, <3>2, <3>3 DEF Made
  <2>3. CASE /\ Goto(w, "tell") /\ UNCHANGED <<conns, connVars, hand, loop>>
               /\ UNCHANGED <<loopWS, stream, msg, sendWS, todo, oldWriters, wsVars,
                          clientVars, replyVars, chunks>>
    BY <2>1, <2>3
  <2> QED BY <1>9, <2>1, <2>2, <2>3, <1>c DEF Redial
<1>10. ASSUME NEW w \in WSs, Written(w) PROVE Swept'
  BY <1>10 DEF Written
<1>11. ASSUME NEW w \in WSs, WriteFails(w) PROVE Swept'
  BY <1>11 DEF WriteFails, CloseConn
<1>12. ASSUME NEW w \in WSs, Close(w) PROVE Swept'
  BY <1>12 DEF Close, CloseConn
<1>13. ASSUME NEW w \in WSs, SwitchVisit(w) PROVE Swept'
  <2>1. Visits(w)
    BY <1>13, <1>g
  <2> QED BY <2>1 DEF Visits
<1>14. ASSUME NEW w \in WSs, SwitchOver(w) PROVE Swept'
  BY <1>14 DEF SwitchOver
<1>15. ASSUME NEW w \in WSs, SweepPass(w) PROVE Swept'
  BY <1>15 DEF SweepPass, Finds, Mine
<1>16. ASSUME NEW w \in WSs, SweepFind(w) PROVE Swept'
  BY <1>16 DEF SweepFind, Finds, Mine
<1>17. ASSUME NEW w \in WSs, SweepClose(w) PROVE Swept'
  BY <1>17 DEF SweepClose, CloseConn, Made
<1>18. ASSUME NEW w \in WSs, SweepOver(w) PROVE Swept'
  BY <1>18 DEF SweepOver
<1>19. ASSUME NEW o \in ConnIds, LoopRead(o) PROVE Swept'
  BY <1>19 DEF LoopRead
<1>20. ASSUME NEW o \in ConnIds, LoopTakeWriter(o) PROVE Swept'
  BY <1>20 DEF LoopTakeWriter
<1>21. ASSUME NEW o \in ConnIds, LoopSent(o) PROVE Swept'
  BY <1>21 DEF LoopSent, SendOk, SendFails, Reach, Delivered, Arrived, Lost
<1>22. ASSUME NEW o \in ConnIds, LoopReadFails(o) PROVE Swept'
  BY <1>22 DEF LoopReadFails
<1>23. ASSUME NEW o \in ConnIds, LoopTold(o) PROVE Swept'
  BY <1>23 DEF LoopTold, SendOk, SendFails, Reach, Delivered
<1>24. ASSUME NEW o \in ConnIds, LoopExit(o) PROVE Swept'
  BY <1>24 DEF LoopExit, CloseConn
<1>25. CASE ClientOpens
  BY <1>25 DEF ClientOpens, Opens
<1>26. CASE ClientSwitches
  <2>1. Switches
    BY <1>26, <1>d
  <2> QED BY <2>1 DEF Switches
<1>27. CASE ClientSwitched
  BY <1>27 DEF ClientSwitched
<1>28. ASSUME NEW c \in Cids, ClientConnect(c) PROVE Swept'
  <2>1. Appends("CONNECT", c)
    BY <1>28, <1>e DEF ClientConnect
  <2> QED BY <1>28, <2>1 DEF ClientConnect, Appends
<1>29. ASSUME NEW c \in Cids, ClientData(c) PROVE Swept'
  <2>1. Appends("DATA", c)
    BY <1>29, <1>e DEF ClientData
  <2> QED BY <1>29, <2>1 DEF ClientData, Appends
<1>30. ASSUME NEW c \in Cids, ClientClose(c) PROVE Swept'
  <2>1. Appends("CLOSE", c)
    BY <1>30, <1>e DEF ClientClose
  <2> QED BY <1>30, <2>1 DEF ClientClose, Appends
<1>31. ASSUME NEW w \in WSs, TransportDies(w) PROVE Swept'
  BY <1>31 DEF TransportDies
<1>32. ASSUME NEW o \in ConnIds, TargetGone(o) PROVE Swept'
  BY <1>32 DEF TargetGone
<1>33. CASE UNCHANGED vars
  BY <1>33 DEF vars
<1> QED
  BY <1>1, <1>2, <1>3, <1>4, <1>5, <1>6, <1>7, <1>8, <1>9, <1>10, <1>11,
     <1>12, <1>13, <1>14, <1>15, <1>16, <1>17, <1>18, <1>19, <1>20, <1>21,
     <1>22, <1>23, <1>24, <1>25, <1>26, <1>27, <1>28, <1>29, <1>30, <1>31,
     <1>32, <1>33
  DEF Next, Handle, RunLoop, Environment

\* Every step keeps what the messages are about.
LEMMA SentNext == Inv /\ [Next]_vars => Sent'
<1> SUFFICES ASSUME Inv, [Next]_vars PROVE Sent'
  OBVIOUS
<1>a. \A w \in WSs : Read(w) => Reads(w)
  BY ReadFacts DEF Inv
<1>b. \A w \in WSs : msg[w].cmd \in Cmds /\ (handler[w] \in Busy => msg[w].cid \in Cids /\ msg[w].cid \in asked)
  BY MsgCid DEF Inv
<1>c. \A w \in WSs, c \in Cids : NewConn(w, c) => Dials(w, c)
  BY NewConnFacts DEF Inv
<1>d. ClientSwitches => Switches
  BY SwitchFacts DEF Inv
<1>e. \A cmd \in {"CONNECT", "DATA", "CLOSE"}, c \in Cids : Sends(cmd, c) => Appends(cmd, c)
  BY SendsFacts DEF Inv, Cmds
<1>f. \A w \in WSs : Load(w) => Loads(w)
  BY LoadFacts, <1>b DEF Inv, Load, Busy
<1>g. \A w \in WSs : SwitchVisit(w) => Visits(w)
  BY VisitFacts DEF Inv
<1> USE Const DEF Inv, WSs, ConnIds, NoConn, connVars, loopVars, handlerVars, wsVars,
        replyVars, clientVars, Set, Goto, Return, ServerKeeps, Types, Made, Sent, HandlerStates, Busy
<1>1. ASSUME NEW w \in WSs, Read(w) PROVE Sent'
  <2>0. Reads(w)
    BY <1>1, <1>a
  <2>1. PICK m \in Message, l \in {"connect", "load", "switch"}, q \in Seq(Message) :
          /\ m \in ToSet(inbox[w])
          /\ ToSet(q) \subseteq ToSet(inbox[w])
          /\ msg' = [msg EXCEPT ![w] = m]
          /\ inbox' = [inbox EXCEPT ![w] = q]
          /\ handler' = [handler EXCEPT ![w] = l]
          /\ l = "connect" <=> m.cmd = "CONNECT"
          /\ l = "load" <=> m.cmd \in {"DATA", "CLOSE"}
          /\ l = "switch" <=> m.cmd = "SWITCH"
          /\ UNCHANGED <<conns, connVars, loopVars, hand, sendWS, oldWriters, writerOpen,
                         alive, clientVars, replyVars, chunks>>
    BY ONLY <2>0, SMT, ZenonT(60) DEF Reads
  <2>2. (m.cmd # "SWITCH" => m.cid \in asked) /\ (m.cmd = "DATA" => m.cid \in acked)
    BY <2>1
  <2>3. \A v \in WSs : ToSet(inbox'[v]) \subseteq ToSet(inbox[v])
    BY <2>1
  <2>4. \A v \in WSs : \/ v # w /\ msg'[v] = msg[v] /\ handler'[v] = handler[v]
                       \/ v = w /\ msg'[v] = m /\ handler'[v] = l
    BY <2>1
  <2> QED BY <2>1, <2>2, <2>3, <2>4
<1>2. ASSUME NEW w \in WSs, ReadFails(w) PROVE Sent'
  <2>1. /\ handler[w] = "read" /\ handler' = [handler EXCEPT ![w] = "sweep"]
        /\ todo' = [todo EXCEPT ![w] = Cids]
        /\ UNCHANGED <<conns, connVars, loopVars, msg, hand, sendWS, oldWriters, wsVars,
                       clientVars, replyVars, chunks>>
    BY <1>2 DEF ReadFails
  <2> QED BY <2>1
<1>3. ASSUME NEW w \in WSs, Connect(w) PROVE Sent'
  <2>1. msg[w].cid \in Cids /\ msg[w].cid \in asked
    BY <1>3, <1>b DEF Connect
  <2>2. CASE /\ Dials(w, msg[w].cid) /\ Goto(w, "ack")
               /\ handler[w] = "connect"
               /\ UNCHANGED <<loopVars, msg, sendWS, todo, oldWriters, wsVars,
                          clientVars, replyVars, chunks>>
    BY <2>1, <2>2, SMTT(30) DEF Dials
  <2>3. CASE /\ Goto(w, "nack") /\ UNCHANGED <<conns, connVars, hand>>
               /\ handler[w] = "connect"
               /\ UNCHANGED <<loopVars, msg, sendWS, todo, oldWriters, wsVars,
                          clientVars, replyVars, chunks>>
    BY <2>1, <2>3
  <2> QED BY <1>3, <2>1, <2>2, <2>3, <1>c DEF Connect
<1>4. ASSUME NEW w \in WSs, TakeWriter(w) PROVE Sent'
  <2>1. /\ \A u \in WSs : handler'[u] \in Busy => handler[u] \in Busy
        /\ \A u \in WSs : handler'[u] \in {"load", "redial"} => handler'[u] = handler[u]
        /\ UNCHANGED <<msg, inbox, asked, acked, closed, reached>>
    BY <1>4, SMTT(30) DEF TakeWriter
  <2> QED BY ONLY <2>1, Sent DEF Sent
<1>5. ASSUME NEW w \in WSs, Acked(w) PROVE Sent'
  BY <1>5, SMTT(30) DEF Acked, SendOk, Delivered
<1>6. ASSUME NEW w \in WSs, AckFails(w) PROVE Sent'
  BY <1>6, SMTT(30), ZenonT(30) DEF AckFails, SendFails, Delivered
<1>7. ASSUME NEW w \in WSs, Told(w) PROVE Sent'
  BY <1>7 DEF Told, SendOk, SendFails, Reach, Delivered
<1>8. ASSUME NEW w \in WSs, Load(w) PROVE Sent'
  <2>1. Loads(w)
    BY <1>8, <1>f
  <2> QED BY <2>1, <1>b, SMTT(30) DEF Loads
<1>9. ASSUME NEW w \in WSs, Redial(w) PROVE Sent'
  <2>1. msg[w].cid \in Cids /\ msg[w].cid \in asked
    BY <1>9, <1>b DEF Redial
  <2>2. CASE /\ Dials(w, msg[w].cid) /\ Goto(w, "write")
               /\ loop' = Set(loop, created', "read")
               /\ handler[w] = "redial"
               /\ UNCHANGED <<loopWS, stream, msg, sendWS, todo, oldWriters, wsVars,
                          clientVars, replyVars, chunks>>
    BY <2>1, <2>2, SMTT(30) DEF Dials
  <2>3. CASE /\ Goto(w, "tell") /\ UNCHANGED <<conns, connVars, hand, loop>>
               /\ handler[w] = "redial"
               /\ UNCHANGED <<loopWS, stream, msg, sendWS, todo, oldWriters, wsVars,
                          clientVars, replyVars, chunks>>
    BY <2>1, <2>3
  <2> QED BY <1>9, <2>1, <2>2, <2>3, <1>c DEF Redial
<1>10. ASSUME NEW w \in WSs, Written(w) PROVE Sent'
  BY <1>10, SMTT(30) DEF Written
<1>11. ASSUME NEW w \in WSs, WriteFails(w) PROVE Sent'
  BY <1>11 DEF WriteFails, CloseConn
<1>12. ASSUME NEW w \in WSs, Close(w) PROVE Sent'
  BY <1>12, SMTT(30), ZenonT(30) DEF Close, CloseConn
<1>13. ASSUME NEW w \in WSs, SwitchVisit(w) PROVE Sent'
  <2>1. Visits(w)
    BY <1>13, <1>g
  <2> QED BY <2>1 DEF Visits
<1>14. ASSUME NEW w \in WSs, SwitchOver(w) PROVE Sent'
  BY <1>14 DEF SwitchOver
<1>15. ASSUME NEW w \in WSs, SweepPass(w) PROVE Sent'
  BY <1>15 DEF SweepPass, Finds, Mine
<1>16. ASSUME NEW w \in WSs, SweepFind(w) PROVE Sent'
  BY <1>16 DEF SweepFind, Finds, Mine
<1>17. ASSUME NEW w \in WSs, SweepClose(w) PROVE Sent'
  BY <1>17, SMTT(30) DEF SweepClose, CloseConn
<1>18. ASSUME NEW w \in WSs, SweepOver(w) PROVE Sent'
  BY <1>18 DEF SweepOver
<1>19. ASSUME NEW o \in ConnIds, LoopRead(o) PROVE Sent'
  BY <1>19 DEF LoopRead
<1>20. ASSUME NEW o \in ConnIds, LoopTakeWriter(o) PROVE Sent'
  BY <1>20 DEF LoopTakeWriter
<1>21. ASSUME NEW o \in ConnIds, LoopSent(o) PROVE Sent'
  BY <1>21 DEF LoopSent, SendOk, SendFails, Reach, Delivered, Arrived, Lost
<1>22. ASSUME NEW o \in ConnIds, LoopReadFails(o) PROVE Sent'
  BY <1>22 DEF LoopReadFails
<1>23. ASSUME NEW o \in ConnIds, LoopTold(o) PROVE Sent'
  BY <1>23 DEF LoopTold, SendOk, SendFails, Reach, Delivered
<1>24. ASSUME NEW o \in ConnIds, LoopExit(o) PROVE Sent'
  BY <1>24 DEF LoopExit, CloseConn
<1>25. CASE ClientOpens
  BY <1>25 DEF ClientOpens, Opens
<1>26. CASE ClientSwitches
  <2>1. Switches
    BY <1>26, <1>d
  <2> QED BY <2>1 DEF Switches
<1>27. CASE ClientSwitched
  BY <1>27 DEF ClientSwitched
<1>28. ASSUME NEW c \in Cids, ClientConnect(c) PROVE Sent'
  <2>1. Appends("CONNECT", c)
    BY <1>28, <1>e DEF ClientConnect
  <2> QED BY <1>28, <2>1 DEF ClientConnect, Appends
<1>29. ASSUME NEW c \in Cids, ClientData(c) PROVE Sent'
  <2>1. Appends("DATA", c)
    BY <1>29, <1>e DEF ClientData
  <2> QED BY <1>29, <2>1 DEF ClientData, Appends
<1>30. ASSUME NEW c \in Cids, ClientClose(c) PROVE Sent'
  <2>1. Appends("CLOSE", c)
    BY <1>30, <1>e DEF ClientClose
  <2> QED BY <1>30, <2>1 DEF ClientClose, Appends
<1>31. ASSUME NEW w \in WSs, TransportDies(w) PROVE Sent'
  BY <1>31 DEF TransportDies
<1>32. ASSUME NEW o \in ConnIds, TargetGone(o) PROVE Sent'
  BY <1>32 DEF TargetGone
<1>33. CASE UNCHANGED vars
  BY <1>33 DEF vars
<1> QED
  BY <1>1, <1>2, <1>3, <1>4, <1>5, <1>6, <1>7, <1>8, <1>9, <1>10, <1>11,
     <1>12, <1>13, <1>14, <1>15, <1>16, <1>17, <1>18, <1>19, <1>20, <1>21,
     <1>22, <1>23, <1>24, <1>25, <1>26, <1>27, <1>28, <1>29, <1>30, <1>31,
     <1>32, <1>33
  DEF Next, Handle, RunLoop, Environment

\* Every step keeps a CONNECT the only one of its Cid.
LEMMA OnceNext == Inv /\ [Next]_vars => Once'
<1> SUFFICES ASSUME Inv, [Next]_vars PROVE Once'
  OBVIOUS
<1>a. \A w \in WSs : Read(w) => Reads(w)
  BY ReadFacts DEF Inv
<1>b. \A w \in WSs : msg[w].cmd \in Cmds /\ (handler[w] \in Busy => msg[w].cid \in Cids /\ msg[w].cid \in asked)
  BY MsgCid DEF Inv
<1>c. \A w \in WSs, c \in Cids : NewConn(w, c) => Dials(w, c)
  BY NewConnFacts DEF Inv
<1>d. ClientSwitches => Switches
  BY SwitchFacts DEF Inv
<1>e. \A cmd \in {"CONNECT", "DATA", "CLOSE"}, c \in Cids : Sends(cmd, c) => Appends(cmd, c)
  BY SendsFacts DEF Inv, Cmds
<1>f. \A w \in WSs : Load(w) => Loads(w)
  BY LoadFacts, <1>b DEF Inv, Load, Busy
<1>g. \A w \in WSs : SwitchVisit(w) => Visits(w)
  BY VisitFacts DEF Inv
<1> USE Const DEF Inv, WSs, ConnIds, NoConn, connVars, loopVars, handlerVars, wsVars,
        replyVars, clientVars, Set, Goto, Return, ServerKeeps, Types, Sent, Once, HandlerStates, Busy, Asks, Handles
<1>1. ASSUME NEW w \in WSs, Read(w) PROVE Once'
  <2>1. Reads(w)
    BY <1>1, <1>a
  <2> QED BY <2>1, AskFacts DEF Reads
<1>2. ASSUME NEW w \in WSs, ReadFails(w) PROVE Once'
  <2>1. /\ handler[w] = "read" /\ handler' = [handler EXCEPT ![w] = "sweep"]
        /\ todo' = [todo EXCEPT ![w] = Cids]
        /\ UNCHANGED <<conns, connVars, loopVars, msg, hand, sendWS, oldWriters, wsVars,
                       clientVars, replyVars, chunks>>
    BY <1>2 DEF ReadFails
  <2> QED BY <2>1, AskFacts
<1>3. ASSUME NEW w \in WSs, Connect(w) PROVE Once'
  <2>1. msg[w].cid \in Cids /\ msg[w].cid \in asked
    BY <1>3, <1>b DEF Connect
  <2>2. CASE /\ Dials(w, msg[w].cid) /\ Goto(w, "ack")
               /\ handler[w] = "connect"
               /\ UNCHANGED <<loopVars, msg, sendWS, todo, oldWriters, wsVars,
                          clientVars, replyVars, chunks>>
    BY <2>1, <2>2, AskFacts DEF Dials
  <2>3. CASE /\ Goto(w, "nack") /\ UNCHANGED <<conns, connVars, hand>>
               /\ handler[w] = "connect"
               /\ UNCHANGED <<loopVars, msg, sendWS, todo, oldWriters, wsVars,
                          clientVars, replyVars, chunks>>
    BY <2>1, <2>3, AskFacts
  <2> QED BY <1>3, <2>1, <2>2, <2>3, <1>c DEF Connect
<1>4. ASSUME NEW w \in WSs, TakeWriter(w) PROVE Once'
  BY <1>4 DEF TakeWriter
<1>5. ASSUME NEW w \in WSs, Acked(w) PROVE Once'
  BY <1>5 DEF Acked, SendOk, Delivered
<1>6. ASSUME NEW w \in WSs, AckFails(w) PROVE Once'
  BY <1>6 DEF AckFails, SendFails, Delivered
<1>7. ASSUME NEW w \in WSs, Told(w) PROVE Once'
  BY <1>7 DEF Told, SendOk, SendFails, Reach, Delivered
<1>8. ASSUME NEW w \in WSs, Load(w) PROVE Once'
  <2>1. Loads(w)
    BY <1>8, <1>f
  <2> QED BY <2>1, <1>b, AskFacts DEF Loads
<1>9. ASSUME NEW w \in WSs, Redial(w) PROVE Once'
  <2>1. msg[w].cid \in Cids /\ msg[w].cid \in asked
    BY <1>9, <1>b DEF Redial
  <2>2. CASE /\ Dials(w, msg[w].cid) /\ Goto(w, "write")
               /\ loop' = Set(loop, created', "read")
               /\ handler[w] = "redial"
               /\ UNCHANGED <<loopWS, stream, msg, sendWS, todo, oldWriters, wsVars,
                          clientVars, replyVars, chunks>>
    BY <2>1, <2>2, AskFacts DEF Dials
  <2>3. CASE /\ Goto(w, "tell") /\ UNCHANGED <<conns, connVars, hand, loop>>
               /\ handler[w] = "redial"
               /\ UNCHANGED <<loopWS, stream, msg, sendWS, todo, oldWriters, wsVars,
                          clientVars, replyVars, chunks>>
    BY <2>1, <2>3, AskFacts
  <2> QED BY <1>9, <2>1, <2>2, <2>3, <1>c DEF Redial
<1>10. ASSUME NEW w \in WSs, Written(w) PROVE Once'
  BY <1>10 DEF Written
<1>11. ASSUME NEW w \in WSs, WriteFails(w) PROVE Once'
  BY <1>11 DEF WriteFails, CloseConn
<1>12. ASSUME NEW w \in WSs, Close(w) PROVE Once'
  BY <1>12 DEF Close, CloseConn
<1>13. ASSUME NEW w \in WSs, SwitchVisit(w) PROVE Once'
  <2>1. Visits(w)
    BY <1>13, <1>g
  <2> QED BY <2>1, AskFacts DEF Visits
<1>14. ASSUME NEW w \in WSs, SwitchOver(w) PROVE Once'
  BY <1>14 DEF SwitchOver
<1>15. ASSUME NEW w \in WSs, SweepPass(w) PROVE Once'
  BY <1>15 DEF SweepPass, Finds, Mine
<1>16. ASSUME NEW w \in WSs, SweepFind(w) PROVE Once'
  BY <1>16 DEF SweepFind, Finds, Mine
<1>17. ASSUME NEW w \in WSs, SweepClose(w) PROVE Once'
  BY <1>17 DEF SweepClose, CloseConn
<1>18. ASSUME NEW w \in WSs, SweepOver(w) PROVE Once'
  BY <1>18 DEF SweepOver
<1>19. ASSUME NEW o \in ConnIds, LoopRead(o) PROVE Once'
  BY <1>19 DEF LoopRead
<1>20. ASSUME NEW o \in ConnIds, LoopTakeWriter(o) PROVE Once'
  BY <1>20 DEF LoopTakeWriter
<1>21. ASSUME NEW o \in ConnIds, LoopSent(o) PROVE Once'
  BY <1>21 DEF LoopSent, SendOk, SendFails, Reach, Delivered, Arrived, Lost
<1>22. ASSUME NEW o \in ConnIds, LoopReadFails(o) PROVE Once'
  BY <1>22 DEF LoopReadFails
<1>23. ASSUME NEW o \in ConnIds, LoopTold(o) PROVE Once'
  BY <1>23 DEF LoopTold, SendOk, SendFails, Reach, Delivered
<1>24. ASSUME NEW o \in ConnIds, LoopExit(o) PROVE Once'
  BY <1>24 DEF LoopExit, CloseConn
<1>25. CASE ClientOpens
  BY <1>25 DEF ClientOpens, Opens
<1>26. CASE ClientSwitches
  <2>1. PICK q \in Seq(Message) :
          /\ inbox' = [inbox EXCEPT ![current + 1] = q]
          /\ \A m \in ToSet(q) : m.cmd = "SWITCH"
          /\ OnceIn(q)
          /\ handler' = [handler EXCEPT ![current + 1] = "read"] /\ msg' = msg
    BY <1>26, <1>d DEF Switches
  <2>2. \A v \in WSs : OnceIn(inbox'[v])
    BY <2>1
  <2>5. \A c \in Cids : Ask(c) \notin ToSet(q)
    BY ONLY <2>1, AskFacts
  <2>3. \A v \in WSs, c \in Cids : Ask(c) \in ToSet(inbox'[v]) => Ask(c) \in ToSet(inbox[v])
    BY <2>1, <2>5
  <2>4. \A v \in WSs, c \in Cids : Handles(v, c)' => Handles(v, c)
    BY <2>1
  <2>8. ASSUME NEW d \in Cids, NEW u \in WSs, NEW v \in WSs
        PROVE  (/\ Asks(u, d) /\ Asks(v, d) => u = v
                /\ Handles(u, d) /\ Handles(v, d) => u = v
                /\ ~(Handles(u, d) /\ Asks(v, d)))'
    BY <2>3, <2>4
  <2> QED BY <2>2, <2>8
<1>27. CASE ClientSwitched
  BY <1>27 DEF ClientSwitched
<1>28. ASSUME NEW c \in Cids, ClientConnect(c) PROVE Once'
  <2>1. PICK e \in Message, q \in Seq(Message) :
          /\ e.cmd = "CONNECT" /\ e.cid = c
          /\ current \in WSs
          /\ inbox' = [inbox EXCEPT ![current] = q]
          /\ \A m \in Message : m \in ToSet(q) => m \in ToSet(inbox[current]) \/ m = e
          /\ e \notin ToSet(inbox[current]) => OnceIn(q)
          /\ UNCHANGED <<handler, msg>>
    BY <1>28, <1>e, SMT, ZenonT(60) DEF ClientConnect, Appends
  <2>2. e = Ask(c) /\ \A d \in Cids : Ask(d) = e => d = c
    BY <2>1, AskFacts
  <2>3. \A v \in WSs : Ask(c) \notin ToSet(inbox[v]) /\ ~Handles(v, c)
    BY <1>28, <2>1, <2>2 DEF ClientConnect
  <2>4. \A v \in WSs : OnceIn(inbox'[v])
    BY <2>1, <2>2, <2>3
  <2>5. \A v \in WSs, d \in Cids : Ask(d) \in ToSet(inbox'[v])
           => Ask(d) \in ToSet(inbox[v]) \/ (v = current /\ d = c)
    BY <2>1, <2>2, AskFacts
  <2>6. \A v \in WSs, d \in Cids : Handles(v, d)' => Handles(v, d)
    BY <2>1
  <2>8. ASSUME NEW d \in Cids, NEW u \in WSs, NEW v \in WSs
        PROVE  (/\ Asks(u, d) /\ Asks(v, d) => u = v
                /\ Handles(u, d) /\ Handles(v, d) => u = v
                /\ ~(Handles(u, d) /\ Asks(v, d)))'
    <3>1. \A x \in WSs : Asks(x, d)' => Asks(x, d) \/ (x = current /\ d = c)
      BY <2>5 DEF Asks
    <3>2. \A x \in WSs : ~Asks(x, c) /\ ~Handles(x, c)
      BY <2>3 DEF Asks
    <3>3. CASE d = c
      <4>1. \A x \in WSs : ~Handles(x, d)'
        BY ONLY <2>6, <3>2, <3>3, d \in Cids
      <4>2. \A x \in WSs : Asks(x, d)' => x = current
        BY ONLY <3>1, <3>2, <3>3
      <4> QED BY ONLY <4>1, <4>2, u \in WSs, v \in WSs
    <3>4. CASE d # c
      <4>1. \A x \in WSs : (Asks(x, d)' => Asks(x, d)) /\ (Handles(x, d)' => Handles(x, d))
        BY ONLY <2>6, <3>1, <3>4, d \in Cids
      <4>2. /\ Asks(u, d) /\ Asks(v, d) => u = v
            /\ Handles(u, d) /\ Handles(v, d) => u = v
            /\ ~(Handles(u, d) /\ Asks(v, d))
        BY DEF Once
      <4> QED BY ONLY <4>1, <4>2, u \in WSs, v \in WSs
    <3> QED BY <3>3, <3>4
  <2> QED BY <2>4, <2>8
<1>29. ASSUME NEW c \in Cids, ClientData(c) PROVE Once'
  <2>1. Appends("DATA", c)
    BY <1>29, <1>e DEF ClientData
  <2> QED BY <1>29, <2>1, AskFacts DEF ClientData, Appends
<1>30. ASSUME NEW c \in Cids, ClientClose(c) PROVE Once'
  <2>1. Appends("CLOSE", c)
    BY <1>30, <1>e DEF ClientClose
  <2> QED BY <1>30, <2>1, AskFacts DEF ClientClose, Appends
<1>31. ASSUME NEW w \in WSs, TransportDies(w) PROVE Once'
  BY <1>31 DEF TransportDies
<1>32. ASSUME NEW o \in ConnIds, TargetGone(o) PROVE Once'
  BY <1>32 DEF TargetGone
<1>33. CASE UNCHANGED vars
  BY <1>33 DEF vars
<1> QED
  BY <1>1, <1>2, <1>3, <1>4, <1>5, <1>6, <1>7, <1>8, <1>9, <1>10, <1>11,
     <1>12, <1>13, <1>14, <1>15, <1>16, <1>17, <1>18, <1>19, <1>20, <1>21,
     <1>22, <1>23, <1>24, <1>25, <1>26, <1>27, <1>28, <1>29, <1>30, <1>31,
     <1>32, <1>33
  DEF Next, Handle, RunLoop, Environment

\* Every step keeps what the Conns of an unanswered Cid are.
LEMMA UnansweredNext == Inv /\ [Next]_vars => Unanswered'
<1> SUFFICES ASSUME Inv, [Next]_vars PROVE Unanswered'
  OBVIOUS
<1>a. \A w \in WSs : Read(w) => Reads(w)
  BY ReadFacts DEF Inv
<1>b. \A w \in WSs : msg[w].cmd \in Cmds /\ (handler[w] \in Busy => msg[w].cid \in Cids /\ msg[w].cid \in asked)
  BY MsgCid DEF Inv
<1>c. \A w \in WSs, c \in Cids : NewConn(w, c) => Dials(w, c)
  BY NewConnFacts DEF Inv
<1>d. ClientSwitches => Switches
  BY SwitchFacts DEF Inv
<1>e. \A cmd \in {"CONNECT", "DATA", "CLOSE"}, c \in Cids : Sends(cmd, c) => Appends(cmd, c)
  BY SendsFacts DEF Inv, Cmds
<1>f. \A w \in WSs : Load(w) => Loads(w)
  BY LoadFacts, <1>b DEF Inv, Load, Busy
<1>g. \A w \in WSs : SwitchVisit(w) => Visits(w)
  BY VisitFacts DEF Inv
<1> USE Const DEF Inv, WSs, ConnIds, NoConn, connVars, loopVars, handlerVars, wsVars,
        replyVars, clientVars, Set, Goto, Return, ServerKeeps, Types, Made, Sent, Once, Unanswered, Busy, Asks, Handles
<1>1. ASSUME NEW w \in WSs, Read(w) PROVE Unanswered'
  <2>1. Reads(w)
    BY <1>1, <1>a
  <2> QED BY <2>1, AskFacts DEF Reads
<1>2. ASSUME NEW w \in WSs, ReadFails(w) PROVE Unanswered'
  <2>1. /\ handler[w] = "read" /\ handler' = [handler EXCEPT ![w] = "sweep"]
        /\ todo' = [todo EXCEPT ![w] = Cids]
        /\ UNCHANGED <<conns, connVars, loopVars, msg, hand, sendWS, oldWriters, wsVars,
                       clientVars, replyVars, chunks>>
    BY <1>2 DEF ReadFails
  <2> QED BY <2>1, AskFacts
<1>3. ASSUME NEW w \in WSs, Connect(w) PROVE Unanswered'
  <2>1. msg[w].cid \in Cids /\ msg[w].cid \in asked
    BY <1>3, <1>b DEF Connect
  <2>2. CASE /\ Dials(w, msg[w].cid) /\ Goto(w, "ack")
               /\ handler[w] = "connect"
               /\ UNCHANGED <<loopVars, msg, sendWS, todo, oldWriters, wsVars,
                          clientVars, replyVars, chunks>>
    BY <2>1, <2>2, AskFacts, SMTT(30) DEF Dials
  <2>3. CASE /\ Goto(w, "nack") /\ UNCHANGED <<conns, connVars, hand>>
               /\ handler[w] = "connect"
               /\ UNCHANGED <<loopVars, msg, sendWS, todo, oldWriters, wsVars,
                          clientVars, replyVars, chunks>>
    BY <2>1, <2>3, AskFacts, SMTT(30), ZenonT(30)
  <2> QED BY <1>3, <2>1, <2>2, <2>3, <1>c DEF Connect
<1>4. ASSUME NEW w \in WSs, TakeWriter(w) PROVE Unanswered'
  BY <1>4, SMTT(30) DEF TakeWriter
<1>5. ASSUME NEW w \in WSs, Acked(w) PROVE Unanswered'
  <2>1. PICK h \in ConnIds, c \in Cids :
          /\ h = hand[w] /\ h <= created /\ loop[h] = "off"
          /\ c = msg[w].cid /\ c = cidOf[h]
    <3>1. handler[w] = "acking"
      BY <1>5 DEF Acked
    <3>2. hand[w] \in ConnIds \cup {NoConn} /\ hand[w] # NoConn /\ hand[w] <= created
      BY <3>1
    <3>3. msg[w].cid \in Cids
      BY <3>1, <1>b
    <3> QED BY <3>1, <3>2, <3>3
  <2>2. /\ acked' \subseteq acked \cup {c}
        /\ loop' = [loop EXCEPT ![h] = "read"]
        /\ handler' = [handler EXCEPT ![w] = "read"]
        /\ msg' = [msg EXCEPT ![w] = NoMsg] /\ hand' = [hand EXCEPT ![w] = NoConn]
        /\ UNCHANGED <<conns, created, cidOf, netConn, inbox>>
    BY <1>5, <2>1 DEF Acked, Delivered
  <2>3. \A v \in WSs : ~Asks(v, c) /\ (Handles(v, c) => v = w)
    BY <1>5, <2>1, SMTT(30) DEF Acked
  <2>4. \A p \in ConnIds : p <= created /\ cidOf[p] = c => p = h
    BY <2>1
  <2>5. \A v \in WSs : v # w /\ handler[v] \in {"ack", "acking"} => hand[v] # h
    <3> SUFFICES ASSUME NEW v \in WSs, v # w, handler[v] \in {"ack", "acking"} PROVE hand[v] # h
      OBVIOUS
    <3>1. cidOf[hand[v]] = msg[v].cid
      OBVIOUS
    <3>2. ~Handles(v, c)
      BY <2>3
    <3> QED BY <3>1, <3>2, <2>1
  <2> QED BY <2>1, <2>2, <2>3, <2>4, <2>5, SMTT(30)
<1>6. ASSUME NEW w \in WSs, AckFails(w) PROVE Unanswered'
  BY <1>6 DEF AckFails, SendFails, Delivered
<1>7. ASSUME NEW w \in WSs, Told(w) PROVE Unanswered'
  BY <1>7 DEF Told, SendOk, SendFails, Reach, Delivered
<1>8. ASSUME NEW w \in WSs, Load(w) PROVE Unanswered'
  <2>1. Loads(w)
    BY <1>8, <1>f
  <2> QED BY <2>1, <1>b, AskFacts, SMTT(30) DEF Loads
<1>9. ASSUME NEW w \in WSs, Redial(w) PROVE Unanswered'
  <2>1. msg[w].cid \in Cids /\ msg[w].cid \in asked
    BY <1>9, <1>b DEF Redial
  <2>2. CASE /\ Dials(w, msg[w].cid) /\ Goto(w, "write")
               /\ loop' = Set(loop, created', "read")
               /\ handler[w] = "redial"
               /\ UNCHANGED <<loopWS, stream, msg, sendWS, todo, oldWriters, wsVars,
                          clientVars, replyVars, chunks>>
    BY <2>1, <2>2, AskFacts DEF Dials
  <2>3. CASE /\ Goto(w, "tell") /\ UNCHANGED <<conns, connVars, hand, loop>>
               /\ handler[w] = "redial"
               /\ UNCHANGED <<loopWS, stream, msg, sendWS, todo, oldWriters, wsVars,
                          clientVars, replyVars, chunks>>
    BY <2>1, <2>3, AskFacts
  <2> QED BY <1>9, <2>1, <2>2, <2>3, <1>c DEF Redial
<1>10. ASSUME NEW w \in WSs, Written(w) PROVE Unanswered'
  BY <1>10 DEF Written
<1>11. ASSUME NEW w \in WSs, WriteFails(w) PROVE Unanswered'
  BY <1>11 DEF WriteFails, CloseConn
<1>12. ASSUME NEW w \in WSs, Close(w) PROVE Unanswered'
  <2>1. PICK h \in ConnIds : h = hand[w] /\ h <= created
    <3>1. handler[w] = "close"
      BY <1>12 DEF Close
    <3>2. hand[w] \in ConnIds \cup {NoConn} /\ hand[w] # NoConn /\ hand[w] <= created
      BY <3>1
    <3> QED BY <3>2
  <2>2. /\ conns' = [conns EXCEPT ![cidOf[h]] = NoConn]
        /\ netConn' = [netConn EXCEPT ![h] = "closed"]
        /\ handler' = [handler EXCEPT ![w] = "read"]
        /\ msg' = [msg EXCEPT ![w] = NoMsg] /\ hand' = [hand EXCEPT ![w] = NoConn]
        /\ UNCHANGED <<created, cidOf, transport, loopVars, inbox, replyVars>>
    BY <1>12, <2>1 DEF Close, CloseConn
  <2>3. \A v \in WSs : handler'[v] \in {"connect", "ack", "acking"} =>
           handler[v] = handler'[v] /\ msg'[v] = msg[v] /\ hand'[v] = hand[v]
    BY <2>2
  <2>4. ASSUME NEW o \in ConnIds, o <= created, loop[o] = "off", netConn'[o] # "closed"
        PROVE  conns'[cidOf[o]] = o
    <3>1. o # h /\ netConn[o] # "closed"
      BY <2>1, <2>2, <2>4
    <3>2. cidOf[o] # cidOf[h] /\ conns[cidOf[o]] = o
      BY <2>1, <2>4, <3>1
    <3> QED BY <2>2, <3>2
  <2> QED BY <2>2, <2>3, <2>4
<1>13. ASSUME NEW w \in WSs, SwitchVisit(w) PROVE Unanswered'
  <2>1. Visits(w)
    BY <1>13, <1>g
  <2> QED BY <2>1, AskFacts DEF Visits
<1>14. ASSUME NEW w \in WSs, SwitchOver(w) PROVE Unanswered'
  BY <1>14 DEF SwitchOver
<1>15. ASSUME NEW w \in WSs, SweepPass(w) PROVE Unanswered'
  BY <1>15 DEF SweepPass, Finds, Mine
<1>16. ASSUME NEW w \in WSs, SweepFind(w) PROVE Unanswered'
  BY <1>16, SMTT(30), ZenonT(30) DEF SweepFind, Finds, Mine
<1>17. ASSUME NEW w \in WSs, SweepClose(w) PROVE Unanswered'
  BY <1>17 DEF SweepClose, CloseConn
<1>18. ASSUME NEW w \in WSs, SweepOver(w) PROVE Unanswered'
  BY <1>18 DEF SweepOver
<1>19. ASSUME NEW o \in ConnIds, LoopRead(o) PROVE Unanswered'
  BY <1>19 DEF LoopRead
<1>20. ASSUME NEW o \in ConnIds, LoopTakeWriter(o) PROVE Unanswered'
  BY <1>20 DEF LoopTakeWriter
<1>21. ASSUME NEW o \in ConnIds, LoopSent(o) PROVE Unanswered'
  BY <1>21 DEF LoopSent, SendOk, SendFails, Reach, Delivered, Arrived, Lost
<1>22. ASSUME NEW o \in ConnIds, LoopReadFails(o) PROVE Unanswered'
  BY <1>22, SMTT(30), ZenonT(30) DEF LoopReadFails
<1>23. ASSUME NEW o \in ConnIds, LoopTold(o) PROVE Unanswered'
  BY <1>23 DEF LoopTold, SendOk, SendFails, Reach, Delivered
<1>24. ASSUME NEW o \in ConnIds, LoopExit(o) PROVE Unanswered'
  BY <1>24, SMTT(30) DEF LoopExit, CloseConn
<1>25. CASE ClientOpens
  BY <1>25 DEF ClientOpens, Opens
<1>26. CASE ClientSwitches
  <2>1. Switches
    BY <1>26, <1>d
  <2>2. \A v \in WSs, c \in Cids : Ask(c) \in ToSet(inbox'[v]) => Ask(c) \in ToSet(inbox[v])
    <3>1. PICK q \in Seq(Message) :
             /\ inbox' = [inbox EXCEPT ![current + 1] = q]
             /\ \A m \in ToSet(q) : m.cmd = "SWITCH"
      BY <2>1 DEF Switches
    <3>2. \A c \in Cids : Ask(c) \notin ToSet(q)
      BY ONLY <3>1, AskFacts
    <3> QED BY <3>1, <3>2
  <2>3. \A v \in WSs : handler'[v] = "read" \/ handler'[v] = handler[v]
    BY <2>1 DEF Switches
  <2>4. UNCHANGED <<conns, connVars, loop, msg, hand, acked>>
    BY <2>1 DEF Switches
  <2>5. ASSUME NEW c \in Cids, NEW v \in WSs,
               Ask(c) \in ToSet(inbox'[v]) \/ (handler'[v] = "connect" /\ msg[v].cid = c)
        PROVE  c \notin acked /\ \A o \in ConnIds : o <= created => cidOf[o] # c
    BY <2>2, <2>3, <2>5
  <2>6. \A o \in ConnIds : o <= created /\ loop[o] = "off" =>
          /\ cidOf[o] \notin acked
          /\ \A p \in ConnIds : p <= created /\ cidOf[p] = cidOf[o] => p = o
          /\ netConn[o] # "closed" => conns[cidOf[o]] = o
    OBVIOUS
  <2>7. \A v \in WSs : handler'[v] \in {"ack", "acking"} =>
          cidOf[hand[v]] = msg[v].cid /\ loop[hand[v]] = "off"
    BY <2>3
  <2> QED BY <2>4, <2>5, <2>6, <2>7
<1>27. CASE ClientSwitched
  BY <1>27 DEF ClientSwitched
<1>28. ASSUME NEW c \in Cids, ClientConnect(c) PROVE Unanswered'
  <2>1. Appends("CONNECT", c)
    BY <1>28, <1>e DEF ClientConnect
  <2> QED BY <1>28, <2>1, AskFacts DEF ClientConnect, Appends
<1>29. ASSUME NEW c \in Cids, ClientData(c) PROVE Unanswered'
  <2>1. Appends("DATA", c)
    BY <1>29, <1>e DEF ClientData
  <2> QED BY <1>29, <2>1, AskFacts DEF ClientData, Appends
<1>30. ASSUME NEW c \in Cids, ClientClose(c) PROVE Unanswered'
  <2>1. Appends("CLOSE", c)
    BY <1>30, <1>e DEF ClientClose
  <2> QED BY <1>30, <2>1, AskFacts DEF ClientClose, Appends
<1>31. ASSUME NEW w \in WSs, TransportDies(w) PROVE Unanswered'
  BY <1>31 DEF TransportDies
<1>32. ASSUME NEW o \in ConnIds, TargetGone(o) PROVE Unanswered'
  BY <1>32 DEF TargetGone
<1>33. CASE UNCHANGED vars
  BY <1>33 DEF vars
<1> QED
  BY <1>1, <1>2, <1>3, <1>4, <1>5, <1>6, <1>7, <1>8, <1>9, <1>10, <1>11,
     <1>12, <1>13, <1>14, <1>15, <1>16, <1>17, <1>18, <1>19, <1>20, <1>21,
     <1>22, <1>23, <1>24, <1>25, <1>26, <1>27, <1>28, <1>29, <1>30, <1>31,
     <1>32, <1>33
  DEF Next, Handle, RunLoop, Environment

LEMMA InvNext == Inv /\ [Next]_vars => Inv'
BY TypesNext, MadeNext, SweptNext, SentNext, OnceNext, UnansweredNext DEF Inv

\* Only the client says whether it is switching.
LEMMA SwitchingNext == switching \in BOOLEAN /\ [Next]_vars => (switching \in BOOLEAN)'
<1> SUFFICES ASSUME switching \in BOOLEAN, [Next]_vars PROVE (switching \in BOOLEAN)'
  OBVIOUS
<1> USE DEF clientVars
<1>1. ASSUME NEW w \in WSs, Read(w) PROVE (switching \in BOOLEAN)'
  BY <1>1 DEF Read
<1>2. ASSUME NEW w \in WSs, ReadFails(w) PROVE (switching \in BOOLEAN)'
  BY <1>2 DEF ReadFails
<1>3. ASSUME NEW w \in WSs, Connect(w) PROVE (switching \in BOOLEAN)'
  BY <1>3 DEF Connect
<1>4. ASSUME NEW w \in WSs, TakeWriter(w) PROVE (switching \in BOOLEAN)'
  BY <1>4 DEF TakeWriter
<1>5. ASSUME NEW w \in WSs, Acked(w) PROVE (switching \in BOOLEAN)'
  BY <1>5 DEF Acked
<1>6. ASSUME NEW w \in WSs, AckFails(w) PROVE (switching \in BOOLEAN)'
  BY <1>6 DEF AckFails
<1>7. ASSUME NEW w \in WSs, Told(w) PROVE (switching \in BOOLEAN)'
  BY <1>7 DEF Told
<1>8. ASSUME NEW w \in WSs, Load(w) PROVE (switching \in BOOLEAN)'
  BY <1>8 DEF Load
<1>9. ASSUME NEW w \in WSs, Redial(w) PROVE (switching \in BOOLEAN)'
  BY <1>9 DEF Redial
<1>10. ASSUME NEW w \in WSs, Written(w) PROVE (switching \in BOOLEAN)'
  BY <1>10 DEF Written
<1>11. ASSUME NEW w \in WSs, WriteFails(w) PROVE (switching \in BOOLEAN)'
  BY <1>11 DEF WriteFails
<1>12. ASSUME NEW w \in WSs, Close(w) PROVE (switching \in BOOLEAN)'
  BY <1>12 DEF Close
<1>13. ASSUME NEW w \in WSs, SwitchVisit(w) PROVE (switching \in BOOLEAN)'
  BY <1>13 DEF SwitchVisit
<1>14. ASSUME NEW w \in WSs, SwitchOver(w) PROVE (switching \in BOOLEAN)'
  BY <1>14 DEF SwitchOver
<1>15. ASSUME NEW w \in WSs, SweepPass(w) PROVE (switching \in BOOLEAN)'
  BY <1>15 DEF SweepPass
<1>16. ASSUME NEW w \in WSs, SweepFind(w) PROVE (switching \in BOOLEAN)'
  BY <1>16 DEF SweepFind
<1>17. ASSUME NEW w \in WSs, SweepClose(w) PROVE (switching \in BOOLEAN)'
  BY <1>17 DEF SweepClose
<1>18. ASSUME NEW w \in WSs, SweepOver(w) PROVE (switching \in BOOLEAN)'
  BY <1>18 DEF SweepOver
<1>19. ASSUME NEW o \in ConnIds, LoopRead(o) PROVE (switching \in BOOLEAN)'
  BY <1>19 DEF LoopRead
<1>20. ASSUME NEW o \in ConnIds, LoopTakeWriter(o) PROVE (switching \in BOOLEAN)'
  BY <1>20 DEF LoopTakeWriter
<1>21. ASSUME NEW o \in ConnIds, LoopSent(o) PROVE (switching \in BOOLEAN)'
  BY <1>21 DEF LoopSent
<1>22. ASSUME NEW o \in ConnIds, LoopReadFails(o) PROVE (switching \in BOOLEAN)'
  BY <1>22 DEF LoopReadFails
<1>23. ASSUME NEW o \in ConnIds, LoopTold(o) PROVE (switching \in BOOLEAN)'
  BY <1>23 DEF LoopTold
<1>24. ASSUME NEW o \in ConnIds, LoopExit(o) PROVE (switching \in BOOLEAN)'
  BY <1>24 DEF LoopExit
<1>25. CASE ClientOpens
  BY <1>25 DEF ClientOpens
<1>26. CASE ClientSwitches
  BY <1>26 DEF ClientSwitches
<1>27. CASE ClientSwitched
  BY <1>27 DEF ClientSwitched
<1>28. ASSUME NEW c \in Cids, ClientConnect(c) PROVE (switching \in BOOLEAN)'
  BY <1>28 DEF ClientConnect, Sends
<1>29. ASSUME NEW c \in Cids, ClientData(c) PROVE (switching \in BOOLEAN)'
  BY <1>29 DEF ClientData, Sends
<1>30. ASSUME NEW c \in Cids, ClientClose(c) PROVE (switching \in BOOLEAN)'
  BY <1>30 DEF ClientClose, Sends
<1>31. ASSUME NEW w \in WSs, TransportDies(w) PROVE (switching \in BOOLEAN)'
  BY <1>31 DEF TransportDies
<1>32. ASSUME NEW o \in ConnIds, TargetGone(o) PROVE (switching \in BOOLEAN)'
  BY <1>32 DEF TargetGone
<1>33. CASE UNCHANGED vars
  BY <1>33 DEF vars
<1> QED
  BY <1>1, <1>2, <1>3, <1>4, <1>5, <1>6, <1>7, <1>8, <1>9, <1>10, <1>11,
     <1>12, <1>13, <1>14, <1>15, <1>16, <1>17, <1>18, <1>19, <1>20, <1>21,
     <1>22, <1>23, <1>24, <1>25, <1>26, <1>27, <1>28, <1>29, <1>30, <1>31,
     <1>32, <1>33
  DEF Next, Handle, RunLoop, Environment

-----------------------------------------------------------------------------
(* The theorems                                                             *)

\* The state is well typed, and an entry of Conns is a Conn of its Cid that has
\* its NetConn.
THEOREM TypeCorrect == Spec => []TypeOK
<1>1. Inv /\ switching \in BOOLEAN => TypeOK
  <2> SUFFICES ASSUME Inv, switching \in BOOLEAN PROVE TypeOK
    OBVIOUS
  <2>1. \A c \in Cids : conns[c] # NoConn =>
           cidOf[conns[c]] = c /\ netConn[conns[c]] # "none"
    BY Const DEF Inv, Types, Made, ConnIds, NoConn
  <2>2. Types /\ Sent
    BY DEF Inv
  <2> QED BY <2>1, <2>2 DEF Types, Sent, TypeOK
<1>2. Init => switching \in BOOLEAN
  BY DEF Init
<1> QED BY <1>1, <1>2, InvInit, InvNext, SwitchingNext, PTL DEF Spec

\* When a handler has returned, none of its WebSocket's connections is in Conns.
THEOREM CleanupIsComplete == Spec => []NoEntryOutlivesWebsocket
<1>1. Inv => NoEntryOutlivesWebsocket
  BY Const DEF Inv, Types, Made, Swept, NoEntryOutlivesWebsocket, ConnIds, NoConn, WSs
<1> QED BY <1>1, InvInit, InvNext, PTL DEF Spec

\* No target connection is left open that nobody can close.
THEOREM NoLeak == Spec => []OpenHasOwner
<1>1. Inv => OpenHasOwner
  BY Const DEF Inv, Types, Made, Unanswered, OpenHasOwner, ConnIds
<1> QED BY <1>1, InvInit, InvNext, PTL DEF Spec

\* The client does not wait on an answered connection that nobody reads.
THEOREM AnsweredIsServed == Spec => []AckedIsRead
<1>1. Inv => AckedIsRead
  BY Const DEF Inv, Types, Made, Sent, Unanswered, AckedIsRead, ConnIds, NoConn
<1> QED BY <1>1, InvInit, InvNext, PTL DEF Spec
=============================================================================
