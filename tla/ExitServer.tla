----------------------------- MODULE ExitServer -----------------------------
(***************************************************************************)
(* server/server.go without a next relay: the exit node.  Each WebSocket   *)
(* of a local proxy has its HandleWebsocket goroutine, which handles one   *)
(* message after the other; each target connection has its RunLoop; all of *)
(* them meet in s.Conns, which is keyed by Cid and changed without any     *)
(* lock around a lookup and the change that follows it.                    *)
(*                                                                         *)
(* Conn objects are numbered in the order of their creation: several may   *)
(* exist for one Cid, because DATA for an unknown Cid dials again.  Conns  *)
(* entries, transports and writers are read at one step and used at a      *)
(* later one, as in the code.  A send is two steps: it takes the writer of *)
(* the conn's transport, and returns with the fate of the message (module  *)
(* FairWriter).  The client is a local proxy with one Wid: it sends on its *)
(* current WebSocket, and moves to the next one after its transport died   *)
(* or with a SWITCH.                                                       *)
(***************************************************************************)
EXTENDS Integers, FiniteSets, SequencesExt

CONSTANTS
    Cids,        \* client connections
    NoCid,       \* the Cid of a SWITCH message
    MaxWS,       \* bound: WebSockets the client opens
    MaxConns,    \* bound: Conn objects the server creates
    MaxMessages, \* bound: DATA and CLOSE messages of the client
    MaxChunks    \* bound: chunks of data the targets send

ASSUME ExitServerAssumption ==
    /\ NoCid \notin Cids
    /\ MaxWS \in Nat /\ MaxConns \in Nat
    /\ MaxMessages \in Nat /\ MaxChunks \in Nat

WSs == 1..MaxWS
ConnIds == 1..MaxConns
NoConn == 0

Cmds == {"CONNECT", "DATA", "CLOSE", "SWITCH"}
Message == [cmd : Cmds, cid : Cids \cup {NoCid}]

VARIABLES
    \* the server
    conns,     \* s.Conns: Cid -> Conn object, NoConn when absent
    created,   \* how many Conn objects there are
    cidOf,     \* Conn object -> its Cid
    transport, \* Conn object -> the WebSocket in conn.WSConn and conn.WSWriter
    netConn,   \* Conn object -> "none", "open", "gone" (by the target), "closed"
    loop,      \* Conn object -> where its RunLoop is
    loopWS,    \* Conn object -> whose writer the pending send of RunLoop took
    stream,    \* Conn object -> "whole", "cut" (DATA lost), "torn" (DATA after it)
    \* one HandleWebsocket per WebSocket
    handler,   \* WebSocket -> where its handler is
    msg,       \* WebSocket -> the message being handled
    hand,      \* WebSocket -> the Conn object its handler holds
    sendWS,    \* WebSocket -> whose writer the pending send of its handler took
    todo,      \* WebSocket -> Cids its Conns.Range has yet to visit
    oldWriters,\* WebSocket -> whose writers its HandleSwitch will close
    writerOpen,\* WebSockets whose writer is not closed
    \* the network and the client
    alive,     \* WebSockets whose transport works
    inbox,     \* WebSocket -> messages on their way to the server
    current,   \* the WebSocket the client uses, 0 before the first
    switching, \* the client has sent SWITCH and still uses the old WebSocket
    asked,     \* Cids whose CONNECT the client has sent
    closed,    \* Cids for which the client has sent CLOSE
    acked,     \* Cids whose CONNECT was answered Ok
    reached,   \* Cids of which the client has got DATA or CLOSE
    messages, chunks  \* what client and targets may still send

connVars    == <<created, cidOf, transport, netConn>>
loopVars    == <<loop, loopWS, stream>>
handlerVars == <<handler, msg, hand, sendWS, todo, oldWriters>>
wsVars      == <<writerOpen, alive, inbox>>
replyVars   == <<acked, reached>>
clientVars  == <<current, switching, asked, closed, messages>>
vars == <<conns, connVars, loopVars, handlerVars, wsVars, clientVars, replyVars, chunks>>

LoopStates == {"off", "read", "send", "sending", "tell", "telling", "exit", "over"}
HandlerStates == {"unused", "read", "connect", "nack", "nacking", "ack", "acking",
                  "load", "redial", "write", "tell", "telling", "close",
                  "switch", "sweep", "sweeping", "over"}

TypeOK ==
    /\ conns \in [Cids -> ConnIds \cup {NoConn}]
    /\ created \in 0..MaxConns
    /\ cidOf \in [ConnIds -> Cids \cup {NoCid}]
    /\ transport \in [ConnIds -> WSs \cup {0}]
    /\ netConn \in [ConnIds -> {"none", "open", "gone", "closed"}]
    /\ loop \in [ConnIds -> LoopStates]
    /\ loopWS \in [ConnIds -> WSs \cup {0}]
    /\ stream \in [ConnIds -> {"whole", "cut", "torn"}]
    /\ handler \in [WSs -> HandlerStates]
    /\ msg \in [WSs -> Message]
    /\ hand \in [WSs -> ConnIds \cup {NoConn}]
    /\ sendWS \in [WSs -> WSs \cup {0}]
    /\ todo \in [WSs -> SUBSET Cids]
    /\ oldWriters \in [WSs -> SUBSET WSs]
    /\ writerOpen \in SUBSET WSs
    /\ alive \in SUBSET WSs
    /\ inbox \in [WSs -> Seq(Message)]
    /\ current \in WSs \cup {0}
    /\ switching \in BOOLEAN
    /\ asked \in SUBSET Cids
    /\ acked \in SUBSET asked /\ closed \in SUBSET asked /\ reached \in SUBSET asked
    /\ messages \in 0..MaxMessages
    /\ chunks \in 0..MaxChunks
    \* an entry of Conns is a Conn of its Cid with a NetConn
    /\ \A c \in Cids : conns[c] # NoConn =>
          cidOf[conns[c]] = c /\ netConn[conns[c]] # "none"

NoMsg == [cmd |-> "SWITCH", cid |-> NoCid]

Init ==
    /\ conns = [c \in Cids |-> NoConn]
    /\ created = 0
    /\ cidOf = [o \in ConnIds |-> NoCid]
    /\ transport = [o \in ConnIds |-> 0]
    /\ netConn = [o \in ConnIds |-> "none"]
    /\ loop = [o \in ConnIds |-> "off"]
    /\ loopWS = [o \in ConnIds |-> 0]
    /\ stream = [o \in ConnIds |-> "whole"]
    /\ handler = [w \in WSs |-> "unused"]
    /\ msg = [w \in WSs |-> NoMsg]
    /\ hand = [w \in WSs |-> NoConn]
    /\ sendWS = [w \in WSs |-> 0]
    /\ todo = [w \in WSs |-> {}]
    /\ oldWriters = [w \in WSs |-> {}]
    /\ writerOpen = {} /\ alive = {}
    /\ inbox = [w \in WSs |-> <<>>]
    /\ current = 0 /\ switching = FALSE
    /\ asked = {} /\ closed = {} /\ acked = {} /\ reached = {}
    /\ messages = MaxMessages /\ chunks = MaxChunks

Set(f, x, v) == [f EXCEPT ![x] = v]

-----------------------------------------------------------------------------
(* Sending on a WebSocket                                                   *)

\* The send returns nil; what a dead transport took is lost all the same.
Delivered(w) == w \in writerOpen /\ w \in alive
SendOk(w) == w \in writerOpen /\ UNCHANGED writerOpen

\* What the client has got of a connection once w was sent on.
Reach(w, c) == IF Delivered(w) THEN reached \cup {c} ELSE reached

\* It fails: the writer is closed, or the transport is dead and the writer's
\* runner closes it.
SendFails(w) ==
    /\ ~Delivered(w)
    /\ writerOpen' = writerOpen \ {w}

-----------------------------------------------------------------------------
(* HandleWebsocket                                                          *)

Goto(w, l) == handler' = Set(handler, w, l)

\* The handler is back at its read: its locals are dead.
Return(w) ==
    /\ Goto(w, "read")
    /\ msg' = Set(msg, w, NoMsg)
    /\ hand' = Set(hand, w, NoConn)
    /\ sendWS' = Set(sendWS, w, 0)

\* conn.ReadMessage and Unpack, and the switch on the command.
Read(w) ==
    /\ handler[w] = "read"
    /\ inbox[w] # <<>>
    /\ msg' = Set(msg, w, Head(inbox[w]))
    /\ inbox' = Set(inbox, w, Tail(inbox[w]))
    /\ \/ Head(inbox[w]).cmd = "CONNECT" /\ Goto(w, "connect") /\ UNCHANGED todo
       \/ Head(inbox[w]).cmd \in {"DATA", "CLOSE"} /\ Goto(w, "load") /\ UNCHANGED todo
       \/ Head(inbox[w]).cmd = "SWITCH" /\ Goto(w, "switch") /\ todo' = Set(todo, w, Cids)
    /\ UNCHANGED <<conns, connVars, loopVars, hand, sendWS, oldWriters, writerOpen,
                   alive, clientVars, replyVars, chunks>>

\* The transport is dead and all that arrived is read: the deferred cleanup.
ReadFails(w) ==
    /\ handler[w] = "read"
    /\ inbox[w] = <<>>
    /\ w \notin alive
    /\ Goto(w, "sweep")
    /\ todo' = Set(todo, w, Cids)
    /\ UNCHANGED <<conns, connVars, loopVars, msg, hand, sendWS, oldWriters, wsVars,
                   clientVars, replyVars, chunks>>

\* Mutant: the Conn is stored before it has its NetConn.
MutNewConn(w, c) ==
    /\ created < MaxConns
    /\ created' = created + 1
    /\ cidOf' = Set(cidOf, created + 1, c)
    /\ transport' = Set(transport, created + 1, w)
    /\ netConn' = netConn
    /\ conns' = Set(conns, c, created + 1)
    /\ hand' = Set(hand, w, created + 1)

\* A dial that succeeded: a new Conn on the handler's WebSocket, Conns.Store.
NewConn(w, c) ==
    /\ created < MaxConns
    /\ created' = created + 1
    /\ cidOf' = Set(cidOf, created + 1, c)
    /\ transport' = Set(transport, created + 1, w)
    /\ netConn' = Set(netConn, created + 1, "open")
    /\ conns' = Set(conns, c, created + 1)
    /\ hand' = Set(hand, w, created + 1)

\* HandleConnect: Dial.
Connect(w) ==
    /\ handler[w] = "connect"
    /\ \/ NewConn(w, msg[w].cid) /\ Goto(w, "ack")
       \/ Goto(w, "nack") /\ UNCHANGED <<conns, connVars, hand>>
    /\ UNCHANGED <<loopVars, msg, sendWS, todo, oldWriters, wsVars, clientVars, replyVars, chunks>>

\* SendWebosket of the answer, of CLOSE in HandleData: Transport() is read.  The
\* Conn of a failed dial has the handler's own transport.
TakeWriter(w) ==
    /\ \/ handler[w] = "ack" /\ Goto(w, "acking")
       \/ handler[w] = "nack" /\ Goto(w, "nacking")
       \/ handler[w] = "tell" /\ Goto(w, "telling")
    /\ sendWS' = Set(sendWS, w, IF hand[w] = NoConn THEN w ELSE transport[hand[w]])
    /\ UNCHANGED <<conns, connVars, loopVars, msg, hand, todo, oldWriters, wsVars,
                   clientVars, replyVars, chunks>>

\* The answer was sent: go RunLoop.
Acked(w) ==
    /\ handler[w] = "acking"
    /\ SendOk(sendWS[w])
    /\ acked' = IF Delivered(sendWS[w]) THEN acked \cup {msg[w].cid} ELSE acked
    /\ loop' = Set(loop, hand[w], "read")
    /\ Return(w)
    /\ UNCHANGED <<conns, connVars, loopWS, stream, todo, oldWriters, alive, inbox,
                   clientVars, reached, chunks>>

\* The answer was not sent: HandleConnect returns, without a RunLoop.
AckFails(w) ==
    /\ handler[w] = "acking"
    /\ SendFails(sendWS[w])
    /\ Return(w)
    /\ UNCHANGED <<conns, connVars, loopVars, todo, oldWriters, alive, inbox,
                   clientVars, replyVars, chunks>>

\* The result of a negative answer or a CLOSE is ignored.
Told(w) ==
    /\ handler[w] \in {"nacking", "telling"}
    /\ SendOk(sendWS[w]) \/ SendFails(sendWS[w])
    /\ reached' = Reach(sendWS[w], msg[w].cid)
    /\ Return(w)
    /\ UNCHANGED <<conns, connVars, loopVars, todo, oldWriters, alive, inbox,
                   clientVars, acked, chunks>>

\* HandleData and HandleClose: Conns.Load.
Load(w) ==
    /\ handler[w] = "load"
    /\ LET o == conns[msg[w].cid] IN
       \/ /\ o # NoConn
          /\ hand' = Set(hand, w, o)
          /\ \/ msg[w].cmd = "DATA" /\ Goto(w, "write")
             \/ msg[w].cmd = "CLOSE" /\ Goto(w, "close")
          /\ UNCHANGED <<msg, sendWS>>
       \/ /\ o = NoConn /\ msg[w].cmd = "DATA"
          /\ Goto(w, "redial")
          /\ UNCHANGED <<msg, hand, sendWS>>
       \/ /\ o = NoConn /\ msg[w].cmd = "CLOSE"
          /\ Return(w)
    /\ UNCHANGED <<conns, connVars, loopVars, todo, oldWriters, wsVars, clientVars,
                   replyVars, chunks>>

\* HandleData of an unknown Cid dials again.
Redial(w) ==
    /\ handler[w] = "redial"
    /\ \/ /\ NewConn(w, msg[w].cid)
          /\ loop' = Set(loop, created', "read")
          /\ Goto(w, "write")
       \/ Goto(w, "tell") /\ UNCHANGED <<conns, connVars, hand, loop>>
    /\ UNCHANGED <<loopWS, stream, msg, sendWS, todo, oldWriters, wsVars, clientVars,
                   replyVars, chunks>>

\* conn.NetConn.Write without and with an error; the latter closes the Conn.
Written(w) ==
    /\ handler[w] = "write"
    /\ netConn[hand[w]] # "closed"
    /\ Return(w)
    /\ UNCHANGED <<conns, connVars, loopVars, todo, oldWriters, wsVars, clientVars,
                   replyVars, chunks>>

\* Mutant: the Conn is forgotten and its NetConn is left open.
MutForgetConn(o) ==
    /\ conns' = Set(conns, cidOf[o], NoConn)
    /\ UNCHANGED connVars

CloseConn(o) ==
    /\ netConn' = Set(netConn, o, "closed")
    /\ conns' = Set(conns, cidOf[o], NoConn)
    /\ UNCHANGED <<created, cidOf, transport>>

WriteFails(w) ==
    /\ handler[w] = "write"
    /\ netConn[hand[w]] # "open"
    /\ CloseConn(hand[w])
    /\ Goto(w, "tell")
    /\ UNCHANGED <<loopVars, msg, hand, sendWS, todo, oldWriters, wsVars, clientVars,
                   replyVars, chunks>>

\* HandleClose: NetConn.Close, Conns.Delete of the Cid.
Close(w) ==
    /\ handler[w] = "close"
    /\ CloseConn(hand[w])
    /\ Return(w)
    /\ UNCHANGED <<loopVars, todo, oldWriters, wsVars, clientVars, replyVars, chunks>>

\* HandleSwitch: one Conn of its Range, whose transport is replaced unless the
\* handler's WebSocket is the transport already.
SwitchVisit(w) ==
    /\ handler[w] = "switch"
    /\ \E c \in todo[w] :
          LET o == conns[c] IN
          /\ todo' = Set(todo, w, todo[w] \ {c})
          /\ IF o # NoConn /\ transport[o] # w
             THEN /\ transport' = Set(transport, o, w)
                  /\ oldWriters' = Set(oldWriters, w, oldWriters[w] \cup {transport[o]})
             ELSE UNCHANGED <<transport, oldWriters>>
    /\ UNCHANGED <<conns, created, cidOf, netConn, loopVars, handler, msg, hand, sendWS,
                   wsVars, clientVars, replyVars, chunks>>

\* HandleSwitch: the Range is over, the writers it replaced are closed.
SwitchOver(w) ==
    /\ handler[w] = "switch"
    /\ todo[w] = {}
    /\ writerOpen' = writerOpen \ oldWriters[w]
    /\ oldWriters' = Set(oldWriters, w, {})
    /\ Return(w)
    /\ UNCHANGED <<conns, connVars, loopVars, todo, alive, inbox, clientVars, replyVars, chunks>>

\* Mutant: a WebSocket whose writer is closed already is not looked for.
MutMine(w, o) == transport[o] = w /\ w \in writerOpen

\* CloseWebsocketConns, which compares a Conn's transport with the WebSocket
Mine(w, o) == transport[o] = w
Finds(w, c) == conns[c] # NoConn /\ Mine(w, conns[c])

\* and passes over it,
SweepPass(w) ==
    /\ handler[w] = "sweep"
    /\ \E c \in todo[w] :
          /\ ~Finds(w, c)
          /\ todo' = Set(todo, w, todo[w] \ {c})
    /\ UNCHANGED <<conns, connVars, loopVars, handler, msg, hand, sendWS, oldWriters, wsVars,
                   clientVars, replyVars, chunks>>

\* or holds it
SweepFind(w) ==
    /\ handler[w] = "sweep"
    /\ \E c \in todo[w] :
          /\ Finds(w, c)
          /\ todo' = Set(todo, w, todo[w] \ {c})
          /\ hand' = Set(hand, w, conns[c])
    /\ Goto(w, "sweeping")
    /\ UNCHANGED <<conns, connVars, loopVars, msg, sendWS, oldWriters, wsVars, clientVars,
                   replyVars, chunks>>

\* and then closes it and deletes its key, whatever the entry is by then.
SweepClose(w) ==
    /\ handler[w] = "sweeping"
    /\ CloseConn(hand[w])
    /\ hand' = Set(hand, w, NoConn)
    /\ Goto(w, "sweep")
    /\ UNCHANGED <<loopVars, msg, sendWS, todo, oldWriters, wsVars, clientVars, replyVars, chunks>>

\* The rest of the deferred cleanup: the writer and the WebSocket are closed.
SweepOver(w) ==
    /\ handler[w] = "sweep"
    /\ todo[w] = {}
    /\ Goto(w, "over")
    /\ writerOpen' = writerOpen \ {w}
    /\ alive' = alive \ {w}
    /\ UNCHANGED <<conns, connVars, loopVars, msg, hand, sendWS, todo, oldWriters, inbox,
                   clientVars, replyVars, chunks>>

Handle(w) ==
    \/ Read(w) \/ ReadFails(w) \/ Connect(w) \/ TakeWriter(w)
    \/ Acked(w) \/ AckFails(w) \/ Told(w) \/ Load(w) \/ Redial(w)
    \/ Written(w) \/ WriteFails(w) \/ Close(w)
    \/ SwitchVisit(w) \/ SwitchOver(w)
    \/ SweepPass(w) \/ SweepFind(w) \/ SweepClose(w) \/ SweepOver(w)

-----------------------------------------------------------------------------
(* RunLoop of a Conn                                                        *)

\* NetConn.Read returns data.  (It returns no empty chunk without an error, so
\* the branch that turns one into CLOSE never runs.)
LoopRead(o) ==
    /\ loop[o] = "read"
    /\ netConn[o] = "open"
    /\ chunks > 0
    /\ chunks' = chunks - 1
    /\ loop' = Set(loop, o, "send")
    /\ UNCHANGED <<conns, connVars, loopWS, stream, handlerVars, wsVars, clientVars, replyVars>>

\* SendWebosket: Transport() is read.
LoopTakeWriter(o) ==
    /\ loop[o] \in {"send", "tell"}
    /\ loop' = Set(loop, o, IF loop[o] = "send" THEN "sending" ELSE "telling")
    /\ loopWS' = Set(loopWS, o, transport[o])
    /\ UNCHANGED <<conns, connVars, stream, handlerVars, wsVars, clientVars, replyVars, chunks>>

\* What becomes of the client's stream when a chunk arrives, and when it is lost.
Arrived(s) == IF s = "whole" THEN "whole" ELSE "torn"
Lost(s) == IF s = "torn" THEN "torn" ELSE "cut"

\* The loop reads on after a send, whether it failed or not.
LoopSent(o) ==
    /\ loop[o] = "sending"
    /\ \/ /\ SendOk(loopWS[o])
          /\ stream' = Set(stream, o, IF Delivered(loopWS[o]) THEN Arrived(stream[o])
                                      ELSE Lost(stream[o]))
       \/ SendFails(loopWS[o]) /\ stream' = Set(stream, o, Lost(stream[o]))
    /\ loop' = Set(loop, o, "read")
    /\ loopWS' = Set(loopWS, o, 0)
    /\ reached' = Reach(loopWS[o], cidOf[o])
    /\ UNCHANGED <<conns, connVars, handlerVars, alive, inbox, clientVars, acked, chunks>>

\* NetConn.Read fails: closed here, ended by the target, or silent for
\* TARGET_IDLE_TIMEOUT.  CLOSE is sent if the Cid is in Conns, which may be
\* by then a Conn that another RunLoop serves.
LoopReadFails(o) ==
    /\ loop[o] = "read"
    /\ loop' = Set(loop, o, IF conns[cidOf[o]] # NoConn THEN "tell" ELSE "exit")
    /\ UNCHANGED <<conns, connVars, loopWS, stream, handlerVars, wsVars, clientVars, replyVars, chunks>>

LoopTold(o) ==
    /\ loop[o] = "telling"
    /\ SendOk(loopWS[o]) \/ SendFails(loopWS[o])
    /\ reached' = Reach(loopWS[o], cidOf[o])
    /\ loop' = Set(loop, o, "exit")
    /\ loopWS' = Set(loopWS, o, 0)
    /\ UNCHANGED <<conns, connVars, stream, handlerVars, alive, inbox, clientVars, acked, chunks>>

\* Mutant: the loop leaves its entry in Conns.
MutLoopExit(o) ==
    /\ loop[o] = "exit"
    /\ netConn' = Set(netConn, o, "closed")
    /\ loop' = Set(loop, o, "over")
    /\ UNCHANGED <<conns, created, cidOf, transport, loopWS, stream, handlerVars, wsVars,
                   clientVars, replyVars, chunks>>

\* The deferred cleanup: NetConn.Close, Conns.Delete of the Cid.
LoopExit(o) ==
    /\ loop[o] = "exit"
    /\ CloseConn(o)
    /\ loop' = Set(loop, o, "over")
    /\ UNCHANGED <<loopWS, stream, handlerVars, wsVars, clientVars, replyVars, chunks>>

RunLoop(o) ==
    \/ LoopRead(o) \/ LoopTakeWriter(o) \/ LoopSent(o)
    \/ LoopReadFails(o) \/ LoopTold(o) \/ LoopExit(o)

-----------------------------------------------------------------------------
(* The client, the targets and the network                                  *)

\* The client opens its next WebSocket, which gets a handler and a writer.
Opens(w) ==
    /\ w \in WSs
    /\ handler' = Set(handler, w, "read")
    /\ writerOpen' = writerOpen \cup {w}
    /\ alive' = alive \cup {w}

ServerKeeps == <<conns, connVars, loopVars, msg, hand, sendWS, todo, oldWriters>>

\* The first one, or the one after a transport that died.
ClientOpens ==
    /\ ~switching
    /\ current \notin alive
    /\ Opens(current + 1)
    /\ current' = current + 1
    /\ UNCHANGED <<ServerKeeps, inbox, switching, asked, closed, messages, replyVars, chunks>>

\* Time to live: a new WebSocket whose first message is SWITCH.
ClientSwitches ==
    /\ ~switching
    /\ current \in alive
    /\ Opens(current + 1)
    /\ inbox' = Set(inbox, current + 1, <<[cmd |-> "SWITCH", cid |-> NoCid]>>)
    /\ switching' = TRUE
    /\ UNCHANGED <<ServerKeeps, current, asked, closed, messages, replyVars, chunks>>

\* The old one was flushed and is closed; the new one takes its place.
ClientSwitched ==
    /\ switching
    /\ switching' = FALSE
    /\ current' = current + 1
    /\ alive' = alive \ {current}
    /\ UNCHANGED <<ServerKeeps, handler, writerOpen, inbox, asked, closed, messages, replyVars, chunks>>

\* A message goes out on the WebSocket the client uses now.
Sends(cmd, c) ==
    /\ current \in alive
    /\ inbox' = Set(inbox, current, Append(inbox[current], [cmd |-> cmd, cid |-> c]))
    /\ UNCHANGED <<ServerKeeps, handler, writerOpen, alive, current, switching, replyVars, chunks>>

ClientConnect(c) ==
    /\ c \notin asked
    /\ Sends("CONNECT", c)
    /\ asked' = asked \cup {c}
    /\ UNCHANGED <<closed, messages>>

\* The session sends DATA once it has its answer.  Its own CLOSE is its last
\* message, but the puller sends CLOSE too when something arrives for a session
\* that is no longer in the client's Conns, and DATA may follow that.
ClientData(c) ==
    /\ messages > 0
    /\ messages' = messages - 1
    /\ c \in acked
    /\ c \in closed => c \in reached
    /\ Sends("DATA", c)
    /\ UNCHANGED <<asked, closed>>

ClientClose(c) ==
    /\ messages > 0
    /\ messages' = messages - 1
    /\ c \in asked
    /\ closed' = closed \cup {c}
    /\ Sends("CLOSE", c)
    /\ UNCHANGED asked

TransportDies(w) ==
    /\ w \in alive
    /\ alive' = alive \ {w}
    /\ UNCHANGED <<ServerKeeps, handler, writerOpen, inbox, clientVars, replyVars, chunks>>

TargetGone(o) ==
    /\ netConn[o] = "open"
    /\ netConn' = Set(netConn, o, "gone")
    /\ UNCHANGED <<conns, created, cidOf, transport, loopVars, handlerVars, wsVars,
                   clientVars, replyVars, chunks>>

Environment ==
    \/ ClientOpens \/ ClientSwitches \/ ClientSwitched
    \/ \E c \in Cids : ClientConnect(c) \/ ClientData(c) \/ ClientClose(c)
    \/ \E w \in WSs : TransportDies(w)
    \/ \E o \in ConnIds : TargetGone(o)

Next ==
    \/ \E w \in WSs : Handle(w)
    \/ \E o \in ConnIds : RunLoop(o)
    \/ Environment

Spec == Init /\ [][Next]_vars

(***************************************************************************)
(* Fairness: goroutines run, a target that is silent for                   *)
(* TARGET_IDLE_TIMEOUT is given up, and no target sends forever            *)
(* (MaxChunks).  No write has a deadline, neither on a WebSocket nor on a  *)
(* NetConn: one is sure to return only when the other end is gone or the   *)
(* connection is closed.                                                   *)
(***************************************************************************)
HandlerMayStall(w) ==
    \/ sendWS[w] \in alive
    \/ handler[w] = "write" /\ netConn[hand[w]] = "open"
LoopMayStall(o) == loopWS[o] \in alive

FairSpec ==
    /\ Spec
    /\ \A w \in WSs : WF_vars(Handle(w) /\ ~HandlerMayStall(w))
    /\ \A o \in ConnIds : WF_vars(RunLoop(o) /\ ~LoopMayStall(o))

-----------------------------------------------------------------------------
(* Properties                                                               *)

\* No entry of Conns belongs to a WebSocket whose handler has returned: what a
\* handler stores or takes over by SWITCH its own cleanup finds, although
\* other handlers and loops change Conns while it ranges over them.
NoEntryOutlivesWebsocket ==
    \A c \in Cids : conns[c] # NoConn => handler[transport[conns[c]]] # "over"

\* Every open target connection can still be closed by somebody: it is in
\* Conns, or its RunLoop runs, although an answer that fails starts no RunLoop
\* and every close deletes the key whatever Conn it holds.
OpenHasOwner ==
    \A o \in ConnIds : netConn[o] \in {"open", "gone"} =>
        conns[cidOf[o]] = o \/ loop[o] \notin {"off", "over"}

\* A Cid whose CONNECT was answered Ok and that is in Conns is read by a RunLoop:
\* the client does not wait on a connection nobody reads.
AckedIsRead ==
    \A c \in acked : conns[c] # NoConn => loop[conns[c]] \notin {"off", "over"}

\* A premise that nothing in the code sees to: the sends of the RunLoop return,
\* also one on an older WebSocket that the client has yet to close.
LoopSendsReturn(o) == []<>(loopWS[o] = 0)

\* A target connection that belongs to a WebSocket whose handler has returned
\* is closed in the end, orphans included, once its target falls silent, and
\* whatever keeps the handlers of other WebSockets.
EndedSocketsFreeTargets ==
    \A o \in ConnIds :
        LoopSendsReturn(o) =>
            ((netConn[o] = "open" /\ handler[transport[o]] = "over") ~> (netConn[o] = "closed"))

\* What the comment in RunLoop says: after a failed send the loop may go on,
\* because the SWITCH to another WebSocket recovers.  (Violated: HandleSwitch
\* closes the writer the pending chunk was given to, the chunk is dropped, and
\* the next one reaches the client on the new WebSocket.)
NoTornStream == \A o \in ConnIds : stream[o] # "torn"
=============================================================================
