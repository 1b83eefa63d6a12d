------------------------------ MODULE RelayHop ------------------------------
(***************************************************************************)
(* server/relay.go and the relay branches of server/server.go: a node that *)
(* has a next hop.  HandleWebsocket goroutines forward the messages of the *)
(* clients over a RelayClient; the puller of the RelayClient brings back   *)
(* what the next hop says and, when its WebSocket fails, closes every Conn *)
(* that uses it.  RelayClient.WriteMessage connects first, so any of them  *)
(* may replace the link under the others' feet.                            *)
(*                                                                         *)
(* One RelayClient; its links are numbered as Connect dials them.  Every   *)
(* client connection comes in over a WebSocket of its own, whose handler   *)
(* is named by the Cid: all handlers interleave freely.  (SWITCH is in     *)
(* module ExitServer.)  A send to a client is one step; a write to the     *)
(* next hop is Connect, the choice of the writer, and its result.          *)
(***************************************************************************)
EXTENDS Integers, FiniteSets, SequencesExt

CONSTANTS
    Cids,        \* client connections, and the handlers of their WebSockets
    Puller,      \* the RelayClient's WebsocketPuller
    Nobody,      \* nobody holds ConnectLock; no Cid in the puller's hands
    MaxLinks,    \* bound: links ever dialed
    MaxMessages  \* bound: DATA and CLOSE messages of clients and next hop

ASSUME RelayAssumption ==
    /\ IsFiniteSet(Cids)
    /\ Puller \notin Cids /\ Nobody \notin Cids \cup {Puller}
    /\ MaxLinks \in Nat /\ MaxMessages \in Nat

Procs == Cids \cup {Puller}
Links == 1..MaxLinks

VARIABLES
    conns,      \* s.Conns: Cids of its entries
    picked,     \* Cids whose Conn has a Relay, counted in relay.Active
    released,   \* Cids whose ReleaseOnce has run
    active,     \* relay.Active
    told,       \* Cid -> what its client was told: "no", "ack", "nack"
                \* (refused, or ended before an ack) or "end" (ended after one)
    \* the RelayClient
    connected,  \* relay.Connected
    lock,       \* who is in Connect, between the new link and SetConnected(true)
    epoch,      \* which link relay.WSConn and relay.Writer are, 0 before the first
    alive,      \* links that work
    writerOpen, \* links whose writer is not closed
    \* goroutines
    pc,         \* process -> where it is
    op,         \* process -> what its WriteMessage forwards
    link,       \* process -> whose writer it took; puller -> the link it reads
    pulled,     \* the message in the puller's hands
    todo,       \* Cids the puller's CloseRelayConns has yet to visit
    \* clients
    gone,       \* Cids whose WebSocket is closed by the client's side
    asked,      \* Cids whose CONNECT was sent
    closed,     \* Cids whose CLOSE was sent
    messages,   \* DATA and CLOSE that clients and next hop may still send
    \* the next hop
    next,       \* Cid -> the link of its Conn at the next hop, 0 without one
    pending,    \* Cids the next hop has not answered
    down        \* link -> messages on their way from the next hop

connVars   == <<conns, picked, released, active>>
relayVars  == <<connected, lock, epoch, alive, writerOpen>>
procVars   == <<pc, op, link>>
pullVars   == <<pulled, todo>>
clientVars == <<gone, asked, closed, messages>>
nextVars   == <<next, pending, down>>
vars == <<connVars, told, relayVars, procVars, pullVars, clientVars, nextVars>>

Ops == {"CONNECT", "DATA", "CLOSE", "SWEEP", "REPLY"}
Answers == {"ack", "nack", "DATA", "CLOSE"}
NoAnswer == <<Nobody, "CLOSE">>

TypeOK ==
    /\ conns \in SUBSET picked /\ released \in SUBSET picked
    /\ picked \in SUBSET asked /\ closed \in SUBSET asked /\ asked \in SUBSET Cids
    /\ active \in Int
    /\ told \in [Cids -> {"no", "ack", "nack", "end"}]
    /\ connected \in BOOLEAN /\ lock \in Procs \cup {Nobody}
    /\ epoch \in 0..MaxLinks
    /\ alive \in SUBSET (1..epoch) /\ writerOpen \in SUBSET (1..epoch)
    /\ pc \in [Procs -> {"read", "pick", "store", "connect", "take", "write", "failed",
                         "tell", "drop", "over", "loop", "snap", "pull", "pulled",
                         "lost", "sweep", "swept"}]
    /\ op \in [Procs -> Ops]
    /\ link \in [Procs -> 0..epoch]
    /\ pulled \in (Cids \X Answers) \cup {NoAnswer}
    /\ todo \in SUBSET Cids
    /\ gone \in SUBSET Cids
    /\ messages \in 0..MaxMessages
    /\ next \in [Cids -> 0..epoch] /\ pending \in SUBSET asked
    /\ down \in [Links -> Seq(Cids \X Answers)]

Init ==
    /\ conns = {} /\ picked = {} /\ released = {} /\ active = 0
    /\ told = [c \in Cids |-> "no"]
    /\ connected = FALSE /\ lock = Nobody
    /\ epoch = 0 /\ alive = {} /\ writerOpen = {}
    /\ pc = [p \in Procs |-> IF p = Puller THEN "loop" ELSE "read"]
    /\ op = [p \in Procs |-> IF p = Puller THEN "REPLY" ELSE "CONNECT"]
    /\ link = [p \in Procs |-> 0]
    /\ pulled = NoAnswer /\ todo = {}
    /\ gone = {} /\ asked = {} /\ closed = {} /\ messages = MaxMessages
    /\ next = [c \in Cids |-> 0] /\ pending = {}
    /\ down = [e \in Links |-> <<>>]

Goto(p, l) == pc' = [pc EXCEPT ![p] = l]

\* Where a process is when it has nothing in its hands.
Back(p) == IF p = Puller THEN "loop" ELSE "read"

-----------------------------------------------------------------------------
(* Connect and WriteMessage                                                 *)

\* Connect is called by GetRelayClient, by WriteMessage and by the puller; where
\* they go on when it succeeds and when it fails.
Callers == {"pick", "connect", "loop"}
Connects(l) == CASE l = "pick" -> "store" [] l = "connect" -> "take" [] l = "loop" -> "snap"
Refused(l)  == CASE l = "pick" -> "tell" [] l = "connect" -> "failed" [] l = "loop" -> "loop"

ConnectNot(p) ==
    /\ pc[p] \in Callers
    /\ lock = Nobody \/ p = Puller \* which looks before it calls Connect
    /\ connected
    /\ Goto(p, Connects(pc[p]))
    /\ UNCHANGED <<connVars, told, relayVars, op, link, pullVars, clientVars, nextVars>>

ConnectFails(p) ==
    /\ pc[p] \in Callers /\ lock = Nobody
    /\ ~connected
    /\ Goto(p, Refused(pc[p]))
    /\ UNCHANGED <<connVars, told, relayVars, op, link, pullVars, clientVars, nextVars>>

\* What a link that ends takes with it at the next hop.
EndsAt(e) ==
    /\ next' = [c \in Cids |-> IF next[c] = e THEN 0 ELSE next[c]]
    /\ pending' = {c \in pending : next[c] # e}
    /\ UNCHANGED down

\* The new link and its writer are in place, the old ones are closed,
ConnectDials(p) ==
    /\ pc[p] \in Callers /\ lock = Nobody
    /\ ~connected
    /\ epoch < MaxLinks
    /\ lock' = p
    /\ epoch' = epoch + 1
    /\ alive' = (alive \ {epoch}) \cup {epoch + 1}
    /\ writerOpen' = (writerOpen \ {epoch}) \cup {epoch + 1}
    /\ EndsAt(epoch)
    /\ UNCHANGED <<connVars, told, connected, procVars, pullVars, clientVars>>

\* and SetConnected(true).
ConnectEnds(p) ==
    /\ lock = p
    /\ lock' = Nobody
    /\ connected' = TRUE
    /\ Goto(p, Connects(pc[p]))
    /\ UNCHANGED <<connVars, told, epoch, alive, writerOpen, op, link, pullVars,
                   clientVars, nextVars>>

TakeWriter(p) ==
    /\ pc[p] = "take"
    /\ link' = [link EXCEPT ![p] = epoch]
    /\ Goto(p, "write")
    /\ UNCHANGED <<connVars, told, relayVars, op, pullVars, clientVars, nextVars>>

\* Whose Cid the message of a process carries.
CidOf(p) == IF p = Puller THEN pulled[1] ELSE p

\* The next hop on receiving a message: CONNECT and DATA of an unknown Cid dial.
NextHopGets(o, c, e) ==
    /\ CASE o = "CONNECT" -> next' = [next EXCEPT ![c] = e] /\ pending' = pending \cup {c}
         [] o = "DATA" -> /\ next' = [next EXCEPT ![c] = IF @ = 0 THEN e ELSE @]
                          /\ UNCHANGED pending
         [] OTHER -> next' = [next EXCEPT ![c] = 0] /\ pending' = pending \ {c}
    /\ UNCHANGED down

\* The writer took the message; a dead link loses it.  The result of a CLOSE is
\* ignored: the Conn is dropped next.
WriteOk(p) ==
    /\ pc[p] = "write"
    /\ link[p] \in writerOpen
    /\ IF link[p] \in alive THEN NextHopGets(op[p], CidOf(p), link[p]) ELSE UNCHANGED nextVars
    /\ Goto(p, IF op[p] \in {"CLOSE", "SWEEP"} THEN "drop" ELSE Back(p))
    /\ link' = [link EXCEPT ![p] = 0]
    /\ pulled' = IF p = Puller THEN NoAnswer ELSE pulled
    /\ UNCHANGED <<connVars, told, relayVars, op, todo, clientVars>>

\* The writer is closed, or is closed by its runner on a dead link.
WriteFails(p) ==
    /\ pc[p] = "write"
    /\ ~(link[p] \in writerOpen /\ link[p] \in alive)
    /\ writerOpen' = writerOpen \ {link[p]}
    /\ connected' = FALSE
    /\ link' = [link EXCEPT ![p] = 0]
    /\ Goto(p, "failed")
    /\ UNCHANGED <<connVars, told, lock, epoch, alive, op, pullVars, clientVars, nextVars>>

\* Mutant: without ReleaseOnce.
MutReleaseRelay(c) ==
    /\ released' = released \cup {c}
    /\ active' = active - 1

\* ReleaseRelay and Conns.Delete of a Conn.
ReleaseRelay(c) ==
    /\ released' = released \cup {c}
    /\ active' = IF c \in released THEN active ELSE active - 1

Drop(c) ==
    /\ ReleaseRelay(c)
    /\ conns' = conns \ {c}
    /\ UNCHANGED picked

\* An error of WriteMessage: a CONNECT or DATA ends its Conn and the client is
\* told, the failure of a CLOSE is ignored.
Ending == {"CONNECT", "DATA"}

\* Mutant: HandleRelayData returns without a word.
MutAfterFailure(p) == CASE op[p] = "CONNECT" -> "tell"
                        [] op[p] \in {"CLOSE", "SWEEP"} -> "drop"
                        [] OTHER -> Back(p)

AfterFailure(p) == CASE op[p] \in Ending -> "tell"
                     [] op[p] \in {"CLOSE", "SWEEP"} -> "drop"
                     [] OTHER -> Back(p)

Failed(p) ==
    /\ pc[p] = "failed"
    /\ IF op[p] \in Ending THEN Drop(p) ELSE UNCHANGED connVars
    /\ Goto(p, AfterFailure(p))
    /\ pulled' = IF p = Puller THEN NoAnswer ELSE pulled
    /\ UNCHANGED <<told, relayVars, op, link, todo, clientVars, nextVars>>

Connect(p) == ConnectNot(p) \/ ConnectFails(p) \/ ConnectDials(p) \/ ConnectEnds(p)
WriteMessage(p) == TakeWriter(p) \/ WriteOk(p) \/ WriteFails(p) \/ Failed(p)

-----------------------------------------------------------------------------
(* The handler of a client's WebSocket                                      *)

\* What the client has been told after an "ack" or an "end", if it still hears.
Hears(c, what) ==
    CASE c \in gone -> told[c]
      [] what = "end" -> IF told[c] \in {"no", "nack"} THEN "nack" ELSE "end"
      [] what = "ack" -> IF told[c] = "no" THEN "ack" ELSE told[c]

Tells(c, what) == told' = [told EXCEPT ![c] = Hears(c, what)]

\* The handler starts to forward a message.
Forwards(c, o) ==
    /\ op' = [op EXCEPT ![c] = o]
    /\ Goto(c, "connect")

\* HandleRelayConnect: GetRelayClient,
HandleConnect(c) ==
    /\ pc[c] = "read" /\ c \notin asked
    /\ asked' = asked \cup {c}
    /\ Goto(c, "pick")
    /\ UNCHANGED <<connVars, told, relayVars, op, link, pullVars, gone, closed, messages,
                   nextVars>>

\* Mutant: the Conn is stored without its Relay.
MutStore(c) ==
    /\ pc[c] = "store"
    /\ active' = active + 1
    /\ conns' = conns \cup {c}
    /\ Forwards(c, "CONNECT")
    /\ UNCHANGED <<picked, released, told, relayVars, link, pullVars, clientVars, nextVars>>

\* AddActive and Conns.Store before CONNECT is forwarded.
Store(c) ==
    /\ pc[c] = "store"
    /\ active' = active + 1
    /\ picked' = picked \cup {c}
    /\ conns' = conns \cup {c}
    /\ Forwards(c, "CONNECT")
    /\ UNCHANGED <<released, told, relayVars, link, pullVars, clientVars, nextVars>>

\* The client sends DATA once it has its answer; its own CLOSE is the last
\* message, unless its puller sent CLOSE for a session that had ended.
HandleData(c) ==
    /\ pc[c] = "read" /\ messages > 0
    /\ told[c] \in {"ack", "end"}
    /\ c \in closed => told[c] = "end"
    /\ messages' = messages - 1
    /\ IF c \in conns THEN Forwards(c, "DATA") ELSE Goto(c, "tell") /\ UNCHANGED op
    /\ UNCHANGED <<connVars, told, relayVars, link, pullVars, gone, asked, closed, nextVars>>

HandleClose(c) ==
    /\ pc[c] = "read" /\ messages > 0 /\ c \in asked
    /\ messages' = messages - 1
    /\ closed' = closed \cup {c}
    /\ IF c \in conns THEN Forwards(c, "CLOSE") ELSE UNCHANGED <<op, pc>>
    /\ UNCHANGED <<connVars, told, relayVars, link, pullVars, gone, asked, nextVars>>

\* A negative answer or CLOSE to the client.
Tell(c) ==
    /\ pc[c] = "tell"
    /\ Tells(c, "end")
    /\ Goto(c, "read")
    /\ UNCHANGED <<connVars, relayVars, op, link, pullVars, clientVars, nextVars>>

\* ReadMessage fails: CloseWebsocketConns, which finds the Conn or does not.
ReadFails(c) ==
    /\ pc[c] = "read" /\ c \in gone
    /\ IF c \in conns THEN Forwards(c, "SWEEP") ELSE Goto(c, "over") /\ UNCHANGED op
    /\ UNCHANGED <<connVars, told, relayVars, link, pullVars, clientVars, nextVars>>

\* The Conn is dropped after its CLOSE was forwarded.
Dropped(c) ==
    /\ pc[c] = "drop"
    /\ Drop(c)
    /\ Goto(c, IF op[c] = "SWEEP" THEN "over" ELSE "read")
    /\ UNCHANGED <<told, relayVars, op, link, pullVars, clientVars, nextVars>>

\* A client's message starts a handler; the rest is what the handler does then.
Request(c) == HandleConnect(c) \/ HandleData(c) \/ HandleClose(c)
Handler(c) ==
    Connect(c) \/ WriteMessage(c) \/ Store(c) \/ Tell(c) \/ ReadFails(c) \/ Dropped(c)

-----------------------------------------------------------------------------
(* WebsocketPuller                                                          *)

\* ReadMessage: the link of the moment,
Snap ==
    /\ pc[Puller] = "snap"
    /\ link' = [link EXCEPT ![Puller] = epoch]
    /\ Goto(Puller, "pull")
    /\ UNCHANGED <<connVars, told, relayVars, op, pullVars, clientVars, nextVars>>

\* a message from it,
Pull ==
    /\ pc[Puller] = "pull"
    /\ down[link[Puller]] # <<>>
    /\ pulled' = Head(down[link[Puller]])
    /\ down' = [down EXCEPT ![link[Puller]] = Tail(@)]
    /\ link' = [link EXCEPT ![Puller] = 0]
    /\ Goto(Puller, "pulled")
    /\ UNCHANGED <<connVars, told, relayVars, op, todo, clientVars, next, pending>>

\* or an error: SetConnected(false), whatever link is in place by now,
PullFails ==
    /\ pc[Puller] = "pull"
    /\ link[Puller] \notin alive
    /\ connected' = FALSE
    /\ link' = [link EXCEPT ![Puller] = 0]
    /\ Goto(Puller, "lost")
    /\ UNCHANGED <<connVars, told, lock, epoch, alive, writerOpen, op, pullVars, clientVars,
                   nextVars>>

\* the writer in place is closed,
Lost ==
    /\ pc[Puller] = "lost"
    /\ writerOpen' = writerOpen \ {epoch}
    /\ todo' = Cids
    /\ Goto(Puller, "sweep")
    /\ UNCHANGED <<connVars, told, connected, lock, epoch, alive, op, link, pulled, clientVars,
                   nextVars>>

\* CloseRelayConns: each Conn it finds gets CLOSE,
SweepVisit ==
    /\ pc[Puller] = "sweep"
    /\ \E c \in todo :
          /\ todo' = todo \ {c}
          /\ IF c \in conns
             THEN /\ Tells(c, "end")
                  /\ pulled' = <<c, "CLOSE">>
                  /\ Goto(Puller, "swept")
             ELSE UNCHANGED <<told, pulled, pc>>
    /\ UNCHANGED <<connVars, relayVars, op, link, clientVars, nextVars>>

\* and is dropped.
SweepDrop ==
    /\ pc[Puller] = "swept"
    /\ Drop(pulled[1])
    /\ pulled' = NoAnswer
    /\ Goto(Puller, "sweep")
    /\ UNCHANGED <<told, relayVars, op, link, todo, clientVars, nextVars>>

SweepOver ==
    /\ pc[Puller] = "sweep" /\ todo = {}
    /\ Goto(Puller, "loop")
    /\ UNCHANGED <<connVars, told, relayVars, op, link, pullVars, clientVars, nextVars>>

\* HandleRelayResponse for a Conn: the client hears, and the Conn is dropped
\* when it was the last message.
Respond ==
    /\ pc[Puller] = "pulled" /\ pulled[1] \in conns
    /\ IF pulled[2] = "DATA" THEN UNCHANGED told
       ELSE Tells(pulled[1], IF pulled[2] = "ack" THEN "ack" ELSE "end")
    /\ Goto(Puller, IF pulled[2] \in {"CLOSE", "nack"} THEN "drop" ELSE "loop")
    /\ pulled' = IF pulled[2] \in {"CLOSE", "nack"} THEN pulled ELSE NoAnswer
    /\ UNCHANGED <<connVars, relayVars, op, link, todo, clientVars, nextVars>>

RespondDrop ==
    /\ pc[Puller] = "drop"
    /\ Drop(pulled[1])
    /\ pulled' = NoAnswer
    /\ Goto(Puller, "loop")
    /\ UNCHANGED <<told, relayVars, op, link, todo, clientVars, nextVars>>

\* and without a Conn: the next hop is told to close.
Reply ==
    /\ pc[Puller] = "pulled" /\ pulled[1] \notin conns
    /\ Goto(Puller, "connect")
    /\ UNCHANGED <<connVars, told, relayVars, op, link, pullVars, clientVars, nextVars>>

WebsocketPuller ==
    \/ Connect(Puller) \/ WriteMessage(Puller) \/ Snap \/ Pull \/ PullFails \/ Lost
    \/ SweepVisit \/ SweepDrop \/ SweepOver \/ Respond \/ RespondDrop \/ Reply

-----------------------------------------------------------------------------
(* The clients, the network and the next hop                                *)

ClientGone(c) ==
    /\ c \notin gone
    /\ gone' = gone \cup {c}
    /\ UNCHANGED <<connVars, told, relayVars, procVars, pullVars, asked, closed, messages,
                   nextVars>>

LinkDies(e) ==
    /\ e \in alive
    /\ alive' = alive \ {e}
    /\ EndsAt(e)
    /\ UNCHANGED <<connVars, told, connected, lock, epoch, writerOpen, procVars, pullVars,
                   clientVars>>

\* The next hop sends on the link of its Conn.
Sends(c, what) == down' = [down EXCEPT ![next[c]] = Append(@, <<c, what>>)]

NextAnswers(c) ==
    /\ c \in pending
    /\ pending' = pending \ {c}
    /\ \/ Sends(c, "ack") /\ UNCHANGED next
       \/ Sends(c, "nack") /\ next' = [next EXCEPT ![c] = 0]
    /\ UNCHANGED <<connVars, told, relayVars, procVars, pullVars, clientVars>>

NextSends(c) ==
    /\ next[c] # 0 /\ c \notin pending
    /\ messages > 0
    /\ messages' = messages - 1
    /\ \/ Sends(c, "DATA") /\ UNCHANGED next
       \/ Sends(c, "CLOSE") /\ next' = [next EXCEPT ![c] = 0]
    /\ UNCHANGED <<connVars, told, relayVars, procVars, pullVars, gone, asked, closed,
                   pending>>

Next ==
    \/ \E c \in Cids : Request(c) \/ Handler(c) \/ ClientGone(c) \/ NextAnswers(c) \/ NextSends(c)
    \/ WebsocketPuller
    \/ \E e \in Links : LinkDies(e)

Spec == Init /\ [][Next]_vars

\* Goroutines run, and a next hop that holds an unanswered CONNECT answers it.
\* Writes are taken to return here, although none has a deadline: AskedIsAnswered
\* fails even so, and not because a write stalls.
FairSpec ==
    /\ Spec
    /\ \A c \in Cids : WF_vars(Handler(c)) /\ WF_vars(NextAnswers(c))
    /\ WF_vars(WebsocketPuller)

-----------------------------------------------------------------------------
(* Properties                                                               *)

\* The load GetRelayClient balances by is right whichever of the seven exits a
\* Conn takes, and however many of them it takes: relay.Active counts the Conns
\* that use the relay and are in Conns.
ActiveCountsConns == active = Cardinality(conns)

\* A Conn does not leave Conns behind its client's back: the client has been told,
\* or closed it, or is gone, or its handler is about to tell it.
UpstreamIsTold ==
    \A c \in picked \ conns :
        told[c] \in {"nack", "end"} \/ c \in closed \cup gone \/ pc[c] = "tell"

\* What the sweep after a lost link is for: who asked for a connection hears of
\* it, by an answer or by CLOSE.  (Violated: when another goroutine's failed write
\* clears Connected while the puller is not in ReadMessage, the puller dials and
\* reads the next link; the error of the lost one is read by nobody, and the
\* Conns that were waiting on it stay in Conns unanswered.)
AskedIsAnswered ==
    \A c \in Cids : c \in asked ~> (told[c] # "no" \/ c \in closed \cup gone)
=============================================================================
