---------------------------- MODULE LocalSession ----------------------------
(***************************************************************************)
(* local/local.go and the message path of local/wsconn.go: the goroutines  *)
(* that serve one client connection of the local proxy, next to the puller *)
(* of their WebSocket and to StopLocal.  A session starts as HandleConn,   *)
(* which sends CONNECT, waits for the answer and starts CopyFromWS and     *)
(* CopyToWS.  The puller hands downstream messages to the sessions through *)
(* l.Conns and each session's MsgChan.                                     *)
(*                                                                         *)
(* One WSConn serves all sessions (PoolSize 1).  A WriteMessage is two     *)
(* steps: it takes ws.Writer of the moment, and later returns with the     *)
(* fate of the message (module FairWriter).  epoch numbers the transports  *)
(* that Connect put into the WSConn.  Cleanups that neither block nor      *)
(* read what others write are one step: every effect in them is guarded by *)
(* a Once, or is idempotent.  The puller's idle wait and the TTL switch of *)
(* the transport are not in this module.                                   *)
(***************************************************************************)
EXTENDS Integers, FiniteSets, SequencesExt

CONSTANTS
    Sessions,   \* client connections, named by their Cid
    None,       \* no message in the puller's hands
    MsgCap,     \* capacity of MsgChan (32)
    MaxEpoch,   \* bound: transports ever dialed
    MaxDown,    \* bound: DATA and CLOSE messages of the remote
    MaxUp       \* bound: chunks of data the clients send

ASSUME SessionAssumption ==
    /\ IsFiniteSet(Sessions)
    /\ None \notin Sessions
    /\ MsgCap \in Nat \ {0}
    /\ MaxEpoch \in Nat /\ MaxDown \in Nat /\ MaxUp \in Nat

VARIABLES
    handle,    \* session -> where its HandleConn is
    answer,    \* session -> the message HandleConn received as its answer
    from,      \* session -> where its CopyFromWS is
    to,        \* session -> where its CopyToWS is
    made,      \* sessions whose Conn was created (conn # nil in HandleConn)
    conns,     \* l.Conns
    msgChan,   \* session -> content of conn.MsgChan
    quit,      \* sessions whose conn.Quit is closed
    released,  \* sessions whose ReleaseOnce has run
    net,       \* session -> netconn: "open", "gone" (by the client), "closed"
    active,    \* ws.Active
    counted,   \* metrics ClientConnectionsClosed
    \* the WSConn
    epoch,     \* which transport ws.WSConn and ws.Writer are
    alive,     \* that transport works
    writer,    \* ws.Writer is open
    connected, \* ws.Connected
    taken,     \* session -> epoch of the writer its pending WriteMessage took,
               \* 0 outside WriteMessage
    \* the puller
    puller,    \* where WebsocketPuller is
    pulled,    \* the session and message in its hands
    reading,   \* epoch of the transport its pending read is on
    replying,  \* epoch of the writer its pending WriteMessage took
    \* StopLocal
    stop,      \* "no", "done" (Done is closed), "range", "over"
    unvisited, \* sessions the Conns.Range of StopLocal has yet to visit
    \* the remote end of the transport
    inbox,     \* messages on their way down: <<session, message>>
    remote,    \* session -> "none", "asked" (CONNECT sent up), "answered"
    held,      \* sessions the remote holds after all that was sent up so far
    down, up   \* messages the remote and the clients may still send

handleVars == <<handle, answer, made>>
connVars   == <<conns, msgChan, quit, released, net, active, counted>>
linkVars   == <<epoch, alive, writer, connected>>
pullVars   == <<puller, pulled, reading, replying>>
stopVars   == <<stop, unvisited>>
remoteVars == <<inbox, remote, held, down>>
vars == <<handleVars, from, to, connVars, linkVars, taken, pullVars, stopVars,
          remoteVars, up>>

Messages == {"ack", "nack", "data", "close"}
Epochs == 0..MaxEpoch

HandleStates == {"none", "get", "pick", "connect", "connecting", "store",
                 "wait", "ack", "flush", "send", "sending",
                 "cleanup", "closing", "release", "over", "ok"}
FromStates == {"off", "run", "write", "exit", "over"}
ToStates == {"off", "read", "send", "sending", "upstream", "closing", "exit", "over"}
PullerStates == {"loop", "read", "deliver", "reply", "replying", "over"}

TypeOK ==
    /\ handle \in [Sessions -> HandleStates]
    /\ answer \in [Sessions -> Messages]
    /\ from \in [Sessions -> FromStates]
    /\ to \in [Sessions -> ToStates]
    /\ made \in SUBSET Sessions
    /\ conns \in SUBSET Sessions
    /\ msgChan \in [Sessions -> Seq(Messages)]
    /\ \A s \in Sessions : Len(msgChan[s]) <= MsgCap
    /\ quit \in SUBSET Sessions
    /\ released \in SUBSET Sessions
    /\ net \in [Sessions -> {"open", "gone", "closed"}]
    /\ active \in Int /\ counted \in Int
    /\ epoch \in Epochs /\ reading \in Epochs /\ replying \in Epochs
    /\ taken \in [Sessions -> Epochs]
    /\ alive \in BOOLEAN /\ writer \in BOOLEAN /\ connected \in BOOLEAN
    /\ puller \in PullerStates
    /\ pulled \in (Sessions \X Messages) \cup {None}
    /\ stop \in {"no", "done", "range", "over"}
    /\ unvisited \in SUBSET Sessions
    /\ inbox \in Seq(Sessions \X Messages)
    /\ remote \in [Sessions -> {"none", "asked", "answered"}]
    /\ held \in SUBSET Sessions
    /\ down \in 0..MaxDown /\ up \in 0..MaxUp

\* RunLocal has started the puller; nothing is dialed yet (epoch 0).
Init ==
    /\ handle = [s \in Sessions |-> "none"]
    /\ answer = [s \in Sessions |-> "nack"]
    /\ from = [s \in Sessions |-> "off"]
    /\ to = [s \in Sessions |-> "off"]
    /\ made = {} /\ conns = {} /\ quit = {} /\ released = {}
    /\ msgChan = [s \in Sessions |-> <<>>]
    /\ net = [s \in Sessions |-> "open"]
    /\ active = 0 /\ counted = 0
    /\ epoch = 0 /\ reading = 0 /\ replying = 0
    /\ taken = [s \in Sessions |-> 0]
    /\ alive = FALSE /\ writer = FALSE /\ connected = FALSE
    /\ puller = "loop" /\ pulled = None
    /\ stop = "no" /\ unvisited = {}
    /\ inbox = <<>> /\ held = {}
    /\ remote = [s \in Sessions |-> "none"]
    /\ down = MaxDown /\ up = MaxUp

IsStopped == stop # "no"

-----------------------------------------------------------------------------
(* The transport                                                            *)

\* What Connect leaves behind when its dial succeeded: a new transport with a
\* new writer, the old ones closed.  The remote drops what the old one held.
Connected ==
    /\ epoch' = epoch + 1
    /\ alive' = TRUE /\ writer' = TRUE /\ connected' = TRUE
    /\ inbox' = <<>> /\ held' = {}
    /\ remote' = [s \in Sessions |-> "none"]

DialFails ==
    /\ connected' = FALSE
    /\ UNCHANGED <<epoch, alive, writer, inbox, held, remote>>

\* What the remote knows of s after message m reached it.
Received(s, m) ==
    /\ held' = IF m = "close" THEN held \ {s} ELSE held \cup {s}
    /\ remote' = IF m = "connect" THEN [remote EXCEPT ![s] = "asked"] ELSE remote

\* The writer taken at epoch e puts (s, m) on the transport and returns nil.  A
\* transport that just died may swallow a message without an error.
WriteOk(e, s, m) ==
    /\ e = epoch /\ writer
    /\ IF alive
       THEN Received(s, m) /\ UNCHANGED <<linkVars, inbox, down>>
       ELSE UNCHANGED <<linkVars, remoteVars>>

\* It returns an error: the writer was nil or is closed, the transport is dead
\* or the local proxy was stopped before the writer was taken.  Whatever
\* transport is in use by now is marked as not connected.
WriteError(e) ==
    /\ ~(e = epoch /\ writer /\ alive)
    /\ connected' = FALSE
    /\ writer' = (writer /\ e # epoch)
    /\ UNCHANGED <<epoch, alive, remoteVars>>

-----------------------------------------------------------------------------
(* The conn's shared state                                                  *)

\* Mutant: ReleaseWSConn without its Once.
MutRelease(S) ==
    /\ released' = released \cup S
    /\ active' = active - Cardinality(S)
    /\ counted' = counted + Cardinality(S)

\* ReleaseWSConn of the sessions in S (none or one).
ReleaseWSConn(S) ==
    /\ released' = released \cup S
    /\ active' = active - Cardinality(S \ released)
    /\ counted' = counted + Cardinality(S \ released)

CloseNet(s) == net' = [net EXCEPT ![s] = "closed"]

-----------------------------------------------------------------------------
(* HandleConn                                                               *)

HandleGoto(s, l) == handle' = [handle EXCEPT ![s] = l]

\* RunLocal accepts while the listener is open.
Accept(s) ==
    /\ handle[s] = "none"
    /\ ~IsStopped
    /\ HandleGoto(s, "get")
    /\ UNCHANGED <<answer, made, from, to, connVars, linkVars, taken, pullVars,
                   stopVars, remoteVars, up>>

\* The deferred cleanup when no Conn was made: reserved tells whether GetWSConn
\* had returned a WSConn.
FailEarly(s, reserved) ==
    /\ HandleGoto(s, "over")
    /\ CloseNet(s)
    /\ conns' = conns \ {s}
    /\ active' = IF reserved THEN active - 1 ELSE active
    /\ counted' = counted + 1
    /\ UNCHANGED <<answer, made, from, to, msgChan, quit, released, up, pullVars,
                   stopVars>>

ProtoGet(s) ==
    /\ handle[s] = "get"
    /\ \/ /\ HandleGoto(s, "pick")
          /\ UNCHANGED <<answer, made, from, to, connVars, up, pullVars, stopVars>>
       \/ FailEarly(s, FALSE)
    /\ UNCHANGED <<taken, linkVars, remoteVars>>

\* GetWSConn returned the WSConn: AddActive(1).
Reserve(s) ==
    /\ HandleGoto(s, "connect")
    /\ active' = active + 1
    /\ UNCHANGED <<answer, made, from, to, conns, msgChan, quit, released, net,
                   counted, up, pullVars, stopVars>>

\* GetWSConn: IsStopped, then use the WSConn or Connect it.
GetWSConn(s) ==
    /\ handle[s] = "pick"
    /\ \/ IsStopped /\ FailEarly(s, FALSE) /\ UNCHANGED <<linkVars, remoteVars>>
       \/ ~IsStopped /\ connected /\ Reserve(s) /\ UNCHANGED <<linkVars, remoteVars>>
       \/ /\ ~IsStopped /\ ~connected /\ epoch < MaxEpoch
          /\ Connected /\ Reserve(s)
          /\ UNCHANGED down
       \/ /\ ~IsStopped /\ ~connected
          /\ DialFails /\ FailEarly(s, FALSE)
          /\ UNCHANGED down
    /\ UNCHANGED taken

\* WriteMessage begins: refused after StopLocal, else it takes ws.Writer.
BeginWrite(s) == ~IsStopped /\ taken' = [taken EXCEPT ![s] = epoch]
WriteRefused(s) == IsStopped /\ UNCHANGED taken
EndWrite(s) == taken' = [taken EXCEPT ![s] = 0]

SendConnect(s) ==
    /\ handle[s] = "connect"
    /\ \/ /\ BeginWrite(s)
          /\ HandleGoto(s, "connecting")
          /\ UNCHANGED <<answer, made, from, to, connVars, up, pullVars, stopVars>>
       \/ WriteRefused(s) /\ FailEarly(s, TRUE)
    /\ UNCHANGED <<linkVars, remoteVars>>

ConnectSent(s) ==
    /\ handle[s] = "connecting"
    /\ \/ /\ WriteOk(taken[s], s, "connect")
          /\ HandleGoto(s, "store")
          /\ UNCHANGED <<answer, made, from, to, connVars, up, pullVars, stopVars>>
       \/ WriteError(taken[s]) /\ FailEarly(s, TRUE)
    /\ EndWrite(s)

\* conn = &Conn{...}; l.Conns.Store(cid, conn)
StoreConn(s) ==
    /\ handle[s] = "store"
    /\ made' = made \cup {s}
    /\ conns' = conns \cup {s}
    /\ HandleGoto(s, "wait")
    /\ UNCHANGED <<answer, from, to, msgChan, quit, released, net, active, counted,
                   linkVars, taken, pullVars, stopVars, remoteVars, up>>

\* The select on Quit, DoneChan and MsgChan; it has no timeout.
WaitAnswer(s) ==
    /\ handle[s] = "wait"
    /\ \/ /\ s \in quit \/ IsStopped
          /\ HandleGoto(s, "cleanup")
          /\ UNCHANGED <<answer, msgChan>>
       \/ /\ msgChan[s] # <<>>
          /\ answer' = [answer EXCEPT ![s] = Head(msgChan[s])]
          /\ msgChan' = [msgChan EXCEPT ![s] = Tail(@)]
          /\ HandleGoto(s, "ack")
    /\ UNCHANGED <<made, from, to, conns, quit, released, net, active, counted,
                   linkVars, taken, pullVars, stopVars, remoteVars, up>>

\* handleOk: go CopyFromWS, go CopyToWS
Started(s) ==
    /\ HandleGoto(s, "ok")
    /\ from' = [from EXCEPT ![s] = "run"]
    /\ to' = [to EXCEPT ![s] = "read"]

\* Proto.Ack to the client; only an answer with Ok starts the session.
ProtoAck(s) ==
    /\ handle[s] = "ack"
    /\ \/ /\ answer[s] = "ack" /\ net[s] # "closed"
          /\ \/ Started(s)
             \/ HandleGoto(s, "flush") /\ UNCHANGED <<from, to>>
       \/ /\ answer[s] # "ack" \/ net[s] # "open"
          /\ HandleGoto(s, "cleanup")
          /\ UNCHANGED <<from, to>>
    /\ UNCHANGED <<answer, made, connVars, linkVars, taken, pullVars, stopVars,
                   remoteVars, up>>

\* Flush the request data: read a chunk of the request, send it, stop after a
\* short one.
FlushRead(s) ==
    /\ handle[s] = "flush"
    /\ \/ HandleGoto(s, "send")
       \/ HandleGoto(s, "cleanup")
    /\ UNCHANGED <<answer, made, from, to, connVars, linkVars, taken, pullVars,
                   stopVars, remoteVars, up>>

FlushSend(s) ==
    /\ handle[s] = "send"
    /\ \/ BeginWrite(s) /\ HandleGoto(s, "sending")
       \/ WriteRefused(s) /\ HandleGoto(s, "cleanup")
    /\ UNCHANGED <<answer, made, from, to, connVars, linkVars, pullVars, stopVars,
                   remoteVars, up>>

FlushSent(s) ==
    /\ handle[s] = "sending"
    /\ \/ /\ WriteOk(taken[s], s, "data")
          /\ \/ Started(s) /\ UNCHANGED up
             \/ /\ up > 0 /\ up' = up - 1
                /\ HandleGoto(s, "flush")
                /\ UNCHANGED <<from, to>>
       \/ /\ WriteError(taken[s])
          /\ HandleGoto(s, "cleanup")
          /\ UNCHANGED <<from, to, up>>
    /\ EndWrite(s)
    /\ UNCHANGED <<answer, made, connVars, pullVars, stopVars>>

\* Mutant: CloseUpstream only for connections the remote has acknowledged.
MutCloses(s) == answer[s] = "ack"

\* conn.CloseUpstream() is called.
Closes(s) == TRUE

\* Mutant: the cleanup forgets Conns.Delete.
MutWithout(s) == conns

\* l.Conns.Delete(cid)
Without(s) == conns \ {s}

\* The deferred cleanup with a Conn: netconn.Close, Conns.Delete, then
\* CloseUpstream, then ReleaseWSConn and CloseQuit.
Cleanup(s) ==
    /\ handle[s] = "cleanup"
    /\ CloseNet(s)
    /\ conns' = Without(s)
    /\ \/ Closes(s) /\ BeginWrite(s) /\ HandleGoto(s, "closing")
       \/ (~Closes(s) \/ IsStopped) /\ HandleGoto(s, "release") /\ UNCHANGED taken
    /\ UNCHANGED <<answer, made, from, to, msgChan, quit, released, active, counted,
                   linkVars, pullVars, stopVars, remoteVars, up>>

CleanupClosed(s) ==
    /\ handle[s] = "closing"
    /\ WriteOk(taken[s], s, "close") \/ WriteError(taken[s])
    /\ EndWrite(s)
    /\ HandleGoto(s, "release")
    /\ UNCHANGED <<answer, made, from, to, connVars, pullVars, stopVars, up>>

CleanupRelease(s) ==
    /\ handle[s] = "release"
    /\ ReleaseWSConn({s})
    /\ quit' = quit \cup {s}
    /\ HandleGoto(s, "over")
    /\ UNCHANGED <<answer, made, from, to, conns, msgChan, net, linkVars, taken,
                   pullVars, stopVars, remoteVars, up>>

HandleConn(s) ==
    \/ GetWSConn(s) \/ SendConnect(s) \/ ConnectSent(s) \/ StoreConn(s)
    \/ WaitAnswer(s) \/ ProtoAck(s) \/ FlushRead(s) \/ FlushSend(s) \/ FlushSent(s)
    \/ Cleanup(s) \/ CleanupClosed(s) \/ CleanupRelease(s)

-----------------------------------------------------------------------------
(* CopyFromWS                                                               *)

FromGoto(s, l) == from' = [from EXCEPT ![s] = l]

fromUnchanged(s) ==
    UNCHANGED <<handleVars, to, linkVars, taken, pullVars, stopVars, remoteVars, up>>

\* The select of the loop: Quit, DoneChan or the TTL timer, which every message
\* resets and which may fire whenever the loop waits; or a message.
FromSelect(s) ==
    /\ from[s] = "run"
    /\ \/ FromGoto(s, "exit") /\ UNCHANGED msgChan
       \/ /\ msgChan[s] # <<>>
          /\ msgChan' = [msgChan EXCEPT ![s] = Tail(@)]
          /\ \/ Head(msgChan[s]) = "close" /\ FromGoto(s, "exit")
             \/ Head(msgChan[s]) = "data" /\ FromGoto(s, "write")
             \/ Head(msgChan[s]) \in {"ack", "nack"} /\ UNCHANGED from
    /\ UNCHANGED <<conns, quit, released, net, active, counted>>
    /\ fromUnchanged(s)

\* NetConn.Write returns an error once the client is gone or NetConn closed.
FromWriteFails(s) ==
    /\ from[s] = "write"
    /\ net[s] # "open"
    /\ FromGoto(s, "exit")
    /\ UNCHANGED connVars
    /\ fromUnchanged(s)

\* It returns without an error when the client takes the data.
FromWritten(s) ==
    /\ from[s] = "write"
    /\ net[s] # "closed"
    /\ FromGoto(s, "run")
    /\ UNCHANGED connVars
    /\ fromUnchanged(s)

\* Mutant: CopyFromWS leaves NetConn to CopyToWS.
MutFromCloses(s) == UNCHANGED net

FromCloses(s) == CloseNet(s)

FromExit(s) ==
    /\ from[s] = "exit"
    /\ FromCloses(s)
    /\ conns' = conns \ {s}
    /\ ReleaseWSConn({s})
    /\ FromGoto(s, "over")
    /\ UNCHANGED <<msgChan, quit>>
    /\ fromUnchanged(s)

CopyFromWS(s) == FromSelect(s) \/ FromWriteFails(s) \/ FromExit(s)

-----------------------------------------------------------------------------
(* CopyToWS                                                                 *)

ToGoto(s, l) == to' = [to EXCEPT ![s] = l]

\* NetConn.Read returns data of the client.
ToRead(s) ==
    /\ to[s] = "read"
    /\ net[s] = "open"
    /\ up > 0 /\ up' = up - 1
    /\ ToGoto(s, "send")
    /\ UNCHANGED <<handleVars, from, connVars, linkVars, taken, pullVars, stopVars,
                   remoteVars>>

\* NetConn.Read returns an error.
ToReadFails(s) ==
    /\ to[s] = "read"
    /\ net[s] # "open"
    /\ ToGoto(s, "upstream")
    /\ UNCHANGED <<handleVars, from, connVars, linkVars, taken, pullVars, stopVars,
                   remoteVars, up>>

ToSend(s) ==
    /\ to[s] = "send"
    /\ \/ BeginWrite(s) /\ ToGoto(s, "sending")
       \/ WriteRefused(s) /\ ToGoto(s, "upstream")
    /\ UNCHANGED <<handleVars, from, connVars, linkVars, pullVars, stopVars,
                   remoteVars, up>>

ToSent(s) ==
    /\ to[s] = "sending"
    /\ \/ WriteOk(taken[s], s, "data") /\ ToGoto(s, "read")
       \/ WriteError(taken[s]) /\ ToGoto(s, "upstream")
    /\ EndWrite(s)
    /\ UNCHANGED <<handleVars, from, connVars, pullVars, stopVars, up>>

\* The deferred CloseUpstream.
ToUpstream(s) ==
    /\ to[s] = "upstream"
    /\ \/ BeginWrite(s) /\ ToGoto(s, "closing")
       \/ WriteRefused(s) /\ ToGoto(s, "exit")
    /\ UNCHANGED <<handleVars, from, connVars, linkVars, pullVars, stopVars,
                   remoteVars, up>>

ToClosed(s) ==
    /\ to[s] = "closing"
    /\ WriteOk(taken[s], s, "close") \/ WriteError(taken[s])
    /\ EndWrite(s)
    /\ ToGoto(s, "exit")
    /\ UNCHANGED <<handleVars, from, connVars, pullVars, stopVars, up>>

ToExit(s) ==
    /\ to[s] = "exit"
    /\ CloseNet(s)
    /\ conns' = conns \ {s}
    /\ ReleaseWSConn({s})
    /\ quit' = quit \cup {s}
    /\ ToGoto(s, "over")
    /\ UNCHANGED <<handleVars, from, msgChan, linkVars, taken, pullVars, stopVars,
                   remoteVars, up>>

CopyToWS(s) ==
    \/ ToReadFails(s) \/ ToSend(s) \/ ToSent(s)
    \/ ToUpstream(s) \/ ToClosed(s) \/ ToExit(s)

-----------------------------------------------------------------------------
(* WebsocketPuller                                                          *)

pullUnchanged == UNCHANGED <<handleVars, from, to, taken, stopVars, up>>

\* The head of the loop: stop, reconnect, or start a read.
PullerLoop ==
    /\ puller = "loop"
    /\ \/ /\ IsStopped
          /\ puller' = "over"
          /\ UNCHANGED <<linkVars, remoteVars, reading>>
       \/ /\ ~IsStopped /\ connected
          /\ puller' = "read" /\ reading' = epoch
          /\ UNCHANGED <<linkVars, remoteVars>>
       \/ /\ ~IsStopped /\ ~connected /\ epoch < MaxEpoch
          /\ Connected
          /\ puller' = "read" /\ reading' = epoch'
          /\ UNCHANGED down
       \/ /\ ~IsStopped /\ ~connected
          /\ DialFails
          /\ UNCHANGED <<puller, reading, down>>
    /\ UNCHANGED <<connVars, pulled, replying>>
    /\ pullUnchanged

\* ReadMessage returns a message, and l.Conns.Load looks its session up.
PullerRead ==
    /\ puller = "read"
    /\ reading = epoch
    /\ inbox # <<>>
    /\ pulled' = Head(inbox)
    /\ inbox' = Tail(inbox)
    /\ puller' = IF Head(inbox)[1] \in conns THEN "deliver" ELSE "reply"
    /\ reading' = 0
    /\ UNCHANGED <<connVars, linkVars, replying, remote, held, down>>
    /\ pullUnchanged

\* ReadMessage fails: the transport is dead or was replaced.  Connected and
\* Writer are those of the transport in use by now.
PullerReadFails ==
    /\ puller = "read"
    /\ reading # epoch \/ (~alive /\ inbox = <<>>)
    /\ connected' = FALSE
    /\ writer' = FALSE
    /\ puller' = "loop"
    /\ reading' = 0
    /\ UNCHANGED <<connVars, epoch, alive, pulled, replying, remoteVars>>
    /\ pullUnchanged

\* Mutant: the channel takes one message too many.
MutHasRoom(s) == Len(msgChan[s]) <= MsgCap

HasRoom(s) == Len(msgChan[s]) < MsgCap

\* DeliverMessage: into the channel, given up when the local proxy stops, or,
\* while the channel stays full for msgQueueTimeout, the slow conn is closed.
DeliverMessage ==
    /\ puller = "deliver"
    /\ LET s == pulled[1] IN
       \/ /\ HasRoom(s)
          /\ msgChan' = [msgChan EXCEPT ![s] = Append(@, pulled[2])]
          /\ puller' = "loop" /\ pulled' = None
          /\ UNCHANGED <<conns, quit, released, net, active, counted>>
       \/ /\ IsStopped
          /\ puller' = "loop" /\ pulled' = None
          /\ UNCHANGED connVars
       \/ /\ ~HasRoom(s)
          /\ conns' = conns \ {s}
          /\ ReleaseWSConn({s})
          /\ quit' = quit \cup {s}
          /\ CloseNet(s)
          /\ puller' = "reply"
          /\ UNCHANGED <<msgChan, pulled>>
    /\ UNCHANGED <<linkVars, reading, replying, remoteVars>>
    /\ pullUnchanged

\* The CLOSE that tells the remote to stop.
PullerReply ==
    /\ puller = "reply"
    /\ \/ ~IsStopped /\ replying' = epoch /\ puller' = "replying" /\ UNCHANGED pulled
       \/ IsStopped /\ UNCHANGED replying /\ puller' = "loop" /\ pulled' = None
    /\ UNCHANGED <<connVars, linkVars, reading, remoteVars>>
    /\ pullUnchanged

PullerReplied ==
    /\ puller = "replying"
    /\ WriteOk(replying, pulled[1], "close") \/ WriteError(replying)
    /\ puller' = "loop" /\ pulled' = None /\ replying' = 0
    /\ UNCHANGED <<connVars, reading>>
    /\ pullUnchanged

WebsocketPuller ==
    \/ PullerLoop \/ PullerRead \/ PullerReadFails
    \/ DeliverMessage \/ PullerReply \/ PullerReplied

-----------------------------------------------------------------------------
(* StopLocal                                                                *)

stopUnchanged == UNCHANGED <<handleVars, from, to, taken, pullVars, up>>

\* close(l.Done), and the listener is closed.
StopDone ==
    /\ stop = "no"
    /\ stop' = "done"
    /\ UNCHANGED <<connVars, linkVars, remoteVars, unvisited>>
    /\ stopUnchanged

\* The WSConn's writer and transport are closed.
StopWSConns ==
    /\ stop = "done"
    /\ stop' = "range"
    /\ unvisited' = Sessions
    /\ alive' = FALSE /\ writer' = FALSE
    /\ inbox' = <<>> /\ held' = {}
    /\ remote' = [s \in Sessions |-> "none"]
    /\ UNCHANGED <<connVars, epoch, connected, down>>
    /\ stopUnchanged

\* Mutant: StopLocal closes Quit only.
MutStopCloses(s) == UNCHANGED net

StopCloses(s) == CloseNet(s)

\* Conns.Range visits the sessions that are stored when it comes to them.
StopVisit(s) ==
    /\ stop = "range"
    /\ s \in unvisited
    /\ unvisited' = unvisited \ {s}
    /\ IF s \in conns
       THEN quit' = quit \cup {s} /\ StopCloses(s)
       ELSE UNCHANGED <<quit, net>>
    /\ UNCHANGED <<stop, conns, msgChan, released, active, counted, linkVars, remoteVars>>
    /\ stopUnchanged

StopOver ==
    /\ stop = "range"
    /\ unvisited = {}
    /\ stop' = "over"
    /\ UNCHANGED <<unvisited, connVars, linkVars, remoteVars>>
    /\ stopUnchanged

StopLocal == StopWSConns \/ (\E s \in Sessions : StopVisit(s)) \/ StopOver

-----------------------------------------------------------------------------
(* The clients, the network and the remote                                  *)

envUnchanged == UNCHANGED <<handleVars, from, to, taken, pullVars, stopVars, up>>

ClientGone(s) ==
    /\ handle[s] # "none"
    /\ net[s] = "open"
    /\ net' = [net EXCEPT ![s] = "gone"]
    /\ UNCHANGED <<conns, msgChan, quit, released, active, counted, linkVars, remoteVars>>
    /\ envUnchanged

\* What was on its way down can still be read.
TransportDies ==
    /\ alive
    /\ alive' = FALSE
    /\ held' = {}
    /\ remote' = [s \in Sessions |-> "none"]
    /\ UNCHANGED <<connVars, epoch, writer, connected, inbox, down>>
    /\ envUnchanged

RemoteAnswers(s) ==
    /\ alive
    /\ remote[s] = "asked"
    /\ remote' = [remote EXCEPT ![s] = "answered"]
    /\ \/ inbox' = Append(inbox, <<s, "ack">>) /\ UNCHANGED held
       \/ inbox' = Append(inbox, <<s, "nack">>) /\ held' = held \ {s}
    /\ UNCHANGED <<connVars, linkVars, down>>
    /\ envUnchanged

RemoteSends(s) ==
    /\ alive
    /\ remote[s] = "answered"
    /\ down > 0 /\ down' = down - 1
    /\ \/ inbox' = Append(inbox, <<s, "data">>) /\ UNCHANGED held
       \/ inbox' = Append(inbox, <<s, "close">>) /\ held' = held \ {s}
    /\ UNCHANGED <<connVars, linkVars, remote>>
    /\ envUnchanged

-----------------------------------------------------------------------------
Next ==
    \/ \E s \in Sessions :
          \/ Accept(s) \/ ProtoGet(s) \/ HandleConn(s)
          \/ CopyFromWS(s) \/ FromWritten(s) \/ CopyToWS(s) \/ ToRead(s)
          \/ ClientGone(s) \/ RemoteAnswers(s) \/ RemoteSends(s)
    \/ WebsocketPuller
    \/ StopDone \/ StopLocal
    \/ TransportDies

Spec == Init /\ [][Next]_vars

(***************************************************************************)
(* Fairness: goroutines run and timers fire.  What the clients, the network *)
(* and the remote do is their choice: a client may stop reading for ever,   *)
(* and so may the remote, and no write has a deadline.  A WriteMessage is   *)
(* sure to return once its transport is dead or was closed; before that it  *)
(* may stay on it for good, even when its writer is closed (FairWriter).    *)
(***************************************************************************)
MayStall(e) == e = epoch /\ alive

FairSpec ==
    /\ Spec
    /\ WF_vars(WebsocketPuller /\ ~MayStall(replying))
    /\ WF_vars(StopLocal)
    /\ \A s \in Sessions : /\ WF_vars(HandleConn(s) /\ ~MayStall(taken[s]))
                           /\ WF_vars(CopyFromWS(s))
                           /\ WF_vars(CopyToWS(s) /\ ~MayStall(taken[s]))

-----------------------------------------------------------------------------
(* Properties                                                               *)

\* Every goroutine of the session has returned.
Done(s) ==
    \/ handle[s] = "over"
    \/ handle[s] = "ok" /\ from[s] = "over" /\ to[s] = "over"

\* The session counts in ws.Active.
Holding(s) ==
    \/ handle[s] \in {"connect", "connecting", "store"}
    \/ s \in made /\ s \notin released

\* ws.Active is exact, and ClientConnectionsClosed counts every session once,
\* although HandleConn's cleanup, both copy loops and a queue timeout of the
\* puller each release: the choice of a WSConn relies on Active, and nothing
\* ever resets it.  A session that is over holds nothing.
Accounting ==
    /\ active = Cardinality({s \in Sessions : Holding(s)})
    /\ counted = Cardinality(released \cup {s \in Sessions : Done(s)})
    /\ \A s \in Sessions : Done(s) => ~Holding(s)

\* l.Conns never keeps a session whose goroutines are gone: the puller would
\* hand it messages until its MsgChan is full and block two seconds on it.
EntriesAreServed == \A s \in conns : ~Done(s)

\* A session that is over leaves no connection behind at the remote: the last
\* word it sent up on the transport in use is CLOSE, also when the puller has
\* sent a CLOSE of its own before a last DATA.  The exceptions are a transport
\* that is about to go: its writer is closed, so that it will be replaced, or
\* StopLocal is on its way to it.
NoOrphan == \A s \in held : Done(s) => ~writer \/ stop = "done"

\* The puller tells the remote to close a session without an entry in l.Conns
\* because its "handler has quit" (wsconn.go:358): whatever takes a session out
\* of l.Conns closes its socket too.
NoHandlerMeansQuit == puller = "reply" => net[pulled[1]] = "closed"

\* The premises of SessionsEnd, which nothing in the code sees to: the client
\* takes what is written to it, and the WriteMessages of its session return.
ClientReads(s) == []<>(from[s] # "write")
WritesReturn(s) == []<>(taken[s] = 0)

\* A session that was acknowledged ends: TTL, CLOSE, a client or a transport
\* that is gone, or StopLocal ends one of its goroutines, and each one ends
\* the other, whatever becomes of the puller and of the other sessions.
SessionsEnd ==
    \A s \in Sessions :
        ClientReads(s) /\ WritesReturn(s) => (handle[s] = "ok" ~> Done(s))

\* StopLocal ends every session that has its request, wherever it is, even if
\* its client or the remote reads nothing any more: it closes the transport.
StopEndsSessions ==
    \A s \in Sessions : (IsStopped /\ handle[s] \notin {"none", "get"}) ~> Done(s)
=============================================================================
