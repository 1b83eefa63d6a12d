-------------------------------- MODULE Pool --------------------------------
(***************************************************************************)
(* local/wsconn.go: the pool of WSConns of the local proxy.  HandleConn    *)
(* takes a WSConn from the pool (GetWSConn, Connect), one WebsocketPuller  *)
(* per WSConn sleeps while it has no session, reconnects, switches to a    *)
(* fresh transport when the TTL is over and reads; StopLocal ends it all.  *)
(*                                                                         *)
(* at says where each process is; a puller bears the name of its WSConn.   *)
(* A transport is a websocket.Conn with its FairMessageWriter; its number  *)
(* is used again for a later dial when nobody refers to it any more.       *)
(* Module LocalSession has what a session does with its messages; here it  *)
(* sends CONNECT, waits for an answer and sends CLOSE.  A session counts   *)
(* as active while it is in l.Conns: INACTIVE_TIMEOUT never passes.        *)
(***************************************************************************)
EXTENDS Integers, FiniteSets, SequencesExt

CONSTANTS
    WSConns,    \* l.WSConns
    Sessions,   \* client connections
    Transports, \* bound: transports referred to at a time, numbered from 1
    Gone,       \* any client connection that is over, as the remote's messages name it
    None        \* no transport, no WSConn, no holder

ASSUME PoolAssumption ==
    /\ IsFiniteSet(WSConns) /\ IsFiniteSet(Sessions)
    /\ WSConns \cap Sessions = {}
    /\ Gone \notin Sessions
    /\ None \notin WSConns \cup Sessions \cup Nat
    /\ \A ws \in SUBSET WSConns : ws # None
    /\ Transports \in Nat

VARIABLES
    at,         \* process -> where it is
    \* WSConn -> its fields
    canConnect, connected, active,
    installed,  \* the transport that WSConn.WSConn and WSConn.Writer are
    unsignaled, \* ConnChan is open: who waits on it sleeps
    lock,       \* holder of ConnectLock
    \* the transports
    sock,       \* "open", "dead" (the remote is gone), "closed" (by us)
    writer,     \* its FairMessageWriter is open
    heard,      \* sessions whose CONNECT went up on it
    due,        \* sessions it has a message for, on its way down
    timed,      \* transports whose reads have a deadline
    \* process -> the transport whose writer its WriteMessage took
    taken,
    \* session -> its locals
    cand,       \* WSConns it has yet to try; the one it uses when it has it
    stored,     \* sessions in l.Conns
    answered,   \* sessions with a message in MsgChan
    \* puller -> its locals
    armed,      \* switchTimer is set
    reading,    \* the transport its ReadMessage reads
    fresh,      \* the transport dialed for the switch
    stop        \* WSConns StopLocal has yet to visit, None while l.Done is open

wsVars == <<canConnect, connected, active, installed, unsignaled, lock>>
trVars == <<sock, writer, heard, due, timed>>
sesVars == <<taken, cand, stored, answered>>
pullVars == <<armed, reading, fresh>>
vars == <<at, wsVars, trVars, sesVars, pullVars, stop>>

T == 1..Transports
Cids == Sessions \cup {Gone}
Ref == T \cup {None}

SessionStates == {"none", "try", "connect", "dial", "installed", "reserve", "send",
                  "sending", "store", "wait", "ok", "closing", "over"}
PullerStates == {"top", "make", "blocked", "check", "sleep", "connect", "dial",
                 "installed", "ttl", "switch", "announce", "announcing", "flush",
                 "flushing", "swap", "read", "reading", "reply", "replying", "over"}

TypeOK ==
    /\ \A s \in Sessions : at[s] \in SessionStates
    /\ \A w \in WSConns : at[w] \in PullerStates
    /\ canConnect \in [WSConns -> BOOLEAN] /\ connected \in [WSConns -> BOOLEAN]
    /\ active \in [WSConns -> 0..Cardinality(Sessions)]
    /\ installed \in [WSConns -> Ref] /\ unsignaled \in [WSConns -> BOOLEAN]
    /\ lock \in [WSConns -> Sessions \cup WSConns \cup {None}]
    /\ sock \in [T -> {"open", "dead", "closed"}] /\ writer \in [T -> BOOLEAN]
    /\ heard \in [T -> SUBSET Cids] /\ due \in [T -> SUBSET Cids]
    /\ timed \subseteq T
    /\ taken \in [Sessions \cup WSConns -> Ref]
    /\ \A s \in Sessions : cand[s] \in Seq(WSConns)
    /\ stored \in SUBSET Sessions /\ answered \in SUBSET Sessions
    /\ armed \in [WSConns -> BOOLEAN]
    /\ reading \in [WSConns -> Ref] /\ fresh \in [WSConns -> Ref]
    /\ stop \in (SUBSET WSConns) \cup {None}

\* RunLocal has started the pullers; NewWSConn dials nothing.
Init ==
    /\ at = [p \in Sessions \cup WSConns |-> IF p \in Sessions THEN "none" ELSE "top"]
    /\ canConnect = [w \in WSConns |-> TRUE]
    /\ connected = [w \in WSConns |-> FALSE]
    /\ active = [w \in WSConns |-> 0]
    /\ installed = [w \in WSConns |-> None]
    /\ unsignaled = [w \in WSConns |-> TRUE]
    /\ lock = [w \in WSConns |-> None]
    /\ sock = [t \in T |-> "closed"] /\ writer = [t \in T |-> FALSE]
    /\ heard = [t \in T |-> {}] /\ due = [t \in T |-> {}]
    /\ timed = {}
    /\ taken = [p \in Sessions \cup WSConns |-> None]
    /\ cand = [s \in Sessions |-> <<>>]
    /\ stored = {} /\ answered = {}
    /\ armed = [w \in WSConns |-> FALSE]
    /\ reading = [w \in WSConns |-> None] /\ fresh = [w \in WSConns |-> None]
    /\ stop = None

IsStopped == stop # None

Goto(p, l) == at' = [at EXCEPT ![p] = l]

-----------------------------------------------------------------------------
(* Transports                                                               *)

Referred(t) ==
    \/ \E w \in WSConns : t \in {installed[w], reading[w], fresh[w]}
    \/ \E p \in Sessions \cup WSConns : taken[p] = t

Unused == {t \in T : ~Referred(t)}

\* The transport a dial that succeeds returns.
Dialed == CHOOSE t \in Unused : TRUE

\* Nothing comes down on a transport that is closed, and a new one has no
\* read deadline.
Forgotten(old) ==
    /\ heard' = [t \in T |-> IF t \in old THEN {} ELSE heard[t]]
    /\ due' = [t \in T |-> IF t \in old THEN {} ELSE due[t]]
    /\ timed' = timed \ old

\* A dial succeeds: a new transport with a new writer, next to closing those
\* in the set old.
Opened(old) ==
    /\ Unused # {}
    /\ sock' = [t \in T |-> IF t = Dialed THEN "open"
                            ELSE IF t \in old THEN "closed" ELSE sock[t]]
    /\ writer' = [t \in T |-> t = Dialed \/ (writer[t] /\ t \notin old)]
    /\ Forgotten(old \cup {Dialed})

Closed(old) ==
    /\ sock' = [t \in T |-> IF t \in old THEN "closed" ELSE sock[t]]
    /\ writer' = [t \in T |-> writer[t] /\ t \notin old]
    /\ Forgotten(old)

SignalConnChan(w) == unsignaled' = [unsignaled EXCEPT ![w] = FALSE]

\* The write to transport t succeeds.
Writes(t) == t # None /\ writer[t] /\ sock[t] = "open"

\* WriteMessage of w on the writer of t returns an error.
WriteError(w, t) ==
    /\ ~Writes(t)
    /\ connected' = [connected EXCEPT ![w] = FALSE]
    /\ writer' = [u \in T |-> writer[u] /\ u # t]
    /\ UNCHANGED <<canConnect, installed, unsignaled, lock, sock, heard, due, timed>>

-----------------------------------------------------------------------------
(* Connect, by a session (force is FALSE) or by a puller (force is TRUE)    *)

\* Mutant: the puller asks like a session.
MutByForce(p) == FALSE
ByForce(p) == p \in WSConns

Target(p) == IF p \in WSConns THEN p ELSE Head(cand[p])

\* Connect returns nil to p.
ConnectOk(p) ==
    IF p \in WSConns
    THEN /\ Goto(p, "ttl")
         /\ armed' = [armed EXCEPT ![p] = TRUE]
         /\ UNCHANGED <<sesVars, reading, fresh, stop>>
    ELSE Goto(p, "reserve") /\ UNCHANGED <<sesVars, pullVars, stop>>

\* It returns an error: a puller continues its loop, a session tries the next.
ConnectFails(p) ==
    /\ IF p \in WSConns
       THEN Goto(p, "top") /\ UNCHANGED cand
       ELSE Goto(p, "try") /\ cand' = [cand EXCEPT ![p] = Tail(@)]
    /\ UNCHANGED <<taken, stored, answered, pullVars, stop>>

ConnectCheck(p) ==
    LET w == Target(p) IN
    /\ at[p] = "connect"
    /\ lock[w] = None
    /\ \/ /\ connected[w]
          /\ SignalConnChan(w)
          /\ ConnectOk(p)
          /\ UNCHANGED lock
       \/ /\ ~connected[w] /\ IsStopped
          /\ ConnectFails(p)
          /\ UNCHANGED <<unsignaled, lock>>
       \/ /\ ~connected[w] /\ ~IsStopped
          /\ ~canConnect[w] /\ ~ByForce(p)
          /\ SignalConnChan(w)
          /\ ConnectFails(p)
          /\ UNCHANGED lock
       \/ /\ ~connected[w] /\ ~IsStopped
          /\ canConnect[w] \/ ByForce(p)
          /\ lock' = [lock EXCEPT ![w] = p]
          /\ Goto(p, "dial")
          /\ UNCHANGED <<unsignaled, sesVars, pullVars, stop>>
    /\ UNCHANGED <<canConnect, connected, active, installed, trVars>>

\* Mutant: the error return keeps ConnectLock.
MutUnlock(w) == UNCHANGED lock
Unlock(w) == lock' = [lock EXCEPT ![w] = None]

DialFails(p) ==
    LET w == Target(p) IN
    /\ at[p] = "dial"
    /\ canConnect' = [canConnect EXCEPT ![w] = FALSE]
    /\ connected' = [connected EXCEPT ![w] = FALSE]
    /\ Unlock(w)
    /\ ConnectFails(p)
    /\ UNCHANGED <<active, installed, unsignaled, trVars>>

\* Mutant: the old transport is not closed.
MutReplaced(w) == {}
Replaced(w) == {installed[w]} \cap T

\* The dial succeeds; under WriteLock the new transport replaces the old one.
DialOk(p) ==
    LET w == Target(p) IN
    /\ at[p] = "dial"
    /\ Opened(Replaced(w))
    /\ installed' = [installed EXCEPT ![w] = Dialed]
    /\ Goto(p, "installed")
    /\ UNCHANGED <<canConnect, connected, active, unsignaled, lock, sesVars, pullVars, stop>>

ConnectDone(p) ==
    LET w == Target(p) IN
    /\ at[p] = "installed"
    /\ connected' = [connected EXCEPT ![w] = TRUE]
    /\ canConnect' = [canConnect EXCEPT ![w] = TRUE]
    /\ SignalConnChan(w)
    /\ lock' = [lock EXCEPT ![w] = None]
    /\ ConnectOk(p)
    /\ UNCHANGED <<active, installed, trVars>>

Connect(p) == ConnectCheck(p) \/ ConnectDone(p)

-----------------------------------------------------------------------------
(* The sessions                                                             *)

SesGoto(s, l) == Goto(s, l) /\ UNCHANGED <<pullVars, stop>>

CanConnectNow(w) == canConnect[w] \/ connected[w]

\* GetWSConn: the WSConns that can connect now, the least active one first.
GetWSConn(s) ==
    /\ at[s] = "none"
    /\ IF IsStopped
       THEN SesGoto(s, "over") /\ UNCHANGED cand
       ELSE /\ SesGoto(s, "try")
            /\ \E q \in SetToSeqs({w \in WSConns : CanConnectNow(w)}) :
                  /\ \A i, j \in DOMAIN q : i < j => active[q[i]] <= active[q[j]]
                  /\ cand' = [cand EXCEPT ![s] = q]
    /\ UNCHANGED <<wsVars, trVars, taken, stored, answered>>

TryNext(s) ==
    /\ at[s] = "try"
    /\ SesGoto(s, IF cand[s] = <<>> THEN "over"
                  ELSE IF connected[Head(cand[s])] THEN "reserve" ELSE "connect")
    /\ UNCHANGED <<wsVars, trVars, sesVars>>

\* Mutant: what is reserved is never given back.
MutAddActive(s, d) == active' = [active EXCEPT ![Target(s)] = IF d > 0 THEN @ + d ELSE @]

AddActive(s, d) == active' = [active EXCEPT ![Target(s)] = @ + d]

Reserve(s) ==
    /\ at[s] = "reserve"
    /\ AddActive(s, 1)
    /\ SignalConnChan(Target(s))
    /\ SesGoto(s, "send")
    /\ UNCHANGED <<canConnect, connected, installed, lock, trVars, sesVars>>

\* WriteMessage takes the writer, or is refused after StopLocal.
BeginWrite(p) == ~IsStopped /\ taken' = [taken EXCEPT ![p] = installed[Target(p)]]
EndWrite(p) == taken' = [taken EXCEPT ![p] = None]

SendConnect(s) ==
    /\ at[s] = "send"
    /\ \/ BeginWrite(s) /\ SesGoto(s, "sending") /\ UNCHANGED active
       \/ IsStopped /\ AddActive(s, -1) /\ SesGoto(s, "over") /\ UNCHANGED taken
    /\ UNCHANGED <<canConnect, connected, installed, unsignaled, lock, trVars,
                   cand, stored, answered>>

ConnectSent(s) ==
    /\ at[s] = "sending"
    /\ Writes(taken[s])
    /\ heard' = [heard EXCEPT ![taken[s]] = @ \cup {s}]
    /\ EndWrite(s)
    /\ SesGoto(s, "store")
    /\ UNCHANGED <<wsVars, sock, writer, due, timed, cand, stored, answered>>

\* A failed write, and the cleanup of a session that has no Conn yet.
ConnectNotSent(s) ==
    /\ at[s] = "sending"
    /\ WriteError(Target(s), taken[s])
    /\ AddActive(s, -1)
    /\ EndWrite(s)
    /\ SesGoto(s, "over")
    /\ UNCHANGED <<cand, stored, answered>>

StoreConn(s) ==
    /\ at[s] = "store"
    /\ stored' = stored \cup {s}
    /\ SesGoto(s, "wait")
    /\ UNCHANGED <<wsVars, trVars, cand, taken, answered>>

\* The select of HandleConn on MsgChan and Done; it has no timeout.
WaitAnswer(s) ==
    /\ at[s] = "wait"
    /\ s \in answered \/ IsStopped
    /\ SesGoto(s, "ok")
    /\ UNCHANGED <<wsVars, trVars, sesVars>>

\* A session that ends sends CLOSE, next to leaving l.Conns.
Leave(s) ==
    /\ at[s] = "ok"
    /\ \/ BeginWrite(s) /\ SesGoto(s, "closing") /\ UNCHANGED active
       \/ IsStopped /\ AddActive(s, -1) /\ SesGoto(s, "over") /\ UNCHANGED taken
    /\ stored' = stored \ {s}
    /\ UNCHANGED <<canConnect, connected, installed, unsignaled, lock, trVars,
                   cand, answered>>

Left(s) ==
    /\ at[s] = "closing"
    /\ \/ WriteError(Target(s), taken[s])
       \/ /\ Writes(taken[s])
          /\ heard' = [heard EXCEPT ![taken[s]] = @ \ {s}]
          /\ UNCHANGED <<canConnect, connected, installed, unsignaled, lock,
                         sock, writer, due, timed>>
    /\ AddActive(s, -1)
    /\ EndWrite(s)
    /\ SesGoto(s, "over")
    /\ UNCHANGED <<cand, stored, answered>>

\* Another client connects, under a Cid of its own.
Accept(s) ==
    LET Rename(S) == IF s \in S THEN (S \ {s}) \cup {Gone} ELSE S IN
    /\ at[s] = "over" /\ ~IsStopped
    /\ SesGoto(s, "none")
    /\ heard' = [t \in T |-> Rename(heard[t])]
    /\ due' = [t \in T |-> Rename(due[t])]
    /\ answered' = answered \ {s}
    /\ cand' = [cand EXCEPT ![s] = <<>>]
    /\ UNCHANGED <<wsVars, sock, writer, timed, taken, stored>>

\* The steps of s up to its reservation, and those after it that do not wait
\* for the client.
GetsWSConn(s) == GetWSConn(s) \/ TryNext(s) \/ Reserve(s)
Session(s) ==
    \/ SendConnect(s) \/ ConnectSent(s) \/ ConnectNotSent(s) \/ StoreConn(s)
    \/ WaitAnswer(s) \/ Left(s)

-----------------------------------------------------------------------------
(* WebsocketPuller                                                          *)

pullGoto(w, l) == Goto(w, l) /\ UNCHANGED <<sesVars, stop>>

HasSession(w) == \E s \in stored : Target(s) = w

\* The head of the loop: count the sessions of the WSConn.
PullerTop(w) ==
    /\ at[w] = "top"
    /\ pullGoto(w, IF IsStopped THEN "over" ELSE IF HasSession(w) THEN "check" ELSE "make")
    /\ UNCHANGED <<wsVars, trVars, pullVars>>

\* No session: a new ConnChan in place of a closed one.
PullerMakesChan(w) ==
    /\ at[w] = "make"
    /\ unsignaled' = [unsignaled EXCEPT ![w] = TRUE]
    /\ pullGoto(w, "blocked")
    /\ UNCHANGED <<canConnect, connected, active, installed, lock, trVars, pullVars>>

\* Mutant: the puller waits for ConnChan alone.
MutSleepEnds(w) == ~unsignaled[w] /\ pullGoto(w, "check")

\* The select on ConnChan and Done.
SleepEnds(w) ==
    \/ ~unsignaled[w] /\ pullGoto(w, "check")
    \/ IsStopped /\ pullGoto(w, "over")

PullerWakes(w) ==
    /\ at[w] = "blocked"
    /\ SleepEnds(w)
    /\ armed' = [armed EXCEPT ![w] = TRUE]
    /\ UNCHANGED <<wsVars, trVars, reading, fresh>>

PullerCheck(w) ==
    /\ at[w] = "check"
    /\ pullGoto(w, IF connected[w] THEN "ttl" ELSE "sleep")
    /\ UNCHANGED <<wsVars, trVars, pullVars>>

\* RECONNECT_INTERVAL, then Connect by force.
PullerSlept(w) ==
    /\ at[w] = "sleep"
    /\ \/ pullGoto(w, "connect")
       \/ IsStopped /\ pullGoto(w, "over")
    /\ UNCHANGED <<wsVars, trVars, pullVars>>

\* switchTimer has fired or not.
PullerTimer(w) ==
    /\ at[w] = "ttl"
    /\ \/ pullGoto(w, "read")
       \/ armed[w] /\ pullGoto(w, "switch")
    /\ UNCHANGED <<wsVars, trVars, pullVars>>

\* Connect of the temporary WSConn: it is refused after StopLocal or fails,
\* and the old transport stays in use; or it dials.
SwitchDial(w) ==
    /\ at[w] = "switch"
    /\ \/ /\ pullGoto(w, "read")
          /\ UNCHANGED <<trVars, fresh>>
       \/ /\ ~IsStopped
          /\ Opened({})
          /\ fresh' = [fresh EXCEPT ![w] = Dialed]
          /\ pullGoto(w, "announce")
    /\ UNCHANGED <<wsVars, armed, reading>>

\* The write of SWITCH on the new transport.  After StopLocal it is refused.
SwitchAnnounce(w) ==
    /\ at[w] = "announce"
    /\ \/ /\ ~IsStopped
          /\ taken' = [taken EXCEPT ![w] = fresh[w]]
          /\ Goto(w, "announcing") /\ UNCHANGED fresh
       \/ /\ IsStopped
          /\ fresh' = [fresh EXCEPT ![w] = None]
          /\ Goto(w, "read") /\ UNCHANGED taken
    /\ UNCHANGED <<wsVars, trVars, cand, stored, answered, armed, reading, stop>>

\* It has gone up, and the transport in use gets a read deadline; or it failed,
\* the old transport stays in use and the new one is left as it is.
SwitchAnnounced(w) ==
    /\ at[w] = "announcing"
    /\ \/ /\ Writes(taken[w])
          /\ timed' = timed \cup {installed[w]}
          /\ Goto(w, "flush") /\ UNCHANGED fresh
       \/ /\ ~Writes(taken[w])
          /\ fresh' = [fresh EXCEPT ![w] = None]
          /\ Goto(w, "read") /\ UNCHANGED timed
    /\ EndWrite(w)
    /\ UNCHANGED <<wsVars, sock, writer, heard, due, cand, stored, answered,
                   armed, reading, stop>>

\* ReadMessage returns a message for s; it is queued if s is in l.Conns.
Receives(w, t, s) ==
    /\ s \in due[t]
    /\ due' = [due EXCEPT ![t] = @ \ {s}]
    /\ answered' = IF s \in stored THEN answered \cup {s} ELSE answered
    /\ UNCHANGED <<sock, writer, heard, timed, taken, cand, stored, stop>>

\* ReadMessage fails: Connected and Writer are those of the WSConn by now.
ReadError(w) ==
    /\ connected' = [connected EXCEPT ![w] = FALSE]
    /\ writer' = [t \in T |-> writer[t] /\ t # installed[w]]
    /\ UNCHANGED <<canConnect, active, installed, unsignaled, lock, sock, heard, due,
                   timed>>

\* The flush: each ReadMessage takes the transport in use by then.
SwitchFlush(w) ==
    /\ at[w] = "flush"
    /\ reading' = [reading EXCEPT ![w] = installed[w]]
    /\ pullGoto(w, "flushing")
    /\ UNCHANGED <<wsVars, trVars, armed, fresh>>

SwitchGets(w, s) ==
    /\ at[w] = "flushing"
    /\ sock[reading[w]] # "closed"
    /\ Receives(w, reading[w], s)
    /\ Goto(w, "flush")
    /\ reading' = [reading EXCEPT ![w] = None]
    /\ UNCHANGED <<wsVars, armed, fresh>>

\* A read error ends the flush.  The deadline is that of one transport: a read
\* of a new one that a session's Connect has put in its place has none.
SwitchFlushed(w) ==
    /\ at[w] = "flushing"
    /\ reading[w] \in timed \/ sock[reading[w]] # "open"
    /\ ReadError(w)
    /\ pullGoto(w, "swap")
    /\ reading' = [reading EXCEPT ![w] = None]
    /\ UNCHANGED <<armed, fresh>>

\* Mutant: the swap leaves the old transport open.
MutSwapped(w) == {}
Swapped(w) == {installed[w]}

SwitchSwap(w) ==
    /\ at[w] = "swap"
    /\ Closed(Swapped(w))
    /\ installed' = [installed EXCEPT ![w] = fresh[w]]
    /\ fresh' = [fresh EXCEPT ![w] = None]
    /\ connected' = [connected EXCEPT ![w] = TRUE]
    /\ pullGoto(w, "read")
    /\ UNCHANGED <<canConnect, active, unsignaled, lock, armed, reading>>

\* ReadMessage takes the transport in use.
PullerReads(w) ==
    /\ at[w] = "read"
    /\ reading' = [reading EXCEPT ![w] = installed[w]]
    /\ pullGoto(w, "reading")
    /\ UNCHANGED <<wsVars, trVars, armed, fresh>>

PullerGets(w, s) ==
    /\ at[w] = "reading"
    /\ sock[reading[w]] # "closed"
    /\ Receives(w, reading[w], s)
    /\ Goto(w, IF s \in stored THEN "top" ELSE "reply")
    /\ reading' = [reading EXCEPT ![w] = None]
    /\ UNCHANGED <<wsVars, armed, fresh>>

PullerReadFails(w) ==
    /\ at[w] = "reading"
    /\ sock[reading[w]] # "open"
    /\ ReadError(w)
    /\ pullGoto(w, IF IsStopped THEN "over" ELSE "top")
    /\ reading' = [reading EXCEPT ![w] = None]
    /\ UNCHANGED <<armed, fresh>>

\* CLOSE for a session that is not in l.Conns.
PullerReply(w) ==
    /\ at[w] = "reply"
    /\ \/ BeginWrite(w) /\ Goto(w, "replying")
       \/ IsStopped /\ Goto(w, "top") /\ UNCHANGED taken
    /\ UNCHANGED <<wsVars, trVars, cand, stored, answered, pullVars, stop>>

PullerReplied(w) ==
    /\ at[w] = "replying"
    /\ \/ WriteError(w, taken[w]) /\ UNCHANGED active
       \/ Writes(taken[w]) /\ UNCHANGED <<wsVars, trVars>>
    /\ EndWrite(w)
    /\ Goto(w, "top")
    /\ UNCHANGED <<cand, stored, answered, pullVars, stop>>

WebsocketPuller(w) ==
    \/ PullerTop(w) \/ PullerMakesChan(w) \/ PullerWakes(w) \/ PullerCheck(w)
    \/ PullerSlept(w) \/ PullerTimer(w) \/ SwitchDial(w) \/ SwitchAnnounce(w)
    \/ SwitchAnnounced(w) \/ SwitchFlush(w) \/ (\E s \in Cids : SwitchGets(w, s))
    \/ SwitchFlushed(w) \/ SwitchSwap(w) \/ PullerReads(w)
    \/ (\E s \in Cids : PullerGets(w, s)) \/ PullerReadFails(w)
    \/ PullerReply(w) \/ PullerReplied(w)

-----------------------------------------------------------------------------
(* StopLocal, the network and the remote                                    *)

StopDone ==
    /\ ~IsStopped
    /\ stop' = WSConns
    /\ UNCHANGED <<at, wsVars, trVars, sesVars, pullVars>>

StopVisit(w) ==
    /\ IsStopped /\ w \in stop
    /\ stop' = stop \ {w}
    /\ SignalConnChan(w)
    /\ Closed({installed[w]})
    /\ UNCHANGED <<at, canConnect, connected, active, installed, lock, sesVars, pullVars>>

TransportDies(t) ==
    /\ sock[t] = "open"
    /\ sock' = [sock EXCEPT ![t] = "dead"]
    /\ UNCHANGED <<at, wsVars, writer, heard, due, timed, sesVars, pullVars, stop>>

RemoteSends(t, s) ==
    /\ sock[t] = "open"
    /\ s \in heard[t]
    /\ due' = [due EXCEPT ![t] = @ \cup {s}]
    /\ UNCHANGED <<at, wsVars, sock, writer, heard, timed, sesVars, pullVars, stop>>

-----------------------------------------------------------------------------
Next ==
    \/ \E p \in Sessions \cup WSConns : Connect(p) \/ DialFails(p) \/ DialOk(p)
    \/ \E s \in Sessions : Accept(s) \/ GetsWSConn(s) \/ Session(s) \/ Leave(s)
    \/ \E w \in WSConns : WebsocketPuller(w) \/ StopVisit(w)
    \/ StopDone
    \/ \E t \in T : TransportDies(t) \/ \E s \in Cids : RemoteSends(t, s)

Spec == Init /\ [][Next]_vars

(***************************************************************************)
(* Fairness: goroutines run, a mutex that is free again and again is had,  *)
(* reads of dead transports and reads with a deadline fail, a dial ends    *)
(* within DIAL_TIMEOUT, and the dials of a puller that tries again and     *)
(* again succeed at last.  No write has a deadline: it is sure to return   *)
(* only when its transport is dead or closed.                              *)
(***************************************************************************)
MayStall(p) == taken[p] # None /\ sock[taken[p]] = "open"

FairSpec ==
    /\ Spec
    /\ \A p \in Sessions \cup WSConns :
          /\ SF_vars(Connect(p))
          /\ WF_vars(DialFails(p) \/ DialOk(p))
    /\ \A s \in Sessions : WF_vars(GetsWSConn(s)) /\ WF_vars(Session(s) /\ ~MayStall(s))
    /\ \A w \in WSConns : /\ WF_vars(WebsocketPuller(w) /\ ~MayStall(w))
                          /\ WF_vars(StopVisit(w))
                          /\ SF_vars(DialOk(w))

-----------------------------------------------------------------------------
(* Properties                                                               *)

\* No puller is left listening to an abandoned transport: as long as the
\* transport it reads is not closed, it is the one on which the sessions of its
\* WSConn send, through every reconnection of theirs, every flush and switch.
ReadsWhatIsUsed ==
    \A w \in WSConns :
        reading[w] # None /\ sock[reading[w]] # "closed" => reading[w] = installed[w]

\* No live transport is lost: reconnections, the TTL switch and StopLocal close
\* each other's, whatever their order.  (A switch that StopLocal interrupts
\* leaves its new one open; the program ends then.)
NoTransportLost ==
    \A t \in T : sock[t] = "open" =>
        IsStopped \/ (\E w \in WSConns : t \in {installed[w], fresh[w]})

\* The sessions that hold a reservation of w.
Users(w) == {s \in Sessions :
    at[s] \in {"send", "sending", "store", "wait", "ok", "closing"} /\ Target(s) = w}

\* ws.Active, by which GetWSConn chooses, is the number of sessions that use it:
\* what one of the many exits of a session forgets or gives back twice stays wrong.
ActiveIsExact == \A w \in WSConns : active[w] = Cardinality(Users(w))

\* GetWSConn returns, although it may wait for others that dial.
GetWSConnReturns ==
    \A s \in Sessions : at[s] \in {"try", "connect"} ~> at[s] \notin {"try", "connect"}

\* Waits for the remote: in ReadMessage on a live transport without a deadline,
\* also in the flush, when a session's Connect has replaced the transport that
\* has the deadline.
WaitsForRemote(w) ==
    reading[w] # None /\ reading[w] \notin timed /\ sock[reading[w]] = "open"

\* A blocked or reading puller waits for others; awake, it repairs what a failed
\* dial broke, also one of a session that the TTL switch has overtaken.
Asleep(w) == at[w] = "blocked" \/ WaitsForRemote(w)

\* A premise that nothing in the code sees to: the puller's WriteMessages return.
WritesReturn(w) == []<>(taken[w] = None)

\* A WSConn that GetWSConn skips is connected again by its puller, by force, as
\* long as the puller is awake and its own writes return.
AwakePullerRepairs ==
    \A w \in WSConns :
        WritesReturn(w) =>
            (~CanConnectNow(w) ~> CanConnectNow(w) \/ IsStopped \/ Asleep(w))

\* "let the blocked websocket puller try force connect" (wsconn.go:132): a WSConn
\* that a failed dial made unusable is connected again, also when its puller has
\* gone to sleep.
FailedDialIsRepaired ==
    \A w \in WSConns :
        WritesReturn(w) =>
            (~CanConnectNow(w) ~> CanConnectNow(w) \/ IsStopped \/ WaitsForRemote(w))

\* StopLocal closes the transports it finds, so that no read or write on them
\* keeps a puller: it ends, or it reads a transport that was installed after
\* StopLocal had looked.  (If the write of SWITCH returns, on a transport that
\* StopLocal does not know of.)
StopEndsPullers ==
    \A w \in WSConns :
        []<>(at[w] # "announcing") =>
            (IsStopped ~> at[w] = "over" \/ (stop = {} /\ WaitsForRemote(w)))
=============================================================================
