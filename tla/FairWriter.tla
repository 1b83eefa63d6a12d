----------------------------- MODULE FairWriter -----------------------------
(***************************************************************************)
(* common/fair_writer.go: the FairMessageWriter that every WebSocket of    *)
(* the program writes through.  Goroutines call Write and block until the  *)
(* runner goroutine has put their message on the transport or the writer   *)
(* is closed.  Messages wait in one queue per key (the Cid of a client     *)
(* connection) and the runner serves the keys round robin.                 *)
(*                                                                         *)
(* A caller has at most one message in the writer, because Write returns   *)
(* only with its result: a queue entry is named by its caller, and         *)
(* msgKey[c] is the key of the (cloned) message c is writing.  The mutex   *)
(* mu makes each critical section one step; the condition variable is the  *)
(* runner's state "wait".                                                  *)
(***************************************************************************)
EXTENDS Integers, FiniteSets, SequencesExt

CONSTANTS
    Callers,        \* goroutines that call Write
    Cids,           \* client connections
    NoCid,          \* the empty Cid of a SWITCH message
    Control,        \* the key "__control__"
    None,           \* no error, no result, no item
    MaxQueuePerCID  \* the argument of NewFairMessageWriter

ASSUME QueueLimitAssumption == MaxQueuePerCID \in Int

DefaultMessageQueueLimit == 64

\* NewFairMessageWriter replaces a limit below one by the default.
maxQueue ==
    IF MaxQueuePerCID < 1 THEN DefaultMessageQueueLimit ELSE MaxQueuePerCID

Keys == Cids \cup {Control}

messageQueueKey(cid) == IF cid = NoCid THEN Control ELSE cid

\* What Write returns: "ok" is the nil error.
WriteErrors == {"ErrMessageWriterClosed", "transport error"}
Results == {"ok"} \cup WriteErrors
Returns == Results \cup {"ErrMessageQueueFull"}

ASSUME KeysAssumption ==
    /\ NoCid \notin Cids
    /\ Control \notin Cids
    /\ None \notin Callers \cup Keys \cup Returns

VARIABLES
    queues,   \* w.queues: key -> waiting messages, <<>> for an absent key
    order,    \* w.order: keys with waiting messages, next to be served first
    closed,   \* w.closed
    lastErr,  \* w.lastErr
    msgKey,   \* caller -> key of the message it is writing, None outside Write
    result,   \* caller -> content of its result channel (capacity 1)
    reply,    \* caller -> what its latest Write returned
    runner,   \* where the runner goroutine is
    item,     \* the message next() handed to run(), None when there is none
    err,      \* run's local err: the outcome of the latest w.write
    sent      \* callers whose current message reached the transport

queueVars  == <<queues, order, closed, lastErr>>
callerVars == <<msgKey, result, reply>>
runVars    == <<runner, item, err, sent>>
vars == <<queueVars, callerVars, runVars>>

RunnerStates == {"next", "wait", "write", "reply", "fail", "done"}

TypeOK ==
    /\ queues \in [Keys -> Seq(Callers)]
    /\ \A k \in Keys : Len(queues[k]) <= maxQueue
    /\ order \in Seq(Keys)
    /\ closed \in BOOLEAN
    /\ lastErr \in WriteErrors \cup {None}
    /\ msgKey \in [Callers -> Keys \cup {None}]
    /\ result \in [Callers -> Results \cup {None}]
    /\ reply \in [Callers -> Returns \cup {None}]
    /\ runner \in RunnerStates
    /\ item \in Callers \cup {None}
    /\ err \in {"ok", "transport error"}
    /\ sent \in SUBSET Callers

Init ==
    /\ queues = [k \in Keys |-> <<>>]
    /\ order = <<>>
    /\ closed = FALSE
    /\ lastErr = None
    /\ msgKey = [c \in Callers |-> None]
    /\ result = [c \in Callers |-> None]
    /\ reply = [c \in Callers |-> None]
    /\ runner = "next"
    /\ item = None
    /\ err = "ok"
    /\ sent = {}

-----------------------------------------------------------------------------
(* Write                                                                    *)

closeErrLocked == IF lastErr # None THEN lastErr ELSE "ErrMessageWriterClosed"

\* cond.Signal and cond.Broadcast: the runner is the only goroutine that waits.
Wake == IF runner = "wait" THEN "next" ELSE runner

\* Mutant: a key enters the order with every message.
MutEnrollAlways(k) == Append(order, k)

\* A key enters the order when its queue was empty.
Enroll(k) == IF Len(queues[k]) = 0 THEN Append(order, k) ELSE order

\* Mutant: Write does not look at w.closed before it enqueues.
MutAccepting == TRUE

Accepting == ~closed

Idle(c) == msgKey[c] = None

\* Mutant: the limit is off by one.
MutHasRoom(k) == Len(queues[k]) <= maxQueue

HasRoom(k) == Len(queues[k]) < maxQueue

WriteClosed(c) ==
    /\ Idle(c)
    /\ closed
    /\ reply' = [reply EXCEPT ![c] = closeErrLocked]
    /\ UNCHANGED <<queueVars, msgKey, result, runVars>>

WriteFull(c, k) ==
    /\ Idle(c)
    /\ ~closed
    /\ ~HasRoom(k)
    /\ reply' = [reply EXCEPT ![c] = "ErrMessageQueueFull"]
    /\ UNCHANGED <<queueVars, msgKey, result, runVars>>

WriteQueued(c, k) ==
    /\ Idle(c)
    /\ Accepting
    /\ HasRoom(k)
    /\ order' = Enroll(k)
    /\ queues' = [queues EXCEPT ![k] = Append(@, c)]
    /\ msgKey' = [msgKey EXCEPT ![c] = k]
    /\ sent' = sent \ {c}
    /\ runner' = Wake
    /\ UNCHANGED <<closed, lastErr, result, reply, item, err>>

Write(c) ==
    \/ WriteClosed(c)
    \/ \E cid \in Cids \cup {NoCid} :
          \/ WriteFull(c, messageQueueKey(cid))
          \/ WriteQueued(c, messageQueueKey(cid))

\* return <-item.result
WriteReturn(c) ==
    /\ result[c] # None
    /\ reply' = [reply EXCEPT ![c] = result[c]]
    /\ result' = [result EXCEPT ![c] = None]
    /\ msgKey' = [msgKey EXCEPT ![c] = None]
    /\ UNCHANGED <<queueVars, runVars>>

-----------------------------------------------------------------------------
(* closeWithError: once.Do around one critical section.  closed is set      *)
(* nowhere else, so "the Once has run" and closed are the same thing.       *)

Queued == UNION {ToSet(queues[k]) : k \in Keys}

\* Mutants: close forgets the waiting callers; close answers the caller whose
\* message the runner is writing too.
MutForgotten == {}
MutReleased == Queued \cup (IF item = None THEN {} ELSE {item})

Released == Queued

closeWithError(e) ==
    IF closed
    THEN UNCHANGED <<queueVars, result>>
    ELSE /\ closed' = TRUE
         /\ lastErr' = e
         /\ result' = [c \in Callers |-> IF c \in Released THEN e ELSE result[c]]
         /\ queues' = [k \in Keys |-> <<>>]
         /\ order' = <<>>

\* Mutant: Signal and Broadcast are forgotten where the writer closes.
MutCloseWake == runner

CloseWake == Wake

Close ==
    /\ ~closed
    /\ closeWithError("ErrMessageWriterClosed")
    /\ runner' = CloseWake
    /\ UNCHANGED <<msgKey, reply, item, err, sent>>

-----------------------------------------------------------------------------
(* run and next                                                             *)

\* Mutant: a key keeps its place in front while it has messages.
MutKeepServing(k) == IF Len(queues[k]) = 1 THEN Tail(order) ELSE order

\* The key just served goes to the back of the order while it has messages.
Rotate(k) ==
    IF Len(queues[k]) = 1 THEN Tail(order) ELSE Append(Tail(order), k)

NextWait ==
    /\ runner = "next"
    /\ order = <<>>
    /\ ~closed
    /\ runner' = "wait"
    /\ UNCHANGED <<queueVars, callerVars, item, err, sent>>

NextClosed ==
    /\ runner = "next"
    /\ order = <<>>
    /\ closed
    /\ runner' = "done"
    /\ UNCHANGED <<queueVars, callerVars, item, err, sent>>

NextItem ==
    /\ runner = "next"
    /\ order # <<>>
    /\ LET k == Head(order) IN
         /\ item' = Head(queues[k])
         /\ queues' = [queues EXCEPT ![k] = Tail(@)]
         /\ order' = Rotate(k)
    /\ runner' = "write"
    /\ UNCHANGED <<closed, lastErr, callerVars, err, sent>>

\* err := w.write(item.msg): Pack and conn.WriteMessage, either may fail.
RunWrite ==
    /\ runner = "write"
    /\ \/ /\ err' = "ok"
          /\ sent' = sent \cup {item}
       \/ /\ err' = "transport error"
          /\ UNCHANGED sent
    /\ runner' = "reply"
    /\ UNCHANGED <<queueVars, callerVars, item>>

\* Mutant: the runner serves on after a failed write.
MutAfterReply == "next"

AfterReply == IF err = "ok" THEN "next" ELSE "fail"

\* item.result <- err: blocks while the channel is full.
RunReply ==
    /\ runner = "reply"
    /\ result[item] = None
    /\ result' = [result EXCEPT ![item] = err]
    /\ item' = None
    /\ runner' = AfterReply
    /\ UNCHANGED <<queueVars, msgKey, reply, err, sent>>

RunFail ==
    /\ runner = "fail"
    /\ closeWithError(err)
    /\ runner' = "done"
    /\ UNCHANGED <<msgKey, reply, item, err, sent>>

run == NextWait \/ NextClosed \/ NextItem \/ RunWrite \/ RunReply \/ RunFail

Next ==
    \/ \E c \in Callers : Write(c) \/ WriteReturn(c)
    \/ Close
    \/ run

Spec == Init /\ [][Next]_vars

(***************************************************************************)
(* Fairness.  Goroutines that can run do run: the runner and every caller  *)
(* that has its result.  Calling Write or Close is the clients' choice,    *)
(* and RunWrite has no fairness: no write deadline is ever set on a        *)
(* WebSocket, so a transport may block the runner for good.                *)
(***************************************************************************)
FairSpec ==
    /\ Spec
    /\ WF_vars(NextWait \/ NextClosed \/ NextItem \/ RunReply \/ RunFail)
    /\ \A c \in Callers : WF_vars(WriteReturn(c))

-----------------------------------------------------------------------------
(* Properties                                                               *)

\* The order and the queues agree: order names, once each, exactly the keys
\* that have waiting messages.  A key listed twice would be served twice per
\* round and finally index an empty queue; a key left out would strand its
\* callers.  (Write lines 73-81, next lines 144-155)
OrderMatchesQueues ==
    /\ IsInjective(order)
    /\ \A k \in Keys : queues[k] # <<>> <=> k \in ToSet(order)

InFlight == IF item = None THEN {} ELSE {item}

Answered == {c \in Callers : result[c] # None}

\* Every blocked caller is in exactly one place: once in the queue of its own
\* key, or in the runner's hands, or with its answer in the result channel.
\* Close racing with a write in flight neither loses a caller (it would block
\* for ever) nor answers one twice (the second send would block with mu held).
OnePlacePerCaller ==
    /\ \A k \in Keys :
          /\ IsInjective(queues[k])
          /\ \A c \in ToSet(queues[k]) :
                msgKey[c] = k /\ c # item /\ result[c] = None
    /\ \A c \in InFlight : ~Idle(c) /\ result[c] = None
    /\ \A c \in Callers : ~Idle(c) => c \in Queued \cup InFlight \cup Answered

\* A closed writer holds no waiting message, and accepts none: what Write
\* enqueued before Close is answered by Close, what comes later is refused.
ClosedIsDrained == closed => Queued = {} /\ order = <<>>

\* A nil error means that the message is on the transport, and any error in
\* the result channel means that it is not: the callers' recovery (nack the
\* CONNECT, drop the connection) relies on it.
AnswerTellsTheTruth ==
    \A c \in Answered : result[c] = "ok" <=> c \in sent

\* No wakeup is lost: the runner sleeps on the condition variable only while
\* there is nothing to serve and the writer is open, so a Signal that found it
\* awake, or a Broadcast during a transport write, is never missed.
NoLostWakeup == runner = "wait" => order = <<>> /\ ~closed

\* Waiting keys are never overtaken twice: each message handed to the
\* transport moves every other waiting key one place nearer to the front, so
\* a busy connection delays another by at most one message per waiting key
\* (TestFairMessageWriterBusyCIDDoesNotStarveOthers).
Position(k) == CHOOSE n \in DOMAIN order : order[n] = k

RoundRobin ==
    [][ NextItem => \A k \in ToSet(Tail(order)) : Position(k)' = Position(k) - 1
      ]_vars

\* The writer implements Lanes: each key's messages reach the transport in the
\* order in which Write accepted them, nothing follows a failed write, Close
\* costs every waiting caller its message except the one being written, and
\* what Write returns is what became of that caller's own message.
LaneOf(k) ==
    IF runner = "write" /\ msgKey[item] = k THEN <<item>> \o queues[k] ELSE queues[k]

FateOf(c) ==
    CASE Idle(c) -> "idle"
      [] ~Idle(c) /\ c \in sent -> "sent"
      [] ~Idle(c) /\ c \notin sent ->
           IF result[c] # None \/ (c = item /\ runner = "reply")
           THEN "lost" ELSE "waiting"

ToldBy(c) ==
    CASE reply[c] = None -> "none"
      [] reply[c] = "ok" -> "sent"
      [] reply[c] \in Returns \ {"ok"} -> "lost"

Promise == INSTANCE Lanes WITH
    Keys   <- Keys,
    lanes  <- [k \in Keys |-> LaneOf(k)],
    fate   <- [c \in Callers |-> FateOf(c)],
    told   <- [c \in Callers |-> ToldBy(c)],
    open   <- ~closed,
    broken <- err = "transport error"

ImplementsLanes == Promise!Spec

\* No transport write blocks the runner for good.
TransportReturns == []<>(runner # "write")

\* As long as transport writes return, with or without an error, every Write
\* returns, whatever the other callers do and whenever the writer is closed.
WriteReturns == TransportReturns => \A c \in Callers : ~Idle(c) ~> Idle(c)

\* As long as transport writes return, closing the writer ends the runner
\* goroutine (done is closed).
CloseEndsRunner == TransportReturns => (closed ~> runner = "done")

\* Even if the transport write never returns, Close releases every caller
\* whose message still waits in a queue.
CloseReleasesQueued ==
    \A c \in Callers : (~Idle(c) /\ c # item /\ closed) ~> Idle(c)
=============================================================================
