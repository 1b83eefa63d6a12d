-------------------------- MODULE FairWriter_proofs --------------------------
(***************************************************************************)
(* Proofs about FairWriter: type correctness, the safety invariants, and   *)
(* that every step is a step of Lanes or a stutter.                        *)
(***************************************************************************)
EXTENDS FairWriter, TLAPS

-----------------------------------------------------------------------------
(* Queues: what their operations do to the elements, and that they do not   *)
(* duplicate any.                                                           *)

\* Appending a new element adds it to the elements and duplicates nothing.
LEMMA AppendFacts ==
    ASSUME NEW S, NEW s \in Seq(S), NEW e \in S
    PROVE  /\ Append(s, e) \in Seq(S)
           /\ Append(s, e) # <<>>
           /\ Len(Append(s, e)) = Len(s) + 1
           /\ ToSet(Append(s, e)) = ToSet(s) \cup {e}
           /\ IsInjective(s) /\ e \notin ToSet(s) => IsInjective(Append(s, e))
<1> DEFINE t == Append(s, e)
<1>1. /\ t \in Seq(S) /\ t # <<>> /\ Len(t) = Len(s) + 1
      /\ DOMAIN t = 1..(Len(s) + 1) /\ DOMAIN s = 1..Len(s)
      /\ \A i \in 1..Len(s) : t[i] = s[i]
      /\ t[Len(s) + 1] = e
      /\ Len(s) \in Nat
  OBVIOUS
<1> HIDE DEF t
<1>2. ToSet(t) = ToSet(s) \cup {e}
  <2>1. ToSet(t) \subseteq ToSet(s) \cup {e}
    <3> SUFFICES ASSUME NEW i \in 1..(Len(s) + 1)
                 PROVE  t[i] \in ToSet(s) \cup {e}
      BY <1>1 DEF ToSet
    <3>1. CASE i = Len(s) + 1
      BY <3>1, <1>1
    <3>2. CASE i \in 1..Len(s)
      BY <3>2, <1>1 DEF ToSet
    <3> QED BY <3>1, <3>2, <1>1
  <2>2. ToSet(s) \subseteq ToSet(t)
    <3> SUFFICES ASSUME NEW i \in 1..Len(s)
                 PROVE  s[i] \in ToSet(t)
      BY <1>1 DEF ToSet
    <3>1. t[i] = s[i] /\ i \in 1..(Len(s) + 1)
      BY <1>1
    <3> QED BY <3>1, <1>1 DEF ToSet
  <2>3. e \in ToSet(t)
    <3>1. Len(s) + 1 \in 1..(Len(s) + 1)
      BY <1>1
    <3> QED BY <3>1, <1>1 DEF ToSet
  <2> QED BY <2>1, <2>2, <2>3
<1>3. ASSUME IsInjective(s), e \notin ToSet(s)
      PROVE  IsInjective(t)
  <2> SUFFICES ASSUME NEW a \in 1..(Len(s) + 1), NEW b \in 1..(Len(s) + 1),
                      t[a] = t[b]
               PROVE  a = b
    BY <1>1 DEF IsInjective
  <2>1. \A i \in 1..Len(s) : s[i] # e
    BY <1>3, <1>1 DEF ToSet
  <2>2. CASE a \in 1..Len(s) /\ b \in 1..Len(s)
    BY <2>2, <1>1, <1>3 DEF IsInjective
  <2>3. CASE a = Len(s) + 1 \/ b = Len(s) + 1
    BY <2>3, <2>1, <1>1
  <2> QED BY <2>2, <2>3, <1>1
<1> QED BY <1>1, <1>2, <1>3 DEF t

\* Taking the head leaves the other elements, and nothing is duplicated.
LEMMA TailFacts ==
    ASSUME NEW S, NEW s \in Seq(S), s # <<>>
    PROVE  /\ Tail(s) \in Seq(S)
           /\ Head(s) \in ToSet(s)
           /\ Head(s) \in S
           /\ Len(Tail(s)) = Len(s) - 1
           /\ ToSet(s) = ToSet(Tail(s)) \cup {Head(s)}
           /\ IsInjective(s) => /\ IsInjective(Tail(s))
                                /\ Head(s) \notin ToSet(Tail(s))
<1> DEFINE t == Tail(s)
<1>1. /\ t \in Seq(S) /\ Len(t) = Len(s) - 1
      /\ Len(s) \in Nat \ {0}
      /\ DOMAIN t = 1..(Len(s) - 1) /\ DOMAIN s = 1..Len(s)
      /\ \A i \in 1..(Len(s) - 1) : t[i] = s[i + 1]
      /\ Head(s) = s[1]
      /\ Head(s) \in S
  OBVIOUS
<1> HIDE DEF t
<1>2. Head(s) \in ToSet(s)
  BY <1>1 DEF ToSet
<1>3. ToSet(s) = ToSet(t) \cup {Head(s)}
  <2>1. ToSet(t) \subseteq ToSet(s)
    <3> SUFFICES ASSUME NEW i \in 1..(Len(s) - 1)
                 PROVE  t[i] \in ToSet(s)
      BY <1>1 DEF ToSet
    <3>1. i + 1 \in 1..Len(s) /\ t[i] = s[i + 1]
      BY <1>1
    <3> QED BY <3>1, <1>1 DEF ToSet
  <2>2. ToSet(s) \subseteq ToSet(t) \cup {Head(s)}
    <3> SUFFICES ASSUME NEW i \in 1..Len(s)
                 PROVE  s[i] \in ToSet(t) \cup {Head(s)}
      BY <1>1 DEF ToSet
    <3>1. CASE i = 1
      BY <3>1, <1>1
    <3>2. CASE i # 1
      <4>1. i - 1 \in 1..(Len(s) - 1) /\ t[i - 1] = s[i]
        BY <3>2, <1>1
      <4> QED BY <4>1, <1>1 DEF ToSet
    <3> QED BY <3>1, <3>2
  <2> QED BY <2>1, <2>2, <1>2
<1>4. ASSUME IsInjective(s)
      PROVE  IsInjective(t) /\ Head(s) \notin ToSet(t)
  <2>1. \A a, b \in 1..Len(s) : s[a] = s[b] => a = b
    BY <1>4, <1>1 DEF IsInjective
  <2>2. IsInjective(t)
    <3> SUFFICES ASSUME NEW a \in 1..(Len(s) - 1), NEW b \in 1..(Len(s) - 1),
                        t[a] = t[b]
                 PROVE  a = b
      BY <1>1 DEF IsInjective
    <3>1. a + 1 \in 1..Len(s) /\ b + 1 \in 1..Len(s) /\ s[a + 1] = s[b + 1]
      BY <1>1
    <3>2. a + 1 = b + 1
      BY <3>1, <2>1
    <3> QED BY <3>2
  <2>3. ASSUME NEW i \in 1..(Len(s) - 1), t[i] = s[1]
        PROVE  FALSE
    <3>1. i + 1 \in 1..Len(s) /\ 1 \in 1..Len(s) /\ s[i + 1] = s[1]
      BY <2>3, <1>1
    <3>2. i + 1 = 1
      BY <3>1, <2>1
    <3> QED BY <3>2
  <2> QED BY <2>2, <2>3, <1>1 DEF ToSet
<1> QED BY <1>1, <1>2, <1>3, <1>4 DEF t

\* The empty sequence has no elements, any other has one.
LEMMA EmptyFacts ==
    ASSUME NEW S
    PROVE  /\ <<>> \in Seq(S)
           /\ ToSet(<<>>) = {}
           /\ IsInjective(<<>>)
           /\ Len(<<>>) = 0
           /\ \A s \in Seq(S) : /\ s = <<>> <=> ToSet(s) = {}
                                /\ s = <<>> <=> Len(s) = 0
                                /\ Len(s) \in Nat
                                /\ ToSet(s) \subseteq S
<1>1. /\ <<>> \in Seq(S) /\ DOMAIN <<>> = {} /\ Len(<<>>) = 0
  OBVIOUS
<1>2. ToSet(<<>>) = {} /\ IsInjective(<<>>)
  BY <1>1 DEF ToSet, IsInjective
<1>3. ASSUME NEW s \in Seq(S)
      PROVE  /\ s = <<>> <=> Len(s) = 0
             /\ Len(s) \in Nat
             /\ ToSet(s) \subseteq S
  <2>1. DOMAIN s = 1..Len(s) /\ \A i \in 1..Len(s) : s[i] \in S
    OBVIOUS
  <2> QED BY <2>1 DEF ToSet
<1>4. ASSUME NEW s \in Seq(S), s # <<>>
      PROVE  ToSet(s) # {}
  BY <1>4, TailFacts
<1> QED BY <1>1, <1>2, <1>3, <1>4

-----------------------------------------------------------------------------
(* The invariant                                                            *)

\* What the runner's place says about its item, its latest write and the
\* callers: the strengthening that makes the invariants inductive.
RunnerInv ==
    /\ runner \in {"write", "reply"} <=> item # None
    /\ runner \in {"next", "wait", "write"} => err = "ok"
    /\ runner = "fail" => err = "transport error"
    /\ runner = "write" => item \notin sent
    /\ runner = "reply" => (err = "ok" <=> item \in sent)
    /\ \A c \in Queued : c \notin sent
    /\ \A c \in Callers : result[c] # None => ~Idle(c)
    /\ closed => lastErr # None

IInv ==
    /\ TypeOK
    /\ OrderMatchesQueues
    /\ OnePlacePerCaller
    /\ ClosedIsDrained
    /\ AnswerTellsTheTruth
    /\ NoLostWakeup
    /\ RunnerInv

-----------------------------------------------------------------------------
\* Lemmas

\* NewFairMessageWriter never leaves a queue without room.
LEMMA LimitIsPositive == maxQueue \in Nat \ {0}
BY QueueLimitAssumption DEF maxQueue, DefaultMessageQueueLimit

\* messageQueueKey maps every Cid, the empty one included, to a key.
LEMMA KeyOfCid ==
    ASSUME NEW cid \in Cids \cup {NoCid}
    PROVE  messageQueueKey(cid) \in Keys
BY DEF messageQueueKey, Keys

\* A caller outside Write is in no queue, not in the runner's hands, and has
\* nothing in its result channel.
LEMMA IdleIsNowhere ==
    ASSUME IInv, NEW c \in Callers, Idle(c)
    PROVE  c \notin Queued /\ c # item /\ result[c] = None
<1>1. c \notin Queued
  <2> SUFFICES ASSUME NEW k \in Keys, c \in ToSet(queues[k])
               PROVE  FALSE
    BY DEF Queued
  <2>1. msgKey[c] = k
    BY DEF IInv, OnePlacePerCaller
  <2> QED BY <2>1, KeysAssumption DEF Idle
<1>2. c # item
  <2>1. item = c => c \in InFlight
    BY KeysAssumption DEF InFlight
  <2> QED BY <2>1 DEF IInv, OnePlacePerCaller
<1>3. result[c] = None
  BY DEF IInv, RunnerInv
<1> QED BY <1>1, <1>2, <1>3

\* The queues hold callers.
LEMMA QueueElements ==
    ASSUME IInv, NEW k \in Keys
    PROVE  /\ queues[k] \in Seq(Callers)
           /\ ToSet(queues[k]) \subseteq Callers
           /\ ToSet(queues[k]) \subseteq Queued
<1>1. queues[k] \in Seq(Callers)
  BY DEF IInv, TypeOK
<1>2. ToSet(queues[k]) \subseteq Callers
  BY <1>1, EmptyFacts
<1> QED BY <1>1, <1>2 DEF Queued

-----------------------------------------------------------------------------
\* The invariant

\* A new writer satisfies the invariant.
THEOREM InitInv == Init => IInv
<1> SUFFICES ASSUME Init
             PROVE  IInv
  OBVIOUS
<1> USE DEF Init
<1>1. /\ <<>> \in Seq(Callers) /\ <<>> \in Seq(Keys)
      /\ ToSet(<<>>) = {} /\ IsInjective(<<>>) /\ Len(<<>>) = 0
  BY EmptyFacts
<1>2. \A k \in Keys : queues[k] = <<>>
  OBVIOUS
<1>3. Queued = {}
  BY <1>1, <1>2 DEF Queued
<1>4. TypeOK
  <2>1. \A k \in Keys : Len(queues[k]) <= maxQueue
    BY <1>1, <1>2, LimitIsPositive
  <2>2. queues \in [Keys -> Seq(Callers)] /\ order \in Seq(Keys)
    BY <1>1
  <2> QED BY <2>1, <2>2 DEF TypeOK, RunnerStates
<1>5. OrderMatchesQueues
  BY <1>1, <1>2 DEF OrderMatchesQueues
<1>6. OnePlacePerCaller
  BY <1>1, <1>2 DEF OnePlacePerCaller, InFlight, Idle
<1>7. ClosedIsDrained /\ AnswerTellsTheTruth /\ NoLostWakeup
  BY DEF ClosedIsDrained, AnswerTellsTheTruth, Answered, NoLostWakeup
<1>8. RunnerInv
  BY <1>3 DEF RunnerInv
<1> QED BY <1>4, <1>5, <1>6, <1>7, <1>8 DEF IInv

\* Steps that leave the queues, the items and the callers' messages alone.
LEMMA RefusedInv ==
    ASSUME IInv, NEW c \in Callers,
           WriteClosed(c) \/ \E k \in Keys : WriteFull(c, k)
    PROVE  IInv'
<1>1. /\ UNCHANGED <<queueVars, msgKey, result, runVars>>
      /\ \E r \in Returns : reply' = [reply EXCEPT ![c] = r]
  <2>1. CASE WriteClosed(c)
    <3>1. closeErrLocked \in Returns
      BY DEF IInv, TypeOK, closeErrLocked, Returns, Results, WriteErrors
    <3> QED BY <2>1, <3>1 DEF WriteClosed
  <2>2. CASE \E k \in Keys : WriteFull(c, k)
    BY <2>2 DEF WriteFull, Returns
  <2> QED BY <2>1, <2>2
<1> USE <1>1 DEF queueVars, runVars
<1>2. TypeOK'
  BY DEF IInv, TypeOK
<1>3. Queued' = Queued /\ InFlight' = InFlight /\ Answered' = Answered
  BY DEF Queued, InFlight, Answered
<1>4. OrderMatchesQueues' /\ OnePlacePerCaller'
  BY <1>3 DEF IInv, OrderMatchesQueues, OnePlacePerCaller, Idle
<1>5. ClosedIsDrained' /\ AnswerTellsTheTruth' /\ NoLostWakeup'
  BY <1>3 DEF IInv, ClosedIsDrained, AnswerTellsTheTruth, NoLostWakeup
<1>6. RunnerInv'
  BY <1>3 DEF IInv, RunnerInv, Idle
<1> QED BY <1>2, <1>4, <1>5, <1>6 DEF IInv

\* Write enqueues: the caller gets its one place, its key is in the order.
LEMMA WriteQueuedInv ==
    ASSUME IInv, NEW c \in Callers, NEW k \in Keys, WriteQueued(c, k)
    PROVE  IInv'
<1> USE DEF WriteQueued
<1>1. /\ queues \in [Keys -> Seq(Callers)] /\ order \in Seq(Keys)
      /\ queues[k] \in Seq(Callers)
  BY DEF IInv, TypeOK
<1>2. c \notin Queued /\ c # item /\ result[c] = None
  BY IdleIsNowhere
<1>3. c \notin ToSet(queues[k])
  BY <1>2 DEF Queued
<1>4. /\ queues'[k] = Append(queues[k], c)
      /\ \A j \in Keys \ {k} : queues'[j] = queues[j]
      /\ queues' \in [Keys -> Seq(Callers)]
  BY <1>1, AppendFacts
<1>5. /\ ToSet(queues'[k]) = ToSet(queues[k]) \cup {c}
      /\ queues'[k] # <<>>
      /\ Len(queues'[k]) = Len(queues[k]) + 1
      /\ IsInjective(queues[k]) => IsInjective(queues'[k])
  BY <1>1, <1>3, <1>4, AppendFacts
<1>6. Queued' = Queued \cup {c}
  BY <1>4, <1>5 DEF Queued
<1>7. \/ /\ queues[k] = <<>>
         /\ order' = Append(order, k)
      \/ /\ queues[k] # <<>>
         /\ order' = order
  BY <1>1, EmptyFacts DEF Enroll
<1>8. /\ order' \in Seq(Keys)
      /\ IsInjective(order')
      /\ ToSet(order') = ToSet(order) \cup {k}
  <2>1. CASE queues[k] = <<>>
    <3>1. k \notin ToSet(order)
      BY <2>1 DEF IInv, OrderMatchesQueues
    <3>2. order' = Append(order, k) /\ IsInjective(order)
      BY <2>1, <1>7 DEF IInv, OrderMatchesQueues
    <3> QED BY <3>1, <3>2, <1>1, AppendFacts
  <2>2. CASE queues[k] # <<>>
    <3>1. k \in ToSet(order)
      BY <2>2 DEF IInv, OrderMatchesQueues
    <3> QED BY <2>2, <3>1, <1>1, <1>7 DEF IInv, OrderMatchesQueues
  <2> QED BY <2>1, <2>2
<1>9. /\ msgKey' = [msgKey EXCEPT ![c] = k] /\ msgKey'[c] = k
      /\ \A d \in Callers \ {c} : msgKey'[d] = msgKey[d]
      /\ k # None
  BY KeysAssumption DEF IInv, TypeOK
<1>10. TypeOK'
  <2>1. Len(queues[k]) \in Nat /\ Len(queues[k]) < maxQueue
    BY <1>1, EmptyFacts DEF HasRoom
  <2>2. ASSUME NEW j \in Keys
        PROVE  Len(queues'[j]) <= maxQueue
    <3>1. CASE j = k
      <4>1. Len(queues'[k]) = Len(queues[k]) + 1
        BY <1>5
      <4> QED BY <3>1, <4>1, <2>1, LimitIsPositive
    <3>2. CASE j # k
      BY <3>2, <1>4 DEF IInv, TypeOK
    <3> QED BY <3>1, <3>2
  <2>3. runner' \in RunnerStates
    BY DEF IInv, TypeOK, Wake, RunnerStates
  <2> QED BY <2>2, <2>3, <1>4, <1>8, <1>9 DEF IInv, TypeOK
<1>11. OrderMatchesQueues'
  <2> SUFFICES ASSUME NEW j \in Keys
               PROVE  queues'[j] # <<>> <=> j \in ToSet(order')
    BY <1>8 DEF OrderMatchesQueues
  <2> QED BY <1>4, <1>5, <1>8 DEF IInv, OrderMatchesQueues
<1>12. OnePlacePerCaller'
  <2>1. ASSUME NEW j \in Keys
        PROVE  /\ IsInjective(queues'[j])
               /\ \A d \in ToSet(queues'[j]) :
                     msgKey'[d] = j /\ d # item' /\ result'[d] = None
    <3>1. CASE j = k
      BY <3>1, <1>1, <1>2, <1>4, <1>5, <1>9, EmptyFacts DEF IInv, OnePlacePerCaller
    <3>2. CASE j # k
      <4>1. queues'[j] = queues[j] /\ c \notin ToSet(queues[j])
        BY <3>2, <1>2, <1>4 DEF Queued
      <4>2. ToSet(queues[j]) \subseteq Callers
        BY <1>1, EmptyFacts
      <4> QED BY <4>1, <4>2, <1>9 DEF IInv, OnePlacePerCaller
    <3> QED BY <3>1, <3>2
  <2>2. \A d \in InFlight' : ~Idle(d)' /\ result'[d] = None
    <3>1. InFlight' = InFlight /\ InFlight \subseteq Callers
      BY DEF InFlight, IInv, TypeOK
    <3> QED BY <3>1, <1>2, <1>9 DEF IInv, OnePlacePerCaller, Idle
  <2>3. \A d \in Callers : ~Idle(d)' => d \in (Queued \cup InFlight \cup Answered)'
    BY <1>6, <1>9 DEF IInv, OnePlacePerCaller, Idle, InFlight, Answered
  <2> QED BY <2>1, <2>2, <2>3 DEF OnePlacePerCaller
<1>13. ClosedIsDrained' /\ NoLostWakeup'
  BY DEF Accepting, ClosedIsDrained, NoLostWakeup, Wake
<1>14. AnswerTellsTheTruth'
  BY <1>2 DEF IInv, AnswerTellsTheTruth, Answered
<1>15. RunnerInv'
  <2>1. \A d \in Queued' : d \notin sent'
    BY <1>6 DEF IInv, RunnerInv
  <2>2. runner' = runner \/ (runner = "wait" /\ runner' = "next")
    BY DEF Wake
  <2>3. \A d \in Callers : result'[d] # None => ~Idle(d)'
    BY <1>9 DEF IInv, RunnerInv, Idle
  <2> QED BY <2>1, <2>2, <2>3, <1>2 DEF IInv, RunnerInv
<1> QED BY <1>10, <1>11, <1>12, <1>13, <1>14, <1>15 DEF IInv

\* Write returns: the caller leaves its result channel and is nowhere.
LEMMA WriteReturnInv ==
    ASSUME IInv, NEW c \in Callers, WriteReturn(c)
    PROVE  IInv'
<1> USE DEF WriteReturn, queueVars, runVars
<1>1. /\ result' = [result EXCEPT ![c] = None] /\ result'[c] = None
      /\ msgKey' = [msgKey EXCEPT ![c] = None] /\ msgKey'[c] = None
      /\ \A d \in Callers \ {c} : result'[d] = result[d] /\ msgKey'[d] = msgKey[d]
      /\ result[c] \in Returns
  BY DEF IInv, TypeOK, Returns
<1>2. Queued' = Queued /\ InFlight' = InFlight
  BY DEF Queued, InFlight
<1>3. c \notin Queued /\ c \notin InFlight
  BY DEF IInv, OnePlacePerCaller, Queued
<1>4. TypeOK'
  BY <1>1 DEF IInv, TypeOK
<1>5. OrderMatchesQueues' /\ ClosedIsDrained' /\ NoLostWakeup'
  BY <1>2 DEF IInv, OrderMatchesQueues, ClosedIsDrained, NoLostWakeup
<1>6. AnswerTellsTheTruth'
  BY <1>1 DEF IInv, AnswerTellsTheTruth, Answered
<1>7. OnePlacePerCaller'
  <2>1. ASSUME NEW k \in Keys
        PROVE  /\ IsInjective(queues'[k])
               /\ \A d \in ToSet(queues'[k]) :
                     msgKey'[d] = k /\ d # item' /\ result'[d] = None
    <3>1. ToSet(queues[k]) \subseteq Callers \ {c}
      BY <1>3, QueueElements
    <3> QED BY <3>1, <1>1 DEF IInv, OnePlacePerCaller
  <2>2. \A d \in InFlight' : ~Idle(d)' /\ result'[d] = None
    <3>1. InFlight \subseteq Callers \ {c}
      BY <1>3 DEF InFlight, IInv, TypeOK
    <3> QED BY <3>1, <1>1, <1>2 DEF IInv, OnePlacePerCaller, Idle
  <2>3. \A d \in Callers : ~Idle(d)' => d \in (Queued \cup InFlight \cup Answered)'
    BY <1>1, <1>2 DEF IInv, OnePlacePerCaller, Idle, Answered
  <2> QED BY <2>1, <2>2, <2>3 DEF OnePlacePerCaller
<1>8. RunnerInv'
  <2>1. \A d \in Callers : result'[d] # None => ~Idle(d)'
    BY <1>1 DEF IInv, RunnerInv, Idle
  <2> QED BY <2>1, <1>2 DEF IInv, RunnerInv
<1> QED BY <1>4, <1>5, <1>6, <1>7, <1>8 DEF IInv

\* What closeWithError(e) leaves behind when the writer was open.
LEMMA CloseEffects ==
    ASSUME IInv, NEW e \in WriteErrors, ~closed, closeWithError(e),
           UNCHANGED <<msgKey, reply, item, err, sent>>
    PROVE  /\ closed' = TRUE /\ lastErr' = e /\ order' = <<>>
           /\ queues' = [k \in Keys |-> <<>>]
           /\ Queued' = {}
           /\ \A c \in Callers : result'[c] = IF c \in Queued THEN e ELSE result[c]
           /\ result' \in [Callers -> Results \cup {None}]
           /\ lastErr' # None
           /\ OrderMatchesQueues' /\ ClosedIsDrained'
           /\ OnePlacePerCaller' /\ AnswerTellsTheTruth'
           /\ \A c \in Callers : result'[c] # None => ~Idle(c)'
<1> USE DEF closeWithError, Released
<1>1. /\ closed' = TRUE /\ lastErr' = e /\ order' = <<>>
      /\ queues' = [k \in Keys |-> <<>>]
      /\ \A k \in Keys : queues'[k] = <<>>
      /\ \A c \in Callers : result'[c] = IF c \in Queued THEN e ELSE result[c]
      /\ result' = [c \in Callers |-> IF c \in Queued THEN e ELSE result[c]]
  OBVIOUS
<1>2. ToSet(<<>>) = {} /\ IsInjective(<<>>)
  BY EmptyFacts
<1>3. Queued' = {} /\ InFlight' = InFlight
  BY <1>1, <1>2 DEF Queued, InFlight
<1>4. e \in Results /\ e # None /\ e # "ok" /\ lastErr' # None
  BY <1>1, KeysAssumption DEF Returns, Results, WriteErrors
<1>5. result' \in [Callers -> Results \cup {None}]
  BY <1>1, <1>4 DEF IInv, TypeOK
<1>6. OrderMatchesQueues' /\ ClosedIsDrained'
  BY <1>1, <1>2, <1>3 DEF OrderMatchesQueues, ClosedIsDrained
<1>7. Queued \cap InFlight = {} /\ \A c \in Queued : ~Idle(c) /\ result[c] = None
  BY KeysAssumption DEF IInv, OnePlacePerCaller, Queued, InFlight, Idle
<1>8. OnePlacePerCaller'
  <2>1. \A k \in Keys : IsInjective(queues'[k]) /\ ToSet(queues'[k]) = {}
    BY <1>1, <1>2
  <2>2. \A c \in InFlight' : ~Idle(c)' /\ result'[c] = None
    <3>1. InFlight \subseteq Callers
      BY DEF InFlight, IInv, TypeOK
    <3> QED BY <3>1, <1>1, <1>3, <1>7 DEF IInv, OnePlacePerCaller, Idle
  <2>3. \A c \in Callers : ~Idle(c)' => c \in (Queued \cup InFlight \cup Answered)'
    BY <1>1, <1>3, <1>4 DEF IInv, OnePlacePerCaller, Idle, Answered
  <2> QED BY <2>1, <2>2, <2>3 DEF OnePlacePerCaller
<1>9. AnswerTellsTheTruth'
  BY <1>1, <1>4 DEF IInv, RunnerInv, AnswerTellsTheTruth, Answered
<1>10. \A c \in Callers : result'[c] # None => ~Idle(c)'
  BY <1>1, <1>7 DEF IInv, RunnerInv, Idle
<1> QED BY <1>1, <1>3, <1>4, <1>5, <1>6, <1>8, <1>9, <1>10

\* An empty writer is well typed.
LEMMA DrainedTypes ==
    ASSUME NEW q, q = [k \in Keys |-> <<>>]
    PROVE  /\ q \in [Keys -> Seq(Callers)]
           /\ \A k \in Keys : Len(q[k]) <= maxQueue
           /\ <<>> \in Seq(Keys)
<1>1. <<>> \in Seq(Keys) /\ <<>> \in Seq(Callers) /\ Len(<<>>) = 0
  BY EmptyFacts
<1> QED BY <1>1, LimitIsPositive

\* Close answers the queued callers and leaves the one in flight to the runner.
LEMMA CloseInv == ASSUME IInv, Close PROVE IInv'
<1>1. /\ "ErrMessageWriterClosed" \in WriteErrors
      /\ ~closed /\ closeWithError("ErrMessageWriterClosed")
      /\ UNCHANGED <<msgKey, reply, item, err, sent>>
      /\ runner' = Wake
  BY DEF Close, CloseWake, WriteErrors
<1>2. TypeOK'
  <2>1. queues' = [k \in Keys |-> <<>>] /\ order' = <<>>
    BY <1>1, CloseEffects
  <2>2. /\ queues' \in [Keys -> Seq(Callers)] /\ order' \in Seq(Keys)
        /\ \A k \in Keys : Len(queues'[k]) <= maxQueue
    BY <2>1, DrainedTypes
  <2>3. runner' \in RunnerStates
    BY <1>1 DEF IInv, TypeOK, Wake, RunnerStates
  <2> QED BY <1>1, <2>1, <2>2, <2>3, CloseEffects DEF IInv, TypeOK
<1>3. NoLostWakeup'
  BY <1>1 DEF NoLostWakeup, Wake
<1>4. RunnerInv'
  BY <1>1, CloseEffects DEF IInv, RunnerInv, Wake
<1> QED BY <1>1, <1>2, <1>3, <1>4, CloseEffects DEF IInv

\* The runner closes the writer after a failed write.
LEMMA RunFailInv == ASSUME IInv, RunFail PROVE IInv'
<1>1. /\ runner = "fail" /\ runner' = "done"
      /\ err \in WriteErrors /\ item = None
      /\ closeWithError(err)
      /\ UNCHANGED <<msgKey, reply, item, err, sent>>
  BY DEF RunFail, IInv, RunnerInv, WriteErrors
<1>2. CASE closed
  <2>1. UNCHANGED <<queues, order, closed, lastErr, result>>
    BY <1>1, <1>2 DEF closeWithError, queueVars
  <2>2. Queued' = Queued /\ InFlight' = InFlight /\ Answered' = Answered
    BY <1>1, <2>1 DEF Queued, InFlight, Answered
  <2>3. TypeOK' /\ OrderMatchesQueues' /\ ClosedIsDrained' /\ AnswerTellsTheTruth'
    BY <1>1, <2>1, <2>2 DEF IInv, TypeOK, OrderMatchesQueues, ClosedIsDrained,
                            AnswerTellsTheTruth, RunnerStates
  <2>4. OnePlacePerCaller' /\ NoLostWakeup'
    BY <1>1, <2>1, <2>2 DEF IInv, OnePlacePerCaller, NoLostWakeup, Idle
  <2>5. RunnerInv'
    BY <1>1, <2>1, <2>2 DEF IInv, RunnerInv, Idle
  <2> QED BY <2>3, <2>4, <2>5 DEF IInv
<1>3. CASE ~closed
  <2>1. TypeOK'
    <3>1. queues' = [k \in Keys |-> <<>>] /\ order' = <<>>
      BY <1>1, <1>3, CloseEffects
    <3>2. /\ queues' \in [Keys -> Seq(Callers)] /\ order' \in Seq(Keys)
          /\ \A k \in Keys : Len(queues'[k]) <= maxQueue
      BY <3>1, DrainedTypes
    <3> QED BY <1>1, <1>3, <3>1, <3>2, CloseEffects DEF IInv, TypeOK, RunnerStates
  <2>2. NoLostWakeup'
    BY <1>1 DEF NoLostWakeup
  <2>3. RunnerInv'
    BY <1>1, <1>3, CloseEffects DEF IInv, RunnerInv
  <2> QED BY <1>1, <1>3, <2>1, <2>2, <2>3, CloseEffects DEF IInv
<1> QED BY <1>2, <1>3

\* What next() does to the key it serves and to the order.
LEMMA NextItemEffects ==
    ASSUME IInv, NextItem
    PROVE  \E k \in Keys :
             /\ queues[k] # <<>>
             /\ k = Head(order)
             /\ item' = Head(queues[k])
             /\ item' \in Callers
             /\ msgKey[item'] = k /\ item' \in Queued
             /\ queues' \in [Keys -> Seq(Callers)]
             /\ queues'[k] = Tail(queues[k])
             /\ Len(queues'[k]) = Len(queues[k]) - 1
             /\ Len(queues[k]) \in Nat
             /\ \A j \in Keys \ {k} : queues'[j] = queues[j]
             /\ ToSet(queues[k]) = ToSet(queues'[k]) \cup {item'}
             /\ item' \notin ToSet(queues'[k])
             /\ IsInjective(queues'[k])
             /\ order' \in Seq(Keys) /\ IsInjective(order')
             /\ ToSet(order') = IF queues'[k] = <<>> THEN ToSet(order) \ {k}
                                                    ELSE ToSet(order)
<1> DEFINE k == Head(order)
<1>1. /\ order \in Seq(Keys) /\ order # <<>> /\ IsInjective(order)
      /\ item' = Head(queues[k])
      /\ queues' = [queues EXCEPT ![k] = Tail(@)]
      /\ order' = Rotate(k)
  BY DEF IInv, TypeOK, OrderMatchesQueues, NextItem
<1>2. /\ k \in Keys /\ k \in ToSet(order)
      /\ Tail(order) \in Seq(Keys) /\ IsInjective(Tail(order))
      /\ ToSet(order) = ToSet(Tail(order)) \cup {k}
      /\ k \notin ToSet(Tail(order))
  BY <1>1, TailFacts
<1> HIDE DEF k
<1>3. queues[k] # <<>> /\ IsInjective(queues[k])
  BY <1>2 DEF IInv, OrderMatchesQueues, OnePlacePerCaller
<1>4. queues \in [Keys -> Seq(Callers)] /\ queues[k] \in Seq(Callers)
  BY <1>2 DEF IInv, TypeOK
<1>5. /\ Tail(queues[k]) \in Seq(Callers)
      /\ Head(queues[k]) \in Callers
      /\ Head(queues[k]) \in ToSet(queues[k])
      /\ Len(Tail(queues[k])) = Len(queues[k]) - 1
      /\ ToSet(queues[k]) = ToSet(Tail(queues[k])) \cup {Head(queues[k])}
      /\ Head(queues[k]) \notin ToSet(Tail(queues[k]))
      /\ IsInjective(Tail(queues[k]))
  BY <1>3, <1>4, TailFacts
<1>6. /\ queues'[k] = Tail(queues[k])
      /\ queues' \in [Keys -> Seq(Callers)]
      /\ \A j \in Keys \ {k} : queues'[j] = queues[j]
  BY <1>1, <1>2, <1>4, <1>5
<1>7. msgKey[item'] = k /\ item' \in Queued
  BY <1>1, <1>2, <1>5 DEF IInv, OnePlacePerCaller, Queued
<1>8. /\ queues'[k] = <<>> <=> Len(queues'[k]) = 0
      /\ Len(queues[k]) \in Nat
  BY <1>4, <1>5, <1>6, EmptyFacts
<1>9. /\ order' \in Seq(Keys) /\ IsInjective(order')
      /\ ToSet(order') = IF queues'[k] = <<>> THEN ToSet(order) \ {k}
                                             ELSE ToSet(order)
  <2>1. CASE Len(queues[k]) = 1
    <3>1. order' = Tail(order) /\ queues'[k] = <<>>
      BY <2>1, <1>1, <1>5, <1>6, <1>8 DEF Rotate
    <3> QED BY <3>1, <1>2
  <2>2. CASE Len(queues[k]) # 1
    <3>1. order' = Append(Tail(order), k) /\ queues'[k] # <<>>
      BY <2>2, <1>1, <1>5, <1>6, <1>8 DEF Rotate
    <3> DEFINE rest == Tail(order)
    <3>2. rest \in Seq(Keys) /\ IsInjective(rest) /\ k \in Keys /\ k \notin ToSet(rest)
      BY <1>2
    <3> HIDE DEF rest
    <3>3. /\ Append(rest, k) \in Seq(Keys) /\ IsInjective(Append(rest, k))
          /\ ToSet(Append(rest, k)) = ToSet(rest) \cup {k}
      BY <3>2, AppendFacts
    <3> QED BY <3>1, <3>3, <1>2 DEF rest
  <2> QED BY <2>1, <2>2
<1> QED BY <1>1, <1>2, <1>3, <1>5, <1>6, <1>7, <1>8, <1>9 DEF k

\* next() moves a caller from its queue to the runner's hands.
LEMMA NextItemInv == ASSUME IInv, NextItem PROVE IInv'
<1>1. PICK k \in Keys :
             /\ queues[k] # <<>>
             /\ item' = Head(queues[k])
             /\ item' \in Callers
             /\ msgKey[item'] = k /\ item' \in Queued
             /\ queues' \in [Keys -> Seq(Callers)]
             /\ Len(queues'[k]) = Len(queues[k]) - 1
             /\ Len(queues[k]) \in Nat
             /\ \A j \in Keys \ {k} : queues'[j] = queues[j]
             /\ ToSet(queues[k]) = ToSet(queues'[k]) \cup {item'}
             /\ item' \notin ToSet(queues'[k])
             /\ IsInjective(queues'[k])
             /\ order' \in Seq(Keys) /\ IsInjective(order')
             /\ ToSet(order') = IF queues'[k] = <<>> THEN ToSet(order) \ {k}
                                                    ELSE ToSet(order)
  BY NextItemEffects
<1>2. /\ runner = "next" /\ runner' = "write"
      /\ UNCHANGED <<closed, lastErr, msgKey, result, reply, err, sent>>
      /\ order # <<>>
  BY DEF NextItem, callerVars
<1>3. item = None /\ ~closed /\ err = "ok"
  BY <1>2 DEF IInv, RunnerInv, ClosedIsDrained
<1>4. \A j \in Keys : item' \notin ToSet(queues'[j])
  <2> SUFFICES ASSUME NEW j \in Keys, j # k, item' \in ToSet(queues[j])
               PROVE  FALSE
    BY <1>1
  <2> QED BY <1>1 DEF IInv, OnePlacePerCaller
<1>5. Queued' = Queued \ {item'}
  <2>1. \A j \in Keys : ToSet(queues'[j]) = ToSet(queues[j]) \ {item'}
    BY <1>1, <1>4
  <2> QED BY <2>1 DEF Queued
<1>6. ~Idle(item') /\ result[item'] = None /\ item' # None
  BY <1>1, KeysAssumption DEF IInv, OnePlacePerCaller, Queued, Idle
<1>7. TypeOK'
  <2>1. ASSUME NEW j \in Keys
        PROVE  Len(queues'[j]) <= maxQueue
    <3>1. CASE j = k
      <4>1. Len(queues[k]) <= maxQueue
        BY DEF IInv, TypeOK
      <4>2. Len(queues'[k]) = Len(queues[k]) - 1 /\ Len(queues[k]) \in Nat
        BY <1>1
      <4>3. maxQueue \in Nat
        BY LimitIsPositive
      <4> HIDE <1>1
      <4> QED BY <3>1, <4>1, <4>2, <4>3
    <3>2. CASE j # k
      BY <3>2, <1>1 DEF IInv, TypeOK
    <3> QED BY <3>1, <3>2
  <2> QED BY <2>1, <1>1, <1>2 DEF IInv, TypeOK, RunnerStates
<1>8. OrderMatchesQueues'
  BY <1>1 DEF IInv, OrderMatchesQueues
<1>9. OnePlacePerCaller'
  <2>1. ASSUME NEW j \in Keys
        PROVE  /\ IsInjective(queues'[j])
               /\ \A d \in ToSet(queues'[j]) :
                     msgKey'[d] = j /\ d # item' /\ result'[d] = None
    <3>1. IsInjective(queues'[j])
      BY <1>1 DEF IInv, OnePlacePerCaller
    <3>2. ToSet(queues'[j]) \subseteq ToSet(queues[j])
      BY <1>1
    <3> QED BY <3>1, <3>2, <1>2, <1>4 DEF IInv, OnePlacePerCaller
  <2>2. InFlight' = {item'} /\ InFlight = {}
    BY <1>3, <1>6 DEF InFlight
  <2>3. \A d \in Callers : ~Idle(d)' => d \in (Queued \cup InFlight \cup Answered)'
    BY <2>2, <1>2, <1>5 DEF IInv, OnePlacePerCaller, Idle, Answered
  <2> QED BY <2>1, <2>2, <2>3, <1>2, <1>6 DEF OnePlacePerCaller, Idle
<1>10. ClosedIsDrained' /\ AnswerTellsTheTruth' /\ NoLostWakeup'
  BY <1>2, <1>3 DEF IInv, ClosedIsDrained, AnswerTellsTheTruth, Answered, NoLostWakeup
<1>11. RunnerInv'
  <2>1. \A d \in Queued' : d \notin sent'
    BY <1>2, <1>5 DEF IInv, RunnerInv
  <2>2. item' \notin sent'
    BY <1>1, <1>2 DEF IInv, RunnerInv
  <2>3. \A d \in Callers : result'[d] # None => ~Idle(d)'
    BY <1>2 DEF IInv, RunnerInv, Idle
  <2> QED BY <2>1, <2>2, <2>3, <1>2, <1>3, <1>6 DEF IInv, RunnerInv
<1> QED BY <1>7, <1>8, <1>9, <1>10, <1>11 DEF IInv

\* The transport write settles what the answer must be.
LEMMA RunWriteInv == ASSUME IInv, RunWrite PROVE IInv'
<1>1. /\ runner = "write" /\ runner' = "reply"
      /\ UNCHANGED <<queues, order, closed, lastErr, msgKey, result, reply, item>>
      /\ item \in Callers
      /\ \/ err' = "ok" /\ sent' = sent \cup {item}
         \/ err' = "transport error" /\ sent' = sent
  BY DEF RunWrite, queueVars, callerVars, IInv, TypeOK, RunnerInv
<1>2. Queued' = Queued /\ InFlight' = InFlight /\ Answered' = Answered
  BY <1>1 DEF Queued, InFlight, Answered
<1>3. item \in InFlight /\ item # None
  BY <1>1, KeysAssumption DEF InFlight
<1>4. item \notin Queued /\ item \notin Answered
  BY <1>3 DEF IInv, OnePlacePerCaller, Queued, Answered
<1>5. TypeOK'
  BY <1>1 DEF IInv, TypeOK, RunnerStates
<1>6. OrderMatchesQueues' /\ OnePlacePerCaller'
  BY <1>1, <1>2 DEF IInv, OrderMatchesQueues, OnePlacePerCaller, Idle
<1>7. ClosedIsDrained' /\ AnswerTellsTheTruth' /\ NoLostWakeup'
  BY <1>1, <1>2, <1>4 DEF IInv, ClosedIsDrained, AnswerTellsTheTruth, NoLostWakeup
<1>8. RunnerInv'
  BY <1>1, <1>2, <1>3, <1>4 DEF IInv, RunnerInv, Idle
<1> QED BY <1>5, <1>6, <1>7, <1>8 DEF IInv

\* The runner answers the caller whose message it wrote.
LEMMA RunReplyInv == ASSUME IInv, RunReply PROVE IInv'
<1>1. /\ runner = "reply"
      /\ UNCHANGED <<queues, order, closed, lastErr, msgKey, reply, err, sent>>
      /\ item' = None
      /\ result' = [result EXCEPT ![item] = err]
      /\ runner' = IF err = "ok" THEN "next" ELSE "fail"
      /\ item # None /\ item \in Callers
      /\ err \in {"ok", "transport error"}
      /\ err = "ok" <=> item \in sent
  BY DEF RunReply, AfterReply, queueVars, IInv, TypeOK, RunnerInv
<1>2. /\ result'[item] = err /\ err # None /\ err \in Results
      /\ \A c \in Callers \ {item} : result'[c] = result[c]
  BY <1>1, KeysAssumption DEF IInv, TypeOK, Returns, Results, WriteErrors
<1>3. Queued' = Queued /\ InFlight' = {} /\ InFlight = {item}
  BY <1>1 DEF Queued, InFlight
<1>4. item \notin Queued /\ ~Idle(item)
  BY <1>3 DEF IInv, OnePlacePerCaller, Queued
<1>5. TypeOK'
  BY <1>1, <1>2 DEF IInv, TypeOK, RunnerStates
<1>6. OrderMatchesQueues' /\ ClosedIsDrained' /\ NoLostWakeup'
  BY <1>1, <1>3 DEF IInv, OrderMatchesQueues, ClosedIsDrained, NoLostWakeup
<1>7. AnswerTellsTheTruth'
  BY <1>1, <1>2 DEF IInv, AnswerTellsTheTruth, Answered
<1>8. OnePlacePerCaller'
  <2>1. ASSUME NEW k \in Keys
        PROVE  /\ IsInjective(queues'[k])
               /\ \A c \in ToSet(queues'[k]) :
                     msgKey'[c] = k /\ c # item' /\ result'[c] = None
    <3>1. ToSet(queues[k]) \subseteq Callers \ {item}
      BY <1>4, QueueElements
    <3> QED BY <3>1, <1>1, <1>2, KeysAssumption DEF IInv, OnePlacePerCaller
  <2>2. \A c \in Callers : ~Idle(c)' => c \in (Queued \cup InFlight \cup Answered)'
    BY <1>1, <1>2, <1>3 DEF IInv, OnePlacePerCaller, Idle, Answered
  <2> QED BY <2>1, <2>2, <1>3 DEF OnePlacePerCaller
<1>9. RunnerInv'
  <2>1. \A c \in Callers : result'[c] # None => ~Idle(c)'
    BY <1>1, <1>2, <1>4 DEF IInv, RunnerInv, Idle
  <2> QED BY <2>1, <1>1, <1>3 DEF IInv, RunnerInv
<1> QED BY <1>5, <1>6, <1>7, <1>8, <1>9 DEF IInv

\* The runner goes to sleep or exits: only its own place changes.
LEMMA RestInv == ASSUME IInv, NextWait \/ NextClosed PROVE IInv'
<1>1. /\ UNCHANGED <<queues, order, closed, lastErr, msgKey, result, reply, item, err, sent>>
      /\ runner = "next" /\ order = <<>>
      /\ \/ runner' = "wait" /\ ~closed
         \/ runner' = "done" /\ closed
  BY DEF NextWait, NextClosed, queueVars, callerVars
<1>2. Queued' = Queued /\ InFlight' = InFlight /\ Answered' = Answered
  BY <1>1 DEF Queued, InFlight, Answered
<1>3. TypeOK'
  BY <1>1 DEF IInv, TypeOK, RunnerStates
<1>4. OrderMatchesQueues' /\ OnePlacePerCaller'
  BY <1>1, <1>2 DEF IInv, OrderMatchesQueues, OnePlacePerCaller, Idle
<1>5. ClosedIsDrained' /\ AnswerTellsTheTruth' /\ NoLostWakeup'
  BY <1>1, <1>2 DEF IInv, ClosedIsDrained, AnswerTellsTheTruth, NoLostWakeup
<1>6. RunnerInv'
  BY <1>1, <1>2 DEF IInv, RunnerInv, Idle
<1> QED BY <1>3, <1>4, <1>5, <1>6 DEF IInv

\* Every step preserves the invariant.
THEOREM StepInv == ASSUME IInv, [Next]_vars PROVE IInv'
<1>1. ASSUME NEW c \in Callers, Write(c)
      PROVE  IInv'
  <2>1. CASE WriteClosed(c)
    BY <2>1, RefusedInv
  <2>2. CASE \E cid \in Cids \cup {NoCid} :
               \/ WriteFull(c, messageQueueKey(cid))
               \/ WriteQueued(c, messageQueueKey(cid))
    BY <2>2, KeyOfCid, RefusedInv, WriteQueuedInv
  <2> QED BY <1>1, <2>1, <2>2 DEF Write
<1>2. ASSUME NEW c \in Callers, WriteReturn(c)
      PROVE  IInv'
  BY <1>2, WriteReturnInv
<1>3. CASE Close
  BY <1>3, CloseInv
<1>4. CASE run
  BY <1>4, RestInv, NextItemInv, RunWriteInv, RunReplyInv, RunFailInv DEF run
<1>5. CASE UNCHANGED vars
  <2>1. UNCHANGED <<queues, order, closed, lastErr, msgKey, result, reply,
                    runner, item, err, sent>>
    BY <1>5 DEF vars, queueVars, callerVars, runVars
  <2>2. Queued' = Queued /\ InFlight' = InFlight /\ Answered' = Answered
    BY <2>1 DEF Queued, InFlight, Answered
  <2>3. TypeOK'
    BY <2>1 DEF IInv, TypeOK
  <2>4. OrderMatchesQueues' /\ OnePlacePerCaller'
    BY <2>1, <2>2 DEF IInv, OrderMatchesQueues, OnePlacePerCaller, Idle
  <2>5. ClosedIsDrained' /\ AnswerTellsTheTruth' /\ NoLostWakeup'
    BY <2>1, <2>2 DEF IInv, ClosedIsDrained, AnswerTellsTheTruth, NoLostWakeup
  <2>6. RunnerInv'
    BY <2>1, <2>2 DEF IInv, RunnerInv, Idle
  <2> QED BY <2>3, <2>4, <2>5, <2>6 DEF IInv
<1> QED BY <1>1, <1>2, <1>3, <1>4, <1>5 DEF Next

\* The invariant holds in every state.
LEMMA Invariance == Spec => []IInv
<1>1. Init => IInv
  BY InitInv
<1>2. IInv /\ [Next]_vars => IInv'
  BY StepInv
<1> QED BY <1>1, <1>2, PTL DEF Spec

\* The types, among them that no queue outgrows its limit (TypeOK), for every set
\* of callers and keys and every limit.
THEOREM TypeCorrect == Spec => []TypeOK
<1>1. IInv => TypeOK
  BY DEF IInv
<1> QED BY <1>1, Invariance, PTL

\* The order names exactly the keys with waiting messages, once each
\* (OrderMatchesQueues), through every enrolment, rotation and Close.
THEOREM OrderIsExact == Spec => []OrderMatchesQueues
<1>1. IInv => OrderMatchesQueues
  BY DEF IInv
<1> QED BY <1>1, Invariance, PTL

\* A blocked caller waits in one place or has its answer (OnePlacePerCaller):
\* Close, racing the runner, forgets none and answers none twice.
THEOREM NobodyIsLost == Spec => []OnePlacePerCaller
<1>1. IInv => OnePlacePerCaller
  BY DEF IInv
<1> QED BY <1>1, Invariance, PTL

\* A closed writer holds nothing (ClosedIsDrained), also when the runner was in
\* the transport write during Close.
THEOREM ClosedForGood == Spec => []ClosedIsDrained
<1>1. IInv => ClosedIsDrained
  BY DEF IInv
<1> QED BY <1>1, Invariance, PTL

\* A caller is told nil exactly when its message is on the transport
\* (AnswerTellsTheTruth).
THEOREM TrueAnswers == Spec => []AnswerTellsTheTruth
<1>1. IInv => AnswerTellsTheTruth
  BY DEF IInv
<1> QED BY <1>1, Invariance, PTL

\* The runner does not sleep while there is work or the writer is closed
\* (NoLostWakeup).
THEOREM NoSleepOnWork == Spec => []NoLostWakeup
<1>1. IInv => NoLostWakeup
  BY DEF IInv
<1> QED BY <1>1, Invariance, PTL

-----------------------------------------------------------------------------
\* Round robin

\* An element of a sequence without duplicates has one position.
LEMMA PositionIs ==
    ASSUME NEW s, IsInjective(s), NEW n \in DOMAIN s
    PROVE  (CHOOSE m \in DOMAIN s : s[m] = s[n]) = n
<1> DEFINE m == CHOOSE j \in DOMAIN s : s[j] = s[n]
<1>1. m \in DOMAIN s /\ s[m] = s[n]
  OBVIOUS
<1> HIDE DEF m
<1>2. m = n
  BY <1>1 DEF IsInjective
<1> QED BY <1>2 DEF m

\* Serving the first key moves each waiting key up by one, whether or not the
\* served key goes to the back.
LEMMA NextItemMovesUp ==
    ASSUME IInv, NextItem, NEW k \in ToSet(Tail(order))
    PROVE  Position(k)' = Position(k) - 1
<1>1. order \in Seq(Keys) /\ order # <<>> /\ IsInjective(order)
  BY DEF IInv, TypeOK, OrderMatchesQueues, NextItem
<1>2. order' \in Seq(Keys) /\ IsInjective(order')
  BY NextItemEffects
<1>3. PICK i \in 1..Len(Tail(order)) : Tail(order)[i] = k
  BY <1>1 DEF ToSet
<1>4. /\ Len(order) \in Nat /\ Len(Tail(order)) = Len(order) - 1
      /\ i + 1 \in DOMAIN order /\ order[i + 1] = k
  BY <1>1, <1>3
<1>5. i \in DOMAIN order' /\ order'[i] = k
  <2>1. order' = Rotate(Head(order)) /\ Head(order) \in Keys
    BY <1>1 DEF NextItem
  <2>2. CASE order' = Tail(order)
    BY <2>2, <1>1, <1>3
  <2>3. CASE order' = Append(Tail(order), Head(order))
    <3>1. Tail(order) \in Seq(Keys)
      BY <1>1
    <3> QED BY <2>1, <2>3, <3>1, <1>3
  <2> QED BY <2>1, <2>2, <2>3 DEF Rotate
<1>6. Position(k) = i + 1
  BY <1>1, <1>4, PositionIs DEF Position
<1>7. (CHOOSE n \in DOMAIN order' : order'[n] = k) = i
  BY <1>2, <1>5, PositionIs
<1>8. Position(k)' = i
  BY <1>7 DEF Position
<1> QED BY <1>3, <1>6, <1>8

\* A key that waits is nearer to the front after every message the runner takes:
\* no connection can starve another, for any number of connections.
THEOREM ServedInTurn == Spec => RoundRobin
<1>1. ASSUME IInv, [Next]_vars
      PROVE  [NextItem => \A k \in ToSet(Tail(order)) : Position(k)' = Position(k) - 1]_vars
  BY <1>1, NextItemMovesUp
<1>2. Init => IInv
  BY InitInv
<1>3. IInv /\ [Next]_vars => IInv'
  BY StepInv
<1> QED BY <1>1, <1>2, <1>3, PTL DEF Spec, RoundRobin

-----------------------------------------------------------------------------
\* FairWriter implements Lanes

\* The mapped fate of each caller, by where its message is.
LEMMA FateFacts ==
    ASSUME IInv, NEW c \in Callers
    PROVE  /\ Idle(c) => FateOf(c) = "idle"
           /\ c \in Queued => FateOf(c) = "waiting"
           /\ c = item /\ runner = "write" => FateOf(c) = "waiting"
           /\ c = item /\ runner = "reply" =>
                FateOf(c) = IF err = "ok" THEN "sent" ELSE "lost"
           /\ result[c] # None =>
                FateOf(c) = IF result[c] = "ok" THEN "sent" ELSE "lost"
<1>1. CASE Idle(c)
  BY <1>1, IdleIsNowhere DEF FateOf, IInv, RunnerInv
<1>2. CASE ~Idle(c)
  <2>1. c \in Queued => c \notin sent /\ c # item /\ result[c] = None
    <3> SUFFICES ASSUME NEW k \in Keys, c \in ToSet(queues[k])
                 PROVE  c \notin sent /\ c # item /\ result[c] = None
      BY DEF Queued
    <3>1. c \in Queued
      BY DEF Queued
    <3> QED BY <3>1 DEF IInv, OnePlacePerCaller, RunnerInv
  <2>2. c = item => result[c] = None
    <3>1. item = c => c \in InFlight
      BY KeysAssumption DEF InFlight
    <3> QED BY <3>1 DEF IInv, OnePlacePerCaller
  <2>3. result[c] # None => (result[c] = "ok" <=> c \in sent)
    BY DEF IInv, AnswerTellsTheTruth, Answered
  <2>4. FateOf(c) = IF c \in sent THEN "sent"
                    ELSE IF result[c] # None \/ (c = item /\ runner = "reply")
                         THEN "lost" ELSE "waiting"
    BY <1>2 DEF FateOf
  <2>5. /\ runner = "write" => item \notin sent
        /\ runner = "reply" => (err = "ok" <=> item \in sent)
    BY DEF IInv, RunnerInv
  <2> QED BY <1>2, <2>1, <2>2, <2>3, <2>4, <2>5
<1> QED BY <1>1, <1>2

\* Each lane is the queue of its key, behind the message being written.
LEMMA LaneFacts ==
    ASSUME IInv, NEW k \in Keys
    PROVE  /\ runner # "write" => LaneOf(k) = queues[k]
           /\ runner = "write" /\ msgKey[item] # k => LaneOf(k) = queues[k]
           /\ runner = "write" /\ msgKey[item] = k =>
                /\ LaneOf(k) # <<>>
                /\ Head(LaneOf(k)) = item
                /\ Tail(LaneOf(k)) = queues[k]
<1>1. runner = "write" => item \in Callers
  BY DEF IInv, TypeOK, RunnerInv
<1>2. ASSUME NEW q \in Seq(Callers), NEW c \in Callers
      PROVE  /\ <<c>> \o q # <<>>
             /\ Head(<<c>> \o q) = c
             /\ Tail(<<c>> \o q) = q
  OBVIOUS
<1>3. queues[k] \in Seq(Callers)
  BY QueueElements
<1> QED BY <1>1, <1>2, <1>3 DEF LaneOf

\* Appending to a lane appends to its queue.
LEMMA AppendToLane ==
    ASSUME NEW q \in Seq(Callers), NEW c \in Callers, NEW d \in Callers
    PROVE  Append(<<c>> \o q, d) = <<c>> \o Append(q, d)
OBVIOUS

\* A new writer has empty lanes.
LEMMA InitImplements == Init => Promise!Init
<1> SUFFICES ASSUME Init
             PROVE  Promise!Init
  OBVIOUS
<1>1. \A k \in Keys : LaneOf(k) = <<>>
  BY DEF Init, LaneOf
<1>2. \A c \in Callers : FateOf(c) = "idle" /\ ToldBy(c) = "none"
  <2>1. None # "ok" /\ None \notin Returns
    BY KeysAssumption DEF Returns, Results
  <2> QED BY <2>1 DEF Init, FateOf, ToldBy, Idle
<1> QED BY <1>1, <1>2 DEF Init, Promise!Init

\* The four mapped variables of Lanes that are functions.
lanesBar == [k \in Keys |-> LaneOf(k)]
fateBar == [c \in Callers |-> FateOf(c)]
toldBar == [c \in Callers |-> ToldBy(c)]
brokenBar == err = "transport error"

\* A step that keeps every mapped value is a stutter of Lanes.
LEMMA StutterFacts ==
    ASSUME \A k \in Keys : LaneOf(k)' = LaneOf(k),
           \A c \in Callers : FateOf(c)' = FateOf(c) /\ ToldBy(c)' = ToldBy(c),
           UNCHANGED <<closed, err>>
    PROVE  UNCHANGED Promise!vars
BY DEF Promise!vars

\* A refused Write is a Refuse of Lanes.
LEMMA RefuseImplements ==
    ASSUME IInv, NEW c \in Callers,
           WriteClosed(c) \/ \E k \in Keys : WriteFull(c, k)
    PROVE  Promise!Refuse(c)
<1>1. /\ UNCHANGED <<queues, order, closed, lastErr, msgKey, result, runner, item, err, sent>>
      /\ Idle(c)
      /\ \E r \in Returns \ {"ok"} : reply' = [reply EXCEPT ![c] = r]
  <2>1. CASE WriteClosed(c)
    <3>1. closeErrLocked \in Returns \ {"ok"}
      BY DEF IInv, TypeOK, closeErrLocked, Returns, Results, WriteErrors
    <3> QED BY <2>1, <3>1 DEF WriteClosed, queueVars, runVars
  <2>2. CASE \E k \in Keys : WriteFull(c, k)
    BY <2>2 DEF WriteFull, Returns, Results, WriteErrors, queueVars, runVars
  <2> QED BY <2>1, <2>2
<1>2. \A k \in Keys : LaneOf(k)' = LaneOf(k)
  BY <1>1 DEF LaneOf
<1>3. \A d \in Callers : FateOf(d)' = FateOf(d)
  BY <1>1 DEF FateOf, Idle
<1>4. FateOf(c) = "idle"
  BY <1>1, FateFacts
<1>5. ToldBy(c)' = "lost" /\ \A d \in Callers \ {c} : ToldBy(d)' = ToldBy(d)
  <2>1. None \notin Returns /\ reply \in [Callers -> Returns \cup {None}]
    BY KeysAssumption DEF IInv, TypeOK
  <2> QED BY <1>1, <2>1 DEF ToldBy
<1> QED BY <1>1, <1>2, <1>3, <1>4, <1>5 DEF Promise!Refuse

\* An accepted Write is an Accept of Lanes.
LEMMA AcceptImplements ==
    ASSUME IInv, NEW c \in Callers, NEW k \in Keys, WriteQueued(c, k)
    PROVE  Promise!Accept(c, k)
<1>1. /\ Idle(c) /\ ~closed
      /\ queues' = [queues EXCEPT ![k] = Append(@, c)]
      /\ msgKey' = [msgKey EXCEPT ![c] = k]
      /\ sent' = sent \ {c}
      /\ runner' = Wake
      /\ UNCHANGED <<closed, lastErr, result, reply, item, err>>
  BY DEF WriteQueued, Accepting
<1>2. c # item /\ result[c] = None
  BY <1>1, IdleIsNowhere
<1>3. /\ queues'[k] = Append(queues[k], c)
      /\ \A j \in Keys \ {k} : queues'[j] = queues[j]
      /\ msgKey'[c] = k /\ k # None
      /\ \A d \in Callers \ {c} : msgKey'[d] = msgKey[d]
  BY <1>1, KeysAssumption DEF IInv, TypeOK
<1>4. /\ runner' = "write" <=> runner = "write"
      /\ runner' = "reply" <=> runner = "reply"
      /\ runner = "write" => item \in Callers /\ msgKey'[item] = msgKey[item]
  BY <1>1, <1>2, <1>3 DEF Wake, IInv, RunnerInv, TypeOK
<1>5. LaneOf(k)' = Append(LaneOf(k), c)
  <2>1. queues[k] \in Seq(Callers)
    BY QueueElements
  <2> QED BY <2>1, <1>1, <1>3, <1>4, AppendToLane DEF LaneOf
<1>6. \A j \in Keys \ {k} : LaneOf(j)' = LaneOf(j)
  BY <1>1, <1>3, <1>4 DEF LaneOf
<1>7. FateOf(c) = "idle" /\ FateOf(c)' = "waiting"
  BY <1>1, <1>2, <1>3, FateFacts DEF FateOf, Idle
<1>8. \A d \in Callers \ {c} : FateOf(d)' = FateOf(d)
  BY <1>1, <1>3, <1>4 DEF FateOf, Idle
<1>9. \A d \in Callers : ToldBy(d)' = ToldBy(d)
  BY <1>1 DEF ToldBy
<1>10. lanesBar' = [lanesBar EXCEPT ![k] = Append(@, c)]
  BY <1>5, <1>6 DEF lanesBar
<1>11. fateBar' = [fateBar EXCEPT ![c] = "waiting"]
  BY <1>7, <1>8 DEF fateBar
<1>12. fateBar[c] = "idle"
  BY <1>7 DEF fateBar
<1>13. toldBar' = toldBar
  BY <1>9 DEF toldBar
<1> QED BY <1>1, <1>10, <1>11, <1>12, <1>13
        DEF Promise!Accept, lanesBar, fateBar, toldBar

\* Write's return is a Return of Lanes.
LEMMA ReturnImplements ==
    ASSUME IInv, NEW c \in Callers, WriteReturn(c)
    PROVE  Promise!Return(c)
<1>1. /\ result[c] # None
      /\ reply' = [reply EXCEPT ![c] = result[c]]
      /\ result' = [result EXCEPT ![c] = None]
      /\ msgKey' = [msgKey EXCEPT ![c] = None]
      /\ UNCHANGED <<queues, order, closed, lastErr, runner, item, err, sent>>
  BY DEF WriteReturn, queueVars, runVars
<1>2. /\ reply'[c] = result[c] /\ msgKey'[c] = None /\ result'[c] = None
      /\ \A d \in Callers \ {c} : /\ reply'[d] = reply[d]
                                  /\ msgKey'[d] = msgKey[d]
                                  /\ result'[d] = result[d]
      /\ result[c] \in Results
  BY <1>1 DEF IInv, TypeOK
<1>3. runner = "write" => item \in Callers \ {c}
  <2>1. runner = "write" => item \in InFlight /\ item \in Callers
    BY DEF IInv, RunnerInv, TypeOK, InFlight
  <2> QED BY <1>1, <2>1 DEF IInv, OnePlacePerCaller
<1>4. \A k \in Keys : LaneOf(k)' = LaneOf(k)
  BY <1>1, <1>2, <1>3 DEF LaneOf
<1>5. FateOf(c) = IF result[c] = "ok" THEN "sent" ELSE "lost"
  BY <1>1, FateFacts
<1>6. FateOf(c)' = "idle"
  BY <1>2 DEF FateOf, Idle
<1>7. ToldBy(c)' = FateOf(c)
  <2>1. result[c] # None /\ result[c] \in Returns
    BY <1>1, <1>2 DEF Returns
  <2> QED BY <2>1, <1>2, <1>5 DEF ToldBy
<1>8. \A d \in Callers \ {c} : FateOf(d)' = FateOf(d) /\ ToldBy(d)' = ToldBy(d)
  BY <1>1, <1>2 DEF FateOf, ToldBy, Idle
<1>9. lanesBar' = lanesBar
  BY <1>4 DEF lanesBar
<1>10. fateBar' = [fateBar EXCEPT ![c] = "idle"] /\ fateBar[c] \in {"sent", "lost"}
  BY <1>5, <1>6, <1>8 DEF fateBar
<1>11. toldBar' = [toldBar EXCEPT ![c] = fateBar[c]]
  BY <1>7, <1>8 DEF fateBar, toldBar
<1> QED BY <1>1, <1>9, <1>10, <1>11 DEF Promise!Return, lanesBar, fateBar, toldBar

\* Closing an open writer, by Close or by the runner after a failed write, is
\* ShutDown with at most the message that is being written on the wire.
LEMMA ShutDownImplements ==
    ASSUME IInv, NEW e \in WriteErrors, ~closed, closeWithError(e),
           UNCHANGED <<msgKey, reply, item, err, sent>>,
           runner' = "write" <=> runner = "write",
           runner' = "reply" <=> runner = "reply"
    PROVE  Promise!ShutDown
<1> DEFINE onWire == IF runner = "write" THEN {msgKey[item]} ELSE {}
           kept == {Head(lanesBar[k]) : k \in onWire}
<1>1. /\ closed' = TRUE
      /\ queues' = [k \in Keys |-> <<>>]
      /\ \A c \in Callers : result'[c] = IF c \in Queued THEN e ELSE result[c]
  BY CloseEffects
<1>2. e # None /\ e # "ok"
  BY KeysAssumption DEF Returns, Results, WriteErrors
<1>3. runner = "write" => /\ item \in Callers /\ msgKey[item] \in Keys
                          /\ ~Idle(item) /\ item \notin Queued
  <2>1. runner = "write" => item \in InFlight /\ item \in Callers
    BY DEF IInv, RunnerInv, TypeOK, InFlight
  <2>2. item \in InFlight => ~Idle(item) /\ item \notin Queued
    BY DEF IInv, OnePlacePerCaller, Queued
  <2> QED BY <2>1, <2>2 DEF IInv, TypeOK, Idle
<1>4. \A k \in onWire : k \in Keys /\ lanesBar[k] # <<>> /\ Head(lanesBar[k]) = item
  BY <1>3, LaneFacts DEF lanesBar
<1>5. onWire \in {{}} \cup {{k} : k \in {j \in Keys : lanesBar[j] # <<>>}}
  BY <1>3, <1>4
<1>6. kept = IF runner = "write" THEN {item} ELSE {}
  BY <1>4
<1>7. ASSUME NEW k \in Keys
      PROVE  LaneOf(k)' = IF k \in onWire THEN <<Head(lanesBar[k])>> ELSE <<>>
  <2>1. queues'[k] = <<>>
    BY <1>1
  <2>2. \A c \in Callers : <<c>> \o <<>> = <<c>>
    OBVIOUS
  <2> QED BY <2>1, <2>2, <1>3, <1>4 DEF LaneOf
<1>8. ASSUME NEW c \in Callers
      PROVE  FateOf(c)' = IF FateOf(c) = "waiting" /\ c \notin kept
                          THEN "lost" ELSE FateOf(c)
  <2>1. CASE c \in Queued
    <3>1. FateOf(c) = "waiting" /\ c \notin kept
      BY <2>1, <1>3, <1>6, FateFacts
    <3>2. result'[c] # None /\ c \notin sent' /\ ~Idle(c)'
      <4>1. result'[c] = e /\ c \notin sent'
        BY <2>1, <1>1 DEF IInv, RunnerInv
      <4>2. ~Idle(c)
        BY <2>1, KeysAssumption DEF IInv, OnePlacePerCaller, Queued, Idle
      <4> QED BY <4>1, <4>2, <1>2 DEF Idle
    <3> QED BY <3>1, <3>2 DEF FateOf
  <2>2. CASE c \notin Queued
    <3>1. FateOf(c)' = FateOf(c)
      BY <2>2, <1>1 DEF FateOf, Idle
    <3>2. FateOf(c) = "waiting" => c \in kept
      <4>1. c \in Queued \/ c \in InFlight \/ c \in Answered \/ Idle(c)
        BY DEF IInv, OnePlacePerCaller
      <4>2. c \in Answered => FateOf(c) # "waiting"
        BY FateFacts DEF Answered
      <4>3. Idle(c) => FateOf(c) # "waiting"
        BY FateFacts
      <4>4. c \in InFlight /\ runner = "write" => c \in kept
        BY <1>6 DEF InFlight
      <4>5. c \in InFlight /\ runner # "write" => FateOf(c) # "waiting"
        <5>1. c \in InFlight => c = item /\ runner \in {"write", "reply"}
          BY KeysAssumption DEF InFlight, IInv, RunnerInv
        <5> QED BY <5>1, FateFacts
      <4> QED BY <2>2, <4>1, <4>2, <4>3, <4>4, <4>5
    <3> QED BY <3>1, <3>2
  <2> QED BY <2>1, <2>2
<1>9. lanesBar' = [k \in Keys |-> IF k \in onWire THEN <<Head(lanesBar[k])>> ELSE <<>>]
  BY <1>7 DEF lanesBar
<1>10. fateBar' = [c \in Callers |-> IF fateBar[c] = "waiting" /\ c \notin kept
                                     THEN "lost" ELSE fateBar[c]]
  BY <1>8 DEF fateBar
<1>11. toldBar' = toldBar
  BY DEF toldBar, ToldBy
<1> HIDE DEF onWire
<1> QED BY <1>1, <1>5, <1>9, <1>10, <1>11
        DEF Promise!ShutDown, lanesBar, fateBar, toldBar

\* The transport's step, with or without an error.
LEMMA TransmitImplements ==
    ASSUME IInv, RunWrite
    PROVE  \E k \in Keys : Promise!Transmit(k)
<1> DEFINE k == msgKey[item]
<1>1. /\ runner = "write" /\ runner' = "reply"
      /\ UNCHANGED <<queues, order, closed, lastErr, msgKey, result, reply, item>>
      /\ \/ err' = "ok" /\ sent' = sent \cup {item}
         \/ err' = "transport error" /\ sent' = sent
  BY DEF RunWrite, queueVars, callerVars
<1>2. item \in Callers /\ k \in Keys /\ ~Idle(item) /\ result[item] = None
  <2>1. item \in InFlight /\ item \in Callers
    BY <1>1 DEF IInv, RunnerInv, TypeOK, InFlight
  <2>2. ~Idle(item) /\ result[item] = None
    BY <2>1 DEF IInv, OnePlacePerCaller
  <2> QED BY <2>1, <2>2 DEF IInv, TypeOK, Idle
<1>3. err = "ok" /\ item \notin sent
  BY <1>1 DEF IInv, RunnerInv
<1>4. LaneOf(k) # <<>> /\ Head(LaneOf(k)) = item /\ Tail(LaneOf(k)) = queues[k]
  BY <1>1, <1>2, LaneFacts
<1>5. \A j \in Keys : LaneOf(j)' = queues[j]
  BY <1>1 DEF LaneOf
<1>6. \A j \in Keys \ {k} : LaneOf(j) = queues[j]
  BY <1>1, LaneFacts
<1> HIDE DEF k
<1>7. lanesBar' = [lanesBar EXCEPT ![k] = Tail(@)]
  BY <1>2, <1>4, <1>5, <1>6 DEF lanesBar
<1>8. lanesBar[k] # <<>> /\ Head(lanesBar[k]) = item
  BY <1>2, <1>4 DEF lanesBar
<1>9. ASSUME NEW c \in Callers, c = item
      PROVE  FateOf(c)' = IF err' = "ok" THEN "sent" ELSE "lost"
  BY <1>1, <1>2, <1>3, <1>9 DEF FateOf, Idle
<1>10. \A c \in Callers \ {item} : FateOf(c)' = FateOf(c)
  BY <1>1 DEF FateOf, Idle
<1>11. fateBar' = [fateBar EXCEPT ![item] = IF err' = "ok" THEN "sent" ELSE "lost"]
  BY <1>9, <1>10 DEF fateBar
<1>12. toldBar' = toldBar
  <2>1. \A c \in Callers : ToldBy(c)' = ToldBy(c)
    BY <1>1 DEF ToldBy
  <2> QED BY <2>1 DEF toldBar
<1>13. Promise!Transmit(k)
  BY <1>1, <1>3, <1>7, <1>8, <1>11, <1>12
     DEF Promise!Transmit, lanesBar, fateBar, toldBar
<1> QED BY <1>2, <1>13

\* The runner's other steps change no mapped value.
LEMMA RunnerStutters ==
    ASSUME IInv, NextWait \/ NextClosed \/ NextItem \/ RunReply
    PROVE  UNCHANGED Promise!vars
<1>1. CASE NextWait \/ NextClosed
  <2>1. /\ UNCHANGED <<queues, order, closed, lastErr, msgKey, result, reply, item, err, sent>>
        /\ runner = "next" /\ runner' \in {"wait", "done"}
    BY <1>1 DEF NextWait, NextClosed, queueVars, callerVars
  <2> QED BY <2>1, StutterFacts DEF LaneOf, FateOf, ToldBy, Idle
<1>2. CASE NextItem
  <2>1. PICK k \in Keys :
              /\ queues[k] # <<>>
              /\ item' = Head(queues[k])
              /\ item' \in Callers
              /\ msgKey[item'] = k /\ item' \in Queued
              /\ queues'[k] = Tail(queues[k])
              /\ \A j \in Keys \ {k} : queues'[j] = queues[j]
    BY <1>2, NextItemEffects
  <2>2. /\ runner = "next" /\ runner' = "write"
        /\ UNCHANGED <<closed, lastErr, msgKey, result, reply, err, sent>>
    BY <1>2 DEF NextItem, callerVars
  <2>3. item = None
    BY <2>2 DEF IInv, RunnerInv
  <2>4. ASSUME NEW j \in Keys
        PROVE  LaneOf(j)' = LaneOf(j)
    <3>1. LaneOf(j) = queues[j]
      BY <2>2, LaneFacts
    <3>2. CASE j = k
      <4>1. queues[k] \in Seq(Callers)
        BY QueueElements
      <4>2. ASSUME NEW q \in Seq(Callers), q # <<>>
            PROVE  <<Head(q)>> \o Tail(q) = q
        BY <4>2
      <4>3. <<item'>> \o queues'[k] = queues[k]
        BY <2>1, <4>1, <4>2
      <4>4. LaneOf(k)' = <<item'>> \o queues'[k]
        BY <2>1, <2>2 DEF LaneOf
      <4> QED BY <3>1, <3>2, <4>3, <4>4
    <3>3. CASE j # k
      BY <3>1, <3>3, <2>1, <2>2 DEF LaneOf
    <3> QED BY <3>2, <3>3
  <2>5. ASSUME NEW c \in Callers
        PROVE  FateOf(c)' = FateOf(c) /\ ToldBy(c)' = ToldBy(c)
    BY <2>2 DEF FateOf, ToldBy, Idle
  <2> QED BY <2>2, <2>4, <2>5, StutterFacts
<1>3. CASE RunReply
  <2>1. /\ runner = "reply" /\ runner' \in {"next", "fail"}
        /\ UNCHANGED <<queues, order, closed, lastErr, msgKey, reply, err, sent>>
        /\ item' = None
        /\ result' = [result EXCEPT ![item] = err]
        /\ item \in Callers /\ item # None
        /\ err = "ok" <=> item \in sent
    BY <1>3 DEF RunReply, AfterReply, queueVars, IInv, TypeOK, RunnerInv
  <2>2. /\ result'[item] = err /\ err # None
        /\ \A c \in Callers \ {item} : result'[c] = result[c]
    BY <2>1, KeysAssumption DEF IInv, TypeOK, Returns, Results, WriteErrors
  <2>3. \A k \in Keys : LaneOf(k)' = LaneOf(k)
    BY <2>1 DEF LaneOf
  <2>4. ASSUME NEW c \in Callers, c = item
        PROVE  FateOf(c)' = FateOf(c)
    <3>1. ~Idle(c) /\ result[c] = None
      <4>1. c \in InFlight
        BY <2>1, <2>4 DEF InFlight
      <4> QED BY <4>1 DEF IInv, OnePlacePerCaller
    <3>2. ~Idle(c)' /\ result'[c] # None
      BY <2>1, <2>2, <2>4, <3>1, KeysAssumption DEF Idle
    <3> QED BY <2>1, <2>4, <3>1, <3>2 DEF FateOf
  <2>5. \A c \in Callers \ {item} : FateOf(c)' = FateOf(c)
    BY <2>1, <2>2, KeysAssumption DEF FateOf, Idle
  <2>6. \A c \in Callers : ToldBy(c)' = ToldBy(c)
    BY <2>1 DEF ToldBy
  <2> QED BY <2>1, <2>3, <2>4, <2>5, <2>6, StutterFacts
<1> QED BY <1>1, <1>2, <1>3

\* Every step of the writer is a step of Lanes or leaves its variables alone.
THEOREM StepImplements == ASSUME IInv, [Next]_vars PROVE [Promise!Next]_(Promise!vars)
<1>1. ASSUME NEW c \in Callers, Write(c)
      PROVE  Promise!Next
  <2>1. CASE WriteClosed(c)
    BY <2>1, RefuseImplements DEF Promise!Next
  <2>2. CASE \E cid \in Cids \cup {NoCid} : WriteFull(c, messageQueueKey(cid))
    BY <2>2, KeyOfCid, RefuseImplements DEF Promise!Next
  <2>3. CASE \E cid \in Cids \cup {NoCid} : WriteQueued(c, messageQueueKey(cid))
    BY <2>3, KeyOfCid, AcceptImplements DEF Promise!Next
  <2> QED BY <1>1, <2>1, <2>2, <2>3 DEF Write
<1>2. ASSUME NEW c \in Callers, WriteReturn(c)
      PROVE  Promise!Next
  BY <1>2, ReturnImplements DEF Promise!Next
<1>3. CASE Close
  <2>1. /\ ~closed /\ closeWithError("ErrMessageWriterClosed")
        /\ runner' = Wake
        /\ "ErrMessageWriterClosed" \in WriteErrors
        /\ UNCHANGED <<msgKey, reply, item, err, sent>>
    BY <1>3 DEF Close, CloseWake, WriteErrors
  <2> QED BY <2>1, ShutDownImplements DEF Promise!Next, Wake
<1>4. CASE RunFail
  <2>1. /\ runner = "fail" /\ runner' = "done" /\ closeWithError(err)
        /\ err \in WriteErrors
        /\ UNCHANGED <<msgKey, reply, item, err, sent>>
    BY <1>4 DEF RunFail, IInv, RunnerInv, WriteErrors
  <2>2. CASE ~closed
    BY <2>1, <2>2, ShutDownImplements DEF Promise!Next
  <2>3. CASE closed
    <3>1. UNCHANGED <<queues, order, closed, lastErr, result>>
      BY <2>1, <2>3 DEF closeWithError, queueVars
    <3> QED BY <2>1, <3>1, StutterFacts DEF LaneOf, FateOf, ToldBy, Idle
  <2> QED BY <2>2, <2>3
<1>5. CASE NextWait \/ NextClosed \/ NextItem \/ RunReply
  BY <1>5, RunnerStutters
<1>6. CASE RunWrite
  BY <1>6, TransmitImplements DEF Promise!Next
<1>7. CASE UNCHANGED vars
  BY <1>7, StutterFacts
     DEF vars, queueVars, callerVars, runVars, LaneOf, FateOf, ToldBy, Idle
<1> QED BY <1>1, <1>2, <1>3, <1>4, <1>5, <1>6, <1>7 DEF Next, run

\* The writer keeps its promise for every set of callers and keys and every
\* queue limit.
THEOREM Implementation == Spec => ImplementsLanes
<1>1. Init => IInv /\ Promise!Init
  BY InitInv, InitImplements
<1>2. IInv /\ [Next]_vars => IInv' /\ [Promise!Next]_(Promise!vars)
  BY StepInv, StepImplements
<1> QED BY <1>1, <1>2, PTL DEF Spec, ImplementsLanes, Promise!Spec
=============================================================================
