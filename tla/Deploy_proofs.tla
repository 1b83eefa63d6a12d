----------------------------- MODULE Deploy_proofs -----------------------------
(***************************************************************************)
(* Proofs about Deploy, for any configs: a run which reports success has   *)
(* done its work, whatever earlier runs left behind, and no run takes down *)
(* what is running before it has what shall take its place.                *)
(***************************************************************************)
EXTENDS Deploy, TLAPS

\* The calls of each command, and what a run has achieved when it makes one.
ServerCalls == {"FindService", "CreateService", "FindFunction", "CreateFunction",
                "UpdateFunction", "GetTrigger", "CreateTrigger"}
RemoveCalls == {"DeleteTrigger", "DeleteFunction", "DeleteService"}
LocalCalls == {"GetWebsocketURL", "ContainerRemove", "ContainerCreate", "ContainerStart"}

Progress ==
    /\ at \in ServerCalls => mode = "server"
    /\ at \in RemoveCalls => mode = "remove"
    /\ at \in LocalCalls => mode = "local"
    /\ at \in {"FindFunction", "CreateFunction", "UpdateFunction"} => service
    /\ at \in {"GetTrigger", "CreateTrigger"} => service /\ function = conf
    /\ at = "DeleteFunction" => ~trigger
    /\ at = "DeleteService" => ~trigger /\ function = None
    /\ at = "ContainerRemove" => trigger
    /\ at = "ContainerStart" => container = conf
    /\ at # "idle" => result = "none"
    /\ started => container # None  \* docker runs no container that is not there

Inv == TypeOK /\ Progress /\ OkMeansDone

LEMMA InvInit == Init => Inv
BY DeployAssumption DEF Init, Inv, TypeOK, Progress, OkMeansDone, Calls, ServerCalls,
   RemoveCalls, LocalCalls

\* A run makes its calls in order, and reports success after the last one only.
LEMMA InvNext == Inv /\ [Next]_vars => Inv'
<1> SUFFICES ASSUME Inv, [Next]_vars PROVE Inv'
  OBVIOUS
<1> USE DeployAssumption DEF Inv, TypeOK, Progress, OkMeansDone, Serves, Calls, Modes,
        ServerCalls, RemoveCalls, LocalCalls, cloud, docker, run, Goto, Return, Sets, Runs,
        LooksUp, Does
<1>1. ASSUME NEW m \in Modes, NEW c \in Configs, Start(m, c) PROVE Inv'
  BY <1>1 DEF Start
<1>2. ASSUME NEW o \in Outcomes, DeployServer(o) PROVE Inv'
  <2>1. CASE FindService(o)
    BY <2>1 DEF FindService
  <2>2. CASE CreateService(o)
    <3>1. service' \in BOOLEAN /\ trigger' \in BOOLEAN /\ started' \in BOOLEAN
      BY <2>2 DEF CreateService
    <3>2. TypeOK'
      BY <2>2, <3>1 DEF CreateService
    <3>3. Progress'
      BY <2>2 DEF CreateService
    <3>4. OkMeansDone'
      BY <2>2 DEF CreateService
    <3> QED BY <3>2, <3>3, <3>4
  <2>3. CASE FindFunction(o)
    BY <2>3 DEF FindFunction
  <2>4. CASE CreateFunction(o)
    <3>1. service' \in BOOLEAN /\ trigger' \in BOOLEAN /\ started' \in BOOLEAN
      BY <2>4 DEF CreateFunction
    <3>2. TypeOK'
      BY <2>4, <3>1 DEF CreateFunction
    <3>3. Progress'
      BY <2>4, <3>1, <3>2 DEF CreateFunction
    <3>4. OkMeansDone'
      BY <2>4 DEF CreateFunction
    <3> QED BY <3>2, <3>3, <3>4
  <2>5. CASE UpdateFunction(o)
    <3>1. service' \in BOOLEAN /\ trigger' \in BOOLEAN /\ started' \in BOOLEAN
      BY <2>5 DEF UpdateFunction
    <3>2. TypeOK'
      BY <2>5, <3>1 DEF UpdateFunction
    <3>3. Progress'
      BY <2>5, <3>1, <3>2 DEF UpdateFunction
    <3>4. OkMeansDone'
      BY <2>5 DEF UpdateFunction
    <3> QED BY <3>2, <3>3, <3>4
  <2>6. CASE GetTrigger(o)
    BY <2>6 DEF GetTrigger
  <2>7. CASE CreateTrigger(o)
    <3>1. service' \in BOOLEAN /\ trigger' \in BOOLEAN /\ started' \in BOOLEAN
      BY <2>7 DEF CreateTrigger
    <3>2. TypeOK'
      BY <2>7, <3>1 DEF CreateTrigger
    <3>3. Progress'
      BY <2>7, <3>1, <3>2 DEF CreateTrigger
    <3>4. OkMeansDone'
      BY <2>7 DEF CreateTrigger
    <3> QED BY <3>2, <3>3, <3>4
  <2> QED BY <1>2, <2>1, <2>2, <2>3, <2>4, <2>5, <2>6, <2>7 DEF DeployServer
<1>3. ASSUME NEW o \in Outcomes, RemoveServer(o) PROVE Inv'
  <2>1. CASE DeleteTrigger(o)
    <3>1. service' \in BOOLEAN /\ trigger' \in BOOLEAN /\ started' \in BOOLEAN
      BY <2>1 DEF DeleteTrigger
    <3>2. TypeOK'
      BY <2>1, <3>1 DEF DeleteTrigger
    <3>3. Progress'
      BY <2>1 DEF DeleteTrigger
    <3>4. OkMeansDone'
      BY <2>1 DEF DeleteTrigger
    <3> QED BY <3>2, <3>3, <3>4
  <2>2. CASE DeleteFunction(o)
    BY <2>2 DEF DeleteFunction
  <2>3. CASE DeleteService(o)
    <3>1. service' \in BOOLEAN /\ trigger' \in BOOLEAN /\ started' \in BOOLEAN
      BY <2>3 DEF DeleteService
    <3>2. TypeOK'
      BY <2>3, <3>1 DEF DeleteService
    <3>3. Progress'
      BY <2>3 DEF DeleteService
    <3>4. OkMeansDone'
      BY <2>3 DEF DeleteService
    <3> QED BY <3>2, <3>3, <3>4
  <2> QED BY <1>3, <2>1, <2>2, <2>3 DEF RemoveServer
<1>4. ASSUME NEW o \in Outcomes, DeployLocal(o) PROVE Inv'
  <2>1. CASE GetWebsocketURL(o)
    BY <2>1 DEF GetWebsocketURL
  <2>2. CASE ContainerRemove(o)
    <3>1. service' \in BOOLEAN /\ trigger' \in BOOLEAN /\ started' \in BOOLEAN
      BY <2>2 DEF ContainerRemove
    <3>2. TypeOK'
      BY <2>2, <3>1 DEF ContainerRemove
    <3>3. Progress'
      BY <2>2, <3>1, <3>2 DEF ContainerRemove
    <3>4. OkMeansDone'
      BY <2>2 DEF ContainerRemove
    <3> QED BY <3>2, <3>3, <3>4
  <2>3. CASE ContainerCreate(o)
    <3>1. service' \in BOOLEAN /\ trigger' \in BOOLEAN /\ started' \in BOOLEAN
      BY <2>3 DEF ContainerCreate
    <3>2. TypeOK'
      BY <2>3, <3>1 DEF ContainerCreate
    <3>3. Progress'
      BY <2>3 DEF ContainerCreate
    <3>4. OkMeansDone'
      BY <2>3 DEF ContainerCreate
    <3> QED BY <3>2, <3>3, <3>4
  <2>4. CASE ContainerStart(o)
    <3>1. service' \in BOOLEAN /\ trigger' \in BOOLEAN /\ started' \in BOOLEAN
      BY <2>4 DEF ContainerStart
    <3>2. TypeOK'
      BY <2>4, <3>1 DEF ContainerStart
    <3>3. Progress'
      BY <2>4 DEF ContainerStart
    <3>4. OkMeansDone'
      BY <2>4 DEF ContainerStart
    <3> QED BY <3>2, <3>3, <3>4
  <2> QED BY <1>4, <2>1, <2>2, <2>3, <2>4 DEF DeployLocal
<1>5. CASE Interrupted
  BY <1>5 DEF Interrupted
<1>6. CASE UNCHANGED vars
  BY <1>6, SMT, ZenonT(60) DEF vars
<1> QED BY <1>1, <1>2, <1>3, <1>4, <1>5, <1>6 DEF Next, Starts, Step

\* A run that reports success has deployed, removed or started exactly what it
\* was asked to (OkMeansDone), whatever earlier runs left half done.
THEOREM SuccessIsReal == Spec => []OkMeansDone
<1>1. Inv => OkMeansDone
  BY DEF Inv
<1> QED BY <1>1, InvInit, InvNext, PTL DEF Spec

\* A function that is updated still serves, only a removal deletes, and the one
\* call that stops a container comes after the trigger was found.
LEMMA TakesNothingNow ==
    ASSUME Inv, [Next]_vars
    PROVE  [ /\ Running /\ ~Running' => mode = "remove"
             /\ started /\ ~started' => trigger ]_vars
<1> SUFFICES ASSUME Next
             PROVE  /\ Running /\ ~Running' => mode = "remove"
                    /\ started /\ ~started' => trigger
  OBVIOUS
<1> USE DEF Running, cloud, docker, run, Goto, Return, Sets, Runs, LooksUp, Does
<1>1. ASSUME NEW m \in Modes, NEW c \in Configs, Start(m, c) PROVE UNCHANGED <<cloud, docker>>
  BY <1>1 DEF Start
<1>2. ASSUME NEW o \in Outcomes, DeployServer(o)
      PROVE  (Running => Running') /\ started' = started
  <2>1. conf # None
    BY DeployAssumption DEF Inv, TypeOK
  <2> QED BY <1>2, <2>1 DEF DeployServer, FindService, CreateService, FindFunction,
             CreateFunction, UpdateFunction, GetTrigger, CreateTrigger
<1>3. ASSUME NEW o \in Outcomes, RemoveServer(o) PROVE mode = "remove" /\ started' = started
  <2>1. at \in RemoveCalls
    BY <1>3 DEF RemoveServer, DeleteTrigger, DeleteFunction, DeleteService, RemoveCalls
  <2>2. started' = started
    BY <1>3 DEF RemoveServer, DeleteTrigger, DeleteFunction, DeleteService
  <2> QED BY <2>1, <2>2 DEF Inv, Progress
<1>4. ASSUME NEW o \in Outcomes, DeployLocal(o)
      PROVE  UNCHANGED cloud /\ (started /\ ~started' => trigger)
  <2>1. CASE GetWebsocketURL(o)
    BY <2>1 DEF GetWebsocketURL
  <2>2. CASE ContainerRemove(o)
    <3>1. trigger
      BY <2>2 DEF ContainerRemove, Inv, Progress
    <3> QED BY <2>2, <3>1 DEF ContainerRemove
  <2>3. CASE ContainerCreate(o)
    <3>1. started => container # None
      BY DEF Inv, Progress
    <3> QED BY <2>3, <3>1 DEF ContainerCreate
  <2>4. CASE ContainerStart(o)
    BY <2>4 DEF ContainerStart
  <2> QED BY <1>4, <2>1, <2>2, <2>3, <2>4 DEF DeployLocal
<1>5. CASE Interrupted
  BY <1>5 DEF Interrupted
<1> QED BY <1>1, <1>2, <1>3, <1>4, <1>5 DEF Next, Starts, Step

\* No deployment takes down an exit that is there, or the local proxy without an
\* exit for the next one (TakesNothingDown), whichever calls fail before.
THEOREM KeepsRunning == Spec => TakesNothingDown
<1>1. Inv /\ [Next]_vars =>
         [ /\ Running /\ ~Running' => mode = "remove"
           /\ started /\ ~started' => trigger ]_vars
  BY TakesNothingNow
<1> QED BY <1>1, InvInit, InvNext, PTL DEF Spec, TakesNothingDown
================================================================================
