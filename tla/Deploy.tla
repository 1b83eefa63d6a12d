------------------------------- MODULE Deploy -------------------------------
(***************************************************************************)
(* deploy/: the command that deploys the server as a function of a cloud   *)
(* (DeployServer), removes it again (RemoveServer), or runs the local      *)
(* proxy in a container (DeployLocal).  One run is a sequence of calls to  *)
(* the cloud or to docker, nothing of it is kept between runs: a run that  *)
(* fails or is interrupted leaves what it did, and the operator runs the   *)
(* command, or another one, again.                                         *)
(*                                                                         *)
(* A call can fail without an effect, and its answer can be lost after it  *)
(* had its effect.                                                         *)
(***************************************************************************)
EXTENDS Naturals

CONSTANTS
    Configs,  \* password and image a run is given
    None      \* nothing deployed

ASSUME DeployAssumption == None \notin Configs

VARIABLES
    service, function, trigger,  \* what the cloud has; the function's config
    container,  \* the container of the local proxy: None, or its config
    started,    \* it runs
    at,         \* the call the run makes next, "idle" between runs
    mode, conf, \* its -m and -remove, and its config
    result      \* of the last run: "none", "ok", "error"

cloud == <<service, function, trigger>>
docker == <<container, started>>
run == <<mode, conf>>
vars == <<cloud, docker, at, run, result>>

Modes == {"server", "remove", "local"}

Calls == {"FindService", "CreateService", "FindFunction", "CreateFunction",
          "UpdateFunction", "GetTrigger", "CreateTrigger",
          "DeleteTrigger", "DeleteFunction", "DeleteService",
          "GetWebsocketURL", "ContainerRemove", "ContainerCreate", "ContainerStart"}

TypeOK ==
    /\ service \in BOOLEAN /\ trigger \in BOOLEAN /\ started \in BOOLEAN
    /\ function \in Configs \cup {None} /\ container \in Configs \cup {None}
    /\ at \in Calls \cup {"idle"}
    /\ mode \in Modes /\ conf \in Configs
    /\ result \in {"none", "ok", "error"}

Init ==
    /\ service = FALSE /\ function = None /\ trigger = FALSE
    /\ container = None /\ started = FALSE
    /\ at = "idle" /\ mode \in Modes /\ conf \in Configs /\ result = "none"

\* main: a new run.
Start(m, c) ==
    /\ at = "idle"
    /\ mode' = m /\ conf' = c
    /\ at' = CASE m = "server" -> "FindService"
               [] m = "remove" -> "DeleteTrigger"
               [] m = "local"  -> "GetWebsocketURL"
    /\ result' = "none"
    /\ UNCHANGED <<cloud, docker>>

\* A call is done, or it fails without an effect, or only its answer is lost.
Outcomes == {"done", "lost", "failed"}

Goto(l) == at' = l /\ UNCHANGED result
Return(r) == at' = "idle" /\ result' = r

\* A call that looks something up: what is not there and what cannot be asked for
\* is the same error.
LooksUp(l, o, exists, found, missing) ==
    /\ at = l
    /\ \/ o = "done" /\ IF exists THEN found ELSE missing
       \/ o = "failed" /\ missing
    /\ UNCHANGED <<cloud, docker, run>>

\* A call with an effect, which is the only thing it changes; an error ends the run.
Does(l, o, accepted, effect, next) ==
    /\ at = l
    /\ \/ o = "done" /\ accepted /\ effect /\ next
       \/ o = "lost" /\ accepted /\ effect /\ Return("error")
       \/ o = "failed" /\ UNCHANGED <<cloud, docker>> /\ Return("error")
    /\ UNCHANGED run

Sets(s, f, t) == service' = s /\ function' = f /\ trigger' = t /\ UNCHANGED docker
Runs(c, b) == container' = c /\ started' = b /\ UNCHANGED cloud

-----------------------------------------------------------------------------
(* DeployServer                                                             *)

\* Mutant: the service is created whether there is one or not.
MutFindService(o) ==
    LooksUp("FindService", o, service, Goto("CreateService"), Goto("CreateService"))

FindService(o) ==
    LooksUp("FindService", o, service, Goto("FindFunction"), Goto("CreateService"))

CreateService(o) ==
    Does("CreateService", o, ~service, Sets(TRUE, function, trigger), Goto("FindFunction"))

\* Mutant: a function that is there is left as it is.
MutFindFunction(o) ==
    LooksUp("FindFunction", o, function # None, Goto("GetTrigger"), Goto("CreateFunction"))

FindFunction(o) ==
    LooksUp("FindFunction", o, function # None, Goto("UpdateFunction"), Goto("CreateFunction"))

CreateFunction(o) ==
    Does("CreateFunction", o, service /\ function = None, Sets(service, conf, trigger),
           Goto("GetTrigger"))

UpdateFunction(o) ==
    Does("UpdateFunction", o, function # None, Sets(service, conf, trigger), Goto("GetTrigger"))

\* The URLs are only logged.
GetTrigger(o) ==
    LooksUp("GetTrigger", o, trigger, Return("ok"), Goto("CreateTrigger"))

CreateTrigger(o) ==
    Does("CreateTrigger", o, function # None /\ ~trigger, Sets(service, function, TRUE),
           Return("ok"))

DeployServer(o) ==
    \/ FindService(o) \/ CreateService(o)
    \/ FindFunction(o) \/ CreateFunction(o) \/ UpdateFunction(o)
    \/ GetTrigger(o) \/ CreateTrigger(o)

-----------------------------------------------------------------------------
(* RemoveServer                                                             *)

DeleteTrigger(o) ==
    Does("DeleteTrigger", o, trigger, Sets(service, function, FALSE), Goto("DeleteFunction"))

DeleteFunction(o) ==
    Does("DeleteFunction", o, function # None /\ ~trigger, Sets(service, None, trigger),
           Goto("DeleteService"))

DeleteService(o) ==
    Does("DeleteService", o, service /\ function = None, Sets(FALSE, function, trigger),
           Return("ok"))

RemoveServer(o) == DeleteTrigger(o) \/ DeleteFunction(o) \/ DeleteService(o)

-----------------------------------------------------------------------------
(* DeployLocal                                                              *)

\* Mutant: the URL is asked for as DeployServer does it, and its error is ignored.
MutGetWebsocketURL(o) ==
    LooksUp("GetWebsocketURL", o, trigger, Goto("ContainerRemove"), Goto("ContainerRemove"))

GetWebsocketURL(o) ==
    LooksUp("GetWebsocketURL", o, trigger, Goto("ContainerRemove"), Return("error"))

\* Its error is ignored.
ContainerRemove(o) ==
    /\ at = "ContainerRemove"
    /\ \/ o = "done" /\ Runs(None, FALSE)
       \/ o = "failed" /\ UNCHANGED <<cloud, docker>>
    /\ Goto("ContainerCreate")
    /\ UNCHANGED run

ContainerCreate(o) ==
    Does("ContainerCreate", o, container = None, Runs(conf, FALSE), Goto("ContainerStart"))

ContainerStart(o) ==
    Does("ContainerStart", o, container # None, Runs(container, TRUE), Return("ok"))

DeployLocal(o) ==
    GetWebsocketURL(o) \/ ContainerRemove(o) \/ ContainerCreate(o) \/ ContainerStart(o)

-----------------------------------------------------------------------------
\* The process is interrupted between two calls.
Interrupted ==
    /\ at # "idle"
    /\ Return("error")
    /\ UNCHANGED <<cloud, docker, run>>

Step(o) == DeployServer(o) \/ RemoveServer(o) \/ DeployLocal(o)
Starts == \E m \in Modes, c \in Configs : Start(m, c)

Next == Starts \/ (\E o \in Outcomes : Step(o)) \/ Interrupted

Spec == Init /\ [][Next]_vars

\* The operator does not give up, runs go on, and a call that they reach again
\* and again is neither interrupted nor fails every time.
FairSpec ==
    /\ Spec
    /\ WF_vars(Starts)
    /\ WF_vars(\E o \in Outcomes : Step(o))
    /\ \A l \in Calls : SF_vars(at = l /\ Step("done"))

-----------------------------------------------------------------------------
(* Properties                                                               *)

Serves(c) == service /\ function = c /\ trigger

\* A run that reports success has done all of its work, also what earlier runs
\* had left half done, or done with another config.
OkMeansDone ==
    result = "ok" =>
        CASE mode = "server" -> Serves(conf)
          [] mode = "remove" -> ~service /\ function = None /\ ~trigger
          [] mode = "local"  -> container = conf /\ started

Running == service /\ function # None /\ trigger

\* A deployment never takes down what is running before it has what shall take its
\* place: the exit is there without a gap through every new deployment, also one
\* that fails, until it is removed, and the container of the local proxy goes only
\* while the cloud has the trigger whose URL the next one is given.
TakesNothingDown ==
    [][ /\ Running /\ ~Running' => mode = "remove"
        /\ started /\ ~started' => trigger ]_vars

\* A deployment that is repeated succeeds at last, whatever deployments and
\* removals that failed or were interrupted have left.  (A removal that is
\* repeated does not: it fails on what the first one has removed.)
RepeatedDeployWorks ==
    \A c \in Configs :
        <>[](at # "idle" => mode = "server" /\ conf = c) => <>[]Serves(c)
=============================================================================
