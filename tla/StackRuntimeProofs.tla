------------------------- MODULE StackRuntimeProofs -------------------------
(* What holds of a stack whatever its services, its manifests and the bounds   *)
(* are, and whichever of its steps fail: the installed manifest is the         *)
(* accepted one, its files stay reserved, no process leaves the supervisor's   *)
(* sight, what is used is claimed, no service is left down without a word,     *)
(* what runs was launched as the manifest says, and the routes lead to it.     *)
(*                                                                             *)
(* First the parts of the invariant, and what a step does to the record of its *)
(* operation and to the process trees. Then each part has a lemma that every   *)
(* step keeps it. IInv at the end is their conjunction.                        *)
EXTENDS StackRuntime, FiniteSetTheorems, WellFoundedInduction, TLAPS

(* The shapes of the records. *)
Fields ==
  {"kind", "stage", "next", "candidate", "nextBlocked", "previous", "previousBlocked",
   "previousClaims", "previousFiles", "affected", "recovering", "claims", "todo",
   "failed", "pass", "before", "attempt", "retries", "tree"}

IsTree(tree) == DOMAIN tree = {"env", "state"}

IsResolved(r) == DOMAIN r = {"config", "port"} /\ r.config \in Manifests

(* Records have their fields. *)
ShapeInv ==
  /\ DOMAIN op = Fields /\ DOMAIN cleanup = {"stage", "clean", "ran"}
  /\ DOMAIN spent = {"operations", "collisions", "leaks", "phases", "staleRoutes"}
  /\ DOMAIN started = Service /\ \A s \in Service : IsTree(started[s])
  /\ DOMAIN failedRoutes = Service
  /\ \A s \in Service : IsTree(failedRoutes[s]) /\ ~Live(failedRoutes[s])
  /\ IsTree(op.tree)

(* An operation runs in a stack that starts or is ready, in a stage of its own. *)
StageInv ==
  /\ op.kind \in {"none", "boot", "restart"} \cup Changes
  /\ op.kind = "none" => op.stage = "idle"
  /\ op.kind = "boot" =>
       life = "starting" /\ op.stage \in {"register", "claim", "routes", "launch", "health"}
  /\ op.kind = "restart" => life = "ready" /\ op.stage \in {"restart", "launch", "health"}
  /\ Changing =>
       life = "ready" /\ op.stage \in {"claim", "stop", "launch", "health", "restop", "undo",
                          "giveUp", "routes", "settings", "unclaim", "retire"}
  /\ op.kind \in {"boot", "restart"} => ~op.recovering
  /\ op.recovering \in BOOLEAN
  /\ op.stage \in {"claim", "stop", "undo", "settings", "retire"} => ~op.recovering
  /\ op.stage = "giveUp" => op.recovering
  /\ op.stage = "health" \/ (op.kind = "restart" /\ op.stage = "launch") => op.todo # {}

(* Which manifest is installed, in each stage of a change. *)
ConfigInv ==
  /\ IsResolved(manifest) /\ configured \in Manifests
  /\ op.kind \in {"boot", "restart"} => manifest.config = configured
  /\ op.kind = "none" /\ life = "ready" /\ ~cancelled => manifest.config = configured
  /\ Changing =>
      /\ IsResolved(op.candidate) /\ op.candidate.config = op.next /\ IsResolved(op.previous)
      /\ op.stage # "retire" => op.previous.config = configured
      /\ op.stage \in {"claim", "stop"} => manifest = op.previous
      /\ op.stage \in {"launch", "health", "restop", "routes", "undo", "giveUp", "settings"} =>
           manifest.config = IF op.recovering THEN configured ELSE op.next
      /\ op.stage = "retire" => configured = op.next /\ manifest.config = op.next
      /\ op.stage = "unclaim" => cancelled \/ manifest.config = configured

(* What a start that was moved to another port would install. *)
AttemptInv ==
  /\ op.stage \notin {"launch", "health"} \/ op.todo = {} => op.retries = 0
  /\ op.stage = "health" \/ op.retries # 0 =>
       IsResolved(op.attempt) /\ op.attempt.config = manifest.config

(* The files a change may end with are reserved. *)
FileInv ==
  /\ life \in {"starting", "ready"} => Files[configured] \subseteq reserved
  /\ life = "ready" \/ (op.kind = "boot" /\ op.stage # "register") =>
       Files[configured] \subseteq recorded
  /\ Changing =>
      /\ Files[op.next] \subseteq reserved /\ Files[op.next] \subseteq recorded
      /\ op.stage # "retire" => Files[configured] \subseteq op.previousFiles

(* What is still to be stopped or started is of the installed manifest. *)
TodoInv ==
  op.stage \in {"stop", "restop", "undo", "giveUp", "launch", "health", "restart"} =>
    op.todo \subseteq Names(manifest)

(* And, in a change, among the services it affects. *)
AffectedInv ==
  Changing /\ op.stage \in {"stop", "restop", "undo", "giveUp", "launch", "health"} =>
    op.todo \subseteq op.affected

(* A stack is cleaned up once it stops, and its processes first. *)
LifeInv ==
  /\ life \in {"starting", "ready", "stopping", "stopped"}
  /\ life \in {"starting", "ready"} => cleanup.stage = "none"
  /\ life = "stopping" => cleanup.stage \in {"trees", "hosts", "routes", "ports", "record"}
  /\ life = "stopped" => cleanup.stage = "done"
  /\ cleanup.stage \notin {"none", "trees"} => \A s \in Service : ~Live(started[s])

(* A process runs for a service of the installed manifest. *)
RunsInv == \A s \in Service : Live(started[s]) =>
  s \in Names(manifest) /\ started[s].env.definition = manifest.config[s]

(* The tree a start has launched is of the service that it waits for. *)
OpTreeInv ==
  /\ op.stage # "health" => ~Live(op.tree)
  /\ op.stage = "health" => op.tree.env.definition = manifest.config[First]

(* What the supervisor has lost sight of is not alive. *)
GoneInv == \A tree \in forgotten : ~Live(tree)

(* Services about to be launched are down, and those a change has stopped. *)
Down(services) == \A s \in services : ~Live(started[s])

DownInv ==
  /\ op.kind = "boot" /\ op.stage \in {"register", "claim", "routes"} => Down(Service)
  /\ op.kind # "restart" /\ op.stage \in {"launch", "health"} => Down(op.todo)
  /\ op.kind = "restart" /\ op.stage \in {"launch", "health"} => Down({First})
  /\ op.stage \in {"stop", "restop", "undo", "giveUp"} =>
       Down((op.affected \cap Names(manifest)) \ op.todo)

(* A change leaves the services it does not affect as they are. *)
PlanInv ==
  Changing => \A s \in (Names(op.previous) \cup Names(op.candidate)) \ op.affected :
       /\ s \in Names(op.previous) /\ s \in Names(op.candidate)
       /\ op.previous.config[s] = op.candidate.config[s]

(* The claims a change may end with are held. *)
ClaimInv ==
  /\ life = "ready" => Claims(configured) \subseteq claimed
  /\ op.kind = "boot" /\ op.stage = "claim" => Claims(configured) \ op.claims \subseteq claimed
  /\ op.kind = "boot" /\ op.stage \in {"routes", "launch", "health"} =>
       Claims(configured) \subseteq claimed
  /\ Changing =>
      /\ op.previousClaims \subseteq claimed
      /\ op.stage # "retire" => Claims(configured) \subseteq op.previousClaims
      /\ op.stage = "claim" => Claims(op.next) \ op.claims \subseteq claimed
      /\ op.stage \notin {"claim", "unclaim"} => Claims(op.next) \subseteq claimed

(* What runs is claimed, also when a change that is given up gives claims back. *)
UsedInv ==
  /\ \A s \in Service : Live(started[s]) =>
       ClaimsOf(started[s].env.definition) \subseteq claimed
  /\ op.stage = "unclaim" => \A s \in Service : Live(started[s]) =>
       ClaimsOf(started[s].env.definition) \subseteq op.previousClaims

(* What is routed is what the accepted manifest routes, or the one of the change. *)
RoutedNames(m) == {s \in DOMAIN m : m[s].hosts # {} /\ m[s].port # "none"}

RoutedBy(m) ==
  \A s \in DOMAIN active : s \in RoutedNames(m) /\ active[s].hosts = m[s].hosts

RouteInv ==
  /\ op.kind = "boot" /\ op.stage \in {"launch", "health"} => RoutedBy(configured)
  /\ op.stage = "settings" => RoutedBy(op.next)
  /\ life = "ready" /\ ~cancelled /\ ~spent.staleRoutes /\ op.stage # "settings" =>
       RoutedBy(configured)

(* A service that is down is held down, has failed, or is still to be launched. *)
Said(services) ==
  \A s \in services : started[s].state \in {"none", "stopped"} => s \in blocked \cup failures

SilentInv ==
  /\ op.kind = "boot" /\ op.stage \in {"launch", "health"} => Said(Names(manifest) \ op.todo)
  /\ life = "ready" /\ ~cancelled =>
       /\ op.kind = "none" => Said(Names(manifest))
       /\ op.kind = "restart" => 
            Said(Names(manifest) \ (IF op.stage = "restart" THEN {} ELSE {First}))
       /\ Changing => Said(Names(manifest) \ op.affected)
       /\ Changing /\ op.stage \in {"claim", "routes", "settings", "retire", "unclaim"} =>
            Said(Names(manifest))
       /\ Changing /\ op.stage \in {"launch", "health"} => Said(Names(manifest) \ op.todo)

(* What a change does not affect stays held down through it. *)
HeldInv == Changing =>
  /\ op.stage \in {"claim", "stop"} => \A s \in Names(manifest) \ op.affected : s \in blocked =>
       s \in op.nextBlocked
  /\ \A s \in Names(op.previous) \ op.affected : s \in blocked \cup op.nextBlocked =>
       s \in op.previousBlocked

---------------------------------------------------------------------------
(* What a step makes of the operation. *)

(* What a step changes of the operation's record. *)
Keeps(changed) == DOMAIN op' = Fields /\ \A f \in Fields \ changed : op'[f] = op[f]

(* The operation ends. *)
Over == /\ DOMAIN op' = Fields /\ op'.kind = "none" /\ op'.stage = "idle" /\ op'.tree = NoTree
        /\ op'.todo = {} /\ op'.recovering = FALSE /\ op'.retries = 0

(* A change gives up its phase: it rolls back, or gives up the rollback. *)
Failed == /\ Keeps({"stage", "todo", "attempt", "retries", "tree"})
          /\ op'.stage = (IF op.recovering THEN "giveUp" ELSE "undo")
          /\ op'.todo = op.affected \cap Names(manifest) /\ op'.retries = 0 /\ op'.tree = NoTree

(* The operation goes on to its next service. *)
NextOne == /\ Keeps({"stage", "todo", "attempt", "retries", "tree"})
           /\ op'.stage = (IF op.kind = "restart" THEN "restart" ELSE "launch")
           /\ op'.todo = op.todo \ {First} /\ op'.retries = 0 /\ op'.tree = NoTree

(* An operation that is over holds nothing. *)
LEMMA OpOver == op' = NoOp => Over
  BY DEF NoOp, Over, Fields

(* What a failed phase leaves of the operation. *)
LEMMA OpFailed == DOMAIN op = Fields /\ op' = StartPhaseFailed => Failed
  BY DEF StartPhaseFailed, Failed, Keeps, Fields

(* What going on to the next service leaves of it. *)
LEMMA OpNextOne == DOMAIN op = Fields /\ op' = NextService(op) => NextOne
  BY DEF NextService, NextOne, Keeps, Fields

(* A failed start ends a boot that is cancelled and a restart, lets a boot go *)
(* on, and makes a change roll back.                                           *)
LEMMA OpStartFailed ==
  ASSUME DOMAIN op = Fields, op.kind \in {"none", "boot", "restart"} \cup Changes, StartFailed
  PROVE  /\ failures' = failures \cup {First}
         /\ \/ op.kind \in {"boot", "restart"} /\ Over /\ (op.kind = "boot" => cancelled')
            \/ op.kind = "boot" /\ ~cancelled /\ UNCHANGED cancelled /\ NextOne
            \/ Changing /\ UNCHANGED cancelled /\ Failed
  BY OpOver, OpFailed, OpNextOne DEF StartFailed, AbortStartup

(* A change begins a pass over the services of r. *)
Passes(r, recovers) ==
  /\ Keeps({"stage", "todo", "pass", "before", "failed"} \cup recovers)
  /\ op'.stage = "launch" /\ op'.todo = op.affected \cap Names(r) /\ op'.before = r

(* A pass changes the fields of passes. *)
LEMMA OpPass == \A r, n : DOMAIN op = Fields /\ op' = StartPass(op, r, n) => Passes(r, {})
  BY DEF StartPass, Passes, Keeps, Fields

(* A rollback also marks the operation as recovering. *)
LEMMA OpRecover ==
  DOMAIN op = Fields /\ op' = StartPass([op EXCEPT !.recovering = TRUE], op.previous, 0) =>
    Passes(op.previous, {"recovering"}) /\ op'.recovering = TRUE
  BY DEF StartPass, Passes, Keeps, Fields

(* Another round of stops changes the affected services. *)
LEMMA OpRepass == \A affected, todo :
  DOMAIN op = Fields /\ op' = [op EXCEPT !.stage = "restop", !.affected = affected,
                                         !.todo = todo] =>
    Keeps({"stage", "affected", "todo"}) /\ op'.stage = "restop" /\ op'.affected = affected
        /\ op'.todo = todo
  BY DEF Keeps, Fields

(* A change of stage changes nothing else. *)
LEMMA OpStage == \A stage :
  DOMAIN op = Fields /\ op' = [op EXCEPT !.stage = stage] => Keeps({"stage"})
      /\ op'.stage = stage
  BY DEF Keeps, Fields

(* A retry on another port keeps the service to be started. *)
LEMMA OpRetry == DOMAIN op = Fields /\ ReassignPort =>
  \E r \in ReassignAutoPort(Attempt, First) :
    /\ Keeps({"stage", "attempt", "retries", "tree"})
    /\ op'.stage = "launch" /\ op'.attempt = r /\ op'.retries = op.retries + 1
         /\ op'.tree = NoTree
  BY DEF ReassignPort, Keeps, Fields

(* A launch keeps it too, and holds the tree. *)
LEMMA OpLaunch ==
  DOMAIN op = Fields /\ op' = [op EXCEPT !.stage = "health", !.attempt = Attempt,
                    !.tree = [env |-> Environment(Attempt, First), state |-> "running"]] =>
    /\ Keeps({"stage", "attempt", "tree"}) /\ op'.stage = "health" /\ op'.attempt = Attempt
    /\ op'.tree = [env |-> Environment(Attempt, First), state |-> "running"]
  BY DEF Keeps, Fields

(* A change of stage with services to handle. *)
LEMMA OpRouted == \A stage, todo :
  DOMAIN op = Fields /\ op' = [op EXCEPT !.stage = stage, !.todo = todo] =>
    Keeps({"stage", "todo"}) /\ op'.stage = stage /\ op'.todo = todo
  BY DEF Keeps, Fields

(* A change is planned. *)
Planned(kind, next, candidate, affected) ==
  LET expanded == expandReloadGroups(affected, manifest, candidate)
  IN /\ DOMAIN op' = Fields
     /\ op'.kind = kind /\ op'.stage = "claim" /\ op'.next = next /\ op'.candidate = candidate
     /\ op'.affected = expanded /\ op'.nextBlocked = KeptBlocked(candidate, expanded)
     /\ op'.previous = manifest /\ op'.previousBlocked = blocked
     /\ op'.previousClaims = claimed /\ op'.previousFiles = reserved
     /\ op'.claims = MissingClaims(next)
     /\ op'.recovering = FALSE /\ op'.todo = {} /\ op'.retries = 0 /\ op'.tree = NoTree
     /\ reserved' = ReserveBoth(next) /\ recorded' = ReserveBoth(next)

(* A planned change remembers what it may return to. *)
LEMMA OpPlan == \A kind, next, candidate, affected :
  Plan(kind, next, candidate, affected) => Planned(kind, next, candidate, affected)
<1> TAKE kind, next, candidate, affected
<1> DEFINE expanded == expandReloadGroups(affected, manifest, candidate)
<1> SUFFICES ASSUME Plan(kind, next, candidate, affected)
             PROVE  Planned(kind, next, candidate, affected)
  OBVIOUS
<1>1. /\ reserved' = ReserveBoth(next) /\ recorded' = ReserveBoth(next)
      /\ op' = [NoOp EXCEPT
           !.kind = kind, !.stage = "claim", !.next = next, !.candidate = candidate,
               !.affected = expanded,
           !.nextBlocked = KeptBlocked(candidate, expanded), !.previous = manifest,
               !.previousBlocked = blocked,
           !.previousClaims = claimed, !.previousFiles = reserved,
               !.claims = MissingClaims(next)]
  BY DEF Plan
<1> HIDE DEF expanded
<1>2. /\ DOMAIN op' = Fields
      /\ op'.kind = kind /\ op'.stage = "claim" /\ op'.next = next /\ op'.candidate = candidate
  BY <1>1 DEF NoOp, Fields
<1>3. /\ op'.affected = expanded /\ op'.nextBlocked = KeptBlocked(candidate, expanded)
      /\ op'.previous = manifest /\ op'.previousBlocked = blocked
      /\ op'.previousClaims = claimed /\ op'.previousFiles = reserved
  BY <1>1 DEF NoOp
<1>4. /\ op'.claims = MissingClaims(next)
      /\ op'.recovering = FALSE /\ op'.todo = {} /\ op'.retries = 0 /\ op'.tree = NoTree
  BY <1>1 DEF NoOp
<1> USE DEF expanded
<1> QED
  BY <1>1, <1>2, <1>3, <1>4 DEF Planned

(* A restart has its services to handle. *)
LEMMA OpRestart == \A services :
  op' = [NoOp EXCEPT !.kind = "restart", !.stage = "restart", !.todo = services] =>
    /\ DOMAIN op' = Fields /\ op'.kind = "restart" /\ op'.stage = "restart"
         /\ op'.todo = services
    /\ op'.recovering = FALSE /\ op'.retries = 0 /\ op'.tree = NoTree
  BY DEF NoOp, Fields

(* A change that cannot stop its services, or whose candidate failed, recovers. *)
Recovers ==
  \/ cancelled /\ Keeps({"stage"}) /\ op'.stage = "unclaim" /\ UNCHANGED <<manifest, blocked>>
  \/ ~cancelled /\ Passes(op.previous, {"recovering"}) /\ op'.recovering = TRUE
       /\ manifest' = op.previous /\ blocked' = op.previousBlocked

(* RecoverReload does one or the other. *)
LEMMA OpRecovers == DOMAIN op = Fields /\ RecoverReload => Recovers
  BY OpRecover, OpStage DEF RecoverReload, Recovers

(* Once the old services are down, a change recovers or installs its candidate. *)
LEMMA OpInstalls == DOMAIN op = Fields /\ InstallReload =>
  \/ Recovers
  \/ manifest' = op.candidate /\ blocked' = op.nextBlocked /\ Passes(op.candidate, {})
  BY OpRecovers, OpPass DEF InstallReload

(* With every claim held, a boot goes on; a change stops its services or is over. *)
LEMMA OpClaimsHeld == DOMAIN op = Fields /\ ClaimsHeld =>
  \/ ~Changing /\ Keeps({"stage"}) /\ op'.stage = "routes"
  \/ Changing /\ cancelled /\ Keeps({"stage"}) /\ op'.stage = "unclaim"
  \/ Changing /\ ~cancelled /\ Keeps({"stage", "todo"}) /\ op'.stage = "stop"
       /\ op'.todo = OldServices
  BY OpStage, OpRouted DEF ClaimsHeld

(* After a pass, a boot is ready; a change runs another, rolls back or goes on. *)
LEMMA OpPassDone == DOMAIN op = Fields /\ PassDone =>
  LET affected == expandReloadGroups(op.affected \cup affectedReloadServices(op.before,
      manifest), op.before, manifest)
  IN \/ op.kind = "boot" /\ life' = "ready" /\ Over
     \/ /\ op.kind # "boot" /\ UNCHANGED life
        /\ Keeps({"stage", "affected", "todo"}) /\ op'.stage = "restop"
             /\ op'.affected = affected
        /\ op'.todo = affected \cap Names(manifest)
     \/ op.kind # "boot" /\ UNCHANGED life /\ Failed /\ ~op.recovering
     \/ op.kind # "boot" /\ UNCHANGED life /\ (cancelled => op.recovering) /\ Keeps({"stage"})
          /\ op'.stage = "routes"
<1> DEFINE changed == affectedReloadServices(op.before, manifest)
           affected == expandReloadGroups(op.affected \cup changed, op.before, manifest)
<1> SUFFICES ASSUME DOMAIN op = Fields, PassDone
             PROVE  \/ op.kind = "boot" /\ life' = "ready" /\ Over
                    \/ /\ op.kind # "boot" /\ UNCHANGED life
                       /\ Keeps({"stage", "affected", "todo"}) /\ op'.stage = "restop"
                            /\ op'.affected = affected
                       /\ op'.todo = affected \cap Names(manifest)
                    \/ op.kind # "boot" /\ UNCHANGED life /\ Failed /\ ~op.recovering
                    \/ /\ op.kind # "boot" /\ UNCHANGED life /\ (cancelled => op.recovering)
                       /\ Keeps({"stage"}) /\ op'.stage = "routes"
  OBVIOUS
<1>1. \/ op.kind = "boot" /\ life' = "ready" /\ op' = NoOp
      \/ /\ op.kind # "boot" /\ UNCHANGED life
         /\ \/ op' = [op EXCEPT !.stage = "restop", !.affected = affected,
                                !.todo = affected \cap Names(manifest)]
            \/ cancelled /\ ~op.recovering /\ op' = StartPhaseFailed
            \/ (cancelled => op.recovering) /\ op' = [op EXCEPT !.stage = "routes"]
  BY DEF PassDone
<1> HIDE DEF affected
<1> QED
  BY <1>1, OpOver, OpFailed, OpStage, OpRepass

(* The routes are published, and the operation goes on, or it fails. *)
LEMMA OpReplaces == DOMAIN op = Fields /\ ReplaceRoutes =>
  \/ /\ active' = InstalledRoutes /\ spent' = [spent EXCEPT !.staleRoutes = FALSE]
          /\ UNCHANGED cancelled
     /\ Keeps({"stage", "todo"})
     /\ op'.stage = (IF op.kind = "boot" THEN "launch"
                      ELSE IF op.recovering THEN "unclaim" ELSE "settings")
     /\ op'.todo = (IF op.kind = "boot" THEN Names(manifest) ELSE {})
  \/ /\ UNCHANGED <<active, spent>> \/ spent' = [spent EXCEPT !.staleRoutes = TRUE]
     /\ \/ op.kind = "boot" /\ Over
        \/ op.kind # "boot" /\ Failed /\ UNCHANGED cancelled
  BY OpRouted, OpOver, OpFailed DEF ReplaceRoutes, AbortStartup

(* A step that leaves the mark on the routes as it is. *)
SameSpent == DOMAIN spent' = DOMAIN spent /\ spent'.staleRoutes = spent.staleRoutes

(* The tree of a service whose route cannot be refreshed is stopped. *)
LEMMA OpUnrouted == ShapeInv /\ RouteRefreshFailed => SameSpent /\ \E tree :
  /\ IsTree(tree) /\ tree.env = op.tree.env /\ tree.state \in {"leaked", "stopped"}
  /\ started' = [started EXCEPT ![First] = tree] /\ Forget({started[First]})
  /\ failedRoutes' = KeepUnrouted(First, tree)
<1> SUFFICES ASSUME ShapeInv, RouteRefreshFailed
             PROVE  SameSpent /\ \E tree :
                      /\ IsTree(tree) /\ tree.env = op.tree.env
                           /\ tree.state \in {"leaked", "stopped"}
                      /\ started' = [started EXCEPT ![First] = tree] /\ Forget({started[First]})
                      /\ failedRoutes' = KeepUnrouted(First, tree)
  OBVIOUS
<1>1. PICK leaks \in BOOLEAN :
        /\ Track(First, [op.tree EXCEPT !.state = IF leaks THEN "leaked" ELSE "stopped"])
        /\ failedRoutes' = KeepUnrouted(First,
             [op.tree EXCEPT !.state = IF leaks THEN "leaked" ELSE "stopped"])
        /\ spent' = IF leaks THEN [spent EXCEPT !.leaks = @ + 1] ELSE spent
  BY DEF RouteRefreshFailed
<1> DEFINE tree == [op.tree EXCEPT !.state = IF leaks THEN "leaked" ELSE "stopped"]
<1>2. IsTree(tree) /\ tree.env = op.tree.env /\ tree.state \in {"leaked", "stopped"}
  BY DEF ShapeInv, IsTree
<1>3. SameSpent
  BY <1>1 DEF ShapeInv, SameSpent
<1> HIDE DEF tree
<1> QED
  BY <1>1, <1>2, <1>3 DEF Track, tree

(* A tree that did not get healthy is dropped, tracked as exited, or retried. *)
LEMMA OpHealthFails == ShapeInv /\ HealthFailed =>
  /\ SameSpent
  /\ \/ forgotten' = forgotten \cup {[op.tree EXCEPT !.state = "leaked"]} /\ UNCHANGED started
     \/ UNCHANGED <<started, forgotten>>
     \/ /\ started' = [started EXCEPT ![First] = [op.tree EXCEPT !.state = "exited"]]
        /\ Forget({started[First]})
  /\ \/ StartFailed
     \/ /\ UNCHANGED <<cancelled, failures, started, forgotten>> /\ MayRetry
        /\ ReassignPort
  BY DEF ShapeInv, HealthFailed, SameSpent, Track

(* Resolving the ports of a manifest leaves its definitions alone. *)
LEMMA OpResolved ==
  ASSUME NEW m \in Manifests, NEW r,
      NEW c \in resolveReloadPorts(m, r) \cup resolveStackRestartPorts(m, r)
  PROVE  IsResolved(c) /\ c.config = m
<1>1. PICK ports : c = Resolved(m, ports)
  BY DEF resolveReloadPorts, resolveStackRestartPorts
<1> QED
  BY <1>1 DEF Resolved, IsResolved

(* So does moving a service to another port. *)
LEMMA OpReassigned ==
  ASSUME NEW r, IsResolved(r), NEW s, NEW c \in ReassignAutoPort(r, s)
  PROVE  IsResolved(c) /\ c.config = r.config
  BY DEF IsResolved, ReassignAutoPort

(* A change of stage with claims to take. *)
LEMMA OpClaims == \A stage, claims :
  DOMAIN op = Fields /\ op' = [op EXCEPT !.stage = stage, !.claims = claims] =>
      Keeps({"stage", "claims"}) /\ op'.stage = stage /\ op'.claims = claims
  BY DEF Keeps, Fields

(* The record is written with the files reserved, or the boot is over. *)
LEMMA OpRegisters == DOMAIN op = Fields /\ RegisterStack =>
  \/ Over /\ cancelled' = TRUE /\ UNCHANGED recorded
  \/ /\ Keeps({"stage", "claims"}) /\ op'.stage = "claim" /\ op'.kind = op.kind
          /\ op'.claims = Claims(manifest.config)
     /\ recorded' = reserved /\ UNCHANGED cancelled
<1> SUFFICES ASSUME DOMAIN op = Fields, RegisterStack
             PROVE  \/ Over /\ cancelled' = TRUE /\ UNCHANGED recorded
                    \/ /\ Keeps({"stage", "claims"}) /\ op'.stage = "claim"
                            /\ op'.kind = op.kind
                       /\ op'.claims = Claims(manifest.config)
                       /\ recorded' = reserved /\ UNCHANGED cancelled
  OBVIOUS
<1>1. CASE op' = NoOp /\ cancelled' = TRUE /\ UNCHANGED recorded
  BY <1>1, OpOver
<1>2. CASE recorded' = reserved
    /\ op' = [op EXCEPT !.stage = "claim", !.claims = Claims(manifest.config)]
         /\ UNCHANGED cancelled
  BY <1>2, OpClaims DEF Keeps, Fields
<1> QED
  BY <1>1, <1>2 DEF RegisterStack, AbortStartup

(* After its stops a change launches affected services, or is over. *)
LEMMA OpGoesOn ==
  ASSUME ShapeInv, ConfigInv, Changing, RecoverReload \/ InstallReload
  PROVE  /\ op'.kind = op.kind
         /\ op'.stage = "unclaim" \/ (op'.stage = "launch" /\ op'.todo \subseteq op.affected
              /\ op'.todo \subseteq Service)
<1>1. Names(op.candidate) \subseteq Service /\ Names(op.previous) \subseteq Service
  BY StackRuntimeAssumption DEF ConfigInv, IsResolved, Names
<1>2. Keeps({"stage"}) => op'.kind = op.kind
  BY DEF Keeps, Fields
<1>3. \A r : Passes(r, {"recovering"}) \/ Passes(r, {}) =>
        op'.kind = op.kind /\ op'.stage = "launch" /\ op'.todo = op.affected \cap Names(r)
  BY DEF Passes, Keeps, Fields
<1>4. CASE Recovers
  BY <1>1, <1>2, <1>3, <1>4 DEF Recovers
<1>5. CASE Passes(op.candidate, {})
  BY <1>1, <1>3, <1>5
<1> QED
  BY <1>4, <1>5, OpRecovers, OpInstalls DEF ShapeInv

(* A start that does not fail keeps its service: on another port, or launched. *)
LEMMA OpTries ==
  ASSUME ShapeInv, PortTaken \/ Launch \/ HealthFailed, ~StartFailed
  PROVE  /\ Keeps({"stage", "attempt", "retries", "tree"})
         /\ op.stage \in {"launch", "health"} /\ op'.stage \in {"launch", "health"}
         /\ op'.stage = "launch" => op.kind # "restart"
         /\ op.stage = "launch" => op.todo # {}
         /\ UNCHANGED <<life, cancelled, manifest, configured, blocked, claimed, reserved,
              recorded>>
<1>1. CASE PortTaken
  BY <1>1, OpRetry DEF ShapeInv, PortTaken, Launching, At, MayRetry, AllowPortReassignment
<1>2. CASE Launch
  <2>1. Keeps({"stage", "attempt", "tree"}) /\ op'.stage = "health"
    BY <1>2, OpLaunch DEF ShapeInv, Launch
  <2> QED
    BY <1>2, <2>1 DEF Launch, Launching, At, Keeps
<1>3. CASE HealthFailed
  <2>1. ReassignPort /\ MayRetry
    BY <1>3, OpHealthFails
  <2> QED
    BY <1>3, <2>1, OpHealthFails, OpRetry
    DEF ShapeInv, HealthFailed, At, MayRetry, AllowPortReassignment
<1> QED
  BY <1>1, <1>2, <1>3

---------------------------------------------------------------------------
(* The services in their order, and the process trees. *)

(* A set of numbers that is not empty has a least one. *)
LEMMA Least ==
  ASSUME NEW S \in SUBSET Nat, S # {}
  PROVE  \E x \in S : \A y \in S : x <= y
<1> DEFINE R == {ss \in Nat \X Nat : ss[1] < ss[2]}
<1>1. OpToRel(<, Nat) = R
  BY Zenon DEF OpToRel
<1>2. IsWellFoundedOn(R, Nat)
  BY <1>1, NatLessThanWellFounded, Zenon
<1>3. PICK x \in S : \A y \in S : <<y, x>> \notin R
  <2> HIDE DEF R
  <2> QED
    BY <1>2, WFMin
<1>4. \A y \in S : ~(y < x)
  BY <1>3
<1> HIDE DEF R
<1> QED
  BY <1>4

(* There is a first and a last service to start or stop. *)
LEMMA Places ==
  ASSUME ConfigInv, op.todo \subseteq Names(manifest), op.todo # {}
  PROVE  First \in op.todo /\ Last \in op.todo
<1> DEFINE place == Rank[manifest.config]
           n == Cardinality(Service)
           after(s) == n - place[s]
<1>1. manifest.config \in Manifests /\ op.todo \subseteq Service
  BY StackRuntimeAssumption DEF ConfigInv, IsResolved, Names
<1>2. n \in Nat /\ place \in [Service -> 1..n]
  BY <1>1, RankAssumption, FS_CardinalityType
<1> HIDE DEF place, n
<1>3. \E s \in op.todo : \A t \in op.todo : place[s] <= place[t]
  <2>1. PICK x \in {place[s] : s \in op.todo} : \A y \in {place[s] : s \in op.todo} : x <= y
    <3>1. {place[s] : s \in op.todo} \in SUBSET Nat /\ {place[s] : s \in op.todo} # {}
      BY <1>1, <1>2
    <3> QED
      BY <3>1, Least
  <2> QED
    BY <2>1
<1>4. \E s \in op.todo : \A t \in op.todo : place[s] >= place[t]
  <2>1. PICK x \in {after(s) : s \in op.todo} : \A y \in {after(s) : s \in op.todo} : x <= y
    <3>1. {after(s) : s \in op.todo} \in SUBSET Nat /\ {after(s) : s \in op.todo} # {}
      BY <1>1, <1>2
    <3> QED
      BY <3>1, Least
  <2>2. \E s \in op.todo : \A t \in op.todo : after(s) <= after(t)
    BY <2>1
  <2> QED
    BY <2>2, <1>1, <1>2
<1> QED
  BY <1>3, <1>4 DEF First, Last, place

(* The next service to start or to stop is one still to be handled. *)
LEMMA FirstFits ==
  ConfigInv /\ op.todo # {} /\ op.todo \subseteq Names(manifest) => First \in op.todo
      /\ Last \in op.todo /\ op.todo \subseteq Service
  BY Places, StackRuntimeAssumption DEF ConfigInv, IsResolved, Names

(* The next service depends on those left and on the manifest alone. *)
LEMMA SamePlaces ==
  ASSUME op'.todo = op.todo, manifest'.config = manifest.config
  PROVE  First' = First /\ Last' = Last
  BY DEF First, Last

(* A tree that was stopped is not alive; the others are as they were. *)
LEMMA Stops ==
  ASSUME ShapeInv, NEW s \in Service, NEW leaks \in BOOLEAN, StopTracked(s, leaks)
  PROVE  /\ SameSpent /\ DOMAIN started' = Service
         /\ \A t \in Service \ {s} : started'[t] = started[t]
         /\ IsTree(started'[s]) /\ started'[s].env = started[s].env /\ ~Live(started'[s])
         /\ started'[s].state = started[s].state
              \/ (Live(started[s]) /\ started'[s].state \in {"stopped", "leaked"})
         /\ leaks => started'[s].state = "leaked"
         /\ \A tree \in forgotten' : tree \in forgotten \/ ~Live(tree)
  BY DEF ShapeInv, StopTracked, Live, IsTree, SameSpent, Forget

(* A process that exits is not replaced. *)
LEMMA Exits ==
  ASSUME ShapeInv, ServiceExits
  PROVE  /\ DOMAIN started' = Service
         /\ \A s \in Service :
              /\ IsTree(started'[s]) /\ started'[s].env = started[s].env
              /\ Live(started'[s]) => Live(started[s])
              /\ started'[s].state \in {"none", "stopped"} => started'[s] = started[s]
         /\ Keeps({"tree"}) /\ IsTree(op'.tree) /\ op'.tree.env = op.tree.env
         /\ Live(op'.tree) => Live(op.tree)
<1>1. CASE UNCHANGED op /\ \E s \in Service : \E tree \in ExitsTo(started[s]) :
    started' = [started EXCEPT ![s] = tree]
  BY <1>1 DEF ShapeInv, ExitsTo, Live, IsTree, Keeps, Fields
<1>2. CASE UNCHANGED started /\ \E tree \in ExitsTo(op.tree) : op' = [op EXCEPT !.tree = tree]
  <2>1. PICK tree \in ExitsTo(op.tree) : op' = [op EXCEPT !.tree = tree]
    BY <1>2
  <2>2. IsTree(tree) /\ tree.env = op.tree.env /\ (Live(tree) => Live(op.tree))
    BY DEF ShapeInv, ExitsTo, Live, IsTree
  <2>3. Keeps({"tree"}) /\ op'.tree = tree
    BY <2>1 DEF ShapeInv, Keeps, Fields
  <2> QED
    BY <1>2, <2>2, <2>3 DEF ShapeInv
<1> QED
  BY <1>1, <1>2 DEF ServiceExits

(* The shutdown leaves no tracked tree alive. *)
LEMMA Halts ==
  ASSUME ShapeInv, StopTrees
  PROVE  /\ SameSpent /\ DOMAIN started' = Service
         /\ \A s \in Service : IsTree(started'[s]) /\ started'[s].env = started[s].env
              /\ ~Live(started'[s])
<1>1. PICK leaks : started' = [s \in Service |->
            IF s \in {t \in Service : Live(started[t])}
            THEN [started[s] EXCEPT !.state = IF s \in leaks THEN "leaked" ELSE "stopped"]
            ELSE started[s]]
  BY DEF StopTrees
<1> QED
  BY <1>1 DEF ShapeInv, StopTrees, SameSpent, IsTree, Live

(* The affected services include those that were found to be. *)
LEMMA Covers ==
  ASSUME NEW affected, NEW a, NEW b
  PROVE  affected \subseteq expandReloadGroups(affected, a, b)
  BY DEF expandReloadGroups

(* A service that is not affected has the same definition in both manifests. *)
LEMMA OnlyAffected ==
  ASSUME NEW a, NEW b, NEW s \in (Names(a) \cup Names(b)) \ affectedReloadServices(a, b)
  PROVE  s \in Names(a) /\ s \in Names(b) /\ a.config[s] = b.config[s]
  BY DEF affectedReloadServices, Environment

(* A manifest claims what each of its definitions names. *)
LEMMA HostsClaimed ==
  ASSUME NEW m, NEW s \in DOMAIN m
  PROVE  ClaimsOf(m[s]) \subseteq Claims(m) /\ m[s].hosts \subseteq Claims(m)
  BY DEF Claims, ClaimsOf

(* A manifest names services. *)
LEMMA NamesFit == ConfigInv => Names(manifest) \subseteq Service
  BY StackRuntimeAssumption DEF ConfigInv, IsResolved, Names

(* Which steps change the installed manifest and the process trees. *)
LEMMA Frames == [Next]_vars =>
  /\ UNCHANGED manifest \/ InstallReload \/ RollBack \/ Healthy
  /\ UNCHANGED started \/ StopReloadService \/ Healthy \/ RouteRefreshFailed \/ HealthCancelled
       \/ HealthFailed \/ Accept \/ RestartStops \/ StopTrees \/ ServiceExits
  /\ UNCHANGED forgotten \/ StopReloadService \/ Healthy \/ RouteRefreshFailed
       \/ HealthCancelled \/ HealthFailed \/ Accept \/ RestartStops
  /\ UNCHANGED claimed \/ Claim \/ RetireClaims \/ Reject \/ ReleaseHosts \/ ReleasePorts
  /\ UNCHANGED configured \/ Accept
  /\ UNCHANGED active \/ Healthy \/ ReplaceRoutes \/ UnregisterRoutes
  BY DEF Next, Operate, ShutDown, Request, vars, RegisterStack, Claim, ClaimsHeld,
     StopReloadService, InstallReload, NextPass, RollBack, BlockServices, SkipBlocked,
     FailBeforeStart, StartCancelled, PortTaken, Launch, Healthy, RouteRefreshFailed,
     HealthCancelled, HealthFailed, PassDone, ReplaceRoutes, Accept, RetireClaims, Reject,
     RestartStops, RestartDone, BeginShutdown, StopTrees, ReleaseHosts, UnregisterRoutes,
     ReleasePorts, UnregisterStack, Reload, RestartStack, Restart, Cancel, ServiceExits

---------------------------------------------------------------------------
(* The steps keep the fields of the records. *)
LEMMA NextShape == ShapeInv /\ StageInv /\ [Next]_vars => ShapeInv'
<1> SUFFICES ASSUME ShapeInv, StageInv, [Next]_vars PROVE ShapeInv'
  OBVIOUS
<1> USE DEF ShapeInv, Fields, IsTree, Live, Leaked, NoTree, StageInv, Changes
<1>1. CASE RegisterStack
  BY <1>1, OpRegisters DEF RegisterStack, At, Over, Keeps
<1>2. CASE Claim
  <2>1. DOMAIN op' = Fields /\ op'.tree \in {op.tree, NoTree}
    <3>1. CASE op' = NoOp
      BY <3>1, OpOver DEF Over
    <3>2. CASE op' = [op EXCEPT !.stage = "unclaim"]
      BY <3>2, OpStage DEF Keeps
    <3>3. CASE \E claim \in op.claims : op' = [op EXCEPT !.claims = @ \ {claim}]
      BY <3>3
    <3> QED
      BY <1>2, <3>1, <3>2, <3>3 DEF Claim, AbortStartup
  <2> QED
    BY <1>2, <2>1 DEF Claim
<1>3. CASE ClaimsHeld
  BY <1>3, OpClaimsHeld DEF ClaimsHeld, At, Changing, Changes, OldServices, Keeps
<1>4. CASE StopReloadService
  <2>1. PICK leaks \in BOOLEAN : StopTracked(Last, leaks)
                                 /\ op' = [op EXCEPT !.todo = @ \ {Last}, !.failed = @ \/ leaks]
    BY <1>4 DEF StopReloadService
  <2>2. DOMAIN op' = Fields /\ op'.tree = op.tree
    BY <2>1
  <2>3. DOMAIN started' = Service /\ \A s \in Service : IsTree(started'[s])
    BY <2>1 DEF StopTracked
  <2>4. DOMAIN spent' = DOMAIN spent
    BY <2>1 DEF StopTracked
  <2>5. DOMAIN failedRoutes' = Service
        /\ \A s \in Service : IsTree(failedRoutes'[s]) /\ ~Live(failedRoutes'[s])
    BY <2>1 DEF StopTracked
  <2> QED
    BY <1>4, <2>2, <2>3, <2>4, <2>5 DEF StopReloadService
<1>5. CASE InstallReload
  BY <1>5, OpInstalls DEF InstallReload, Stopped, At, Recovers, Passes, Keeps
<1>6. CASE NextPass
  BY <1>6, OpPass, OpFailed DEF NextPass, Stopped, At, Passes, Failed, Keeps
<1>7. CASE RollBack
  BY <1>7, OpRecovers DEF RollBack, Stopped, At, Recovers, Passes, Keeps
<1>8. CASE BlockServices
  BY <1>8, OpStage DEF BlockServices, Stopped, At, HeldDown, Keeps
<1>9. CASE SkipBlocked
  BY <1>9, OpNextOne DEF SkipBlocked, Launching, At, Changing, Changes, NextOne, Keeps
<1>10. CASE FailBeforeStart
  BY <1>10, OpFailed DEF FailBeforeStart, Launching, At, Changing, Changes, Failed, Keeps
<1>11. CASE StartCancelled
  BY <1>11, OpStartFailed
  DEF StartCancelled, Launching, At, Failed, NextOne, Changing, Over, Keeps
<1>12. CASE PortTaken
  BY <1>12, OpStartFailed, OpRetry
  DEF PortTaken, Launching, At, CanCollide, MayRetry, AllowPortReassignment, ReassignAutoPort,
      Attempt, Changing, Failed, NextOne, Over, Keeps
<1>13. CASE Launch
  BY <1>13, OpStartFailed, OpLaunch
  DEF Launch, Launching, At, Attempt, Environment, Changing, Failed, NextOne, Over, Keeps
<1>14. CASE Healthy
  BY <1>14, OpNextOne DEF Healthy, At, Track, Forget, NextOne, RefreshRoute, Keeps
<1>15. CASE RouteRefreshFailed
  <2>1. DOMAIN op' = Fields /\ IsTree(op'.tree)
    BY <1>15, OpStartFailed DEF RouteRefreshFailed, Over, Failed, NextOne, Keeps
  <2>2. PICK tree : /\ IsTree(tree) /\ tree.state \in {"leaked", "stopped"}
                    /\ started' = [started EXCEPT ![First] = tree]
                    /\ failedRoutes' = KeepUnrouted(First, tree)
    BY <1>15, OpUnrouted
  <2>3. DOMAIN started' = Service /\ \A s \in Service : IsTree(started'[s])
    BY <2>2
  <2>4. DOMAIN failedRoutes' = Service /\ \A s \in Service : IsTree(failedRoutes'[s])
      /\ ~Live(failedRoutes'[s])
    BY <2>2 DEF KeepUnrouted
  <2> QED
    BY <1>15, <2>1, <2>3, <2>4, OpUnrouted DEF RouteRefreshFailed, SameSpent
<1>16. CASE HealthCancelled
  BY <1>16, OpStartFailed
  DEF HealthCancelled, At, Track, Forget, Changing, Failed, NextOne, Over, Keeps
<1>17. CASE HealthFailed
  <2>1. DOMAIN op' = Fields /\ IsTree(op'.tree)
    <3>1. CASE StartFailed
      BY <3>1, OpStartFailed DEF Over, Failed, NextOne, Keeps
    <3>2. CASE ReassignPort
      BY <3>2, OpRetry DEF Keeps
    <3> QED
      BY <1>17, <3>1, <3>2, OpHealthFails
  <2>2. DOMAIN started' = Service /\ \A s \in Service : IsTree(started'[s])
    BY <1>17, OpHealthFails
  <2> QED
    BY <1>17, <2>1, <2>2, OpHealthFails DEF HealthFailed, SameSpent
<1>18. CASE PassDone
  BY <1>18, OpPassDone DEF PassDone, Stopped, At, Failed, Over, Keeps
<1>19. CASE ReplaceRoutes
  BY <1>19, OpReplaces DEF ReplaceRoutes, At, Failed, Over, Keeps
<1>20. CASE Accept
  BY <1>20, OpFailed, OpStage DEF Accept, At, Failed, Forget, Keeps
<1>21. CASE RetireClaims
  BY <1>21, OpOver DEF RetireClaims, At, ReleaseClaimsExcept, FinishReservation, Over, Keeps
<1>22. CASE Reject
  BY <1>22, OpOver DEF Reject, At, ReleaseClaimsExcept, FinishReservation, Over, Keeps
<1>23. CASE RestartStops
  <2>1. DOMAIN op' = Fields /\ op'.tree \in {op.tree, NoTree}
    <3>1. CASE op' = NoOp
      BY <3>1, OpOver DEF Over
    <3>2. CASE op' = [op EXCEPT !.stage = "launch"]
      BY <3>2, OpStage DEF Keeps
    <3> QED
      BY <1>23, <3>1, <3>2 DEF RestartStops
  <2>2. PICK leaks \in BOOLEAN : StopTracked(First, leaks)
    BY <1>23 DEF RestartStops
  <2>3. DOMAIN started' = Service /\ \A s \in Service : IsTree(started'[s])
    BY <2>2 DEF StopTracked
  <2>4. DOMAIN spent' = DOMAIN spent
    BY <2>2 DEF StopTracked
  <2>5. DOMAIN failedRoutes' = Service
        /\ \A s \in Service : IsTree(failedRoutes'[s]) /\ ~Live(failedRoutes'[s])
    BY <2>2 DEF StopTracked
  <2> QED
    BY <1>23, <2>1, <2>3, <2>4, <2>5 DEF RestartStops
<1>24. CASE RestartDone
  BY <1>24, OpOver DEF RestartDone, Stopped, At, Over, Keeps
<1>25. CASE BeginShutdown
  BY <1>25 DEF BeginShutdown, OperationMuFree
<1>26. CASE StopTrees
  BY <1>26 DEF StopTrees, CleanedUp
<1>27. CASE ReleaseHosts
  BY <1>27 DEF ReleaseHosts, CleanedUp
<1>28. CASE UnregisterRoutes
  BY <1>28 DEF UnregisterRoutes, CleanedUp
<1>29. CASE ReleasePorts
  BY <1>29 DEF ReleasePorts, CleanedUp
<1>30. CASE UnregisterStack
  BY <1>30 DEF UnregisterStack, CleanedUp
<1>31. ASSUME NEW n \in Manifests, Reload(n) PROVE ShapeInv'
  BY <1>31, OpPlan DEF Reload, MayBegin, Planned, Keeps
<1>32. CASE RestartStack
  BY <1>32, OpPlan DEF RestartStack, MayBegin, Planned, Keeps
<1>33. ASSUME NEW ss \in SUBSET Names(manifest) \ {{}}, Restart(ss) PROVE ShapeInv'
  BY <1>33, OpRestart DEF Restart, MayBegin, Keeps
<1>34. CASE Cancel
  BY <1>34 DEF Cancel
<1>35. CASE ServiceExits
  BY <1>35, Exits, SamePlaces DEF ServiceExits, Keeps
<1>36. CASE UNCHANGED vars
  BY <1>36 DEF vars
<1>37. CASE Operate
  BY <1>37, <1>1, <1>2, <1>3, <1>4, <1>5, <1>6, <1>7, <1>8, <1>9, <1>10, <1>11, <1>12, <1>13,
     <1>14, <1>15, <1>16, <1>17, <1>18, <1>19, <1>20, <1>21, <1>22, <1>23, <1>24
  DEF Operate
<1>38. CASE ShutDown
  BY <1>38, <1>25, <1>26, <1>27, <1>28, <1>29, <1>30 DEF ShutDown
<1>39. CASE Request
  BY <1>39, <1>31, <1>32, <1>33 DEF Request
<1> QED
  BY <1>34, <1>35, <1>36, <1>37, <1>38, <1>39 DEF Next

(* A failed start leaves a stage of its own. *)
LEMMA StageFailed ==
  ASSUME ShapeInv, StageInv, StartFailed, op.stage \in {"launch", "health"}, UNCHANGED life
  PROVE  StageInv'
<1>1. CASE Over
  BY <1>1 DEF Over, StageInv, Changing, Changes
<1>2. CASE op.kind = "boot" /\ NextOne
  BY <1>2 DEF NextOne, Keeps, Fields, StageInv, Changing, Changes
<1>3. CASE Changing /\ Failed
  BY <1>3 DEF Failed, Keeps, Fields, StageInv, Changing, Changes
<1> QED
  BY <1>1, <1>2, <1>3, OpStartFailed DEF ShapeInv, StageInv

(* The steps go from stage to stage. *)
LEMMA NextStage == ShapeInv /\ StageInv /\ [Next]_vars => StageInv'
<1> SUFFICES ASSUME ShapeInv, StageInv, [Next]_vars PROVE StageInv'
  OBVIOUS
<1> USE DEF ShapeInv, Fields, StageInv, Changing, Changes
<1>1. CASE RegisterStack
  BY <1>1, OpRegisters DEF RegisterStack, At, Over, Keeps
<1>2. CASE Claim
  <2>1. op.stage = "claim" /\ UNCHANGED life
    BY <1>2 DEF Claim, At
  <2>2. CASE op' = NoOp
    BY <2>1, <2>2, OpOver DEF Over
  <2>3. CASE op' = [op EXCEPT !.stage = "unclaim"] /\ Changing
    BY <2>1, <2>3, OpStage DEF Keeps
  <2>4. CASE \E claim \in op.claims : op' = [op EXCEPT !.claims = @ \ {claim}]
    <3>1. Keeps({"claims"})
      BY <2>4 DEF Keeps
    <3> QED
      BY <2>1, <3>1 DEF Keeps
  <2> QED
    BY <1>2, <2>2, <2>3, <2>4 DEF Claim, AbortStartup
<1>3. CASE ClaimsHeld
  BY <1>3, OpClaimsHeld DEF ClaimsHeld, At, Changing, Changes, OldServices, Keeps
<1>4. CASE StopReloadService
  BY <1>4, Stops, Places DEF StopReloadService, Keeps
<1>5. CASE InstallReload
  BY <1>5, OpInstalls DEF InstallReload, Stopped, At, Recovers, Passes, Keeps
<1>6. CASE NextPass
  BY <1>6, OpPass, OpFailed DEF NextPass, Stopped, At, Passes, Failed, Keeps
<1>7. CASE RollBack
  BY <1>7, OpRecovers DEF RollBack, Stopped, At, Recovers, Passes, Keeps
<1>8. CASE BlockServices
  BY <1>8, OpStage DEF BlockServices, Stopped, At, HeldDown, Keeps
<1>9. CASE SkipBlocked
  BY <1>9, OpNextOne DEF SkipBlocked, Launching, At, Changing, Changes, NextOne, Keeps
<1>10. CASE FailBeforeStart
  BY <1>10, OpFailed DEF FailBeforeStart, Launching, At, Changing, Changes, Failed, Keeps
<1>11. CASE StartCancelled
  BY <1>11, StageFailed DEF StartCancelled, Launching, At
<1>12. CASE PortTaken
  <2>1. CASE StartFailed
    BY <1>12, <2>1, StageFailed DEF PortTaken, Launching, At
  <2>2. CASE ~StartFailed
    BY <1>12, <2>2, OpTries DEF Keeps
  <2> QED
    BY <2>1, <2>2
<1>13. CASE Launch
  <2>1. CASE StartFailed
    BY <1>13, <2>1, StageFailed DEF Launch, Launching, At
  <2>2. CASE ~StartFailed
    BY <1>13, <2>2, OpTries DEF Keeps
  <2> QED
    BY <2>1, <2>2
<1>14. CASE Healthy
  BY <1>14, OpNextOne DEF Healthy, At, Track, Forget, NextOne, RefreshRoute, Keeps
<1>15. CASE RouteRefreshFailed
  BY <1>15, StageFailed DEF RouteRefreshFailed, Launching, At
<1>16. CASE HealthCancelled
  BY <1>16, StageFailed DEF HealthCancelled, Launching, At
<1>17. CASE HealthFailed
  <2>1. CASE StartFailed
    BY <1>17, <2>1, StageFailed DEF HealthFailed, Launching, At
  <2>2. CASE ~StartFailed
    BY <1>17, <2>2, OpTries DEF Keeps
  <2> QED
    BY <2>1, <2>2
<1>18. CASE PassDone
  BY <1>18, OpPassDone DEF PassDone, Stopped, At, Failed, Over, Keeps
<1>19. CASE ReplaceRoutes
  BY <1>19, OpReplaces DEF ReplaceRoutes, At, Failed, Over, Keeps
<1>20. CASE Accept
  BY <1>20, OpFailed, OpStage DEF Accept, At, Failed, Forget, Keeps
<1>21. CASE RetireClaims
  BY <1>21, OpOver DEF RetireClaims, At, ReleaseClaimsExcept, FinishReservation, Over, Keeps
<1>22. CASE Reject
  BY <1>22, OpOver DEF Reject, At, ReleaseClaimsExcept, FinishReservation, Over, Keeps
<1>23. CASE RestartStops
  <2>1. op.stage = "restart" /\ op.todo # {} /\ UNCHANGED life
    BY <1>23 DEF RestartStops, At
  <2>2. CASE op' = NoOp
    BY <2>1, <2>2, OpOver DEF Over
  <2>3. CASE op' = [op EXCEPT !.stage = "launch"]
    BY <2>1, <2>3, OpStage DEF Keeps
  <2> QED
    BY <1>23, <2>2, <2>3 DEF RestartStops
<1>24. CASE RestartDone
  BY <1>24, OpOver DEF RestartDone, Stopped, At, Over, Keeps
<1>25. CASE BeginShutdown
  BY <1>25 DEF BeginShutdown, OperationMuFree
<1>26. CASE StopTrees
  BY <1>26 DEF StopTrees, CleanedUp
<1>27. CASE ReleaseHosts
  BY <1>27 DEF ReleaseHosts, CleanedUp
<1>28. CASE UnregisterRoutes
  BY <1>28 DEF UnregisterRoutes, CleanedUp
<1>29. CASE ReleasePorts
  BY <1>29 DEF ReleasePorts, CleanedUp
<1>30. CASE UnregisterStack
  BY <1>30 DEF UnregisterStack, CleanedUp
<1>31. ASSUME NEW n \in Manifests, Reload(n) PROVE StageInv'
  <2>1. CASE UNCHANGED op
    BY <1>31, <2>1 DEF Reload, MayBegin
  <2>2. CASE ~UNCHANGED op
    <3>1. op'.kind \in Changes /\ op'.stage = "claim" /\ op'.recovering = FALSE
      BY <1>31, <2>2, OpPlan DEF Reload, Planned
    <3> QED
      BY <1>31, <3>1 DEF Reload, MayBegin
  <2> QED
    BY <2>1, <2>2
<1>32. CASE RestartStack
  <2>1. CASE UNCHANGED op
    BY <1>32, <2>1 DEF RestartStack, MayBegin
  <2>2. CASE ~UNCHANGED op
    <3>1. op'.kind \in Changes /\ op'.stage = "claim" /\ op'.recovering = FALSE
      BY <1>32, <2>2, OpPlan DEF RestartStack, Planned
    <3> QED
      BY <1>32, <3>1 DEF RestartStack, MayBegin
  <2> QED
    BY <2>1, <2>2
<1>33. ASSUME NEW ss \in SUBSET Names(manifest) \ {{}}, Restart(ss) PROVE StageInv'
  BY <1>33, OpRestart DEF Restart, MayBegin, Keeps
<1>34. CASE Cancel
  BY <1>34 DEF Cancel
<1>35. CASE ServiceExits
  BY <1>35, Exits, SamePlaces DEF ServiceExits, Keeps
<1>36. CASE UNCHANGED vars
  BY <1>36 DEF vars
<1>37. CASE Operate
  BY <1>37, <1>1, <1>2, <1>3, <1>4, <1>5, <1>6, <1>7, <1>8, <1>9, <1>10, <1>11, <1>12, <1>13,
     <1>14, <1>15, <1>16, <1>17, <1>18, <1>19, <1>20, <1>21, <1>22, <1>23, <1>24
  DEF Operate
<1>38. CASE ShutDown
  BY <1>38, <1>25, <1>26, <1>27, <1>28, <1>29, <1>30 DEF ShutDown
<1>39. CASE Request
  BY <1>39, <1>31, <1>32, <1>33 DEF Request
<1> QED
  BY <1>34, <1>35, <1>36, <1>37, <1>38, <1>39 DEF Next

(* A failed start installs nothing. *)
LEMMA ConfigFailed ==
  ShapeInv /\ StageInv /\ ConfigInv /\ StartFailed /\ op.stage \in {"launch", "health"}
      /\ UNCHANGED <<life, manifest, configured>> => ConfigInv'
<1> SUFFICES ASSUME ShapeInv, StageInv, ConfigInv, StartFailed,
    op.stage \in {"launch", "health"},
                    UNCHANGED <<life, manifest, configured>> PROVE ConfigInv'
  OBVIOUS
<1> USE DEF ShapeInv, StageInv, ConfigInv, Changing, Changes, Fields
<1>1. CASE op.kind \in {"boot", "restart"} /\ Over /\ (op.kind = "boot" => cancelled')
  BY <1>1 DEF Over
<1>2. CASE op.kind = "boot" /\ ~cancelled /\ UNCHANGED cancelled /\ NextOne
  BY <1>2 DEF NextOne, Keeps
<1>3. CASE Changing /\ UNCHANGED cancelled /\ Failed
  BY <1>3, OpStartFailed DEF Failed, Keeps, StartFailed
<1> QED
  BY <1>1, <1>2, <1>3, OpStartFailed

(* The steps keep track of which manifest is installed. *)
LEMMA NextConfig == ShapeInv /\ StageInv /\ ConfigInv /\ AttemptInv /\ [Next]_vars => ConfigInv'
<1> SUFFICES ASSUME ShapeInv, StageInv, ConfigInv, AttemptInv, [Next]_vars PROVE ConfigInv'
  OBVIOUS
<1> USE DEF ShapeInv, Fields, StageInv, ConfigInv, AttemptInv, Changing, Changes
<1>1. CASE RegisterStack
  BY <1>1, OpRegisters DEF RegisterStack, At, Over, Keeps
<1>2. CASE Claim
  BY <1>2, OpOver, OpStage DEF Claim, At, AbortStartup, Changing, Changes, Over, Keeps
<1>3. CASE ClaimsHeld
  BY <1>3, OpClaimsHeld DEF ClaimsHeld, At, Changing, Changes, OldServices, Keeps
<1>4. CASE StopReloadService
  BY <1>4, Stops, Places DEF StopReloadService, Keeps
<1>5. CASE InstallReload
  BY <1>5, OpInstalls DEF InstallReload, Stopped, At, Recovers, Passes, Keeps
<1>6. CASE NextPass
  BY <1>6, OpPass, OpFailed DEF NextPass, Stopped, At, Passes, Failed, Keeps
<1>7. CASE RollBack
  BY <1>7, OpRecovers DEF RollBack, Stopped, At, Recovers, Passes, Keeps
<1>8. CASE BlockServices
  BY <1>8, OpStage DEF BlockServices, Stopped, At, HeldDown, Keeps
<1>9. CASE SkipBlocked
  BY <1>9, OpNextOne DEF SkipBlocked, Launching, At, Changing, Changes, NextOne, Keeps
<1>10. CASE FailBeforeStart
  BY <1>10, OpFailed DEF FailBeforeStart, Launching, At, Changing, Changes, Failed, Keeps
<1>11. CASE StartCancelled
  BY <1>11, ConfigFailed DEF StartCancelled, Launching, At
<1>12. CASE PortTaken
  <2>1. CASE StartFailed
    BY <1>12, <2>1, ConfigFailed DEF PortTaken, Launching, At
  <2>2. CASE ReassignPort /\ UNCHANGED cancelled
    <3>1. Keeps({"stage", "attempt", "retries", "tree"}) /\ op'.stage = "launch"
      BY <2>2, OpRetry
    <3> QED
      BY <1>12, <2>2, <3>1 DEF PortTaken, Launching, At, Keeps
  <2> QED
    BY <1>12, <2>1, <2>2 DEF PortTaken
<1>13. CASE Launch
  <2>1. CASE StartFailed
    BY <1>13, <2>1, ConfigFailed DEF Launch, Launching, At
  <2>2. CASE Keeps({"stage", "attempt", "tree"}) /\ op'.stage = "health" /\ UNCHANGED cancelled
    BY <1>13, <2>2 DEF Launch, Launching, At, Keeps
  <2> QED
    BY <1>13, <2>1, <2>2, OpLaunch DEF Launch
<1>14. CASE Healthy
  BY <1>14, OpNextOne DEF Healthy, At, Track, Forget, NextOne, RefreshRoute, Keeps
<1>15. CASE RouteRefreshFailed
  BY <1>15, ConfigFailed DEF RouteRefreshFailed, Launching, At
<1>16. CASE HealthCancelled
  BY <1>16, ConfigFailed DEF HealthCancelled, Launching, At
<1>17. CASE HealthFailed
  <2>1. CASE StartFailed
    BY <1>17, <2>1, ConfigFailed DEF HealthFailed, At
  <2>2. CASE ReassignPort /\ UNCHANGED cancelled
    <3>1. Keeps({"stage", "attempt", "retries", "tree"}) /\ op'.stage = "launch"
      BY <2>2, OpRetry
    <3> QED
      BY <1>17, <2>2, <3>1 DEF HealthFailed, At, Keeps
  <2> QED
    BY <1>17, <2>1, <2>2, OpHealthFails
<1>18. CASE PassDone
  BY <1>18, OpPassDone DEF PassDone, Stopped, At, Failed, Over, Keeps
<1>19. CASE ReplaceRoutes
  BY <1>19, OpReplaces DEF ReplaceRoutes, At, Failed, Over, Keeps
<1>20. CASE Accept
  <2>1. CASE cancelled
    BY <1>20, <2>1, OpFailed DEF Accept, At, Failed, Keeps
  <2>2. CASE ~cancelled
    <3>1. /\ Keeps({"stage"}) /\ op'.stage = "retire" /\ op.stage = "settings"
          /\ configured' = op.next /\ UNCHANGED <<life, cancelled, manifest>>
      BY <1>20, <2>2, OpStage DEF Accept, At
    <3>2. CASE Changing
      BY <3>1, <3>2 DEF Keeps, IsResolved
    <3> QED
      BY <3>1, <3>2
  <2> QED
    BY <2>1, <2>2
<1>21. CASE RetireClaims
  BY <1>21, OpOver DEF RetireClaims, At, ReleaseClaimsExcept, FinishReservation, Over, Keeps
<1>22. CASE Reject
  BY <1>22, OpOver DEF Reject, At, ReleaseClaimsExcept, FinishReservation, Over, Keeps
<1>23. CASE RestartStops
  BY <1>23, OpOver, OpStage, Stops, Places DEF RestartStops, At, Over, Keeps
<1>24. CASE RestartDone
  BY <1>24, OpOver DEF RestartDone, Stopped, At, Over, Keeps
<1>25. CASE BeginShutdown
  BY <1>25 DEF BeginShutdown, OperationMuFree
<1>26. CASE StopTrees
  BY <1>26 DEF StopTrees, CleanedUp
<1>27. CASE ReleaseHosts
  BY <1>27 DEF ReleaseHosts, CleanedUp
<1>28. CASE UnregisterRoutes
  BY <1>28 DEF UnregisterRoutes, CleanedUp
<1>29. CASE ReleasePorts
  BY <1>29 DEF ReleasePorts, CleanedUp
<1>30. CASE UnregisterStack
  BY <1>30 DEF UnregisterStack, CleanedUp
<1>31. ASSUME NEW n \in Manifests, Reload(n) PROVE ConfigInv'
  <2>1. CASE UNCHANGED op
    BY <1>31, <2>1 DEF Reload, MayBegin
  <2>2. CASE \E candidate \in resolveReloadPorts(n, manifest) :
      Plan("reload", n, candidate, affectedReloadServices(manifest, candidate))
    <3>1. PICK candidate \in resolveReloadPorts(n, manifest) :
            Planned("reload", n, candidate, affectedReloadServices(manifest, candidate))
      BY <2>2, OpPlan
    <3>2. IsResolved(candidate) /\ candidate.config = n
      BY <3>1, OpResolved
    <3> QED
      BY <1>31, <3>1, <3>2 DEF Reload, MayBegin, Planned
  <2> QED
    BY <1>31, <2>1, <2>2 DEF Reload
<1>32. CASE RestartStack
  <2>1. PICK candidate \in resolveStackRestartPorts(configured, manifest) :
          Planned("restartStack", configured, candidate,
              affectedReloadServices(manifest, candidate) \cup Names(candidate))
    BY <1>32, OpPlan DEF RestartStack
  <2>2. IsResolved(candidate) /\ candidate.config = configured
    BY <2>1, OpResolved
  <2> QED
    BY <1>32, <2>1, <2>2 DEF RestartStack, MayBegin, Planned
<1>33. ASSUME NEW ss \in SUBSET Names(manifest) \ {{}}, Restart(ss) PROVE ConfigInv'
  BY <1>33, OpRestart DEF Restart, MayBegin, Keeps
<1>34. CASE Cancel
  BY <1>34 DEF Cancel
<1>35. CASE ServiceExits
  BY <1>35, Exits, SamePlaces DEF ServiceExits, Keeps
<1>36. CASE UNCHANGED vars
  BY <1>36 DEF vars
<1>37. CASE Operate
  BY <1>37, <1>1, <1>2, <1>3, <1>4, <1>5, <1>6, <1>7, <1>8, <1>9, <1>10, <1>11, <1>12, <1>13,
     <1>14, <1>15, <1>16, <1>17, <1>18, <1>19, <1>20, <1>21, <1>22, <1>23, <1>24
  DEF Operate
<1>38. CASE ShutDown
  BY <1>38, <1>25, <1>26, <1>27, <1>28, <1>29, <1>30 DEF ShutDown
<1>39. CASE Request
  BY <1>39, <1>31, <1>32, <1>33 DEF Request
<1> QED
  BY <1>34, <1>35, <1>36, <1>37, <1>38, <1>39 DEF Next

(* A failed start keeps the files of its operation reserved. *)
LEMMA FilesFailed ==
  ASSUME ShapeInv, StageInv, FileInv, StartFailed, op.stage \in {"launch", "health"},
         UNCHANGED <<life, configured, reserved, recorded>>
  PROVE  FileInv'
<1>1. \/ op'.kind = "none"
      \/ op'.kind = "boot" /\ op.kind = "boot"
      \/ /\ op'.kind = op.kind /\ op.kind \in Changes /\ op'.stage \in {"giveUp", "undo"}
         /\ op'.previousFiles = op.previousFiles /\ op'.next = op.next
  BY OpStartFailed DEF ShapeInv, StageInv, Changing, Over, NextOne, Failed, Keeps, Fields
<1> QED
  BY <1>1 DEF FileInv, Changing, Changes

(* The steps keep the files of both manifests of a change reserved. *)
LEMMA NextFiles == ShapeInv /\ StageInv /\ ConfigInv /\ FileInv /\ [Next]_vars => FileInv'
<1> SUFFICES ASSUME ShapeInv, StageInv, ConfigInv, FileInv, [Next]_vars PROVE FileInv'
  OBVIOUS
<1> USE DEF ShapeInv, Fields, StageInv, ConfigInv, FileInv, Changing, Changes, ReserveBoth
<1>1. CASE RegisterStack
  BY <1>1, OpRegisters DEF RegisterStack, At, Over, Keeps
<1>2. CASE Claim
  BY <1>2, OpOver, OpStage DEF Claim, At, AbortStartup, Changing, Changes, Over, Keeps
<1>3. CASE ClaimsHeld
  BY <1>3, OpClaimsHeld DEF ClaimsHeld, At, Changing, Changes, OldServices, Keeps
<1>4. CASE StopReloadService
  BY <1>4, Stops, Places DEF StopReloadService, Keeps
<1>5. CASE InstallReload
  BY <1>5, OpInstalls DEF InstallReload, Stopped, At, Recovers, Passes, Keeps
<1>6. CASE NextPass
  BY <1>6, OpPass, OpFailed DEF NextPass, Stopped, At, Passes, Failed, Keeps
<1>7. CASE RollBack
  BY <1>7, OpRecovers DEF RollBack, Stopped, At, Recovers, Passes, Keeps
<1>8. CASE BlockServices
  BY <1>8, OpStage DEF BlockServices, Stopped, At, HeldDown, Keeps
<1>9. CASE SkipBlocked
  BY <1>9, OpNextOne DEF SkipBlocked, Launching, At, Changing, Changes, NextOne, Keeps
<1>10. CASE FailBeforeStart
  BY <1>10, OpFailed DEF FailBeforeStart, Launching, At, Changing, Changes, Failed, Keeps
<1>11. CASE StartCancelled
  BY <1>11, FilesFailed DEF StartCancelled, Launching, At
<1>12. CASE PortTaken
  <2>1. CASE StartFailed
    BY <1>12, <2>1, FilesFailed DEF PortTaken, Launching, At
  <2>2. CASE ~StartFailed
    BY <1>12, <2>2, OpTries DEF Keeps
  <2> QED
    BY <2>1, <2>2
<1>13. CASE Launch
  <2>1. CASE StartFailed
    BY <1>13, <2>1, FilesFailed DEF Launch, Launching, At
  <2>2. CASE ~StartFailed
    BY <1>13, <2>2, OpTries DEF Keeps
  <2> QED
    BY <2>1, <2>2
<1>14. CASE Healthy
  BY <1>14, OpNextOne DEF Healthy, At, Track, Forget, NextOne, RefreshRoute, Keeps
<1>15. CASE RouteRefreshFailed
  BY <1>15, FilesFailed DEF RouteRefreshFailed, Launching, At
<1>16. CASE HealthCancelled
  BY <1>16, FilesFailed DEF HealthCancelled, Launching, At
<1>17. CASE HealthFailed
  <2>1. CASE StartFailed
    BY <1>17, <2>1, FilesFailed DEF HealthFailed, Launching, At
  <2>2. CASE ~StartFailed
    BY <1>17, <2>2, OpTries DEF Keeps
  <2> QED
    BY <2>1, <2>2
<1>18. CASE PassDone
  BY <1>18, OpPassDone DEF PassDone, Stopped, At, Failed, Over, Keeps
<1>19. CASE ReplaceRoutes
  BY <1>19, OpReplaces DEF ReplaceRoutes, At, Failed, Over, Keeps
<1>20. CASE Accept
  BY <1>20, OpFailed, OpStage DEF Accept, At, Failed, Forget, Keeps
<1>21. CASE RetireClaims
  BY <1>21, OpOver DEF RetireClaims, At, ReleaseClaimsExcept, FinishReservation, Over, Keeps
<1>22. CASE Reject
  BY <1>22, OpOver DEF Reject, At, ReleaseClaimsExcept, FinishReservation, Over, Keeps
<1>23. CASE RestartStops
  BY <1>23, OpOver, OpStage, Stops, Places DEF RestartStops, At, Over, Keeps
<1>24. CASE RestartDone
  BY <1>24, OpOver DEF RestartDone, Stopped, At, Over, Keeps
<1>25. CASE BeginShutdown
  BY <1>25 DEF BeginShutdown, OperationMuFree
<1>26. CASE StopTrees
  BY <1>26 DEF StopTrees, CleanedUp
<1>27. CASE ReleaseHosts
  BY <1>27 DEF ReleaseHosts, CleanedUp
<1>28. CASE UnregisterRoutes
  BY <1>28 DEF UnregisterRoutes, CleanedUp
<1>29. CASE ReleasePorts
  BY <1>29 DEF ReleasePorts, CleanedUp
<1>30. CASE UnregisterStack
  BY <1>30 DEF UnregisterStack, CleanedUp
<1>31. ASSUME NEW n \in Manifests, Reload(n) PROVE FileInv'
  BY <1>31, OpPlan DEF Reload, MayBegin, Planned, Keeps
<1>32. CASE RestartStack
  BY <1>32, OpPlan DEF RestartStack, MayBegin, Planned, Keeps
<1>33. ASSUME NEW ss \in SUBSET Names(manifest) \ {{}}, Restart(ss) PROVE FileInv'
  BY <1>33, OpRestart DEF Restart, MayBegin, Keeps
<1>34. CASE Cancel
  BY <1>34 DEF Cancel
<1>35. CASE ServiceExits
  BY <1>35, Exits, SamePlaces DEF ServiceExits, Keeps
<1>36. CASE UNCHANGED vars
  BY <1>36 DEF vars
<1>37. CASE Operate
  BY <1>37, <1>1, <1>2, <1>3, <1>4, <1>5, <1>6, <1>7, <1>8, <1>9, <1>10, <1>11, <1>12, <1>13,
     <1>14, <1>15, <1>16, <1>17, <1>18, <1>19, <1>20, <1>21, <1>22, <1>23, <1>24
  DEF Operate
<1>38. CASE ShutDown
  BY <1>38, <1>25, <1>26, <1>27, <1>28, <1>29, <1>30 DEF ShutDown
<1>39. CASE Request
  BY <1>39, <1>31, <1>32, <1>33 DEF Request
<1> QED
  BY <1>34, <1>35, <1>36, <1>37, <1>38, <1>39 DEF Next

(* A failed start attempts nothing more. *)
LEMMA AttemptFailed == ShapeInv /\ StageInv /\ AttemptInv /\ StartFailed => AttemptInv'
<1> SUFFICES ASSUME ShapeInv, StageInv, AttemptInv, StartFailed PROVE AttemptInv'
  OBVIOUS
<1> QED
  BY OpStartFailed
  DEF ShapeInv, StageInv, AttemptInv, Changing, Changes, Fields, Over, Failed, NextOne, Keeps

(* A retry attempts the same manifest on another port. *)
LEMMA AttemptMoves ==
  ASSUME ShapeInv, StageInv, ConfigInv, AttemptInv, ReassignPort,
      op.stage \in {"launch", "health"}, op.todo # {}, UNCHANGED manifest
  PROVE  AttemptInv'
<1>1. PICK r \in ReassignAutoPort(Attempt, First) :
        /\ Keeps({"stage", "attempt", "retries", "tree"})
        /\ op'.stage = "launch" /\ op'.attempt = r
  BY OpRetry DEF ShapeInv
<1>2. IsResolved(Attempt) /\ Attempt.config = manifest.config
  BY DEF Attempt, AttemptInv, ConfigInv
<1>3. IsResolved(r) /\ r.config = manifest.config
  BY <1>2, OpReassigned
<1>4. op'.todo = op.todo
  BY <1>1 DEF Keeps, Fields
<1> QED
  BY <1>1, <1>3, <1>4 DEF AttemptInv

(* The steps attempt the installed definitions only. *)
LEMMA NextAttempt ==
  ShapeInv /\ StageInv /\ ConfigInv /\ AttemptInv /\ [Next]_vars =>
    AttemptInv'
<1> SUFFICES ASSUME ShapeInv, StageInv, ConfigInv, AttemptInv, [Next]_vars PROVE AttemptInv'
  OBVIOUS
<1> USE DEF ShapeInv, Fields, StageInv, ConfigInv, AttemptInv, Changing, Changes
<1>1. CASE RegisterStack
  BY <1>1, OpRegisters DEF RegisterStack, At, Over, Keeps
<1>2. CASE Claim
  BY <1>2, OpOver, OpStage DEF Claim, At, AbortStartup, Changing, Changes, Over, Keeps
<1>3. CASE ClaimsHeld
  BY <1>3, OpClaimsHeld DEF ClaimsHeld, At, Changing, Changes, OldServices, Keeps
<1>4. CASE StopReloadService
  BY <1>4, Stops, Places DEF StopReloadService, Keeps
<1>5. CASE InstallReload
  BY <1>5, OpInstalls DEF InstallReload, Stopped, At, Recovers, Passes, Keeps
<1>6. CASE NextPass
  BY <1>6, OpPass, OpFailed DEF NextPass, Stopped, At, Passes, Failed, Keeps
<1>7. CASE RollBack
  BY <1>7, OpRecovers DEF RollBack, Stopped, At, Recovers, Passes, Keeps
<1>8. CASE BlockServices
  BY <1>8, OpStage DEF BlockServices, Stopped, At, HeldDown, Keeps
<1>9. CASE SkipBlocked
  BY <1>9, OpNextOne DEF SkipBlocked, Launching, At, Changing, Changes, NextOne, Keeps
<1>10. CASE FailBeforeStart
  BY <1>10, OpFailed DEF FailBeforeStart, Launching, At, Changing, Changes, Failed, Keeps
<1>11. CASE StartCancelled
  BY <1>11, AttemptFailed DEF StartCancelled
<1>12. CASE PortTaken
  <2>1. CASE StartFailed
    BY <1>12, <2>1, AttemptFailed
  <2>2. CASE ReassignPort
    BY <1>12, <2>2, AttemptMoves DEF PortTaken, Launching, At
  <2> QED
    BY <1>12, <2>1, <2>2 DEF PortTaken
<1>13. CASE Launch
  <2>1. CASE StartFailed
    BY <2>1, AttemptFailed
  <2>2. CASE ~StartFailed
    <3>1. Keeps({"stage", "attempt", "tree"}) /\ op'.stage = "health" /\ op'.attempt = Attempt
      BY <1>13, <2>2, OpLaunch DEF Launch
    <3>2. IsResolved(Attempt) /\ Attempt.config = manifest.config
      BY DEF Attempt
    <3>3. UNCHANGED manifest /\ op.stage = "launch" /\ op.todo # {}
      BY <1>13 DEF Launch, Launching, At
    <3> QED
      BY <3>1, <3>2, <3>3 DEF Keeps
  <2> QED
    BY <2>1, <2>2
<1>14. CASE Healthy
  BY <1>14, OpNextOne DEF Healthy, At, Track, Forget, NextOne, RefreshRoute, Keeps
<1>15. CASE RouteRefreshFailed
  BY <1>15, AttemptFailed DEF RouteRefreshFailed
<1>16. CASE HealthCancelled
  BY <1>16, AttemptFailed DEF HealthCancelled
<1>17. CASE HealthFailed
  <2>1. CASE StartFailed
    BY <1>17, <2>1, AttemptFailed
  <2>2. CASE ReassignPort
    BY <1>17, <2>2, AttemptMoves DEF HealthFailed, Launching, At
  <2> QED
    BY <1>17, <2>1, <2>2, OpHealthFails DEF HealthFailed
<1>18. CASE PassDone
  BY <1>18, OpPassDone DEF PassDone, Stopped, At, Failed, Over, Keeps
<1>19. CASE ReplaceRoutes
  BY <1>19, OpReplaces DEF ReplaceRoutes, At, Failed, Over, Keeps
<1>20. CASE Accept
  BY <1>20, OpFailed, OpStage DEF Accept, At, Failed, Forget, Keeps
<1>21. CASE RetireClaims
  BY <1>21, OpOver DEF RetireClaims, At, ReleaseClaimsExcept, FinishReservation, Over, Keeps
<1>22. CASE Reject
  BY <1>22, OpOver DEF Reject, At, ReleaseClaimsExcept, FinishReservation, Over, Keeps
<1>23. CASE RestartStops
  BY <1>23, OpOver, OpStage, Stops, Places DEF RestartStops, At, Over, Keeps
<1>24. CASE RestartDone
  BY <1>24, OpOver DEF RestartDone, Stopped, At, Over, Keeps
<1>25. CASE BeginShutdown
  BY <1>25 DEF BeginShutdown, OperationMuFree
<1>26. CASE StopTrees
  BY <1>26 DEF StopTrees, CleanedUp
<1>27. CASE ReleaseHosts
  BY <1>27 DEF ReleaseHosts, CleanedUp
<1>28. CASE UnregisterRoutes
  BY <1>28 DEF UnregisterRoutes, CleanedUp
<1>29. CASE ReleasePorts
  BY <1>29 DEF ReleasePorts, CleanedUp
<1>30. CASE UnregisterStack
  BY <1>30 DEF UnregisterStack, CleanedUp
<1>31. ASSUME NEW n \in Manifests, Reload(n) PROVE AttemptInv'
  BY <1>31, OpPlan DEF Reload, MayBegin, Planned, Keeps
<1>32. CASE RestartStack
  BY <1>32, OpPlan DEF RestartStack, MayBegin, Planned, Keeps
<1>33. ASSUME NEW ss \in SUBSET Names(manifest) \ {{}}, Restart(ss) PROVE AttemptInv'
  BY <1>33, OpRestart DEF Restart, MayBegin, Keeps
<1>34. CASE Cancel
  BY <1>34 DEF Cancel
<1>35. CASE ServiceExits
  BY <1>35, Exits, SamePlaces DEF ServiceExits, Keeps
<1>36. CASE UNCHANGED vars
  BY <1>36 DEF vars
<1>37. CASE Operate
  BY <1>37, <1>1, <1>2, <1>3, <1>4, <1>5, <1>6, <1>7, <1>8, <1>9, <1>10, <1>11, <1>12, <1>13,
     <1>14, <1>15, <1>16, <1>17, <1>18, <1>19, <1>20, <1>21, <1>22, <1>23, <1>24
  DEF Operate
<1>38. CASE ShutDown
  BY <1>38, <1>25, <1>26, <1>27, <1>28, <1>29, <1>30 DEF ShutDown
<1>39. CASE Request
  BY <1>39, <1>31, <1>32, <1>33 DEF Request
<1> QED
  BY <1>34, <1>35, <1>36, <1>37, <1>38, <1>39 DEF Next

(* The steps handle services of the installed manifest only. *)
LEMMA NextTodo ==
  ShapeInv /\ StageInv /\ ConfigInv /\ AttemptInv /\ TodoInv /\ [Next]_vars =>
    TodoInv'
<1> SUFFICES ASSUME ShapeInv, StageInv, ConfigInv, AttemptInv, TodoInv, [Next]_vars
             PROVE  TodoInv'
  OBVIOUS
<1> USE DEF ShapeInv, Fields, StageInv, AttemptInv, TodoInv, Names
<1>1. CASE RegisterStack
  BY <1>1, OpRegisters DEF RegisterStack, At, Over, Keeps
<1>2. CASE Claim
  BY <1>2, OpOver, OpStage DEF Claim, At, AbortStartup, Changing, Changes, Over, Keeps
<1>3. CASE ClaimsHeld
  BY <1>3, OpClaimsHeld DEF ClaimsHeld, At, Changing, Changes, OldServices, Keeps
<1>4. CASE StopReloadService
  BY <1>4, Stops, Places DEF StopReloadService, Keeps
<1>5. CASE InstallReload
  BY <1>5, OpInstalls DEF InstallReload, Stopped, At, Recovers, Passes, Keeps
<1>6. CASE NextPass
  BY <1>6, OpPass, OpFailed DEF NextPass, Stopped, At, Passes, Failed, Keeps
<1>7. CASE RollBack
  BY <1>7, OpRecovers DEF RollBack, Stopped, At, Recovers, Passes, Keeps
<1>8. CASE BlockServices
  BY <1>8, OpStage DEF BlockServices, Stopped, At, HeldDown, Keeps
<1>9. CASE SkipBlocked
  BY <1>9, OpNextOne DEF SkipBlocked, Launching, At, Changing, Changes, NextOne, Keeps
<1>10. CASE FailBeforeStart
  BY <1>10, OpFailed DEF FailBeforeStart, Launching, At, Changing, Changes, Failed, Keeps
<1>11. CASE StartCancelled
  BY <1>11, OpStartFailed
  DEF StartCancelled, Launching, At, Failed, NextOne, Changing, Over, Keeps
<1>12. CASE PortTaken
  BY <1>12, OpStartFailed, OpRetry
  DEF PortTaken, Launching, At, CanCollide, MayRetry, AllowPortReassignment, ReassignAutoPort,
      Attempt, Changing, Failed, NextOne, Over, Keeps
<1>13. CASE Launch
  BY <1>13, OpStartFailed, OpLaunch
  DEF Launch, Launching, At, Attempt, Environment, Changing, Failed, NextOne, Over, Keeps
<1>14. CASE Healthy
  BY <1>14, OpNextOne DEF Healthy, At, Track, Forget, NextOne, RefreshRoute, Keeps
<1>15. CASE RouteRefreshFailed
  BY <1>15, OpStartFailed, OpUnrouted
  DEF RouteRefreshFailed, At, Forget, RefreshRoute, KeepUnrouted, Changing, Failed, NextOne,
      SameSpent, Over, Keeps
<1>16. CASE HealthCancelled
  BY <1>16, OpStartFailed
  DEF HealthCancelled, At, Track, Forget, Changing, Failed, NextOne, Over, Keeps
<1>17. CASE HealthFailed
  BY <1>17, OpStartFailed, OpRetry, OpHealthFails
  DEF HealthFailed, At, Forget, SameSpent, MayRetry, AllowPortReassignment, ReassignAutoPort,
      Attempt, Changing, Failed, NextOne, Over, Keeps
<1>18. CASE PassDone
  BY <1>18, OpPassDone DEF PassDone, Stopped, At, Failed, Over, Keeps
<1>19. CASE ReplaceRoutes
  BY <1>19, OpReplaces DEF ReplaceRoutes, At, Failed, Over, Keeps
<1>20. CASE Accept
  BY <1>20, OpFailed, OpStage DEF Accept, At, Failed, Forget, Keeps
<1>21. CASE RetireClaims
  BY <1>21, OpOver DEF RetireClaims, At, ReleaseClaimsExcept, FinishReservation, Over, Keeps
<1>22. CASE Reject
  BY <1>22, OpOver DEF Reject, At, ReleaseClaimsExcept, FinishReservation, Over, Keeps
<1>23. CASE RestartStops
  BY <1>23, OpOver, OpStage, Stops, Places DEF RestartStops, At, Over, Keeps
<1>24. CASE RestartDone
  BY <1>24, OpOver DEF RestartDone, Stopped, At, Over, Keeps
<1>25. CASE BeginShutdown
  BY <1>25 DEF BeginShutdown, OperationMuFree
<1>26. CASE StopTrees
  BY <1>26 DEF StopTrees, CleanedUp
<1>27. CASE ReleaseHosts
  BY <1>27 DEF ReleaseHosts, CleanedUp
<1>28. CASE UnregisterRoutes
  BY <1>28 DEF UnregisterRoutes, CleanedUp
<1>29. CASE ReleasePorts
  BY <1>29 DEF ReleasePorts, CleanedUp
<1>30. CASE UnregisterStack
  BY <1>30 DEF UnregisterStack, CleanedUp
<1>31. ASSUME NEW n \in Manifests, Reload(n) PROVE TodoInv'
  BY <1>31, OpPlan DEF Reload, MayBegin, Planned, Keeps
<1>32. CASE RestartStack
  BY <1>32, OpPlan DEF RestartStack, MayBegin, Planned, Keeps
<1>33. ASSUME NEW ss \in SUBSET Names(manifest) \ {{}}, Restart(ss) PROVE TodoInv'
  BY <1>33, OpRestart DEF Restart, MayBegin, Keeps
<1>34. CASE Cancel
  BY <1>34 DEF Cancel
<1>35. CASE ServiceExits
  BY <1>35, Exits, SamePlaces DEF ServiceExits, Keeps
<1>36. CASE UNCHANGED vars
  BY <1>36 DEF vars
<1>37. CASE Operate
  BY <1>37, <1>1, <1>2, <1>3, <1>4, <1>5, <1>6, <1>7, <1>8, <1>9, <1>10, <1>11, <1>12, <1>13,
     <1>14, <1>15, <1>16, <1>17, <1>18, <1>19, <1>20, <1>21, <1>22, <1>23, <1>24
  DEF Operate
<1>38. CASE ShutDown
  BY <1>38, <1>25, <1>26, <1>27, <1>28, <1>29, <1>30 DEF ShutDown
<1>39. CASE Request
  BY <1>39, <1>31, <1>32, <1>33 DEF Request
<1> QED
  BY <1>34, <1>35, <1>36, <1>37, <1>38, <1>39 DEF Next

(* A failed start leaves the plan of the change alone. *)
LEMMA PlanFailed == ShapeInv /\ StageInv /\ PlanInv /\ StartFailed => PlanInv'
<1> SUFFICES ASSUME ShapeInv, StageInv, PlanInv, StartFailed PROVE PlanInv'
  OBVIOUS
<1>1. op'.kind \in Changes => op.kind = op'.kind /\ op'.previous = op.previous
    /\ op'.candidate = op.candidate /\ op'.affected = op.affected
  BY OpStartFailed
  DEF ShapeInv, StageInv, Changing, Changes, Fields, Over, Failed, NextOne, Keeps
<1> QED
  BY <1>1 DEF PlanInv, Changing

(* So does a retry. *)
LEMMA PlanMoves == ShapeInv /\ PlanInv /\ ReassignPort => PlanInv'
  BY OpRetry DEF ShapeInv, PlanInv, Changing, Changes, Fields, Keeps

(* The steps only ever add to the affected services. *)
LEMMA NextPlan == ShapeInv /\ StageInv /\ PlanInv /\ [Next]_vars => PlanInv'
<1> SUFFICES ASSUME ShapeInv, StageInv, PlanInv, [Next]_vars PROVE PlanInv'
  OBVIOUS
<1> USE DEF ShapeInv, Fields, StageInv, PlanInv, Changing, Changes
<1>1. CASE RegisterStack
  BY <1>1, OpRegisters DEF RegisterStack, At, Over, Keeps
<1>2. CASE Claim
  BY <1>2, OpOver, OpStage DEF Claim, At, AbortStartup, Changing, Changes, Over, Keeps
<1>3. CASE ClaimsHeld
  BY <1>3, OpClaimsHeld DEF ClaimsHeld, At, Changing, Changes, OldServices, Keeps
<1>4. CASE StopReloadService
  BY <1>4, Stops, Places DEF StopReloadService, Keeps
<1>5. CASE InstallReload
  BY <1>5, OpInstalls DEF InstallReload, Stopped, At, Recovers, Passes, Keeps
<1>6. CASE NextPass
  BY <1>6, OpPass, OpFailed DEF NextPass, Stopped, At, Passes, Failed, Keeps
<1>7. CASE RollBack
  BY <1>7, OpRecovers DEF RollBack, Stopped, At, Recovers, Passes, Keeps
<1>8. CASE BlockServices
  BY <1>8, OpStage DEF BlockServices, Stopped, At, HeldDown, Keeps
<1>9. CASE SkipBlocked
  BY <1>9, OpNextOne DEF SkipBlocked, Launching, At, Changing, Changes, NextOne, Keeps
<1>10. CASE FailBeforeStart
  BY <1>10, OpFailed DEF FailBeforeStart, Launching, At, Changing, Changes, Failed, Keeps
<1>11. CASE StartCancelled
  BY <1>11, PlanFailed DEF StartCancelled
<1>12. CASE PortTaken
  BY <1>12, PlanFailed, PlanMoves DEF PortTaken
<1>13. CASE Launch
  BY <1>13, PlanFailed, OpLaunch DEF Launch, Keeps
<1>14. CASE Healthy
  BY <1>14, OpNextOne DEF Healthy, At, Track, Forget, NextOne, RefreshRoute, Keeps
<1>15. CASE RouteRefreshFailed
  BY <1>15, PlanFailed DEF RouteRefreshFailed
<1>16. CASE HealthCancelled
  BY <1>16, PlanFailed DEF HealthCancelled
<1>17. CASE HealthFailed
  BY <1>17, PlanFailed, PlanMoves, OpHealthFails DEF HealthFailed
<1>18. CASE PassDone
  <2>1. CASE op.kind # "boot" /\ UNCHANGED life /\ Failed /\ ~op.recovering
    BY <1>18, <2>1 DEF PassDone, Failed, Keeps
  <2>2. CASE Keeps({"stage", "affected", "todo"}) /\ op.affected \subseteq op'.affected
    BY <1>18, <2>2 DEF PassDone, Keeps
  <2> QED
    BY <1>18, <2>1, <2>2, OpPassDone, Covers DEF Over, Keeps
<1>19. CASE ReplaceRoutes
  BY <1>19, OpReplaces DEF ReplaceRoutes, At, Failed, Over, Keeps
<1>20. CASE Accept
  BY <1>20, OpFailed, OpStage DEF Accept, At, Failed, Forget, Keeps
<1>21. CASE RetireClaims
  BY <1>21, OpOver DEF RetireClaims, At, ReleaseClaimsExcept, FinishReservation, Over, Keeps
<1>22. CASE Reject
  BY <1>22, OpOver DEF Reject, At, ReleaseClaimsExcept, FinishReservation, Over, Keeps
<1>23. CASE RestartStops
  BY <1>23, OpOver, OpStage, Stops, Places DEF RestartStops, At, Over, Keeps
<1>24. CASE RestartDone
  BY <1>24, OpOver DEF RestartDone, Stopped, At, Over, Keeps
<1>25. CASE BeginShutdown
  BY <1>25 DEF BeginShutdown, OperationMuFree
<1>26. CASE StopTrees
  BY <1>26 DEF StopTrees, CleanedUp
<1>27. CASE ReleaseHosts
  BY <1>27 DEF ReleaseHosts, CleanedUp
<1>28. CASE UnregisterRoutes
  BY <1>28 DEF UnregisterRoutes, CleanedUp
<1>29. CASE ReleasePorts
  BY <1>29 DEF ReleasePorts, CleanedUp
<1>30. CASE UnregisterStack
  BY <1>30 DEF UnregisterStack, CleanedUp
<1>31. ASSUME NEW n \in Manifests, Reload(n) PROVE PlanInv'
  <2>1. CASE UNCHANGED op
    BY <2>1
  <2>2. CASE \E candidate \in resolveReloadPorts(n, manifest) :
      Plan("reload", n, candidate, affectedReloadServices(manifest, candidate))
    <3>1. PICK candidate : Planned("reload", n, candidate,
                           affectedReloadServices(manifest, candidate))
      BY <2>2, OpPlan
    <3> QED
      BY <3>1, Covers, OnlyAffected DEF Planned
  <2> QED
    BY <1>31, <2>1, <2>2 DEF Reload
<1>32. CASE RestartStack
  <2>1. PICK candidate : Planned("restartStack", configured, candidate,
                         affectedReloadServices(manifest, candidate) \cup Names(candidate))
    BY <1>32, OpPlan DEF RestartStack
  <2> QED
    BY <2>1, Covers, OnlyAffected DEF Planned
<1>33. ASSUME NEW ss \in SUBSET Names(manifest) \ {{}}, Restart(ss) PROVE PlanInv'
  BY <1>33, OpRestart DEF Restart, MayBegin, Keeps
<1>34. CASE Cancel
  BY <1>34 DEF Cancel
<1>35. CASE ServiceExits
  BY <1>35, Exits, SamePlaces DEF ServiceExits, Keeps
<1>36. CASE UNCHANGED vars
  BY <1>36 DEF vars
<1>37. CASE Operate
  BY <1>37, <1>1, <1>2, <1>3, <1>4, <1>5, <1>6, <1>7, <1>8, <1>9, <1>10, <1>11, <1>12, <1>13,
     <1>14, <1>15, <1>16, <1>17, <1>18, <1>19, <1>20, <1>21, <1>22, <1>23, <1>24
  DEF Operate
<1>38. CASE ShutDown
  BY <1>38, <1>25, <1>26, <1>27, <1>28, <1>29, <1>30 DEF ShutDown
<1>39. CASE Request
  BY <1>39, <1>31, <1>32, <1>33 DEF Request
<1> QED
  BY <1>34, <1>35, <1>36, <1>37, <1>38, <1>39 DEF Next

(* The shutdown comes after the operation, and goes through its stages. *)
LEMMA NextLife == ShapeInv /\ StageInv /\ LifeInv /\ [Next]_vars => LifeInv'
<1> SUFFICES ASSUME ShapeInv, StageInv, LifeInv, [Next]_vars PROVE LifeInv'
  OBVIOUS
<1> USE DEF ShapeInv, Fields, StageInv, LifeInv, Changing, Changes
<1>1. CASE RegisterStack
  BY <1>1, OpRegisters DEF RegisterStack, At, Over, Keeps
<1>2. CASE Claim
  BY <1>2, OpOver, OpStage DEF Claim, At, AbortStartup, Changing, Changes, Over, Keeps
<1>3. CASE ClaimsHeld
  BY <1>3, OpClaimsHeld DEF ClaimsHeld, At, Changing, Changes, OldServices, Keeps
<1>4. CASE StopReloadService
  <2>1. op.kind # "none" /\ UNCHANGED <<life, cleanup>>
    BY <1>4 DEF StopReloadService, At
  <2> QED
    BY <2>1
<1>5. CASE InstallReload
  BY <1>5, OpInstalls DEF InstallReload, Stopped, At, Recovers, Passes, Keeps
<1>6. CASE NextPass
  BY <1>6, OpPass, OpFailed DEF NextPass, Stopped, At, Passes, Failed, Keeps
<1>7. CASE RollBack
  BY <1>7, OpRecovers DEF RollBack, Stopped, At, Recovers, Passes, Keeps
<1>8. CASE BlockServices
  BY <1>8, OpStage DEF BlockServices, Stopped, At, HeldDown, Keeps
<1>9. CASE SkipBlocked
  BY <1>9, OpNextOne DEF SkipBlocked, Launching, At, Changing, Changes, NextOne, Keeps
<1>10. CASE FailBeforeStart
  BY <1>10, OpFailed DEF FailBeforeStart, Launching, At, Changing, Changes, Failed, Keeps
<1>11. CASE StartCancelled
  BY <1>11, OpStartFailed
  DEF StartCancelled, Launching, At, Failed, NextOne, Changing, Over, Keeps
<1>12. CASE PortTaken
  BY <1>12, OpStartFailed, OpRetry
  DEF PortTaken, Launching, At, CanCollide, MayRetry, AllowPortReassignment, ReassignAutoPort,
      Attempt, Changing, Failed, NextOne, Over, Keeps
<1>13. CASE Launch
  BY <1>13, OpStartFailed, OpLaunch
  DEF Launch, Launching, At, Attempt, Environment, Changing, Failed, NextOne, Over, Keeps
<1>14. CASE Healthy
  <2>1. op.kind # "none" /\ UNCHANGED <<life, cleanup>>
    BY <1>14 DEF Healthy, At
  <2> QED
    BY <2>1
<1>15. CASE RouteRefreshFailed
  BY <1>15, OpStartFailed, OpUnrouted
  DEF RouteRefreshFailed, At, Forget, RefreshRoute, KeepUnrouted, Changing, Failed, NextOne,
      SameSpent, Over, Keeps
<1>16. CASE HealthCancelled
  BY <1>16, OpStartFailed
  DEF HealthCancelled, At, Track, Forget, Changing, Failed, NextOne, Over, Keeps
<1>17. CASE HealthFailed
  BY <1>17, OpStartFailed, OpRetry, OpHealthFails
  DEF HealthFailed, At, Forget, SameSpent, MayRetry, AllowPortReassignment, ReassignAutoPort,
      Attempt, Changing, Failed, NextOne, Over, Keeps
<1>18. CASE PassDone
  BY <1>18, OpPassDone DEF PassDone, Stopped, At, Failed, Over, Keeps
<1>19. CASE ReplaceRoutes
  BY <1>19, OpReplaces DEF ReplaceRoutes, At, Failed, Over, Keeps
<1>20. CASE Accept
  <2>1. op.kind # "none" /\ UNCHANGED <<life, cleanup>>
    BY <1>20 DEF Accept, At
  <2> QED
    BY <2>1
<1>21. CASE RetireClaims
  BY <1>21, OpOver DEF RetireClaims, At, ReleaseClaimsExcept, FinishReservation, Over, Keeps
<1>22. CASE Reject
  BY <1>22, OpOver DEF Reject, At, ReleaseClaimsExcept, FinishReservation, Over, Keeps
<1>23. CASE RestartStops
  <2>1. op.kind # "none" /\ UNCHANGED <<life, cleanup>>
    BY <1>23 DEF RestartStops, At
  <2> QED
    BY <2>1
<1>24. CASE RestartDone
  BY <1>24, OpOver DEF RestartDone, Stopped, At, Over, Keeps
<1>25. CASE BeginShutdown
  BY <1>25 DEF BeginShutdown, OperationMuFree
<1>26. CASE StopTrees
  <2>1. cleanup.stage = "trees" /\ cleanup'.stage = "hosts" /\ life = "stopping"
      /\ UNCHANGED life
    BY <1>26 DEF StopTrees, CleanedUp
  <2> QED
    BY <1>26, <2>1, Halts
<1>27. CASE ReleaseHosts
  BY <1>27 DEF ReleaseHosts, CleanedUp
<1>28. CASE UnregisterRoutes
  BY <1>28 DEF UnregisterRoutes, CleanedUp
<1>29. CASE ReleasePorts
  BY <1>29 DEF ReleasePorts, CleanedUp
<1>30. CASE UnregisterStack
  BY <1>30 DEF UnregisterStack, CleanedUp
<1>31. ASSUME NEW n \in Manifests, Reload(n) PROVE LifeInv'
  BY <1>31, OpPlan DEF Reload, MayBegin, Planned, Keeps
<1>32. CASE RestartStack
  BY <1>32, OpPlan DEF RestartStack, MayBegin, Planned, Keeps
<1>33. ASSUME NEW ss \in SUBSET Names(manifest) \ {{}}, Restart(ss) PROVE LifeInv'
  BY <1>33, OpRestart DEF Restart, MayBegin, Keeps
<1>34. CASE Cancel
  BY <1>34 DEF Cancel
<1>35. CASE ServiceExits
  BY <1>35, Exits, SamePlaces DEF ServiceExits, Keeps
<1>36. CASE UNCHANGED vars
  BY <1>36 DEF vars
<1>37. CASE Operate
  BY <1>37, <1>1, <1>2, <1>3, <1>4, <1>5, <1>6, <1>7, <1>8, <1>9, <1>10, <1>11, <1>12, <1>13,
     <1>14, <1>15, <1>16, <1>17, <1>18, <1>19, <1>20, <1>21, <1>22, <1>23, <1>24
  DEF Operate
<1>38. CASE ShutDown
  BY <1>38, <1>25, <1>26, <1>27, <1>28, <1>29, <1>30 DEF ShutDown
<1>39. CASE Request
  BY <1>39, <1>31, <1>32, <1>33 DEF Request
<1> QED
  BY <1>34, <1>35, <1>36, <1>37, <1>38, <1>39 DEF Next

(* No step leaves a service of another manifest running. *)
LEMMA NextRuns ==
  ShapeInv /\ StageInv /\ ConfigInv /\ AttemptInv /\ TodoInv /\ PlanInv /\ OpTreeInv /\ DownInv
      /\ RunsInv /\ [Next]_vars => RunsInv'
<1> SUFFICES ASSUME ShapeInv, StageInv, ConfigInv, AttemptInv, TodoInv, PlanInv, OpTreeInv,
    DownInv, RunsInv, [Next]_vars
             PROVE  RunsInv'
  OBVIOUS
<1> USE DEF RunsInv
<1>1. CASE UNCHANGED <<manifest, started>>
  BY <1>1 DEF Names
<1>2. ASSUME NEW t \in Service, UNCHANGED manifest, \A s \in Service \ {t} :
    UNCHANGED started[s],
             Live(started'[t]) => Live(started[t]) /\ started'[t].env = started[t].env
      PROVE  RunsInv'
  BY <1>2 DEF Names
<1>3. op.todo # {} /\ op.todo \subseteq Names(manifest) => First \in op.todo
    /\ Last \in op.todo /\ op.todo \subseteq Service
  BY Places, StackRuntimeAssumption DEF ConfigInv, IsResolved, Names
<1>4. CASE StopReloadService
  <2>1. op.todo # {} /\ op.todo \subseteq Names(manifest) /\ UNCHANGED manifest
    BY <1>4 DEF StopReloadService, TodoInv
  <2>2. PICK leaks \in BOOLEAN : StopTracked(Last, leaks)
    BY <1>4 DEF StopReloadService
  <2> QED
    BY <1>2, <1>3, <2>1, <2>2, Stops
<1>5. CASE RestartStops
  <2>1. op.todo # {} /\ op.todo \subseteq Names(manifest) /\ UNCHANGED manifest
    BY <1>5 DEF RestartStops, At, TodoInv
  <2>2. PICK leaks \in BOOLEAN : StopTracked(First, leaks)
    BY <1>5 DEF RestartStops
  <2> QED
    BY <1>2, <1>3, <2>1, <2>2, Stops
<1>6. CASE InstallReload
  <2>1. At("stop") /\ op.todo = {} /\ UNCHANGED started
    BY <1>6 DEF InstallReload, Stopped
  <2>2. Changing /\ manifest = op.previous /\ manifest' \in {manifest, op.candidate}
    BY <1>6, <2>1, OpInstalls DEF StageInv, ConfigInv, ShapeInv, Recovers, At, Changing, Changes
  <2>3. Down(op.affected \cap Names(manifest))
    BY <2>1 DEF DownInv, At
  <2> QED
    BY <2>1, <2>2, <2>3 DEF PlanInv, Down, Names
<1>7. CASE RollBack
  <2>1. At("undo") /\ op.todo = {} /\ UNCHANGED started
    BY <1>7 DEF RollBack, Stopped
  <2>2. Changing /\ manifest.config = op.candidate.config
      /\ manifest' \in {manifest, op.previous}
    BY <1>7, <2>1, OpRecovers
    DEF RollBack, StageInv, ConfigInv, ShapeInv, Recovers, At, Changing, Changes
  <2>3. Down(op.affected \cap Names(manifest))
    BY <2>1 DEF DownInv, At
  <2> QED
    BY <2>1, <2>2, <2>3 DEF PlanInv, Down, Names
<1>8. ASSUME At("health") PROVE First \in op.todo /\ First \in Service
                                /\ First \in Names(manifest)
                                /\ op.tree.env.definition = manifest.config[First]
  BY <1>3, <1>8 DEF At, StageInv, TodoInv, OpTreeInv
<1>9. CASE Healthy
  <2>1. started' = [started EXCEPT ![First] = op.tree] /\ manifest' = op.attempt /\ At("health")
    BY <1>9 DEF Healthy, Track
  <2>2. manifest'.config = manifest.config
    BY <2>1 DEF AttemptInv, At
  <2> QED
    BY <1>8, <2>1, <2>2 DEF ShapeInv, Names
<1>10. CASE HealthCancelled
  <2>1. started' = [started EXCEPT ![First] = op.tree] /\ UNCHANGED manifest /\ At("health")
    BY <1>10 DEF HealthCancelled, Track
  <2> QED
    BY <1>8, <2>1 DEF ShapeInv, Names
<1>11. CASE RouteRefreshFailed
  <2>1. UNCHANGED manifest /\ At("health")
    BY <1>11 DEF RouteRefreshFailed
  <2>2. PICK tree : tree.state \in {"leaked", "stopped"}
                    /\ started' = [started EXCEPT ![First] = tree]
    BY <1>11, OpUnrouted
  <2> QED
    BY <1>2, <1>8, <2>1, <2>2 DEF ShapeInv, Live
<1>12. CASE HealthFailed
  <2>1. UNCHANGED manifest /\ At("health")
    BY <1>12 DEF HealthFailed
  <2>2. CASE started' = [started EXCEPT ![First] = [op.tree EXCEPT !.state = "exited"]]
    BY <1>2, <1>8, <2>1, <2>2 DEF ShapeInv, Live, IsTree
  <2> QED
    BY <1>1, <1>12, <2>1, <2>2, OpHealthFails
<1>13. CASE Accept
  BY <1>13 DEF Accept, Live, NoTree, Names
<1>14. CASE StopTrees
  BY <1>14, Halts DEF StopTrees
<1>15. CASE ServiceExits
  BY <1>15, Exits DEF ServiceExits, Names
<1> QED
  BY <1>1, <1>4, <1>5, <1>6, <1>7, <1>9, <1>10, <1>11, <1>12, <1>13, <1>14, <1>15, Frames

(* No step loses sight of a tree that is alive. *)
LEMMA NextGone ==
  ShapeInv /\ StageInv /\ ConfigInv /\ TodoInv /\ RunsInv /\ OpTreeInv /\ DownInv /\ GoneInv
      /\ [Next]_vars => GoneInv'
<1> SUFFICES ASSUME ShapeInv, StageInv, ConfigInv, TodoInv, RunsInv, OpTreeInv, DownInv,
                    GoneInv, [Next]_vars
             PROVE  GoneInv'
  OBVIOUS
<1> USE DEF GoneInv
<1>1. op.todo # {} /\ op.todo \subseteq Names(manifest) => First \in op.todo
    /\ Last \in op.todo /\ op.todo \subseteq Service
  BY Places, StackRuntimeAssumption DEF ConfigInv, IsResolved, Names
<1>2. CASE StopReloadService
  <2>1. PICK leaks \in BOOLEAN : StopTracked(Last, leaks)
    BY <1>2 DEF StopReloadService
  <2> QED
    BY <1>1, <1>2, <2>1, Stops DEF StopReloadService, TodoInv
<1>3. CASE RestartStops
  <2>1. PICK leaks \in BOOLEAN : StopTracked(First, leaks)
    BY <1>3 DEF RestartStops
  <2> QED
    BY <1>1, <1>3, <2>1, Stops DEF RestartStops, TodoInv, At
<1>4. ASSUME At("health") PROVE ~Live(started[First])
  BY <1>1, <1>4 DEF At, StageInv, TodoInv, DownInv, Down
<1>5. ASSUME At("health"), Forget({started[First]}) PROVE GoneInv'
  BY <1>4, <1>5 DEF Forget
<1>6. CASE Healthy
  BY <1>5, <1>6 DEF Healthy, Track
<1>7. CASE HealthCancelled
  BY <1>5, <1>7 DEF HealthCancelled, Track
<1>8. CASE RouteRefreshFailed
  BY <1>5, <1>8, OpUnrouted DEF RouteRefreshFailed
<1>9. CASE HealthFailed
  <2>1. CASE forgotten' = forgotten \cup {[op.tree EXCEPT !.state = "leaked"]}
    BY <2>1 DEF ShapeInv, IsTree, Live
  <2> QED
    BY <1>5, <1>9, <2>1, OpHealthFails DEF HealthFailed
<1>10. CASE Accept
  BY <1>10 DEF Accept, Forget, RunsInv
<1> QED
  BY <1>2, <1>3, <1>6, <1>7, <1>8, <1>9, <1>10, Frames

(* After a failed start the operation holds no tree. *)
LEMMA OpTreeFailed == ShapeInv /\ StageInv /\ StartFailed => OpTreeInv'
<1> SUFFICES ASSUME ShapeInv, StageInv, StartFailed PROVE OpTreeInv'
  OBVIOUS
<1>1. op'.tree = NoTree /\ op'.stage # "health"
  BY OpStartFailed DEF ShapeInv, StageInv, Over, NextOne, Failed, Keeps
<1> QED
  BY <1>1 DEF OpTreeInv, Live, NoTree

(* The tree an operation holds is the one it waits for. *)
LEMMA NextOpTree == ShapeInv /\ StageInv /\ AttemptInv /\ OpTreeInv /\ [Next]_vars => OpTreeInv'
<1> SUFFICES ASSUME ShapeInv, StageInv, AttemptInv, OpTreeInv, [Next]_vars PROVE OpTreeInv'
  OBVIOUS
<1> USE DEF ShapeInv, Fields, StageInv, AttemptInv, OpTreeInv, Changing, Changes, Live, NoTree
<1>1. CASE RegisterStack
  <2>1. op.stage = "register" /\ op'.stage \in {"idle", "claim"}
    BY <1>1, OpRegisters DEF RegisterStack, At, Over
  <2>2. op'.tree \in {op.tree, NoTree}
    BY <1>1, OpRegisters DEF Over, Keeps
  <2> QED
    BY <2>1, <2>2
<1>2. CASE Claim
  BY <1>2, SamePlaces, OpOver, OpStage
  DEF Claim, At, AbortStartup, Changing, Changes, Over, Keeps
<1>3. CASE ClaimsHeld
  BY <1>3, SamePlaces, OpClaimsHeld DEF ClaimsHeld, At, Changing, Changes, OldServices, Keeps
<1>4. CASE StopReloadService
  BY <1>4, SamePlaces, Stops, Places DEF StopReloadService, Keeps
<1>5. CASE InstallReload
  BY <1>5, SamePlaces, OpInstalls DEF InstallReload, Stopped, At, Recovers, Passes, Keeps
<1>6. CASE NextPass
  BY <1>6, SamePlaces, OpPass, OpFailed DEF NextPass, Stopped, At, Passes, Failed, Keeps
<1>7. CASE RollBack
  BY <1>7, SamePlaces, OpRecovers DEF RollBack, Stopped, At, Recovers, Passes, Keeps
<1>8. CASE BlockServices
  BY <1>8, SamePlaces, OpStage DEF BlockServices, Stopped, At, HeldDown, Keeps
<1>9. CASE SkipBlocked
  BY <1>9, SamePlaces, OpNextOne
  DEF SkipBlocked, Launching, At, Changing, Changes, NextOne, Keeps
<1>10. CASE FailBeforeStart
  BY <1>10, SamePlaces, OpFailed
  DEF FailBeforeStart, Launching, At, Changing, Changes, Failed, Keeps
<1>11. CASE StartCancelled
  BY <1>11, OpTreeFailed DEF StartCancelled
<1>12. CASE PortTaken
  BY <1>12, OpTreeFailed, OpRetry DEF PortTaken
<1>13. CASE Launch
  <2>1. CASE op' = [op EXCEPT !.stage = "health", !.attempt = Attempt,
                    !.tree = [env |-> Environment(Attempt, First), state |-> "running"]]
    <3>1. op'.stage = "health" /\ op'.tree.env.definition = Attempt.config[First]
        /\ op'.todo = op.todo
      BY <2>1, OpLaunch DEF Keeps, Environment
    <3>2. First' = First /\ UNCHANGED manifest
      BY <1>13, <3>1, SamePlaces DEF Launch
    <3>3. Attempt.config = manifest.config
      BY DEF Attempt
    <3> QED
      BY <3>1, <3>2, <3>3
  <2> QED
    BY <1>13, <2>1, OpTreeFailed DEF Launch
<1>14. CASE Healthy
  BY <1>14, SamePlaces, OpNextOne DEF Healthy, At, Track, Forget, NextOne, RefreshRoute, Keeps
<1>15. CASE RouteRefreshFailed
  BY <1>15, OpTreeFailed DEF RouteRefreshFailed
<1>16. CASE HealthCancelled
  BY <1>16, OpTreeFailed DEF HealthCancelled
<1>17. CASE HealthFailed
  BY <1>17, OpTreeFailed, OpRetry, OpHealthFails DEF HealthFailed
<1>18. CASE PassDone
  BY <1>18, SamePlaces, OpPassDone DEF PassDone, Stopped, At, Failed, Over, Keeps
<1>19. CASE ReplaceRoutes
  BY <1>19, SamePlaces, OpReplaces DEF ReplaceRoutes, At, Failed, Over, Keeps
<1>20. CASE Accept
  BY <1>20, SamePlaces, OpFailed, OpStage DEF Accept, At, Failed, Forget, Keeps
<1>21. CASE RetireClaims
  BY <1>21, SamePlaces, OpOver
  DEF RetireClaims, At, ReleaseClaimsExcept, FinishReservation, Over, Keeps
<1>22. CASE Reject
  BY <1>22, SamePlaces, OpOver
  DEF Reject, At, ReleaseClaimsExcept, FinishReservation, Over, Keeps
<1>23. CASE RestartStops
  BY <1>23, SamePlaces, OpOver, OpStage, Stops, Places DEF RestartStops, At, Over, Keeps
<1>24. CASE RestartDone
  BY <1>24, SamePlaces, OpOver DEF RestartDone, Stopped, At, Over, Keeps
<1>25. CASE BeginShutdown
  BY <1>25, SamePlaces DEF BeginShutdown, OperationMuFree
<1>26. CASE StopTrees
  BY <1>26, SamePlaces DEF StopTrees, CleanedUp
<1>27. CASE ReleaseHosts
  BY <1>27, SamePlaces DEF ReleaseHosts, CleanedUp
<1>28. CASE UnregisterRoutes
  BY <1>28, SamePlaces DEF UnregisterRoutes, CleanedUp
<1>29. CASE ReleasePorts
  BY <1>29, SamePlaces DEF ReleasePorts, CleanedUp
<1>30. CASE UnregisterStack
  BY <1>30, SamePlaces DEF UnregisterStack, CleanedUp
<1>31. ASSUME NEW n \in Manifests, Reload(n) PROVE OpTreeInv'
  BY <1>31, SamePlaces, OpPlan DEF Reload, MayBegin, Planned, Keeps
<1>32. CASE RestartStack
  BY <1>32, SamePlaces, OpPlan DEF RestartStack, MayBegin, Planned, Keeps
<1>33. ASSUME NEW ss \in SUBSET Names(manifest) \ {{}}, Restart(ss) PROVE OpTreeInv'
  <2>1. op'.stage = "restart" /\ op'.tree = NoTree
    BY <1>33, OpRestart DEF Restart
  <2> QED
    BY <2>1
<1>34. CASE Cancel
  BY <1>34, SamePlaces DEF Cancel
<1>35. CASE ServiceExits
  BY <1>35, SamePlaces, Exits DEF ServiceExits, Keeps
<1>36. CASE UNCHANGED vars
  BY <1>36, SamePlaces DEF vars
<1>37. CASE Operate
  BY <1>37, <1>1, <1>2, <1>3, <1>4, <1>5, <1>6, <1>7, <1>8, <1>9, <1>10, <1>11, <1>12, <1>13,
     <1>14, <1>15, <1>16, <1>17, <1>18, <1>19, <1>20, <1>21, <1>22, <1>23, <1>24
  DEF Operate
<1>38. CASE ShutDown
  BY <1>38, <1>25, <1>26, <1>27, <1>28, <1>29, <1>30 DEF ShutDown
<1>39. CASE Request
  BY <1>39, <1>31, <1>32, <1>33 DEF Request
<1> QED
  BY <1>34, <1>35, <1>36, <1>37, <1>38, <1>39 DEF Next

(* After a failed start what was down is down. *)
LEMMA DownFailed ==
  ASSUME ShapeInv, StageInv, StartFailed, UNCHANGED manifest, op.todo \subseteq Service,
         op.kind = "boot" => \A s \in op.todo \ {First} : ~Live(started'[s])
  PROVE  DownInv'
<1>1. \/ op'.kind = "none" /\ op'.stage = "idle"
      \/ op'.kind = "boot" /\ op'.stage = "launch" /\ op.kind = "boot"
           /\ op'.todo = op.todo \ {First}
      \/ /\ op'.kind = op.kind /\ op.kind \in Changes /\ op'.stage \in {"giveUp", "undo"}
         /\ op'.todo = op.affected \cap Names(manifest) /\ op'.affected = op.affected
              /\ UNCHANGED manifest
  BY OpStartFailed DEF ShapeInv, StageInv, Changing, Over, NextOne, Failed, Keeps, Fields
<1> QED
  BY <1>1 DEF DownInv, Down, Changes

(* The steps launch only what is down. *)
LEMMA NextDown ==
  ShapeInv /\ StageInv /\ ConfigInv /\ AttemptInv /\ TodoInv /\ RunsInv /\ LifeInv /\ DownInv
    /\ [Next]_vars =>
    DownInv'
<1> SUFFICES ASSUME ShapeInv, StageInv, ConfigInv, AttemptInv, TodoInv, RunsInv, LifeInv,
                    DownInv, [Next]_vars
             PROVE  DownInv'
  OBVIOUS
<1> USE DEF ShapeInv, Fields, StageInv, ConfigInv, AttemptInv, TodoInv, RunsInv, DownInv,
            Changing, Changes, Down, Names
<1>1. CASE RegisterStack
  <2>1. UNCHANGED started /\ op.stage = "register" /\ op.kind = "boot"
    BY <1>1 DEF RegisterStack, At
  <2>2. op'.stage \in {"idle", "claim"}
    BY <1>1, OpRegisters DEF Over
  <2> QED
    BY <2>1, <2>2
<1>2. CASE Claim
  BY <1>2, SamePlaces, OpOver, OpStage
  DEF Claim, At, AbortStartup, Changing, Changes, Over, Keeps
<1>3. CASE ClaimsHeld
  BY <1>3, SamePlaces, OpClaimsHeld DEF ClaimsHeld, At, Changing, Changes, OldServices, Keeps
<1>4. CASE StopReloadService
  <2>1. PICK leaks \in BOOLEAN : StopTracked(Last, leaks)
                                 /\ op' = [op EXCEPT !.todo = @ \ {Last}, !.failed = @ \/ leaks]
    BY <1>4 DEF StopReloadService
  <2>2. Keeps({"todo", "failed"}) /\ op'.todo = op.todo \ {Last}
    BY <2>1 DEF Keeps
  <2>3. Last \in Service /\ UNCHANGED manifest
      /\ op.stage \in {"stop", "restop", "undo", "giveUp"}
    BY <1>4, FirstFits DEF StopReloadService
  <2>4. \A s \in Service : Live(started'[s]) => s # Last /\ Live(started[s])
    BY <2>1, <2>3, Stops
  <2>5. op.kind # "restart" /\ op'.kind = op.kind /\ op'.stage = op.stage
      /\ op'.affected = op.affected
    BY <2>2, <2>3 DEF Keeps
  <2> QED
    BY <2>2, <2>3, <2>4, <2>5, StackRuntimeAssumption DEF IsResolved
<1>5. CASE InstallReload
  <2>1. op.stage \in {"stop", "undo"} /\ op.todo = {} /\ UNCHANGED started /\ Changing
    BY <1>5 DEF InstallReload, Stopped, At
  <2>2. op'.kind = op.kind /\ (op'.stage = "unclaim"
      \/ (op'.stage = "launch" /\ op'.todo \subseteq op.affected /\ op'.todo \subseteq Service))
    BY <1>5, <2>1, OpGoesOn DEF InstallReload
  <2>3. \A s \in Service \cap op.affected : ~Live(started[s])
    BY <2>1
  <2> QED
    BY <2>1, <2>2, <2>3
<1>6. CASE NextPass
  BY <1>6, SamePlaces, OpPass, OpFailed DEF NextPass, Stopped, At, Passes, Failed, Keeps
<1>7. CASE RollBack
  <2>1. op.stage \in {"stop", "undo"} /\ op.todo = {} /\ UNCHANGED started /\ Changing
    BY <1>7 DEF RollBack, Stopped, At
  <2>2. op'.kind = op.kind /\ (op'.stage = "unclaim"
      \/ (op'.stage = "launch" /\ op'.todo \subseteq op.affected /\ op'.todo \subseteq Service))
    BY <1>7, <2>1, OpGoesOn DEF RollBack
  <2>3. \A s \in Service \cap op.affected : ~Live(started[s])
    BY <2>1
  <2> QED
    BY <2>1, <2>2, <2>3
<1>8. CASE BlockServices
  BY <1>8, SamePlaces, OpStage DEF BlockServices, Stopped, At, HeldDown, Keeps
<1>9. CASE SkipBlocked
  BY <1>9, SamePlaces, OpNextOne
  DEF SkipBlocked, Launching, At, Changing, Changes, NextOne, Keeps
<1>10. CASE FailBeforeStart
  BY <1>10, SamePlaces, OpFailed
  DEF FailBeforeStart, Launching, At, Changing, Changes, Failed, Keeps
<1>11. CASE StartCancelled
  BY <1>11, SamePlaces, OpStartFailed
  DEF StartCancelled, Launching, At, Failed, NextOne, Changing, Over, Keeps
<1>12. CASE PortTaken
  <2>1. First \in Service /\ op.todo \subseteq Service /\ UNCHANGED <<started, manifest>>
    BY <1>12, FirstFits DEF PortTaken, Launching, At
  <2>2. CASE StartFailed
    BY <2>1, <2>2, DownFailed, <1>12 DEF PortTaken, Launching, At
  <2>3. CASE ~StartFailed
    <3>1. /\ op'.kind = op.kind /\ op'.todo = op.todo
          /\ op.stage \in {"launch", "health"} /\ op'.stage \in {"launch", "health"}
      BY <1>12, <2>3, OpTries DEF Keeps
    <3>2. First' = First
      BY <2>1, <3>1, SamePlaces
    <3> QED
      BY <2>1, <3>1, <3>2
  <2> QED
    BY <2>2, <2>3
<1>13. CASE Launch
  <2>1. First \in Service /\ op.todo \subseteq Service /\ UNCHANGED <<started, manifest>>
    BY <1>13, FirstFits DEF Launch, Launching, At
  <2>2. CASE StartFailed
    BY <2>1, <2>2, DownFailed, <1>13 DEF Launch, Launching, At
  <2>3. CASE ~StartFailed
    <3>1. /\ op'.kind = op.kind /\ op'.todo = op.todo
          /\ op.stage \in {"launch", "health"} /\ op'.stage \in {"launch", "health"}
      BY <1>13, <2>3, OpTries DEF Keeps
    <3>2. First' = First
      BY <2>1, <3>1, SamePlaces
    <3> QED
      BY <2>1, <3>1, <3>2
  <2> QED
    BY <2>2, <2>3
<1>14. CASE Healthy
  BY <1>14, SamePlaces, OpNextOne DEF Healthy, At, Track, Forget, NextOne, RefreshRoute, Keeps
<1>15. CASE RouteRefreshFailed
  <2>1. First \in Service /\ op.todo \subseteq Service /\ First \in op.todo
    BY <1>15, FirstFits DEF RouteRefreshFailed, At
  <2>2. \A s \in Service : Live(started'[s]) => Live(started[s])
    BY <2>1, <1>15, OpUnrouted DEF Live
  <2> QED
    BY <1>15, <2>1, <2>2, DownFailed DEF RouteRefreshFailed, At
<1>16. CASE HealthCancelled
  BY <1>16, SamePlaces, OpStartFailed
  DEF HealthCancelled, At, Track, Forget, Changing, Failed, NextOne, Over, Keeps
<1>17. CASE HealthFailed
  <2>1. First \in Service /\ op.todo \subseteq Service /\ op.stage = "health"
      /\ UNCHANGED manifest
    BY <1>17, FirstFits DEF HealthFailed, At
  <2>2. \A s \in Service : Live(started'[s]) => Live(started[s])
    BY <2>1, <1>17, OpHealthFails DEF Live, IsTree
  <2>3. CASE StartFailed
    BY <2>1, <2>2, <2>3, DownFailed
  <2>4. CASE ReassignPort
    <3>1. Keeps({"stage", "attempt", "retries", "tree"}) /\ op'.stage = "launch"
      BY <2>4, OpRetry
    <3>2. op'.kind = op.kind /\ op'.todo = op.todo /\ First' = First
      BY <2>1, <3>1, SamePlaces DEF Keeps
    <3> QED
      BY <2>1, <2>2, <3>1, <3>2
  <2> QED
    BY <1>17, <2>3, <2>4, OpHealthFails
<1>18. CASE PassDone
  BY <1>18, SamePlaces, OpPassDone DEF PassDone, Stopped, At, Failed, Over, Keeps
<1>19. CASE ReplaceRoutes
  <2>1. op'.kind = "boot" => op.kind = "boot" /\ op'.stage = "launch"
      /\ op'.todo \subseteq Service
    BY <1>19, OpReplaces, StackRuntimeAssumption DEF Failed, Over, Keeps, IsResolved
  <2>2. op.stage = "routes" /\ UNCHANGED <<started, manifest>>
    BY <1>19 DEF ReplaceRoutes, At
  <2>3. CASE Failed
    BY <2>2, <2>3 DEF Failed, Keeps
  <2>4. CASE op'.kind = op.kind /\ op'.stage \in {"launch", "unclaim", "settings"}
      /\ (op.kind # "boot" => op'.stage # "launch")
    BY <2>1, <2>2, <2>4
  <2> QED
    BY <1>19, <2>2, <2>3, <2>4, OpReplaces DEF Over, Keeps
<1>20. CASE Accept
  BY <1>20, SamePlaces, OpFailed, OpStage DEF Accept, At, Failed, Forget, Keeps
<1>21. CASE RetireClaims
  BY <1>21, SamePlaces, OpOver
  DEF RetireClaims, At, ReleaseClaimsExcept, FinishReservation, Over, Keeps
<1>22. CASE Reject
  BY <1>22, SamePlaces, OpOver
  DEF Reject, At, ReleaseClaimsExcept, FinishReservation, Over, Keeps
<1>23. CASE RestartStops
  <2>1. PICK leaks \in BOOLEAN : StopTracked(First, leaks)
    BY <1>23 DEF RestartStops
  <2>2. op' = NoOp \/ op' = [op EXCEPT !.stage = "launch"]
    BY <1>23 DEF RestartStops
  <2>3. First \in Service /\ UNCHANGED manifest /\ op.kind = "restart"
    BY <1>23, FirstFits DEF RestartStops, At
  <2>4. ~Live(started'[First])
    BY <2>1, <2>3, Stops
  <2>5. CASE op' = [op EXCEPT !.stage = "launch"]
    <3>1. op'.stage = "launch" /\ op'.kind = "restart" /\ First' = First
      BY <2>3, <2>5, OpStage, SamePlaces DEF Keeps
    <3> QED
      BY <2>4, <3>1
  <2> QED
    BY <2>2, <2>5, OpOver DEF Over
<1>24. CASE RestartDone
  BY <1>24, SamePlaces, OpOver DEF RestartDone, Stopped, At, Over, Keeps
<1>25. CASE BeginShutdown
  BY <1>25, SamePlaces DEF BeginShutdown, OperationMuFree
<1>26. CASE StopTrees
  BY <1>26, SamePlaces DEF StopTrees, CleanedUp
<1>27. CASE ReleaseHosts
  BY <1>27, SamePlaces DEF ReleaseHosts, CleanedUp
<1>28. CASE UnregisterRoutes
  BY <1>28, SamePlaces DEF UnregisterRoutes, CleanedUp
<1>29. CASE ReleasePorts
  BY <1>29, SamePlaces DEF ReleasePorts, CleanedUp
<1>30. CASE UnregisterStack
  BY <1>30, SamePlaces DEF UnregisterStack, CleanedUp
<1>31. ASSUME NEW n \in Manifests, Reload(n) PROVE DownInv'
  BY <1>31, SamePlaces, OpPlan DEF Reload, MayBegin, Planned, Keeps
<1>32. CASE RestartStack
  BY <1>32, SamePlaces, OpPlan DEF RestartStack, MayBegin, Planned, Keeps
<1>33. ASSUME NEW ss \in SUBSET Names(manifest) \ {{}}, Restart(ss) PROVE DownInv'
  BY <1>33, SamePlaces, OpRestart DEF Restart, MayBegin, Keeps
<1>34. CASE Cancel
  BY <1>34, SamePlaces DEF Cancel
<1>35. CASE ServiceExits
  <2>1. op'.kind = op.kind /\ op'.stage = op.stage /\ op'.todo = op.todo
      /\ op'.affected = op.affected /\ UNCHANGED manifest
    BY <1>35, Exits DEF ServiceExits, Keeps
  <2>2. First' = First
    BY <2>1, SamePlaces
  <2>3. \A s \in Service : Live(started'[s]) => Live(started[s])
    BY <1>35, Exits
  <2>4. op.stage \in {"launch", "health"} /\ op.todo # {} => First \in Service
      /\ op.todo \subseteq Service
    BY FirstFits
  <2> QED
    BY <2>1, <2>2, <2>3, <2>4, StackRuntimeAssumption DEF IsResolved
<1>36. CASE UNCHANGED vars
  BY <1>36, SamePlaces DEF vars
<1>37. CASE Operate
  BY <1>37, <1>1, <1>2, <1>3, <1>4, <1>5, <1>6, <1>7, <1>8, <1>9, <1>10, <1>11, <1>12, <1>13,
     <1>14, <1>15, <1>16, <1>17, <1>18, <1>19, <1>20, <1>21, <1>22, <1>23, <1>24
  DEF Operate
<1>38. CASE ShutDown
  BY <1>38, <1>25, <1>26, <1>27, <1>28, <1>29, <1>30 DEF ShutDown
<1>39. CASE Request
  BY <1>39, <1>31, <1>32, <1>33 DEF Request
<1> QED
  BY <1>34, <1>35, <1>36, <1>37, <1>38, <1>39 DEF Next

(* A failed start keeps the claims of its operation. *)
LEMMA ClaimFailed ==
  ASSUME ShapeInv, StageInv, ClaimInv, StartFailed, op.stage \in {"launch", "health"},
      UNCHANGED <<life, claimed, configured>>
  PROVE  ClaimInv'
<1>1. \/ op'.kind = "none" /\ op'.stage = "idle"
      \/ op'.kind = "boot" /\ op'.stage = "launch" /\ op.kind = "boot"
      \/ /\ op'.kind = op.kind /\ op.kind \in Changes /\ op'.stage \in {"giveUp", "undo"}
         /\ op'.previousClaims = op.previousClaims /\ op'.next = op.next
  BY OpStartFailed DEF ShapeInv, StageInv, Changing, Over, NextOne, Failed, Keeps, Fields
<1> QED
  BY <1>1 DEF ClaimInv, Changing, Changes

(* The steps hold the claims of both manifests of a change. *)
LEMMA NextClaim == ShapeInv /\ StageInv /\ ConfigInv /\ ClaimInv /\ [Next]_vars => ClaimInv'
<1> SUFFICES ASSUME ShapeInv, StageInv, ConfigInv, ClaimInv, [Next]_vars PROVE ClaimInv'
  OBVIOUS
<1> USE DEF ShapeInv, Fields, StageInv, ConfigInv, ClaimInv, Changing, Changes, MissingClaims
<1>1. CASE RegisterStack
  BY <1>1, OpRegisters DEF RegisterStack, At, Over, Keeps
<1>2. CASE Claim
  BY <1>2, OpOver, OpStage DEF Claim, At, AbortStartup, Changing, Changes, Over, Keeps
<1>3. CASE ClaimsHeld
  BY <1>3, OpClaimsHeld DEF ClaimsHeld, At, Changing, Changes, OldServices, Keeps
<1>4. CASE StopReloadService
  BY <1>4, Stops, Places DEF StopReloadService, Keeps
<1>5. CASE InstallReload
  BY <1>5, OpInstalls DEF InstallReload, Stopped, At, Recovers, Passes, Keeps
<1>6. CASE NextPass
  BY <1>6, OpPass, OpFailed DEF NextPass, Stopped, At, Passes, Failed, Keeps
<1>7. CASE RollBack
  BY <1>7, OpRecovers DEF RollBack, Stopped, At, Recovers, Passes, Keeps
<1>8. CASE BlockServices
  BY <1>8, OpStage DEF BlockServices, Stopped, At, HeldDown, Keeps
<1>9. CASE SkipBlocked
  BY <1>9, OpNextOne DEF SkipBlocked, Launching, At, Changing, Changes, NextOne, Keeps
<1>10. CASE FailBeforeStart
  BY <1>10, OpFailed DEF FailBeforeStart, Launching, At, Changing, Changes, Failed, Keeps
<1>11. CASE StartCancelled
  BY <1>11, ClaimFailed DEF StartCancelled, Launching, At
<1>12. CASE PortTaken
  <2>1. CASE StartFailed
    BY <1>12, <2>1, ClaimFailed DEF PortTaken, Launching, At
  <2>2. CASE ~StartFailed
    BY <1>12, <2>2, OpTries DEF Keeps
  <2> QED
    BY <2>1, <2>2
<1>13. CASE Launch
  <2>1. CASE StartFailed
    BY <1>13, <2>1, ClaimFailed DEF Launch, Launching, At
  <2>2. CASE ~StartFailed
    BY <1>13, <2>2, OpTries DEF Keeps
  <2> QED
    BY <2>1, <2>2
<1>14. CASE Healthy
  BY <1>14, OpNextOne DEF Healthy, At, Track, Forget, NextOne, RefreshRoute, Keeps
<1>15. CASE RouteRefreshFailed
  BY <1>15, ClaimFailed DEF RouteRefreshFailed, Launching, At
<1>16. CASE HealthCancelled
  BY <1>16, ClaimFailed DEF HealthCancelled, Launching, At
<1>17. CASE HealthFailed
  <2>1. CASE StartFailed
    BY <1>17, <2>1, ClaimFailed DEF HealthFailed, Launching, At
  <2>2. CASE ~StartFailed
    BY <1>17, <2>2, OpTries DEF Keeps
  <2> QED
    BY <2>1, <2>2
<1>18. CASE PassDone
  BY <1>18, OpPassDone DEF PassDone, Stopped, At, Failed, Over, Keeps
<1>19. CASE ReplaceRoutes
  BY <1>19, OpReplaces DEF ReplaceRoutes, At, Failed, Over, Keeps
<1>20. CASE Accept
  BY <1>20, OpFailed, OpStage DEF Accept, At, Failed, Forget, Keeps
<1>21. CASE RetireClaims
  BY <1>21, OpOver DEF RetireClaims, At, ReleaseClaimsExcept, FinishReservation, Over, Keeps
<1>22. CASE Reject
  BY <1>22, OpOver DEF Reject, At, ReleaseClaimsExcept, FinishReservation, Over, Keeps
<1>23. CASE RestartStops
  BY <1>23, OpOver, OpStage, Stops, Places DEF RestartStops, At, Over, Keeps
<1>24. CASE RestartDone
  BY <1>24, OpOver DEF RestartDone, Stopped, At, Over, Keeps
<1>25. CASE BeginShutdown
  BY <1>25 DEF BeginShutdown, OperationMuFree
<1>26. CASE StopTrees
  BY <1>26 DEF StopTrees, CleanedUp
<1>27. CASE ReleaseHosts
  BY <1>27 DEF ReleaseHosts, CleanedUp
<1>28. CASE UnregisterRoutes
  BY <1>28 DEF UnregisterRoutes, CleanedUp
<1>29. CASE ReleasePorts
  BY <1>29 DEF ReleasePorts, CleanedUp
<1>30. CASE UnregisterStack
  BY <1>30 DEF UnregisterStack, CleanedUp
<1>31. ASSUME NEW n \in Manifests, Reload(n) PROVE ClaimInv'
  BY <1>31, OpPlan DEF Reload, MayBegin, Planned, Keeps
<1>32. CASE RestartStack
  BY <1>32, OpPlan DEF RestartStack, MayBegin, Planned, Keeps
<1>33. ASSUME NEW ss \in SUBSET Names(manifest) \ {{}}, Restart(ss) PROVE ClaimInv'
  BY <1>33, OpRestart DEF Restart, MayBegin, Keeps
<1>34. CASE Cancel
  BY <1>34 DEF Cancel
<1>35. CASE ServiceExits
  BY <1>35, Exits, SamePlaces DEF ServiceExits, Keeps
<1>36. CASE UNCHANGED vars
  BY <1>36 DEF vars
<1>37. CASE Operate
  BY <1>37, <1>1, <1>2, <1>3, <1>4, <1>5, <1>6, <1>7, <1>8, <1>9, <1>10, <1>11, <1>12, <1>13,
     <1>14, <1>15, <1>16, <1>17, <1>18, <1>19, <1>20, <1>21, <1>22, <1>23, <1>24
  DEF Operate
<1>38. CASE ShutDown
  BY <1>38, <1>25, <1>26, <1>27, <1>28, <1>29, <1>30 DEF ShutDown
<1>39. CASE Request
  BY <1>39, <1>31, <1>32, <1>33 DEF Request
<1> QED
  BY <1>34, <1>35, <1>36, <1>37, <1>38, <1>39 DEF Next

(* The routes of a manifest are for its services with a port and hostnames. *)
LEMMA RoutesPublished ==
  ASSUME NEW r, active' = Routes(r)
  PROVE  \A s \in DOMAIN active' :
           s \in RoutedNames(r.config) /\ active'[s].hosts = r.config[s].hosts
  BY DEF Routes, RoutedNames, Names

(* A failed start publishes nothing. *)
LEMMA RouteFailed ==
  ASSUME ShapeInv, StageInv, RouteInv, StartFailed, op.stage \in {"launch", "health"},
      SameSpent,
         UNCHANGED <<life, active, configured>>
  PROVE  RouteInv'
<1>1. \/ op'.kind = "none" /\ op'.stage = "idle" /\ op.kind \in {"boot", "restart"}
      \/ op'.kind = "boot" /\ op'.stage = "launch" /\ op.kind = "boot" /\ UNCHANGED cancelled
      \/ op'.stage \in {"giveUp", "undo"} /\ op.kind \in Changes /\ op'.kind = op.kind
           /\ UNCHANGED cancelled
  BY OpStartFailed DEF ShapeInv, StageInv, Changing, Over, NextOne, Failed, Keeps, Fields
<1>2. op.kind = "restart" => UNCHANGED cancelled
  BY DEF StartFailed, Changing, Changes
<1> QED
  BY <1>1, <1>2, OpStartFailed DEF RouteInv, RoutedBy, SameSpent, StageInv, Changes

(* How a change comes to give its claims back. *)
UnclaimLeads == op'.stage = "unclaim" =>
  /\ Changing /\ op'.previousClaims = op.previousClaims /\ (UNCHANGED started \/ ServiceExits)
  /\ \/ op.stage \in {"claim", "stop", "unclaim"}
     \/ op.stage = "undo" /\ op.todo = {}
     \/ op.stage \in {"routes", "giveUp"} /\ op.recovering

(* A failed start does not give claims back at once. *)
LEMMA UnclaimFailed == ShapeInv /\ StageInv /\ StartFailed => op'.stage # "unclaim"
  BY OpStartFailed DEF ShapeInv, StageInv, Over, NextOne, Failed

(* A change gives its claims back only once it is undone. *)
LEMMA NextUnclaims == ShapeInv /\ StageInv /\ [Next]_vars => UnclaimLeads
<1> SUFFICES ASSUME ShapeInv, StageInv, [Next]_vars PROVE UnclaimLeads
  OBVIOUS
<1> USE DEF ShapeInv, Fields, StageInv, Changing, Changes, UnclaimLeads
<1>1. CASE RegisterStack
  BY <1>1, OpRegisters DEF RegisterStack, At, Over, Keeps
<1>2. CASE Claim
  BY <1>2, OpOver, OpStage DEF Claim, At, AbortStartup, Changing, Changes, Over, Keeps
<1>3. CASE ClaimsHeld
  BY <1>3, OpClaimsHeld DEF ClaimsHeld, At, Changing, Changes, OldServices, Keeps
<1>4. CASE StopReloadService
  BY <1>4, Stops, Places DEF StopReloadService, Keeps
<1>5. CASE InstallReload
  BY <1>5, OpInstalls DEF InstallReload, Stopped, At, Recovers, Passes, Keeps
<1>6. CASE NextPass
  BY <1>6, OpPass, OpFailed DEF NextPass, Stopped, At, Passes, Failed, Keeps
<1>7. CASE RollBack
  BY <1>7, OpRecovers DEF RollBack, Stopped, At, Recovers, Passes, Keeps
<1>8. CASE BlockServices
  BY <1>8, OpStage DEF BlockServices, Stopped, At, HeldDown, Keeps
<1>9. CASE SkipBlocked
  BY <1>9, OpNextOne DEF SkipBlocked, Launching, At, Changing, Changes, NextOne, Keeps
<1>10. CASE FailBeforeStart
  BY <1>10, OpFailed DEF FailBeforeStart, Launching, At, Changing, Changes, Failed, Keeps
<1>11. CASE StartCancelled
  BY <1>11, UnclaimFailed DEF StartCancelled
<1>12. CASE PortTaken
  BY <1>12, UnclaimFailed, OpRetry DEF PortTaken
<1>13. CASE Launch
  BY <1>13, OpStartFailed, OpLaunch
  DEF Launch, Launching, At, Attempt, Environment, Changing, Failed, NextOne, Over, Keeps
<1>14. CASE Healthy
  BY <1>14, OpNextOne DEF Healthy, At, Track, Forget, NextOne, RefreshRoute, Keeps
<1>15. CASE RouteRefreshFailed
  BY <1>15, UnclaimFailed DEF RouteRefreshFailed
<1>16. CASE HealthCancelled
  BY <1>16, UnclaimFailed DEF HealthCancelled
<1>17. CASE HealthFailed
  BY <1>17, UnclaimFailed, OpRetry, OpHealthFails DEF HealthFailed
<1>18. CASE PassDone
  BY <1>18, OpPassDone DEF PassDone, Stopped, At, Failed, Over, Keeps
<1>19. CASE ReplaceRoutes
  BY <1>19, OpReplaces DEF ReplaceRoutes, At, Failed, Over, Keeps
<1>20. CASE Accept
  BY <1>20, OpFailed, OpStage DEF Accept, At, Failed, Forget, Keeps
<1>21. CASE RetireClaims
  BY <1>21, OpOver DEF RetireClaims, At, ReleaseClaimsExcept, FinishReservation, Over, Keeps
<1>22. CASE Reject
  BY <1>22, OpOver DEF Reject, At, ReleaseClaimsExcept, FinishReservation, Over, Keeps
<1>23. CASE RestartStops
  BY <1>23, OpOver, OpStage, Stops, Places DEF RestartStops, At, Over, Keeps
<1>24. CASE RestartDone
  BY <1>24, OpOver DEF RestartDone, Stopped, At, Over, Keeps
<1>25. CASE BeginShutdown
  BY <1>25 DEF BeginShutdown, OperationMuFree
<1>26. CASE StopTrees
  BY <1>26 DEF StopTrees, CleanedUp
<1>27. CASE ReleaseHosts
  BY <1>27 DEF ReleaseHosts, CleanedUp
<1>28. CASE UnregisterRoutes
  BY <1>28 DEF UnregisterRoutes, CleanedUp
<1>29. CASE ReleasePorts
  BY <1>29 DEF ReleasePorts, CleanedUp
<1>30. CASE UnregisterStack
  BY <1>30 DEF UnregisterStack, CleanedUp
<1>31. ASSUME NEW n \in Manifests, Reload(n) PROVE UnclaimLeads
  BY <1>31, OpPlan DEF Reload, MayBegin, Planned, Keeps
<1>32. CASE RestartStack
  BY <1>32, OpPlan DEF RestartStack, MayBegin, Planned, Keeps
<1>33. ASSUME NEW ss \in SUBSET Names(manifest) \ {{}}, Restart(ss) PROVE UnclaimLeads
  BY <1>33, OpRestart DEF Restart, MayBegin, Keeps
<1>34. CASE Cancel
  BY <1>34 DEF Cancel
<1>35. CASE ServiceExits
  BY <1>35, Exits, SamePlaces DEF ServiceExits, Keeps
<1>36. CASE UNCHANGED vars
  BY <1>36 DEF vars
<1>37. CASE Operate
  BY <1>37, <1>1, <1>2, <1>3, <1>4, <1>5, <1>6, <1>7, <1>8, <1>9, <1>10, <1>11, <1>12, <1>13,
     <1>14, <1>15, <1>16, <1>17, <1>18, <1>19, <1>20, <1>21, <1>22, <1>23, <1>24
  DEF Operate
<1>38. CASE ShutDown
  BY <1>38, <1>25, <1>26, <1>27, <1>28, <1>29, <1>30 DEF ShutDown
<1>39. CASE Request
  BY <1>39, <1>31, <1>32, <1>33 DEF Request
<1> QED
  BY <1>34, <1>35, <1>36, <1>37, <1>38, <1>39 DEF Next

(* The claims of what runs are those of the installed manifest. *)
LEMMA RunsClaimed ==
  ASSUME RunsInv, NEW s \in Service, Live(started[s])
  PROVE  ClaimsOf(started[s].env.definition) \subseteq Claims(manifest.config)
  BY DEF RunsInv, Claims, Names

(* No step gives back a claim that a process uses. *)
LEMMA NextUsed ==
  ShapeInv /\ StageInv /\ ConfigInv /\ TodoInv /\ RunsInv /\ OpTreeInv /\ DownInv /\ PlanInv
      /\ LifeInv /\ ClaimInv /\ UsedInv
    /\ [Next]_vars => UsedInv'
<1> SUFFICES ASSUME ShapeInv, StageInv, ConfigInv, TodoInv, RunsInv, OpTreeInv, DownInv,
    PlanInv, LifeInv, ClaimInv, UsedInv,
                    [Next]_vars
             PROVE  UsedInv'
  OBVIOUS
<1> DEFINE Used(names) == \A s \in Service : Live(started[s]) =>
    ClaimsOf(started[s].env.definition) \subseteq names
<1>1. op.todo # {} /\ op.todo \subseteq Names(manifest) => First \in op.todo
    /\ Last \in op.todo /\ op.todo \subseteq Service
  BY Places, StackRuntimeAssumption DEF ConfigInv, IsResolved, Names
<1>2. \/ Changing /\ op.stage \in {"launch", "health", "restop", "routes", "undo", "giveUp",
                                    "settings"}
      \/ op.kind \in {"boot", "restart"} /\ op.stage = "health"
      => Claims(manifest.config) \subseteq claimed
  BY DEF ConfigInv, ClaimInv, StageInv, Changing, Changes
(* Trees that are alive after a step were alive before it, or have just been launched. *)
<1>3. \A s \in Service : Live(started'[s]) =>
        \/ Live(started[s]) /\ started'[s].env.definition = started[s].env.definition
        \/ ClaimsOf(started'[s].env.definition) \subseteq Claims(manifest.config)
             /\ (Healthy \/ HealthCancelled)
  <2>1. CASE UNCHANGED started
    BY <2>1
  <2>2. CASE StopReloadService
    <3>1. PICK leaks \in BOOLEAN : StopTracked(Last, leaks)
      BY <2>2 DEF StopReloadService
    <3> QED
      BY <1>1, <2>2, <3>1, Stops DEF StopReloadService, TodoInv
  <2>3. CASE RestartStops
    <3>1. PICK leaks \in BOOLEAN : StopTracked(First, leaks)
      BY <2>3 DEF RestartStops
    <3> QED
      BY <1>1, <2>3, <3>1, Stops DEF RestartStops, TodoInv, At
  <2>4. ASSUME At("health")
        PROVE  /\ First \in Service
               /\ ClaimsOf(op.tree.env.definition) \subseteq Claims(manifest.config)
    BY <1>1, <2>4 DEF At, StageInv, TodoInv, OpTreeInv, Claims, Names
  <2>5. CASE Healthy \/ HealthCancelled
    <3>1. At("health") /\ started' = [started EXCEPT ![First] = op.tree]
      BY <2>5 DEF Healthy, HealthCancelled, Track
    <3> QED
      BY <2>4, <2>5, <3>1 DEF ShapeInv
  <2>6. CASE RouteRefreshFailed
    <3>1. PICK tree : tree.state \in {"leaked", "stopped"}
                      /\ started' = [started EXCEPT ![First] = tree]
      BY <2>6, OpUnrouted
    <3> QED
      BY <2>4, <2>6, <3>1 DEF RouteRefreshFailed, ShapeInv, Live
  <2>7. CASE HealthFailed
    <3>1. CASE started' = [started EXCEPT ![First] = [op.tree EXCEPT !.state = "exited"]]
      BY <2>4, <2>7, <3>1 DEF HealthFailed, ShapeInv, Live, IsTree
    <3> QED
      BY <2>1, <2>7, <3>1, OpHealthFails
  <2>8. CASE Accept
    BY <2>8 DEF Accept, Live, NoTree
  <2>9. CASE StopTrees
    BY <2>9, Halts
  <2>10. CASE ServiceExits
    BY <2>10, Exits
  <2> QED
    BY <2>1, <2>2, <2>3, <2>5, <2>6, <2>7, <2>8, <2>9, <2>10, Frames
<1> DEFINE Kept == \A s \in Service : Live(started'[s]) =>
                     Live(started[s]) /\ started'[s].env.definition = started[s].env.definition
(* They stay claimed. *)
<1>4. \A s \in Service : Live(started'[s]) =>
    ClaimsOf(started'[s].env.definition) \subseteq claimed'
  <2>1. CASE Healthy \/ HealthCancelled
    <3>1. Claims(manifest.config) \subseteq claimed /\ UNCHANGED claimed
      BY <1>2, <2>1 DEF Healthy, HealthCancelled, At, StageInv, Changing, Changes
    <3> QED
      BY <1>3, <3>1 DEF UsedInv
  <2>2. CASE UNCHANGED claimed \/ Claim
    <3>1. claimed \subseteq claimed'
      BY <2>2 DEF Claim
    <3> QED
      BY <1>3, <2>1, <3>1 DEF UsedInv
  <2>3. CASE RetireClaims
    <3>1. Claims(manifest.config) \subseteq claimed /\ UNCHANGED started
      BY <2>3 DEF RetireClaims, At, ClaimInv, ConfigInv, StageInv, Changing, Changes
    <3>2. Claims(manifest.config) \subseteq claimed'
      BY <2>3, <3>1 DEF RetireClaims, ReleaseClaimsExcept
    <3> QED
      BY <3>1, <3>2, RunsClaimed
  <2>4. CASE Reject
    BY <2>4 DEF Reject, At, ReleaseClaimsExcept, UsedInv, ClaimInv, StageInv, Changing, Changes
  <2>5. CASE ReleaseHosts \/ ReleasePorts
    BY <2>5 DEF ReleaseHosts, ReleasePorts, CleanedUp, LifeInv
  <2> QED
    BY <2>1, <2>2, <2>3, <2>4, <2>5, Frames
(* And before claims are given back, they are among those kept. *)
<1>5. ASSUME op'.stage = "unclaim"
      PROVE  \A s \in Service : Live(started'[s]) =>
             ClaimsOf(started'[s].env.definition) \subseteq op'.previousClaims
  <2>1. /\ Changing /\ op'.previousClaims = op.previousClaims
      /\ (UNCHANGED started \/ ServiceExits)
        /\ \/ op.stage \in {"claim", "stop", "undo", "unclaim"}
           \/ op.stage \in {"routes", "giveUp"} /\ op.recovering
    BY <1>5, NextUnclaims DEF UnclaimLeads
  <2>2. ASSUME \A s \in Service : Live(started[s]) =>
      ClaimsOf(started[s].env.definition) \subseteq op.previousClaims
        PROVE  \A s \in Service : Live(started'[s]) =>
               ClaimsOf(started'[s].env.definition) \subseteq op'.previousClaims
    BY <2>1, <2>2, Exits
  <2>3. op.stage # "retire" /\ Claims(configured) \subseteq op.previousClaims
    BY <2>1 DEF ClaimInv
  <2>4. CASE manifest.config = configured
    BY <2>2, <2>3, <2>4, RunsClaimed
  <2>5. CASE op.stage = "undo"
    <3>1. ~op.recovering /\ manifest.config = op.candidate.config
        /\ op.previous.config = configured
      BY <2>1, <2>5 DEF StageInv, ConfigInv
    <3>2. op.todo = {}
      BY <1>5, <2>5, NextUnclaims DEF UnclaimLeads
    <3>3. \A s \in Service : Live(started[s]) =>
            s \in DOMAIN configured /\ started[s].env.definition = configured[s]
      BY <2>1, <2>5, <3>1, <3>2 DEF RunsInv, DownInv, Down, PlanInv, Names
    <3> QED
      BY <2>2, <2>3, <3>3, HostsClaimed
  <2>6. CASE op.stage = "unclaim"
    BY <2>2, <2>6 DEF UsedInv
  <2>7. op.stage \in {"claim", "stop"} \/ (op.stage \in {"routes", "giveUp"} /\ op.recovering) =>
      manifest.config = configured
    BY <2>1 DEF ConfigInv
  <2> QED
    BY <2>1, <2>4, <2>5, <2>6, <2>7
<1> QED
  BY <1>4, <1>5 DEF UsedInv

(* No step publishes a route that no manifest in use has. *)
LEMMA NextRoute ==
  ShapeInv /\ StageInv /\ ConfigInv /\ AttemptInv /\ TodoInv /\ RouteInv /\ [Next]_vars =>
    RouteInv'
<1> SUFFICES ASSUME ShapeInv, StageInv, ConfigInv, AttemptInv, TodoInv, RouteInv, [Next]_vars
             PROVE  RouteInv'
  OBVIOUS
<1> USE DEF ShapeInv, Fields, StageInv, AttemptInv, RouteInv, RoutedBy, Changing, Changes
<1>1. CASE RegisterStack
  BY <1>1, OpRegisters DEF RegisterStack, At, Over, Keeps
<1>2. CASE Claim
  BY <1>2, OpOver, OpStage DEF Claim, At, AbortStartup, Changing, Changes, Over, Keeps
<1>3. CASE ClaimsHeld
  BY <1>3, OpClaimsHeld DEF ClaimsHeld, At, Changing, Changes, OldServices, Keeps
<1>4. CASE StopReloadService
  <2>1. UNCHANGED <<life, cancelled, active, configured>> /\ op.stage # "settings"
    BY <1>4 DEF StopReloadService, At
  <2>2. SameSpent
    BY <1>4, FirstFits, Stops DEF StopReloadService, At, TodoInv
  <2>3. op'.stage = op.stage /\ op'.kind = op.kind
    BY <1>4, OpOver, OpStage DEF StopReloadService, Over, Keeps, At
  <2> QED
    BY <2>1, <2>2, <2>3 DEF SameSpent
<1>5. CASE InstallReload
  BY <1>5, OpInstalls DEF InstallReload, Stopped, At, Recovers, Passes, Keeps
<1>6. CASE NextPass
  BY <1>6, OpPass, OpFailed DEF NextPass, Stopped, At, Passes, Failed, Keeps
<1>7. CASE RollBack
  BY <1>7, OpRecovers DEF RollBack, Stopped, At, Recovers, Passes, Keeps
<1>8. CASE BlockServices
  BY <1>8, OpStage DEF BlockServices, Stopped, At, HeldDown, Keeps
<1>9. CASE SkipBlocked
  BY <1>9, OpNextOne DEF SkipBlocked, Launching, At, Changing, Changes, NextOne, Keeps
<1>10. CASE FailBeforeStart
  BY <1>10, OpFailed DEF FailBeforeStart, Launching, At, Changing, Changes, Failed, Keeps
<1>11. CASE StartCancelled
  BY <1>11, RouteFailed DEF StartCancelled, Launching, At, SameSpent
<1>12. CASE PortTaken
  BY <1>12, OpStartFailed, OpRetry
  DEF PortTaken, Launching, At, CanCollide, MayRetry, AllowPortReassignment, ReassignAutoPort,
      Attempt, Changing, Failed, NextOne, Over, Keeps
<1>13. CASE Launch
  BY <1>13, OpStartFailed, OpLaunch
  DEF Launch, Launching, At, Attempt, Environment, Changing, Failed, NextOne, Over, Keeps
<1>14. CASE Healthy
  <2>1. First \in Names(manifest) /\ op.attempt.config = manifest.config /\ op.stage = "health"
      /\ UNCHANGED <<life, cancelled, configured, spent>>
    BY <1>14, FirstFits DEF Healthy, At, TodoInv
  <2>2. ASSUME NEW m, RoutedBy(m), m = manifest.config
        PROVE  \A s \in DOMAIN active' :
                 s \in RoutedNames(m) /\ active'[s].hosts = m[s].hosts
    BY <1>14, <2>1, <2>2 DEF Healthy, Routes, Names, RoutedNames
  <2>3. CASE op.kind \in {"boot", "restart"}
    <3>1. manifest.config = configured
      BY <2>1, <2>3 DEF ConfigInv
    <3>2. op'.stage \in {"launch", "restart"} /\ op'.kind = op.kind
      BY <1>14, <2>3, OpNextOne DEF Healthy, NextOne, Keeps
    <3>3. RoutedBy(configured) => \A s \in DOMAIN active' :
        s \in RoutedNames(configured) /\ active'[s].hosts = configured[s].hosts
      BY <2>2, <3>1
    <3> QED
      BY <2>1, <2>3, <3>2, <3>3
  <2>4. CASE op.kind \notin {"boot", "restart"}
    <3>1. op'.stage = "launch" /\ op'.kind = op.kind /\ UNCHANGED active
      BY <1>14, <2>4, OpNextOne DEF Healthy, RefreshRoute, NextOne, Keeps
    <3> QED
      BY <2>1, <2>4, <3>1
  <2> QED
    BY <2>3, <2>4
<1>15. CASE RouteRefreshFailed
  BY <1>15, RouteFailed, OpUnrouted DEF RouteRefreshFailed, At
<1>16. CASE HealthCancelled
  BY <1>16, RouteFailed DEF HealthCancelled, Launching, At, SameSpent
<1>17. CASE HealthFailed
  <2>1. op.stage = "health" /\ UNCHANGED <<life, active, configured>>
    BY <1>17 DEF HealthFailed, At
  <2>2. CASE StartFailed
    BY <1>17, <2>1, <2>2, RouteFailed, OpHealthFails
  <2>3. CASE ReassignPort /\ UNCHANGED cancelled
    <3>1. op'.stage = "launch" /\ op'.kind = op.kind
      BY <2>3, OpRetry DEF Keeps
    <3> QED
      BY <1>17, <2>1, <2>3, <3>1, OpHealthFails DEF SameSpent
  <2> QED
    BY <1>17, <2>2, <2>3, OpHealthFails
<1>18. CASE PassDone
  BY <1>18, OpPassDone DEF PassDone, Stopped, At, Failed, Over, Keeps
<1>19. CASE ReplaceRoutes
  <2>1. op.stage = "routes" /\ UNCHANGED <<life, configured, manifest>>
      /\ (active' = active \/ spent'.staleRoutes \/ active' = Routes(manifest))
    BY <1>19 DEF ReplaceRoutes, At, InstalledRoutes
  <2>2. CASE op.kind = "boot" /\ Over
    BY <2>1, <2>2 DEF Over
  <2>3. CASE op.kind # "boot" /\ Failed /\ UNCHANGED cancelled
      /\ (UNCHANGED <<active, spent>> \/ spent'.staleRoutes)
    BY <2>1, <2>3 DEF Failed, Keeps
  <2>4. CASE /\ active' = InstalledRoutes /\ UNCHANGED cancelled /\ Keeps({"stage", "todo"})
             /\ op'.stage = (IF op.kind = "boot" THEN "launch"
                             ELSE IF op.recovering THEN "unclaim" ELSE "settings")
    <3>2. \A s \in DOMAIN active' :
        s \in RoutedNames(manifest.config) /\ active'[s].hosts = manifest.config[s].hosts
      BY <2>4, RoutesPublished DEF InstalledRoutes
    <3>3. op'.kind = op.kind /\ op'.next = op.next
          /\ op'.stage = (IF op.kind = "boot" THEN "launch"
                          ELSE IF op.recovering THEN "unclaim" ELSE "settings")
      BY <2>4 DEF Keeps
    <3>4. manifest.config = (IF op.kind = "boot" \/ op.recovering THEN configured ELSE op.next)
      BY <2>1 DEF ConfigInv
    <3> QED
      BY <2>1, <2>4, <3>2, <3>3, <3>4
  <2> QED
    BY <1>19, <2>2, <2>3, <2>4, OpReplaces
<1>20. CASE Accept
  <2>1. op.stage = "settings" /\ UNCHANGED <<life, cancelled, active, spent>>
      /\ op.kind # "boot"
    BY <1>20 DEF Accept, At
  <2>2. CASE cancelled
    <3>1. op'.stage = "undo" /\ op'.kind = op.kind
      BY <1>20, <2>2, OpFailed DEF Accept, At, Failed, Keeps
    <3> QED
      BY <2>1, <2>2, <3>1
  <2>3. CASE ~cancelled
    <3>1. op'.stage = "retire" /\ op'.kind = op.kind /\ configured' = op.next
      BY <1>20, <2>3, OpStage DEF Accept, Keeps
    <3> QED
      BY <2>1, <3>1
  <2> QED
    BY <2>2, <2>3
<1>21. CASE RetireClaims
  BY <1>21, OpOver DEF RetireClaims, At, ReleaseClaimsExcept, FinishReservation, Over, Keeps
<1>22. CASE Reject
  BY <1>22, OpOver DEF Reject, At, ReleaseClaimsExcept, FinishReservation, Over, Keeps
<1>23. CASE RestartStops
  <2>1. UNCHANGED <<life, cancelled, active, configured>> /\ op.stage # "settings"
    BY <1>23 DEF RestartStops, At
  <2>2. SameSpent
    BY <1>23, FirstFits, Stops DEF RestartStops, At, TodoInv
  <2>3. op'.kind \in {"none", "restart"} /\ op.kind = "restart"
      /\ op'.stage \in {"idle", "launch"}
    BY <1>23, OpOver, OpStage DEF RestartStops, Over, Keeps, At
  <2> QED
    BY <2>1, <2>2, <2>3 DEF SameSpent
<1>24. CASE RestartDone
  BY <1>24, OpOver DEF RestartDone, Stopped, At, Over, Keeps
<1>25. CASE BeginShutdown
  BY <1>25 DEF BeginShutdown, OperationMuFree
<1>26. CASE StopTrees
  BY <1>26 DEF StopTrees, CleanedUp
<1>27. CASE ReleaseHosts
  BY <1>27 DEF ReleaseHosts, CleanedUp
<1>28. CASE UnregisterRoutes
  BY <1>28 DEF UnregisterRoutes, CleanedUp
<1>29. CASE ReleasePorts
  BY <1>29 DEF ReleasePorts, CleanedUp
<1>30. CASE UnregisterStack
  BY <1>30 DEF UnregisterStack, CleanedUp
<1>31. ASSUME NEW n \in Manifests, Reload(n) PROVE RouteInv'
  BY <1>31, OpPlan DEF Reload, MayBegin, Planned, Keeps
<1>32. CASE RestartStack
  BY <1>32, OpPlan DEF RestartStack, MayBegin, Planned, Keeps
<1>33. ASSUME NEW ss \in SUBSET Names(manifest) \ {{}}, Restart(ss) PROVE RouteInv'
  BY <1>33, OpRestart DEF Restart, MayBegin, Keeps
<1>34. CASE Cancel
  BY <1>34 DEF Cancel
<1>35. CASE ServiceExits
  BY <1>35, Exits, SamePlaces DEF ServiceExits, Keeps
<1>36. CASE UNCHANGED vars
  BY <1>36 DEF vars
<1>37. CASE Operate
  BY <1>37, <1>1, <1>2, <1>3, <1>4, <1>5, <1>6, <1>7, <1>8, <1>9, <1>10, <1>11, <1>12, <1>13,
     <1>14, <1>15, <1>16, <1>17, <1>18, <1>19, <1>20, <1>21, <1>22, <1>23, <1>24
  DEF Operate
<1>38. CASE ShutDown
  BY <1>38, <1>25, <1>26, <1>27, <1>28, <1>29, <1>30 DEF ShutDown
<1>39. CASE Request
  BY <1>39, <1>31, <1>32, <1>33 DEF Request
<1> QED
  BY <1>34, <1>35, <1>36, <1>37, <1>38, <1>39 DEF Next

(* After a failed start the change handles affected services. *)
LEMMA AffectedFailed == ShapeInv /\ StageInv /\ StartFailed => AffectedInv'
<1> SUFFICES ASSUME ShapeInv, StageInv, StartFailed PROVE AffectedInv'
  OBVIOUS
<1>1. \/ op'.kind \notin Changes
      \/ op'.todo = op.affected \cap Names(manifest) /\ op'.affected = op.affected
  BY OpStartFailed
  DEF ShapeInv, StageInv, Changing, Changes, Over, NextOne, Failed, Keeps, Fields
<1> QED
  BY <1>1 DEF AffectedInv, Changing

(* The steps of a change handle affected services only. *)
LEMMA NextAffected == ShapeInv /\ StageInv /\ AffectedInv /\ [Next]_vars => AffectedInv'
<1> SUFFICES ASSUME ShapeInv, StageInv, AffectedInv, [Next]_vars PROVE AffectedInv'
  OBVIOUS
<1> USE DEF ShapeInv, Fields, StageInv, AffectedInv, Changing, Changes, OldServices
<1>1. CASE RegisterStack
  BY <1>1, OpRegisters DEF RegisterStack, At, Over, Keeps
<1>2. CASE Claim
  BY <1>2, OpOver, OpStage DEF Claim, At, AbortStartup, Changing, Changes, Over, Keeps
<1>3. CASE ClaimsHeld
  BY <1>3, OpClaimsHeld DEF ClaimsHeld, At, Changing, Changes, OldServices, Keeps
<1>4. CASE StopReloadService
  BY <1>4, Stops, Places DEF StopReloadService, Keeps
<1>5. CASE InstallReload
  BY <1>5, OpInstalls DEF InstallReload, Stopped, At, Recovers, Passes, Keeps
<1>6. CASE NextPass
  BY <1>6, OpPass, OpFailed DEF NextPass, Stopped, At, Passes, Failed, Keeps
<1>7. CASE RollBack
  BY <1>7, OpRecovers DEF RollBack, Stopped, At, Recovers, Passes, Keeps
<1>8. CASE BlockServices
  BY <1>8, OpStage DEF BlockServices, Stopped, At, HeldDown, Keeps
<1>9. CASE SkipBlocked
  BY <1>9, OpNextOne DEF SkipBlocked, Launching, At, Changing, Changes, NextOne, Keeps
<1>10. CASE FailBeforeStart
  BY <1>10, OpFailed DEF FailBeforeStart, Launching, At, Changing, Changes, Failed, Keeps
<1>11. CASE StartCancelled
  BY <1>11, AffectedFailed DEF StartCancelled
<1>12. CASE PortTaken
  <2>1. CASE StartFailed
    BY <1>12, <2>1, AffectedFailed DEF PortTaken, Launching, At
  <2>2. CASE ~StartFailed
    BY <1>12, <2>2, OpTries DEF Keeps
  <2> QED
    BY <2>1, <2>2
<1>13. CASE Launch
  <2>1. CASE StartFailed
    BY <1>13, <2>1, AffectedFailed DEF Launch, Launching, At
  <2>2. CASE ~StartFailed
    BY <1>13, <2>2, OpTries DEF Keeps
  <2> QED
    BY <2>1, <2>2
<1>14. CASE Healthy
  BY <1>14, OpNextOne DEF Healthy, At, Track, Forget, NextOne, RefreshRoute, Keeps
<1>15. CASE RouteRefreshFailed
  BY <1>15, AffectedFailed DEF RouteRefreshFailed
<1>16. CASE HealthCancelled
  BY <1>16, AffectedFailed DEF HealthCancelled
<1>17. CASE HealthFailed
  <2>1. CASE StartFailed
    BY <1>17, <2>1, AffectedFailed DEF HealthFailed, Launching, At
  <2>2. CASE ~StartFailed
    BY <1>17, <2>2, OpTries DEF Keeps
  <2> QED
    BY <2>1, <2>2
<1>18. CASE PassDone
  <2>1. CASE Failed
    BY <2>1 DEF Failed, Keeps
  <2>3. CASE op'.stage = "restop" /\ op'.todo \subseteq op'.affected
    BY <2>3
  <2>4. CASE op'.stage = "routes"
    BY <2>4
  <2>5. Over \/ Failed \/ (op'.stage = "restop" /\ op'.todo \subseteq op'.affected)
      \/ op'.stage = "routes"
    BY <1>18, OpPassDone
  <2>2. CASE Over
    BY <2>2 DEF Over
  <2> QED
    BY <2>1, <2>2, <2>3, <2>4, <2>5
<1>19. CASE ReplaceRoutes
  BY <1>19, OpReplaces DEF ReplaceRoutes, At, Failed, Over, Keeps
<1>20. CASE Accept
  BY <1>20, OpFailed, OpStage DEF Accept, At, Failed, Forget, Keeps
<1>21. CASE RetireClaims
  BY <1>21, OpOver DEF RetireClaims, At, ReleaseClaimsExcept, FinishReservation, Over, Keeps
<1>22. CASE Reject
  BY <1>22, OpOver DEF Reject, At, ReleaseClaimsExcept, FinishReservation, Over, Keeps
<1>23. CASE RestartStops
  BY <1>23, OpOver, OpStage, Stops, Places DEF RestartStops, At, Over, Keeps
<1>24. CASE RestartDone
  BY <1>24, OpOver DEF RestartDone, Stopped, At, Over, Keeps
<1>25. CASE BeginShutdown
  BY <1>25 DEF BeginShutdown, OperationMuFree
<1>26. CASE StopTrees
  BY <1>26 DEF StopTrees, CleanedUp
<1>27. CASE ReleaseHosts
  BY <1>27 DEF ReleaseHosts, CleanedUp
<1>28. CASE UnregisterRoutes
  BY <1>28 DEF UnregisterRoutes, CleanedUp
<1>29. CASE ReleasePorts
  BY <1>29 DEF ReleasePorts, CleanedUp
<1>30. CASE UnregisterStack
  BY <1>30 DEF UnregisterStack, CleanedUp
<1>31. ASSUME NEW n \in Manifests, Reload(n) PROVE AffectedInv'
  BY <1>31, OpPlan DEF Reload, MayBegin, Planned, Keeps
<1>32. CASE RestartStack
  BY <1>32, OpPlan DEF RestartStack, MayBegin, Planned, Keeps
<1>33. ASSUME NEW ss \in SUBSET Names(manifest) \ {{}}, Restart(ss) PROVE AffectedInv'
  BY <1>33, OpRestart DEF Restart, MayBegin, Keeps
<1>34. CASE Cancel
  BY <1>34 DEF Cancel
<1>35. CASE ServiceExits
  BY <1>35, Exits, SamePlaces DEF ServiceExits, Keeps
<1>36. CASE UNCHANGED vars
  BY <1>36 DEF vars
<1>37. CASE Operate
  BY <1>37, <1>1, <1>2, <1>3, <1>4, <1>5, <1>6, <1>7, <1>8, <1>9, <1>10, <1>11, <1>12, <1>13,
     <1>14, <1>15, <1>16, <1>17, <1>18, <1>19, <1>20, <1>21, <1>22, <1>23, <1>24
  DEF Operate
<1>38. CASE ShutDown
  BY <1>38, <1>25, <1>26, <1>27, <1>28, <1>29, <1>30 DEF ShutDown
<1>39. CASE Request
  BY <1>39, <1>31, <1>32, <1>33 DEF Request
<1> QED
  BY <1>34, <1>35, <1>36, <1>37, <1>38, <1>39 DEF Next

(* A failed start leaves what is held down alone. *)
LEMMA HeldFailed ==
  ShapeInv /\ StageInv /\ HeldInv /\ StartFailed /\ UNCHANGED <<manifest, blocked>> =>
    HeldInv'
<1> SUFFICES ASSUME ShapeInv, StageInv, HeldInv, StartFailed, UNCHANGED <<manifest, blocked>>
             PROVE  HeldInv'
  OBVIOUS
<1>1. \/ op'.kind \notin Changes
      \/ /\ op'.kind = op.kind /\ op'.stage \in {"undo", "giveUp"} /\ op'.affected = op.affected
         /\ op'.previous = op.previous /\ op'.previousBlocked = op.previousBlocked
              /\ op'.nextBlocked = op.nextBlocked
  BY OpStartFailed
  DEF ShapeInv, StageInv, Changing, Changes, Over, NextOne, Failed, Keeps, Fields
<1> QED
  BY <1>1 DEF HeldInv, Changing

(* The steps keep what is held down for both manifests of a change. *)
LEMMA NextHeld == ShapeInv /\ StageInv /\ ConfigInv /\ HeldInv /\ [Next]_vars => HeldInv'
<1> SUFFICES ASSUME ShapeInv, StageInv, ConfigInv, HeldInv, [Next]_vars PROVE HeldInv'
  OBVIOUS
<1> USE DEF ShapeInv, Fields, StageInv, ConfigInv, HeldInv, Changing, Changes
<1>1. CASE RegisterStack
  BY <1>1, OpRegisters DEF RegisterStack, At, Over, Keeps
<1>2. CASE Claim
  BY <1>2, OpOver, OpStage DEF Claim, At, AbortStartup, Changing, Changes, Over, Keeps
<1>3. CASE ClaimsHeld
  BY <1>3, OpClaimsHeld DEF ClaimsHeld, At, Changing, Changes, OldServices, Keeps
<1>4. CASE StopReloadService
  BY <1>4, Stops, Places DEF StopReloadService, Keeps
<1>5. CASE InstallReload
  BY <1>5, OpInstalls DEF InstallReload, Stopped, At, Recovers, Passes, Keeps
<1>6. CASE NextPass
  BY <1>6, OpPass, OpFailed DEF NextPass, Stopped, At, Passes, Failed, Keeps
<1>7. CASE RollBack
  BY <1>7, OpRecovers DEF RollBack, Stopped, At, Recovers, Passes, Keeps
<1>8. CASE BlockServices
  BY <1>8, OpStage DEF BlockServices, Stopped, At, HeldDown, Keeps
<1>9. CASE SkipBlocked
  BY <1>9, OpNextOne DEF SkipBlocked, Launching, At, Changing, Changes, NextOne, Keeps
<1>10. CASE FailBeforeStart
  BY <1>10, OpFailed DEF FailBeforeStart, Launching, At, Changing, Changes, Failed, Keeps
<1>11. CASE StartCancelled
  BY <1>11, HeldFailed DEF StartCancelled
<1>12. CASE PortTaken
  <2>1. CASE StartFailed
    BY <1>12, <2>1, HeldFailed DEF PortTaken, Launching, At
  <2>2. CASE ~StartFailed
    BY <1>12, <2>2, OpTries DEF Keeps
  <2> QED
    BY <2>1, <2>2
<1>13. CASE Launch
  <2>1. CASE StartFailed
    BY <1>13, <2>1, HeldFailed DEF Launch, Launching, At
  <2>2. CASE ~StartFailed
    BY <1>13, <2>2, OpTries DEF Keeps
  <2> QED
    BY <2>1, <2>2
<1>14. CASE Healthy
  BY <1>14, OpNextOne DEF Healthy, At, Track, Forget, NextOne, RefreshRoute, Keeps
<1>15. CASE RouteRefreshFailed
  BY <1>15, HeldFailed DEF RouteRefreshFailed
<1>16. CASE HealthCancelled
  BY <1>16, HeldFailed DEF HealthCancelled
<1>17. CASE HealthFailed
  <2>1. CASE StartFailed
    BY <1>17, <2>1, HeldFailed DEF HealthFailed, Launching, At
  <2>2. CASE ~StartFailed
    BY <1>17, <2>2, OpTries DEF Keeps
  <2> QED
    BY <2>1, <2>2
<1>18. CASE PassDone
  <2>1. UNCHANGED <<manifest, blocked>> /\ op.stage = "launch"
    BY <1>18 DEF PassDone, Stopped, At
  <2>2. \/ op'.kind \notin Changes
        \/ /\ op'.kind = op.kind /\ op'.stage \notin {"claim", "stop"}
                /\ op.affected \subseteq op'.affected
           /\ op'.previous = op.previous /\ op'.previousBlocked = op.previousBlocked
                /\ op'.nextBlocked = op.nextBlocked
    BY <1>18, OpPassDone, Covers DEF Over, Failed, Keeps
  <2> QED
    BY <2>1, <2>2
<1>19. CASE ReplaceRoutes
  BY <1>19, OpReplaces DEF ReplaceRoutes, At, Failed, Over, Keeps
<1>20. CASE Accept
  BY <1>20, OpFailed, OpStage DEF Accept, At, Failed, Forget, Keeps
<1>21. CASE RetireClaims
  BY <1>21, OpOver DEF RetireClaims, At, ReleaseClaimsExcept, FinishReservation, Over, Keeps
<1>22. CASE Reject
  BY <1>22, OpOver DEF Reject, At, ReleaseClaimsExcept, FinishReservation, Over, Keeps
<1>23. CASE RestartStops
  BY <1>23, OpOver, OpStage, Stops, Places DEF RestartStops, At, Over, Keeps
<1>24. CASE RestartDone
  BY <1>24, OpOver DEF RestartDone, Stopped, At, Over, Keeps
<1>25. CASE BeginShutdown
  BY <1>25 DEF BeginShutdown, OperationMuFree
<1>26. CASE StopTrees
  BY <1>26 DEF StopTrees, CleanedUp
<1>27. CASE ReleaseHosts
  BY <1>27 DEF ReleaseHosts, CleanedUp
<1>28. CASE UnregisterRoutes
  BY <1>28 DEF UnregisterRoutes, CleanedUp
<1>29. CASE ReleasePorts
  BY <1>29 DEF ReleasePorts, CleanedUp
<1>30. CASE UnregisterStack
  BY <1>30 DEF UnregisterStack, CleanedUp
<1>31. ASSUME NEW n \in Manifests, Reload(n) PROVE HeldInv'
  <2>1. CASE UNCHANGED op
    BY <1>31, <2>1 DEF Reload
  <2>2. CASE ~UNCHANGED op
    <3>1. PICK candidate, affected : /\ Planned("reload", n, candidate, affected)
                                     /\ affectedReloadServices(manifest,
                                          candidate) \subseteq affected
      BY <1>31, <2>2, OpPlan DEF Reload
    <3>2. \A s \in Names(manifest) \ op'.affected : s \in Names(candidate)
      BY <3>1, Covers, OnlyAffected DEF Planned
    <3> QED
      BY <1>31, <3>1, <3>2 DEF Planned, KeptBlocked, Reload
  <2> QED
    BY <2>1, <2>2
<1>32. CASE RestartStack
  <2>1. PICK candidate, affected : /\ Planned("restartStack", configured, candidate, affected)
                                   /\ affectedReloadServices(manifest,
                                        candidate) \subseteq affected
    BY <1>32, OpPlan DEF RestartStack
  <2>2. \A s \in Names(manifest) \ op'.affected : s \in Names(candidate)
    BY <2>1, Covers, OnlyAffected DEF Planned
  <2> QED
    BY <1>32, <2>1, <2>2 DEF Planned, KeptBlocked, RestartStack
<1>33. ASSUME NEW ss \in SUBSET Names(manifest) \ {{}}, Restart(ss) PROVE HeldInv'
  BY <1>33, OpRestart DEF Restart, MayBegin, Keeps
<1>34. CASE Cancel
  BY <1>34 DEF Cancel
<1>35. CASE ServiceExits
  BY <1>35, Exits, SamePlaces DEF ServiceExits, Keeps
<1>36. CASE UNCHANGED vars
  BY <1>36 DEF vars
<1>37. CASE Operate
  BY <1>37, <1>1, <1>2, <1>3, <1>4, <1>5, <1>6, <1>7, <1>8, <1>9, <1>10, <1>11, <1>12, <1>13,
     <1>14, <1>15, <1>16, <1>17, <1>18, <1>19, <1>20, <1>21, <1>22, <1>23, <1>24
  DEF Operate
<1>38. CASE ShutDown
  BY <1>38, <1>25, <1>26, <1>27, <1>28, <1>29, <1>30 DEF ShutDown
<1>39. CASE Request
  BY <1>39, <1>31, <1>32, <1>33 DEF Request
<1> QED
  BY <1>34, <1>35, <1>36, <1>37, <1>38, <1>39 DEF Next

(* Installing another manifest leaves what it does not affect as it was. *)
LEMMA SilentInstalls ==
  ASSUME ShapeInv, StageInv, ConfigInv, PlanInv, HeldInv, SilentInv, Changing,
      op.stage \in {"stop", "undo"},
         RecoverReload \/ (op.stage = "stop" /\ InstallReload),
             UNCHANGED <<life, cancelled, started, failures>>
  PROVE  SilentInv'
<1>0. /\ op'.kind = op.kind
      /\ op'.stage = "unclaim" \/ op'.stage = "launch"
      /\ life = "ready" /\ ~op.recovering
  BY OpGoesOn DEF StageInv
<1>1. CASE cancelled
  BY <1>0, <1>1 DEF SilentInv, Changing, Changes
<1>4. ASSUME NEW r, ~cancelled, Passes(r, {"recovering"}) \/ Passes(r, {}), manifest' = r,
             \A s \in Names(r) \ op.affected : started[s].state \in {"none", "stopped"} =>
                 s \in blocked' \cup failures
      PROVE  SilentInv'
  <2>1. op'.stage = "launch" /\ op'.affected = op.affected
      /\ op'.todo = op.affected \cap Names(r)
    BY <1>4 DEF Passes, Keeps, Fields
  <2>2. \A s \in Names(r) \ op.affected : started'[s].state \in {"none", "stopped"} =>
      s \in blocked' \cup failures'
    BY <1>4
  <2>3. Names(manifest') = Names(r)
    BY <1>4
  <2> QED
    BY <1>0, <1>4, <2>1, <2>2, <2>3 DEF SilentInv, Said, Changing, Changes
<1>5. /\ op.stage = "stop" => manifest = op.previous
      /\ op.stage = "undo" => Names(manifest) = Names(op.candidate)
  BY <1>0 DEF ConfigInv, Names
<1>6. ASSUME ~cancelled, NEW s \in (Names(op.previous) \cup Names(op.candidate)) \ op.affected,
             started[s].state \in {"none", "stopped"}
      PROVE  s \in Names(op.previous) \cap Names(manifest) /\ s \in blocked \cup failures
  <2>1. s \in Names(op.previous) \cap Names(op.candidate) /\ s \notin op.affected
    BY <1>6 DEF PlanInv
  <2>2. s \in Names(manifest)
    BY <1>5, <2>1
  <2> QED
    BY <1>0, <1>6, <2>1, <2>2 DEF SilentInv, Said
<1>2. CASE ~cancelled /\ Passes(op.previous, {"recovering"}) /\ manifest' = op.previous
    /\ blocked' = op.previousBlocked
  BY <1>2, <1>4, <1>6 DEF HeldInv
<1>3. CASE ~cancelled /\ Passes(op.candidate, {}) /\ op.stage = "stop"
    /\ manifest' = op.candidate /\ blocked' = op.nextBlocked
  BY <1>3, <1>4, <1>6 DEF HeldInv
<1> QED
  BY <1>1, <1>2, <1>3, OpRecovers, OpInstalls DEF Recovers, ShapeInv

(* What a failed start says of the service, and of the others as before. *)
LEMMA SilentFailed ==
  ASSUME ShapeInv, StageInv, SilentInv, StartFailed, op.stage \in {"launch", "health"},
      UNCHANGED <<life, manifest, blocked>>,
         Names(manifest) \subseteq Service,
         \A s \in Service \ {First} : started'[s].state \in {"none", "stopped"} =>
             started'[s] = started[s],
         Changing => \A s \in Service : started'[s].state \in {"none", "stopped"} =>
             started'[s] = started[s]
  PROVE  SilentInv'
<1>1. failures' = failures \cup {First}
  BY DEF StartFailed
<1>2. CASE op.kind \in {"boot", "restart"} /\ Over
  <2>1. op.kind = "restart" => UNCHANGED cancelled
    BY DEF StartFailed, Changing, Changes
  <2> QED
    BY <1>1, <1>2, <2>1 DEF SilentInv, Said, StageInv, Over, Changing, Changes, Names
<1>3. CASE op.kind = "boot" /\ NextOne
  <2>1. op'.kind = "boot" /\ op'.stage = "launch" /\ op'.todo = op.todo \ {First}
      /\ life' = "starting"
    BY <1>3 DEF NextOne, Keeps, Fields, StageInv
  <2> QED
    BY <1>1, <1>3, <2>1 DEF SilentInv, Said, Names
<1>4. CASE Changing /\ UNCHANGED cancelled /\ Failed
  <2>1. op'.kind = op.kind /\ op'.stage \in {"undo", "giveUp"} /\ op'.affected = op.affected
    BY <1>4 DEF Failed, Keeps, Fields, StageInv
  <2> QED
    BY <1>1, <1>4, <2>1 DEF SilentInv, Said, Changing, Changes, Names
<1> QED
  BY <1>2, <1>3, <1>4, OpStartFailed DEF ShapeInv, StageInv

(* No step leaves a service down without a word. *)
LEMMA NextSilent ==
  ShapeInv /\ StageInv /\ ConfigInv /\ AttemptInv /\ TodoInv /\ AffectedInv /\ PlanInv
    /\ HeldInv /\ SilentInv /\ [Next]_vars =>
    SilentInv'
<1> SUFFICES ASSUME ShapeInv, StageInv, ConfigInv, AttemptInv, TodoInv, AffectedInv, PlanInv,
                    HeldInv, SilentInv, [Next]_vars
             PROVE  SilentInv'
  OBVIOUS
<1> USE DEF ShapeInv, Fields, StageInv, SilentInv, Said, Changing, Changes
<1>1. CASE RegisterStack
  BY <1>1, SamePlaces, OpRegisters DEF RegisterStack, At, Over, Keeps
<1>2. CASE Claim
  BY <1>2, SamePlaces, OpOver, OpStage
  DEF Claim, At, AbortStartup, Changing, Changes, Over, Keeps
<1>3. CASE ClaimsHeld
  BY <1>3, SamePlaces, OpClaimsHeld DEF ClaimsHeld, At, Changing, Changes, OldServices, Keeps
<1>4. CASE StopReloadService
  <2>1. PICK leaks \in BOOLEAN : StopTracked(Last, leaks)
                                 /\ op' = [op EXCEPT !.todo = @ \ {Last}, !.failed = @ \/ leaks]
    BY <1>4 DEF StopReloadService
  <2>2. op'.kind = op.kind /\ op'.stage = op.stage /\ op'.affected = op.affected
    BY <2>1
  <2>3. op.stage \in {"stop", "restop", "undo", "giveUp"} /\ op.todo # {}
      /\ UNCHANGED <<life, cancelled, manifest, blocked, failures>>
    BY <1>4 DEF StopReloadService
  <2>4. Last \in Service /\ (Changing => Last \in op.affected)
    BY <2>3, FirstFits DEF TodoInv, AffectedInv
  <2>5. \A s \in Service \ {Last} : started'[s] = started[s]
    BY <2>1, <2>4, Stops
  <2> QED
    BY <2>2, <2>3, <2>4, <2>5, NamesFit DEF Names
<1>5. CASE InstallReload
  <2>1. op.stage = "stop" /\ op.todo = {} /\ Changing
      /\ UNCHANGED <<life, cancelled, started, failures>>
    BY <1>5 DEF InstallReload, Stopped, At
  <2> QED
    BY <1>5, <2>1, SilentInstalls DEF InstallReload
<1>6. CASE NextPass
  BY <1>6, SamePlaces, OpPass, OpFailed DEF NextPass, Stopped, At, Passes, Failed, Keeps
<1>7. CASE RollBack
  <2>1. op.stage = "undo" /\ op.todo = {} /\ Changing
      /\ UNCHANGED <<life, cancelled, started, failures>>
    BY <1>7 DEF RollBack, Stopped, At
  <2> QED
    BY <1>7, <2>1, SilentInstalls DEF RollBack
<1>8. CASE BlockServices
  BY <1>8, SamePlaces, OpStage DEF BlockServices, Stopped, At, HeldDown, Keeps
<1>9. CASE SkipBlocked
  BY <1>9, SamePlaces, OpNextOne
  DEF SkipBlocked, Launching, At, Changing, Changes, NextOne, Keeps
<1>10. CASE FailBeforeStart
  BY <1>10, SamePlaces, OpFailed
  DEF FailBeforeStart, Launching, At, Changing, Changes, Failed, Keeps
<1>11. CASE StartCancelled
  BY <1>11, SilentFailed, NamesFit DEF StartCancelled, Launching, At
<1>12. CASE PortTaken
  <2>1. /\ UNCHANGED <<life, manifest, blocked, started>> /\ op.stage = "launch"
    BY <1>12 DEF PortTaken, Launching, At
  <2>2. CASE StartFailed
    BY <2>1, <2>2, SilentFailed, NamesFit
  <2>3. CASE ReassignPort /\ UNCHANGED <<cancelled, failures>> /\ op.kind # "restart"
    <3>1. op'.kind = op.kind /\ op'.stage = "launch" /\ op'.todo = op.todo
        /\ op'.affected = op.affected
      BY <2>3, OpRetry DEF Keeps
    <3> QED
      BY <2>1, <2>3, <3>1 DEF Names
  <2> QED
    BY <1>12, <2>2, <2>3 DEF PortTaken, MayRetry, AllowPortReassignment
<1>13. CASE Launch
  <2>1. UNCHANGED <<life, manifest, blocked, started>> /\ op.stage = "launch" /\ op.todo # {}
    BY <1>13 DEF Launch, Launching, At
  <2>2. CASE StartFailed
    BY <2>1, <2>2, SilentFailed, NamesFit
  <2>3. CASE ~StartFailed
    <3>1. op'.kind = op.kind /\ op'.stage = "health" /\ op'.todo = op.todo
        /\ op'.affected = op.affected
          /\ failures' = failures \ {First} /\ UNCHANGED cancelled
      BY <1>13, <2>3, OpLaunch DEF Launch, Keeps
    <3>2. First' = First
      BY <2>1, <3>1, SamePlaces
    <3>3. First \in op.todo /\ (Changing => First \in op.affected)
      BY <2>1, FirstFits DEF TodoInv, AffectedInv
    <3> QED
      BY <2>1, <3>1, <3>2, <3>3 DEF Names
  <2> QED
    BY <2>2, <2>3
<1>14. CASE Healthy
  <2>1. /\ UNCHANGED <<life, cancelled, failures>> /\ op.stage = "health"
      /\ manifest'.config = manifest.config
        /\ started' = [started EXCEPT ![First] = op.tree] /\ op.tree.state = "running"
        /\ blocked' = IF op.kind = "restart" THEN blocked \ {First} ELSE blocked
    BY <1>14 DEF Healthy, At, Track, AttemptInv
  <2>2. First \in Service
    BY <2>1, FirstFits DEF TodoInv
  <2>3. \A s \in Service : started'[s].state \in {"none", "stopped"} => s # First
      /\ started'[s] = started[s]
    BY <2>1, <2>2
  <2>4. op'.kind = op.kind /\ op'.stage = (IF op.kind = "restart" THEN "restart" ELSE "launch")
        /\ op'.todo = op.todo \ {First} /\ op'.affected = op.affected
    BY <1>14, OpNextOne DEF Healthy, NextOne, Keeps
  <2>5. Names(manifest') = Names(manifest)
    BY <2>1 DEF Names
  <2> QED
    BY <2>1, <2>3, <2>4, <2>5, NamesFit DEF Names
<1>15. CASE RouteRefreshFailed
  <2>1. UNCHANGED <<life, manifest, blocked>> /\ op.stage = "health" /\ ~Changing
    BY <1>15 DEF RouteRefreshFailed, At, RefreshRoute
  <2>2. First \in Service
    BY <2>1, FirstFits DEF TodoInv
  <2>3. \A s \in Service \ {First} : started'[s] = started[s]
    BY <1>15, <2>2, OpUnrouted
  <2> QED
    BY <1>15, <2>1, <2>3, SilentFailed, NamesFit DEF RouteRefreshFailed
<1>16. CASE HealthCancelled
  <2>1. cancelled /\ op.stage = "health" /\ UNCHANGED <<life, manifest, blocked>>
    BY <1>16 DEF HealthCancelled, At
  <2>2. cancelled' /\ op'.kind # "boot"
    BY <1>16, <2>1, OpStartFailed
    DEF HealthCancelled, StartFailed, AbortStartup, Over, Failed, Keeps
  <2> QED
    BY <2>2
<1>17. CASE HealthFailed
  <2>1. UNCHANGED <<life, manifest, blocked>> /\ op.stage = "health"
    BY <1>17 DEF HealthFailed, At
  <2>2. First \in Service
    BY <2>1, FirstFits DEF TodoInv
  <2>3. \A s \in Service : started'[s].state \in {"none", "stopped"} => started'[s] = started[s]
    BY <1>17, <2>2, OpHealthFails DEF IsTree
  <2>4. CASE StartFailed
    BY <2>1, <2>3, <2>4, SilentFailed, NamesFit
  <2>5. CASE ReassignPort /\ UNCHANGED <<cancelled, failures, started>> /\ op.kind # "restart"
    <3>1. op'.kind = op.kind /\ op'.stage = "launch" /\ op'.todo = op.todo
        /\ op'.affected = op.affected
      BY <2>5, OpRetry DEF Keeps
    <3> QED
      BY <2>1, <2>5, <3>1 DEF Names
  <2> QED
    BY <1>17, <2>4, <2>5, OpHealthFails DEF MayRetry, AllowPortReassignment
<1>18. CASE PassDone
  BY <1>18, SamePlaces, OpPassDone DEF PassDone, Stopped, At, Failed, Over, Keeps
<1>19. CASE ReplaceRoutes
  BY <1>19, SamePlaces, OpReplaces DEF ReplaceRoutes, At, Failed, Over, Keeps
<1>20. CASE Accept
  <2>1. CASE cancelled
    <3>1. op'.kind = op.kind /\ op'.stage = "undo" /\ op.kind # "boot" /\ UNCHANGED cancelled
      BY <1>20, <2>1, OpFailed DEF Accept, At, Failed, Keeps
    <3> QED
      BY <2>1, <3>1
  <2>2. CASE ~cancelled
    <3>1. op'.kind = op.kind /\ op'.stage = "retire" /\ op.stage = "settings"
        /\ op'.affected = op.affected
      BY <1>20, <2>2, OpStage DEF Accept, At, Keeps
    <3>2. /\ UNCHANGED <<life, cancelled, manifest, blocked, failures>>
          /\ \A s \in Names(manifest) : started'[s] = started[s]
      BY <1>20, <2>2, NamesFit DEF Accept
    <3> QED
      BY <3>1, <3>2 DEF Names
  <2> QED
    BY <2>1, <2>2
<1>21. CASE RetireClaims
  BY <1>21, SamePlaces, OpOver
  DEF RetireClaims, At, ReleaseClaimsExcept, FinishReservation, Over, Keeps
<1>22. CASE Reject
  BY <1>22, SamePlaces, OpOver
  DEF Reject, At, ReleaseClaimsExcept, FinishReservation, Over, Keeps
<1>23. CASE RestartStops
  <2>1. op.stage = "restart" /\ op.kind = "restart" /\ op.todo # {}
      /\ UNCHANGED <<life, cancelled, manifest, blocked, failures>>
    BY <1>23 DEF RestartStops, At
  <2>2. First \in Service
    BY <2>1, FirstFits DEF TodoInv
  <2>3. PICK leaks \in BOOLEAN : /\ StopTracked(First, leaks)
                                 /\ \/ op' = IF leaks THEN NoOp ELSE [op EXCEPT !.stage = "launch"]
                                    \/ First \in blocked /\ op' = NoOp
    BY <1>23 DEF RestartStops
  <2>4. \A s \in Service \ {First} : started'[s] = started[s]
    BY <2>2, <2>3, Stops
  <2>5. CASE op' = NoOp /\ (leaks \/ First \in blocked)
    <3>1. started'[First].state \in {"none", "stopped"} => First \in blocked
      BY <2>2, <2>3, <2>5, Stops
    <3>2. op'.kind = "none"
      BY <2>5, OpOver DEF Over
    <3> QED
      BY <2>1, <2>4, <3>1, <3>2, NamesFit DEF Names
  <2>6. CASE op' = [op EXCEPT !.stage = "launch"]
    <3>1. op'.kind = "restart" /\ op'.stage = "launch" /\ op'.todo = op.todo
      BY <2>1, <2>6
    <3>2. First' = First
      BY <2>1, <3>1, SamePlaces
    <3> QED
      BY <2>1, <2>4, <3>1, <3>2, NamesFit DEF Names
  <2> QED
    BY <2>3, <2>5, <2>6
<1>24. CASE RestartDone
  BY <1>24, SamePlaces, OpOver DEF RestartDone, Stopped, At, Over, Keeps
<1>25. CASE BeginShutdown
  BY <1>25, SamePlaces DEF BeginShutdown, OperationMuFree
<1>26. CASE StopTrees
  BY <1>26, SamePlaces DEF StopTrees, CleanedUp
<1>27. CASE ReleaseHosts
  BY <1>27, SamePlaces DEF ReleaseHosts, CleanedUp
<1>28. CASE UnregisterRoutes
  BY <1>28, SamePlaces DEF UnregisterRoutes, CleanedUp
<1>29. CASE ReleasePorts
  BY <1>29, SamePlaces DEF ReleasePorts, CleanedUp
<1>30. CASE UnregisterStack
  BY <1>30, SamePlaces DEF UnregisterStack, CleanedUp
<1>31. ASSUME NEW n \in Manifests, Reload(n) PROVE SilentInv'
  BY <1>31, SamePlaces, OpPlan DEF Reload, MayBegin, Planned, Keeps
<1>32. CASE RestartStack
  BY <1>32, SamePlaces, OpPlan DEF RestartStack, MayBegin, Planned, Keeps
<1>33. ASSUME NEW ss \in SUBSET Names(manifest) \ {{}}, Restart(ss) PROVE SilentInv'
  BY <1>33, SamePlaces, OpRestart DEF Restart, MayBegin, Keeps
<1>34. CASE Cancel
  BY <1>34, SamePlaces DEF Cancel
<1>35. CASE ServiceExits
  <2>1. op'.kind = op.kind /\ op'.stage = op.stage /\ op'.todo = op.todo
      /\ op'.affected = op.affected
    BY <1>35, Exits DEF Keeps
  <2>2. UNCHANGED <<life, cancelled, manifest, blocked, failures>>
    BY <1>35 DEF ServiceExits
  <2>3. First' = First
    BY <2>1, <2>2, SamePlaces
  <2>4. \A s \in Names(manifest) : started'[s].state \in {"none", "stopped"} =>
      started'[s] = started[s]
    BY <1>35, Exits, NamesFit
  <2> QED
    BY <2>1, <2>2, <2>3, <2>4 DEF Names
<1>36. CASE UNCHANGED vars
  BY <1>36, SamePlaces DEF vars
<1>37. CASE Operate
  BY <1>37, <1>1, <1>2, <1>3, <1>4, <1>5, <1>6, <1>7, <1>8, <1>9, <1>10, <1>11, <1>12, <1>13,
     <1>14, <1>15, <1>16, <1>17, <1>18, <1>19, <1>20, <1>21, <1>22, <1>23, <1>24
  DEF Operate
<1>38. CASE ShutDown
  BY <1>38, <1>25, <1>26, <1>27, <1>28, <1>29, <1>30 DEF ShutDown
<1>39. CASE Request
  BY <1>39, <1>31, <1>32, <1>33 DEF Request
<1> QED
  BY <1>34, <1>35, <1>36, <1>37, <1>38, <1>39 DEF Next

---------------------------------------------------------------------------
(* What a step makes of a change, of the installed manifest and of the services *)
(* held down, without what it does to the trees and the routes.                *)

(* The operation stays where it is. *)
Stays ==
  /\ Keeps({"claims", "todo", "failed", "tree"}) /\ op'.tree.env = op.tree.env
  /\ op.stage \in {"launch", "health"} => op'.todo = op.todo
  /\ UNCHANGED <<manifest, blocked>>

(* It is over: a change has given back its claims, a boot is ready or aborted. *)
Ends ==
  /\ Over /\ UNCHANGED <<manifest, blocked>>
  /\ op.kind = "boot" => cancelled' \/ (PassDone /\ op.stage = "launch")
  /\ op.kind \in {"boot", "restart"} \/ (Changing /\ op.stage \in {"retire", "unclaim"})

(* A change or a restart begins. *)
Plans ==
  /\ MayBegin /\ UNCHANGED <<manifest, blocked>>
  /\ \E kind \in Changes, next \in Manifests :
       \E candidate \in resolveReloadPorts(next, manifest)
                        \cup resolveStackRestartPorts(next, manifest) :
       \E affected : /\ affectedReloadServices(manifest, candidate) \subseteq affected
                     /\ Planned(kind, next, candidate, affected)

(* Services are asked to restart. *)
Restarts ==
  /\ MayBegin /\ UNCHANGED <<manifest, blocked>>
  /\ op'.kind = "restart" /\ op'.stage = "restart" /\ op'.retries = 0

(* It goes on without starting anything. *)
Advances ==
  /\ Keeps({"stage", "claims", "todo"}) /\ UNCHANGED <<manifest, blocked, cancelled>>
  /\ \/ op.kind = "boot" /\ op.stage \in {"register", "claim"} /\ op'.stage \in {"claim", "routes"}
     \/ op.kind = "restart" /\ op.stage = "restart" /\ op'.stage = "launch"
     \/ Changing /\ op.stage = "claim" /\ op'.stage \in {"stop", "unclaim"}

(* A change installs its candidate, or the manifest it returns to. *)
Installs ==
  /\ Changing /\ op.stage = "stop" /\ UNCHANGED cancelled
  /\ manifest' = op.candidate /\ blocked' = op.nextBlocked /\ Passes(op.candidate, {})

(* It returns to the previous manifest, unless it is cancelled. *)
Returns == Changing /\ op.stage \in {"stop", "undo"} /\ Recovers /\ UNCHANGED cancelled

(* It starts its services again, or gives up what it started. *)
Repasses ==
  /\ Changing /\ op.stage = "restop" /\ UNCHANGED <<manifest, blocked, cancelled>>
  /\ Passes(manifest, {})

(* A start phase of it fails. *)
Fails ==
  /\ Changing /\ Failed /\ UNCHANGED <<manifest, blocked, cancelled>>
  /\ op.stage \in {"restop", "launch", "health", "routes", "settings"}
  /\ op.stage = "settings" => cancelled

(* A rollback that failed holds its services down. *)
GivesUp ==
  /\ Changing /\ op.stage = "giveUp" /\ UNCHANGED <<manifest, cancelled>>
  /\ blocked' = HeldDown /\ Keeps({"stage"}) /\ op'.stage = "unclaim"

(* A service is passed over, moved to another port, launched, or healthy. *)
Skips ==
  /\ NextOne /\ UNCHANGED <<manifest, blocked, cancelled>>
  /\ op.stage \in {"launch", "health"} /\ op.todo # {}
  /\ op.kind = "boot" \/ (Changing /\ First \in blocked)

(* A service whose port is taken moves to another. *)
Moves ==
  /\ op.kind # "restart" /\ op.stage \in {"launch", "health"} /\ op.todo # {}
  /\ UNCHANGED <<manifest, blocked, cancelled>>
  /\ Keeps({"stage", "attempt", "retries", "tree"})
  /\ op'.stage = "launch" /\ op'.attempt \in ReassignAutoPort(Attempt, First)
  /\ op'.retries = op.retries + 1 /\ Phase \in spent'.phases

(* A service is launched. *)
Launches ==
  /\ op.stage = "launch" /\ op.todo # {} /\ UNCHANGED <<manifest, blocked, cancelled>>
  /\ Keeps({"stage", "attempt", "tree"}) /\ op'.stage = "health" /\ op'.attempt = Attempt
  /\ op'.tree = [env |-> Environment(Attempt, First), state |-> "running"]

(* A service is healthy, and its start is over. *)
Heals == Healthy /\ NextOne /\ op.stage = "health" /\ op.todo # {}

(* After a pass, another one, or the routes; then the change is accepted. *)
Settles ==
  /\ Changing /\ op.stage = "launch" /\ op.todo = {}
  /\ UNCHANGED <<manifest, blocked, cancelled>>
  /\ LET changed == affectedReloadServices(op.before, manifest)
     IN \/ /\ Keeps({"stage", "affected", "todo"}) /\ op'.stage = "restop"
           /\ op.affected \cup changed \subseteq op'.affected
        \/ Keeps({"stage"}) /\ op'.stage = "routes" /\ changed = {}

(* The routes of the installed manifest are published. *)
Publishes ==
  /\ op.stage = "routes" /\ UNCHANGED <<manifest, blocked, cancelled>>
  /\ active' = Routes(manifest) /\ Keeps({"stage", "todo"})
  /\ op'.stage = (IF op.kind = "boot" THEN "launch"
                  ELSE IF op.recovering THEN "unclaim" ELSE "settings")

(* The change is accepted. *)
Accepts ==
  /\ Changing /\ op.stage = "settings" /\ UNCHANGED <<manifest, blocked, cancelled>>
  /\ Keeps({"stage"}) /\ op'.stage = "retire"

(* All of them. *)
Step ==
  \/ Stays \/ Ends \/ Plans \/ Restarts \/ Advances \/ Installs \/ Returns \/ Repasses
  \/ Fails \/ GivesUp \/ Skips \/ Moves \/ Launches \/ Heals \/ Settles \/ Publishes
  \/ Accepts

(* A failed start ends the operation, makes a change roll back, or lets a boot *)
(* go on.                                                                      *)
LEMMA StepFailed ==
  ASSUME ShapeInv, StageInv, StartFailed, op.stage \in {"launch", "health"}, op.todo # {},
         UNCHANGED <<manifest, blocked>>
  PROVE  Ends \/ Fails \/ Skips
BY OpStartFailed DEF ShapeInv, StageInv, Ends, Fails, Skips, Changing, Changes

(* Every step is one of these. *)
LEMMA NextStep ==
  ShapeInv /\ StageInv /\ ConfigInv /\ TodoInv /\ [Next]_vars => Step
<1> SUFFICES ASSUME ShapeInv, StageInv, ConfigInv, TodoInv, [Next]_vars PROVE Step
  OBVIOUS
<1> USE DEF Step, Changing, Changes, At
<1>0. ASSUME UNCHANGED <<op, manifest, blocked>> PROVE Stays
  BY <1>0 DEF ShapeInv, Stays, Keeps
<1>1. CASE RegisterStack
  BY <1>1, OpRegisters DEF ShapeInv, StageInv, RegisterStack, Ends, Advances, Keeps, Fields
<1>2. CASE Claim
  <2>1. CASE op' = NoOp
    BY <1>2, <2>1, OpOver DEF StageInv, Claim, AbortStartup, Ends, NoOp
  <2>2. CASE op' = [op EXCEPT !.stage = "unclaim"] /\ Changing
    BY <1>2, <2>2, OpStage DEF ShapeInv, Claim, Advances, AbortStartup, Keeps
  <2>3. CASE \E claim \in op.claims : op' = [op EXCEPT !.claims = @ \ {claim}]
    BY <1>2, <2>3 DEF ShapeInv, Claim, Stays, Keeps, Fields
  <2> QED
    BY <1>2, <2>1, <2>2, <2>3 DEF Claim, AbortStartup
<1>3. CASE ClaimsHeld
  BY <1>3, OpClaimsHeld DEF ShapeInv, StageInv, ClaimsHeld, Advances, Keeps
<1>4. CASE StopReloadService
  BY <1>4 DEF ShapeInv, StopReloadService, Stays, Keeps, Fields
<1>5. CASE InstallReload
  BY <1>5, OpInstalls DEF ShapeInv, StageInv, InstallReload, Stopped, Installs, Returns
<1>6. CASE NextPass
  BY <1>6, OpPass, OpFailed DEF ShapeInv, StageInv, NextPass, Stopped, Repasses, Fails
<1>7. CASE RollBack
  BY <1>7, OpRecovers DEF ShapeInv, StageInv, RollBack, Stopped, Returns
<1>8. CASE BlockServices
  BY <1>8, OpStage DEF ShapeInv, StageInv, BlockServices, Stopped, GivesUp
<1>9. CASE SkipBlocked
  BY <1>9, OpNextOne DEF ShapeInv, SkipBlocked, Launching, Skips
<1>10. CASE FailBeforeStart
  BY <1>10, OpFailed DEF ShapeInv, FailBeforeStart, Launching, Fails
<1>11. CASE StartCancelled
  BY <1>11, StepFailed DEF StartCancelled, Launching
<1>12. CASE PortTaken
  <2>1. CASE StartFailed
    BY <1>12, <2>1, StepFailed DEF PortTaken, Launching
  <2>2. CASE ReassignPort /\ MayRetry
    BY <1>12, <2>2, OpRetry DEF ShapeInv, PortTaken, Launching, MayRetry,
       AllowPortReassignment, Moves
  <2> QED
    BY <1>12, <2>1, <2>2 DEF PortTaken
<1>13. CASE Launch
  BY <1>13, StepFailed, OpLaunch DEF ShapeInv, Launch, Launching, Launches
<1>14. CASE Healthy
  BY <1>14, OpNextOne DEF ShapeInv, StageInv, Healthy, Heals
<1>15. CASE RouteRefreshFailed
  BY <1>15, StepFailed DEF StageInv, RouteRefreshFailed
<1>16. CASE HealthCancelled
  BY <1>16, StepFailed DEF StageInv, HealthCancelled
<1>17. CASE HealthFailed
  <2>1. CASE StartFailed
    BY <1>17, <2>1, StepFailed DEF StageInv, HealthFailed
  <2>2. CASE ReassignPort /\ MayRetry /\ UNCHANGED cancelled
                /\ spent' = [spent EXCEPT !.collisions = @ + 1, !.phases = @ \cup {Phase}]
    BY <1>17, <2>2, OpRetry DEF ShapeInv, StageInv, HealthFailed, MayRetry,
       AllowPortReassignment, Moves
  <2> QED
    BY <1>17, <2>1, <2>2 DEF HealthFailed
<1>18. CASE PassDone
  <2> DEFINE changed == affectedReloadServices(op.before, manifest)
             affected == expandReloadGroups(op.affected \cup changed, op.before, manifest)
  <2>1. /\ op.stage = "launch" /\ op.todo = {} /\ UNCHANGED <<manifest, blocked, cancelled>>
        /\ \/ op.kind = "boot" /\ op' = NoOp
           \/ op.kind # "boot" /\ changed # {} /\
              op' = [op EXCEPT !.stage = "restop", !.affected = affected,
                               !.todo = affected \cap Names(manifest)]
           \/ op.kind # "boot" /\ changed = {} /\ op' = StartPhaseFailed
           \/ op.kind # "boot" /\ changed = {} /\ op' = [op EXCEPT !.stage = "routes"]
    BY <1>18 DEF PassDone, Stopped
  <2>2. op.affected \cup changed \subseteq affected
    BY Covers
  <2>3. op.kind = "boot" \/ Changing
    BY <2>1 DEF StageInv
  <2> HIDE DEF changed, affected
  <2>4. CASE op.kind = "boot" /\ op' = NoOp
    BY <1>18, <2>1, <2>4, OpOver DEF Ends
  <2>5. CASE op.kind # "boot" /\
             op' = [op EXCEPT !.stage = "restop", !.affected = affected,
                              !.todo = affected \cap Names(manifest)]
    <3>1. Keeps({"stage", "affected", "todo"}) /\ op'.stage = "restop" /\ op'.affected = affected
      BY <2>5, OpRepass DEF ShapeInv
    <3> QED
      BY <2>1, <2>2, <2>3, <2>5, <3>1 DEF Settles, changed
  <2>6. CASE op.kind # "boot" /\ op' = StartPhaseFailed
    BY <2>1, <2>3, <2>6, OpFailed DEF ShapeInv, Fails
  <2>7. CASE op.kind # "boot" /\ changed = {} /\ op' = [op EXCEPT !.stage = "routes"]
    BY <2>1, <2>3, <2>7, OpStage DEF ShapeInv, Settles, changed
  <2> QED
    BY <2>1, <2>4, <2>5, <2>6, <2>7
<1>19. CASE ReplaceRoutes
  <2>1. \/ /\ active' = InstalledRoutes /\ UNCHANGED cancelled
           /\ op' = [op EXCEPT
                !.stage = IF op.kind = "boot" THEN "launch"
                          ELSE IF op.recovering THEN "unclaim" ELSE "settings",
                !.todo = IF op.kind = "boot" THEN Names(manifest) ELSE {}]
        \/ op.kind = "boot" /\ op' = NoOp /\ cancelled'
        \/ op.kind # "boot" /\ op' = StartPhaseFailed /\ UNCHANGED cancelled
    BY <1>19 DEF ReplaceRoutes, AbortStartup
  <2>2. op.stage = "routes" /\ UNCHANGED <<manifest, blocked>>
    BY <1>19 DEF ReplaceRoutes
  <2>3. CASE /\ active' = InstalledRoutes /\ UNCHANGED cancelled
             /\ op' = [op EXCEPT
                  !.stage = IF op.kind = "boot" THEN "launch"
                            ELSE IF op.recovering THEN "unclaim" ELSE "settings",
                  !.todo = IF op.kind = "boot" THEN Names(manifest) ELSE {}]
    BY <2>2, <2>3, OpRouted DEF ShapeInv, Publishes, InstalledRoutes
  <2>4. CASE op.kind = "boot" /\ op' = NoOp /\ cancelled'
    BY <2>2, <2>4, OpOver DEF Ends
  <2>5. CASE op.kind # "boot" /\ op' = StartPhaseFailed /\ UNCHANGED cancelled
    BY <2>2, <2>5, OpFailed DEF ShapeInv, StageInv, Fails
  <2> QED
    BY <2>1, <2>3, <2>4, <2>5
<1>20. CASE Accept
  BY <1>20, OpFailed, OpStage DEF ShapeInv, StageInv, Accept, Fails, Accepts
<1>21. CASE RetireClaims
  BY <1>21, OpOver DEF StageInv, RetireClaims, Ends
<1>22. CASE Reject
  BY <1>22, OpOver DEF StageInv, Reject, Ends
<1>23. CASE RestartStops
  BY <1>23, OpOver, OpStage DEF ShapeInv, StageInv, RestartStops, Ends, Advances, Keeps
<1>24. CASE RestartDone
  BY <1>24, OpOver DEF StageInv, RestartDone, Stopped, Ends
<1>25. CASE ShutDown
  BY <1>0, <1>25 DEF ShutDown, BeginShutdown, StopTrees, ReleaseHosts, UnregisterRoutes,
     ReleasePorts, UnregisterStack
<1>26. ASSUME NEW n \in Manifests, Reload(n) PROVE Step
  <2>1. CASE UNCHANGED op
    BY <1>0, <1>26, <2>1 DEF Reload
  <2>2. CASE ~UNCHANGED op
    BY <1>26, <2>2, OpPlan DEF Reload, Plans
  <2> QED
    BY <2>1, <2>2
<1>27. CASE RestartStack
  BY <1>27, OpPlan DEF RestartStack, Plans, ConfigInv
<1>28. ASSUME NEW ss \in SUBSET Names(manifest) \ {{}}, Restart(ss) PROVE Step
  BY <1>28, OpRestart DEF Restart, Restarts
<1>29. CASE Cancel
  BY <1>0, <1>29 DEF Cancel
<1>30. CASE ServiceExits
  BY <1>30, Exits DEF ServiceExits, Stays, Keeps, Fields
<1>31. CASE UNCHANGED vars
  BY <1>0, <1>31 DEF vars
<1>32. CASE Operate
  BY <1>32, <1>1, <1>2, <1>3, <1>4, <1>5, <1>6, <1>7, <1>8, <1>9, <1>10, <1>11, <1>12, <1>13,
     <1>14, <1>15, <1>16, <1>17, <1>18, <1>19, <1>20, <1>21, <1>22, <1>23, <1>24
  DEF Operate
<1>33. CASE Request
  BY <1>33, <1>26, <1>27, <1>28 DEF Request
<1> QED
  BY <1>25, <1>29, <1>30, <1>31, <1>32, <1>33 DEF Next

(* The lifecycle only ever ends, a stack is ready after its boot, and a move of *)
(* ports is not forgotten.                                                     *)
LEMMA Ages == ShapeInv /\ [Next]_vars =>
  /\ cancelled => cancelled'
  /\ spent.phases \subseteq spent'.phases
  /\ life' = "ready" => life = "ready" \/ (PassDone /\ op.kind = "boot")
<1> SUFFICES ASSUME ShapeInv, [Next]_vars
             PROVE  /\ cancelled => cancelled'
                    /\ spent.phases \subseteq spent'.phases
                    /\ life' = "ready" => life = "ready" \/ (PassDone /\ op.kind = "boot")
  OBVIOUS
<1>1. cancelled => cancelled'
  BY DEF Next, Operate, ShutDown, Request, vars, RegisterStack, Claim, ClaimsHeld,
     StopReloadService, InstallReload, NextPass, RollBack, BlockServices, SkipBlocked,
     FailBeforeStart, StartCancelled, PortTaken, Launch, Healthy, RouteRefreshFailed,
     HealthCancelled, HealthFailed, PassDone, ReplaceRoutes, Accept, RetireClaims, Reject,
     RestartStops, RestartDone, BeginShutdown, StopTrees, ReleaseHosts, UnregisterRoutes,
     ReleasePorts, UnregisterStack, Reload, RestartStack, Restart, Cancel, ServiceExits,
     AbortStartup, StartFailed
<1>2. spent.phases \subseteq spent'.phases
  BY DEF ShapeInv, Next, Operate, ShutDown, Request, vars, RegisterStack, Claim, ClaimsHeld,
     StopReloadService, InstallReload, NextPass, RollBack, BlockServices, SkipBlocked,
     FailBeforeStart, StartCancelled, PortTaken, Launch, Healthy, RouteRefreshFailed,
     HealthCancelled, HealthFailed, PassDone, ReplaceRoutes, Accept, RetireClaims, Reject,
     RestartStops, RestartDone, BeginShutdown, StopTrees, ReleaseHosts, UnregisterRoutes,
     ReleasePorts, UnregisterStack, Reload, RestartStack, Restart, Cancel, ServiceExits,
     StopTracked
<1>3. life' = "ready" => life = "ready" \/ (PassDone /\ op.kind = "boot")
  BY DEF Next, Operate, ShutDown, Request, vars, RegisterStack, Claim, ClaimsHeld,
     StopReloadService, InstallReload, NextPass, RollBack, BlockServices, SkipBlocked,
     FailBeforeStart, StartCancelled, PortTaken, Launch, Healthy, RouteRefreshFailed,
     HealthCancelled, HealthFailed, PassDone, ReplaceRoutes, Accept, RetireClaims, Reject,
     RestartStops, RestartDone, BeginShutdown, StopTrees, ReleaseHosts, UnregisterRoutes,
     ReleasePorts, UnregisterStack, Reload, RestartStack, Restart, Cancel, ServiceExits
<1> QED
  BY <1>1, <1>2, <1>3

(* A process that runs after a step ran before it, or the start that waited for *)
(* its health is over.                                                         *)
Steady(s) == started'[s].state = "running" =>
  started[s].state = "running" /\ started'[s].env = started[s].env

(* A service runs after a step as it ran before, unless it was just launched. *)
LEMMA Tracked ==
  ASSUME ShapeInv, StageInv, ConfigInv, TodoInv, [Next]_vars, NEW s \in Service
  PROVE  \/ Steady(s)
         \/ s = First /\ op.stage = "health" /\ started'[s] = op.tree
              /\ (Healthy \/ (cancelled /\ HealthCancelled))
<1> USE DEF ShapeInv, Steady
<1>1. CASE UNCHANGED started
  BY <1>1
<1>2. CASE StopReloadService
  BY <1>2, FirstFits, Stops DEF StopReloadService, At, TodoInv, Live
<1>3. CASE Healthy \/ HealthCancelled
  BY <1>3 DEF Healthy, HealthCancelled, Track, At
<1>4. CASE RouteRefreshFailed
  BY <1>4, OpUnrouted
<1>5. CASE HealthFailed
  BY <1>5, OpHealthFails DEF IsTree
<1>6. CASE Accept
  BY <1>6 DEF Accept, NoTree
<1>7. CASE RestartStops
  BY <1>7, FirstFits, Stops DEF RestartStops, At, TodoInv, Live
<1>8. CASE StopTrees
  BY <1>8, Halts DEF Live
<1>9. CASE ServiceExits
  <2>1. CASE \E t \in Service : \E tree \in ExitsTo(started[t]) :
               started' = [started EXCEPT ![t] = tree]
    <3>1. PICK t \in Service : \E tree \in ExitsTo(started[t]) :
                started' = [started EXCEPT ![t] = tree]
      BY <2>1
    <3>3. PICK tree \in ExitsTo(started[t]) : started' = [started EXCEPT ![t] = tree]
      BY <3>1
    <3>2. tree.state \in {"lingering", "exited"}
      BY DEF ExitsTo, IsTree
    <3> QED
      BY <3>3, <3>2
  <2> QED
    BY <1>1, <1>9, <2>1 DEF ServiceExits
<1> QED
  BY <1>1, <1>2, <1>3, <1>4, <1>5, <1>6, <1>7, <1>8, <1>9, Frames

(* Every manifest that is or may get installed has a port for each service that *)
(* asks for one, and no field beside. A start that was not moved to another    *)
(* port installs the manifest as it is.                                        *)
IsPorts(r) ==
  /\ r.port = [s \in DOMAIN r.port |-> r.port[s]]
  /\ DOMAIN r.port = Ported(r.config)

(* The ports of the manifests, and of the start in progress. *)
PortsInv ==
  /\ IsPorts(manifest)
  /\ Changing => IsPorts(op.candidate) /\ IsPorts(op.previous)
  /\ op.stage = "health" \/ op.retries # 0 =>
       /\ IsPorts(op.attempt)
       /\ \A s \in Ported(manifest.config) \ {First} : op.attempt.port[s] = manifest.port[s]
  /\ op.kind = "restart" => op.retries = 0
  /\ op.stage = "health" /\ op.retries = 0 => op.attempt = manifest
  /\ op.stage = "health" => op.tree.env = Environment(op.attempt, First)

(* Resolving ports gives each service with a port one. *)
LEMMA PortsResolved ==
  ASSUME NEW m, NEW r, NEW c \in resolveReloadPorts(m, r) \cup resolveStackRestartPorts(m, r)
  PROVE  IsPorts(c)
<1>1. PICK ports : c = Resolved(m, ports)
  BY DEF resolveReloadPorts, resolveStackRestartPorts
<1> QED
  BY <1>1 DEF Resolved, IsPorts

(* Moving one of them to another port leaves the others theirs. *)
LEMMA PortsMoved ==
  ASSUME NEW r, IsResolved(r), IsPorts(r), NEW s, NEW c \in ReassignAutoPort(r, s)
  PROVE  /\ IsPorts(c) /\ c.config = r.config
         /\ \A t \in Ported(r.config) \ {s} : c.port[t] = r.port[t]
<1>1. PICK port : c = [r EXCEPT !.port[s] = port]
  BY DEF ReassignAutoPort
<1> QED
  BY <1>1 DEF IsResolved, IsPorts

(* The steps keep it so. *)
LEMMA NextPorts ==
  ShapeInv /\ StageInv /\ ConfigInv /\ AttemptInv /\ TodoInv /\ PortsInv /\ [Next]_vars
    => PortsInv'
<1> SUFFICES ASSUME ShapeInv, StageInv, ConfigInv, AttemptInv, TodoInv, PortsInv, [Next]_vars
             PROVE  PortsInv'
  OBVIOUS
<1> USE DEF Changing
<1>0. IsPorts(manifest') = IsPorts(manifest)' /\ IsPorts(op'.candidate) = IsPorts(op.candidate)'
      /\ IsPorts(op'.previous) = IsPorts(op.previous)'
      /\ IsPorts(op'.attempt) = IsPorts(op.attempt)'
  BY DEF IsPorts, Ported
<1>1. CASE Stays
  <2>1. op'.todo = op.todo \/ op.stage \notin {"launch", "health"}
    BY <1>1 DEF Stays
  <2>2. op'.todo = op.todo => First' = First
    BY <1>1, SamePlaces DEF Stays
  <2> QED
    BY <1>1, <2>1, <2>2, <1>0 DEF ShapeInv, AttemptInv, PortsInv, Stays, Keeps, Fields, Environment
<1>2. CASE Ends
  BY <1>2, <1>0 DEF PortsInv, Ends, Over, Changes
<1>3. CASE Plans
  BY <1>3, <1>0, PortsResolved DEF PortsInv, Plans, Planned, Changes
<1>4. CASE Restarts
  BY <1>4, <1>0 DEF PortsInv, Restarts, Changes
<1>5. CASE Advances
  BY <1>5, <1>0 DEF PortsInv, AttemptInv, Advances, Keeps, Fields, Changes
<1>6. CASE Installs
  BY <1>6, <1>0 DEF PortsInv, AttemptInv, Installs, Passes, Keeps, Fields, Changes
<1>7. CASE Returns
  BY <1>7, <1>0 DEF PortsInv, AttemptInv, Returns, Recovers, Passes, Keeps, Fields, Changes
<1>8. CASE Repasses
  BY <1>8, <1>0 DEF PortsInv, AttemptInv, Repasses, Passes, Keeps, Fields, Changes
<1>9. CASE Fails
  BY <1>9, <1>0 DEF PortsInv, Fails, Failed, Keeps, Fields, Changes
<1>10. CASE GivesUp
  BY <1>10, <1>0 DEF PortsInv, AttemptInv, GivesUp, Keeps, Fields, Changes
<1>11. CASE Skips
  BY <1>11, <1>0 DEF PortsInv, Skips, NextOne, Keeps, Fields, Changes
<1>12. CASE Moves
  <2>1. First' = First
    BY <1>12, SamePlaces DEF Moves, Keeps, Fields
  <2>2. IsResolved(Attempt) /\ IsPorts(Attempt) /\ Attempt.config = manifest.config
        /\ \A s \in Ported(manifest.config) \ {First} : Attempt.port[s] = manifest.port[s]
    BY DEF Attempt, PortsInv, AttemptInv, ConfigInv
  <2>3. IsPorts(op'.attempt)
        /\ \A s \in Ported(manifest.config) \ {First} : op'.attempt.port[s] = manifest.port[s]
    BY <1>12, <2>2, PortsMoved DEF Moves
  <2> QED
    BY <1>12, <1>0, <2>1, <2>3 DEF PortsInv, Moves, Keeps, Fields, Changes, Ported
<1>13. CASE Launches
  <2>1. First' = First
    BY <1>13, SamePlaces DEF Launches, Keeps, Fields
  <2>2. IsPorts(Attempt)
        /\ \A s \in Ported(manifest.config) \ {First} : Attempt.port[s] = manifest.port[s]
    BY DEF Attempt, PortsInv
  <2>3. op'.tree.env = Environment(op.attempt, First)'
    BY <1>13, <2>1 DEF Launches, Environment
  <2>4. op'.retries = op.retries /\ op'.kind = op.kind /\ op'.candidate = op.candidate
        /\ op'.previous = op.previous
    BY <1>13 DEF Launches, Keeps, Fields
  <2>5. op'.attempt = Attempt /\ op'.stage = "health" /\ UNCHANGED manifest
    BY <1>13 DEF Launches
  <2> QED
    BY <1>0, <2>1, <2>2, <2>3, <2>4, <2>5 DEF PortsInv, Attempt, Ported
<1>14. CASE Heals
  BY <1>14, <1>0 DEF PortsInv, Heals, Healthy, At, NextOne, Keeps, Fields, Changes
<1>15. CASE Settles
  BY <1>15, <1>0 DEF PortsInv, AttemptInv, Settles, Keeps, Fields, Changes
<1>16. CASE Publishes
  BY <1>16, <1>0 DEF PortsInv, AttemptInv, StageInv, Publishes, Keeps, Fields, Changes
<1>17. CASE Accepts
  BY <1>17, <1>0 DEF PortsInv, AttemptInv, Accepts, Keeps, Fields, Changes
<1> QED
  BY <1>1, <1>2, <1>3, <1>4, <1>5, <1>6, <1>7, <1>8, <1>9, <1>10, <1>11, <1>12, <1>13, <1>14,
     <1>15, <1>16, <1>17, NextStep DEF Step

(* Services of a change that it does not affect have the environment they had, *)
(* whichever manifest is installed: a pass that moves a port affects the       *)
(* services that see it.                                                       *)
Same(a, b, services) == \A s \in services : Environment(a, s) = Environment(b, s)

(* What a change relies on of it, stage by stage. *)
SameInv == Changing =>
  /\ Same(op.previous, op.candidate, (Names(op.previous) \cup Names(op.candidate)) \ op.affected)
  /\ op.stage \in {"launch", "health"} =>
       /\ Same(op.before, op.previous, Names(manifest) \ op.affected)
       /\ \A s \in Ported(manifest.config) : s \in op.todo \/ s \notin op.affected =>
            manifest.port[s] = op.before.port[s]
  /\ op.stage \in {"restop", "routes", "settings"} =>
       Same(manifest, op.previous, Names(manifest) \ op.affected)
  /\ op.stage \in {"undo", "giveUp"} =>
       \A s \in Ported(manifest.config) \ op.affected : manifest.port[s] = op.previous.port[s]

(* Environments name the ports and the definition. *)
LEMMA EnvironmentFits ==
  ASSUME NEW a, NEW b, NEW s, Environment(a, s) = Environment(b, s)
  PROVE  a.port = b.port /\ a.config[s] = b.config[s]
  BY DEF Environment

(* A phase that fails leaves unaffected services the ports they had. *)
LEMMA SameFailed ==
  ASSUME SameInv, Changing, op.stage \in {"restop", "launch", "health", "routes", "settings"}
  PROVE  \A s \in Ported(manifest.config) \ op.affected : manifest.port[s] = op.previous.port[s]
<1>1. \A s \in Ported(manifest.config) : s \in Names(manifest)
  BY DEF Ported, Names
<1>2. CASE op.stage \in {"launch", "health"}
  BY <1>1, <1>2, EnvironmentFits DEF SameInv, Same
<1>3. CASE op.stage \notin {"launch", "health"}
  BY <1>1, <1>3, EnvironmentFits DEF SameInv, Same
<1> QED
  BY <1>2, <1>3

(* The steps keep it so. *)
LEMMA NextSame ==
  ShapeInv /\ StageInv /\ ConfigInv /\ AttemptInv /\ TodoInv /\ AffectedInv /\ PortsInv
    /\ SameInv /\ [Next]_vars => SameInv'
<1> SUFFICES ASSUME ShapeInv, StageInv, ConfigInv, AttemptInv, TodoInv, AffectedInv, PortsInv,
                    SameInv, [Next]_vars
             PROVE  SameInv'
  OBVIOUS
<1> USE DEF Changing, Changes
<1>1. CASE Stays
  BY <1>1 DEF SameInv, Same, Environment, Names, Ported, Stays, Keeps, Fields
<1>2. CASE Ends
  BY <1>2 DEF SameInv, Ends, Over
<1>3. CASE Plans
  <2>1. PICK kind, next, candidate, affected :
          /\ affectedReloadServices(manifest, candidate) \subseteq affected
          /\ Planned(kind, next, candidate, affected)
    BY <1>3 DEF Plans
  <2>2. op'.previous = manifest /\ op'.candidate = candidate /\ op'.stage = "claim"
        /\ affectedReloadServices(manifest, candidate) \subseteq op'.affected
    BY <2>1, Covers DEF Planned
  <2>3. \A s \in (Names(manifest) \cup Names(candidate)) \ op'.affected :
          Environment(manifest, s) = Environment(candidate, s)
    BY <2>2 DEF affectedReloadServices
  <2> QED
    BY <2>2, <2>3 DEF SameInv, Same, Environment, Names
<1>4. CASE Restarts
  BY <1>4 DEF SameInv, Restarts
<1>5. CASE Advances
  BY <1>5 DEF SameInv, Same, Environment, Names, Advances, Keeps, Fields
<1>6. CASE Installs
  BY <1>6 DEF SameInv, Same, Environment, Names, Installs, Passes, Keeps, Fields
<1>7. CASE Returns
  BY <1>7 DEF SameInv, Same, Environment, Names, Returns, Recovers, Passes, Keeps, Fields
<1>8. CASE Repasses
  BY <1>8 DEF SameInv, Same, Environment, Names, Repasses, Passes, Keeps, Fields
<1>9. CASE Fails
  BY <1>9, SameFailed DEF SameInv, Same, Environment, Names, Ported, Fails, Failed, Keeps, Fields
<1>10. CASE GivesUp
  BY <1>10 DEF SameInv, Same, Environment, Names, GivesUp, Keeps, Fields
<1>11. CASE Skips
  BY <1>11 DEF SameInv, Same, Environment, Names, Ported, Skips, NextOne, Keeps, Fields
<1>12. CASE Moves
  BY <1>12 DEF SameInv, Same, Environment, Names, Ported, Moves, Keeps, Fields
<1>13. CASE Launches
  BY <1>13 DEF SameInv, Same, Environment, Names, Ported, Launches, Keeps, Fields
<1>14. CASE Heals
  <2>1. op.stage = "health" /\ NextOne /\ manifest' = op.attempt
    BY <1>14 DEF Heals, Healthy
  <2>2. op'.previous = op.previous /\ op'.candidate = op.candidate /\ op'.before = op.before
        /\ op'.affected = op.affected /\ op'.kind = op.kind /\ op'.todo = op.todo \ {First}
        /\ op'.stage \in {"launch", "restart"}
    BY <2>1 DEF NextOne, Keeps, Fields
  <2>3. manifest'.config = manifest.config
        /\ \A s \in Ported(manifest.config) \ {First} : manifest'.port[s] = manifest.port[s]
    BY <2>1 DEF AttemptInv, PortsInv
  <2>4. Changing => First \in op.affected
    BY <2>1, FirstFits DEF StageInv, TodoInv, AffectedInv
  <2> QED
    BY <2>1, <2>2, <2>3, <2>4 DEF SameInv, Same, Environment, Names, Ported
<1>15. CASE Settles
  <2>1. op.stage = "launch" /\ UNCHANGED manifest /\ Changing
        /\ op'.previous = op.previous /\ op'.candidate = op.candidate /\ op'.kind = op.kind
        /\ op'.stage \in {"restop", "routes"}
    BY <1>15 DEF Settles, Keeps, Fields
  <2>2. op.affected \cup affectedReloadServices(op.before, manifest) \subseteq op'.affected
    BY <1>15 DEF Settles, Keeps, Fields
  <2>3. \A s \in Names(manifest) \ op'.affected :
          Environment(manifest, s) = Environment(op.before, s)
    BY <2>2 DEF affectedReloadServices
  <2>4. \A s \in Names(manifest) \ op'.affected :
          Environment(manifest, s) = Environment(op.previous, s)
    BY <2>1, <2>2, <2>3 DEF SameInv, Same
  <2>5. \A s \in (Names(op.previous) \cup Names(op.candidate)) \ op'.affected :
          Environment(op.previous, s) = Environment(op.candidate, s)
    BY <2>1, <2>2 DEF SameInv, Same
  <2> QED
    BY <2>1, <2>4, <2>5 DEF SameInv, Same, Environment, Names
<1>16. CASE Publishes
  BY <1>16 DEF SameInv, Same, Environment, Names, StageInv, Publishes, Keeps, Fields
<1>17. CASE Accepts
  BY <1>17 DEF SameInv, Same, Environment, Names, Accepts, Keeps, Fields
<1> QED
  BY <1>1, <1>2, <1>3, <1>4, <1>5, <1>6, <1>7, <1>8, <1>9, <1>10, <1>11, <1>12, <1>13, <1>14,
     <1>15, <1>16, <1>17, NextStep DEF Step

(* The services held down are those of the manifest a change has installed. *)
BlockedInv == Changing =>
  /\ \A s \in Names(op.candidate) \ op.affected : s \in op.previousBlocked => s \in op.nextBlocked
  /\ op.stage \in {"claim", "stop"} => blocked = op.previousBlocked
  /\ op.stage \in {"launch", "health", "restop", "undo", "giveUp", "routes", "settings",
                  "retire"} =>
       blocked = IF op.recovering THEN op.previousBlocked ELSE op.nextBlocked

(* The steps keep it so. *)
LEMMA NextBlocked ==
  ShapeInv /\ StageInv /\ ConfigInv /\ TodoInv /\ BlockedInv /\ [Next]_vars => BlockedInv'
<1> SUFFICES ASSUME ShapeInv, StageInv, ConfigInv, TodoInv, BlockedInv, [Next]_vars
             PROVE  BlockedInv'
  OBVIOUS
<1> USE DEF Changing, Changes
<1>1. CASE Stays
  BY <1>1 DEF BlockedInv, Names, Stays, Keeps, Fields
<1>2. CASE Ends
  BY <1>2 DEF BlockedInv, Ends, Over
<1>3. CASE Plans
  BY <1>3 DEF BlockedInv, Names, Plans, Planned, KeptBlocked
<1>4. CASE Restarts
  BY <1>4 DEF BlockedInv, Restarts
<1>5. CASE Advances
  BY <1>5 DEF BlockedInv, Names, Advances, Keeps, Fields
<1>6. CASE Installs
  BY <1>6 DEF BlockedInv, Names, StageInv, Installs, Passes, Keeps, Fields
<1>7. CASE Returns
  BY <1>7 DEF BlockedInv, Names, Returns, Recovers, Passes, Keeps, Fields
<1>8. CASE Repasses
  BY <1>8 DEF BlockedInv, Names, Repasses, Passes, Keeps, Fields
<1>9. CASE Fails
  BY <1>9 DEF BlockedInv, Names, Fails, Failed, Keeps, Fields
<1>10. CASE GivesUp
  BY <1>10 DEF BlockedInv, Names, GivesUp, Keeps, Fields
<1>11. CASE Skips
  BY <1>11 DEF BlockedInv, Names, Skips, NextOne, Keeps, Fields
<1>12. CASE Moves
  BY <1>12 DEF BlockedInv, Names, Moves, Keeps, Fields
<1>13. CASE Launches
  BY <1>13 DEF BlockedInv, Names, Launches, Keeps, Fields
<1>14. CASE Heals
  BY <1>14 DEF BlockedInv, Names, Heals, Healthy, NextOne, Keeps, Fields
<1>15. CASE Settles
  BY <1>15 DEF BlockedInv, Names, Settles, Keeps, Fields
<1>16. CASE Publishes
  BY <1>16 DEF BlockedInv, Names, StageInv, Publishes, Keeps, Fields
<1>17. CASE Accepts
  BY <1>17 DEF BlockedInv, Names, Accepts, Keeps, Fields
<1> QED
  BY <1>1, <1>2, <1>3, <1>4, <1>5, <1>6, <1>7, <1>8, <1>9, <1>10, <1>11, <1>12, <1>13, <1>14,
     <1>15, <1>16, <1>17, NextStep DEF Step

(* As long as no port is taken but by a change, what runs was launched as the  *)
(* installed manifest says: the services a change does not affect always, the  *)
(* others unless the pass that is launching them has moved a port since.       *)
Unmoved == spent.phases \subseteq {"change"}

(* Services that run were launched as r says. *)
Runs(services, r) ==
  \A s \in services : started[s].state = "running" => started[s].env = Environment(r, s)

(* An environment with the ports of a or of b. *)
PassEnvironment(env, definition, names, a, b) ==
  \E ports : /\ env = [definition |-> definition, ports |-> ports]
             /\ ports = [s \in names |-> ports[s]]
             /\ \A s \in names : ports[s] \in {a[s], b[s]}

(* What runs of them was launched by this pass. *)
PassRan(services) ==
  \A s \in services : started[s].state = "running" =>
    PassEnvironment(started[s].env, manifest.config[s], Ported(manifest.config),
                    op.before.port, manifest.port)

(* A boot and a restart launch what is installed. *)
BootRuns == op.kind \in {"boot", "restart"} =>
  op.retries = 0 /\ Runs(Names(manifest) \ blocked, manifest)

(* So does a stack at rest, and a change before it stops and after it launched. *)
RestRuns ==
  life = "ready" /\ ~cancelled
    /\ (op.kind = "none"
          \/ (Changing /\ op.stage \in {"claim", "unclaim", "routes", "settings", "retire"})) =>
    Runs(Names(manifest) \ blocked, manifest)

(* What a change does not affect runs on as it did. *)
PlanRuns == Changing =>
  Runs(Names(op.previous) \ (op.affected \cup op.previousBlocked), op.previous)

(* A rollback moves no port. *)
ReturnRuns == Changing /\ op.recovering =>
  op.retries = 0 /\ (op.stage # "unclaim" => manifest = op.previous)

(* What a pass has launched has the ports it began with, or the installed ones. *)
PassRuns == Changing /\ op.stage \in {"launch", "health"} =>
  PassRan(op.affected \cap Names(manifest))

(* All of them, as long as only changes moved ports. *)
AsInstalledInv == Unmoved => BootRuns /\ RestRuns /\ PlanRuns /\ ReturnRuns /\ PassRuns

(* A pass that changed nothing leaves every service it launched as the manifest says. *)
LEMMA PassSettles ==
  ASSUME PortsInv, affectedReloadServices(op.before, manifest) = {},
         NEW services \in SUBSET Names(manifest), PassRan(services)
  PROVE  Runs(services, manifest)
<1> SUFFICES ASSUME NEW s \in services, started[s].state = "running"
             PROVE  started[s].env = Environment(manifest, s)
  BY DEF Runs
<1>1. Environment(op.before, s) = Environment(manifest, s)
  BY DEF affectedReloadServices
<1>2. op.before.port = manifest.port
  BY <1>1, EnvironmentFits
<1>3. PICK ports : /\ started[s].env = [definition |-> manifest.config[s], ports |-> ports]
                   /\ ports = [t \in Ported(manifest.config) |-> ports[t]]
                   /\ \A t \in Ported(manifest.config) :
                        ports[t] \in {op.before.port[t], manifest.port[t]}
  BY DEF PassRan, PassEnvironment
<1>4. ports = [t \in Ported(manifest.config) |-> manifest.port[t]]
  BY <1>2, <1>3
<1>5. manifest.port = [t \in Ported(manifest.config) |-> manifest.port[t]]
  BY DEF PortsInv, IsPorts
<1> QED
  BY <1>3, <1>4, <1>5 DEF Environment

(* A wait for health that is cancelled ends the operation, or rolls it back. *)
LEMMA CancelledFails ==
  ASSUME ShapeInv, StageInv, HealthCancelled
  PROVE  op'.kind = "none" \/ (Changing /\ op'.stage \in {"undo", "giveUp"})
  BY OpStartFailed DEF ShapeInv, StageInv, HealthCancelled, Over, Failed

(* An operation stays what it is until it is over. *)
LEMMA KindKept ==
  ASSUME Step, ~Ends, ~Plans, ~Restarts
  PROVE  op'.kind = op.kind
<1>1. CASE Stays \/ Advances \/ Accepts \/ Publishes \/ GivesUp \/ Moves \/ Launches \/ Settles
  BY <1>1 DEF Stays, Advances, Accepts, Publishes, GivesUp, Moves, Launches, Settles, Keeps, Fields
<1>2. CASE Installs \/ Returns \/ Repasses
  BY <1>2 DEF Installs, Returns, Recovers, Repasses, Passes, Keeps, Fields
<1>3. CASE Fails \/ Skips \/ Heals
  BY <1>3 DEF Fails, Failed, Skips, Heals, NextOne, Keeps, Fields
<1> QED
  BY <1>1, <1>2, <1>3 DEF Step

(* A change keeps its plan, and what it affects grows. *)
LEMMA PlanKept ==
  ASSUME ShapeInv, Step, op'.kind \in Changes, ~Plans
  PROVE  /\ Changing /\ op'.kind = op.kind /\ op.affected \subseteq op'.affected
         /\ op'.previous = op.previous /\ op'.previousBlocked = op.previousBlocked
         /\ op'.candidate = op.candidate /\ op'.nextBlocked = op.nextBlocked
<1> USE DEF Changing, Changes
<1>1. CASE Stays \/ Advances \/ Accepts \/ Publishes \/ GivesUp \/ Moves \/ Launches
  BY <1>1 DEF Stays, Advances, Accepts, Publishes, GivesUp, Moves, Launches, Keeps, Fields
<1>2. CASE Ends \/ Restarts
  BY <1>2 DEF Ends, Over, Restarts
<1>3. CASE Installs \/ Returns \/ Repasses
  BY <1>3 DEF Installs, Returns, Recovers, Repasses, Passes, Keeps, Fields
<1>4. CASE Fails \/ Skips \/ Heals
  BY <1>4 DEF Fails, Failed, Skips, Heals, NextOne, Keeps, Fields
<1>5. CASE Settles
  BY <1>5 DEF Settles, Keeps, Fields
<1> QED
  BY <1>1, <1>2, <1>3, <1>4, <1>5 DEF Step

(* Which process may come to run in a step. *)
LEMMA SteadyServices ==
  ASSUME ShapeInv, StageInv, ConfigInv, TodoInv, AffectedInv, [Next]_vars, ~Heals
  PROVE  /\ \A s \in Service : s # First \/ op.stage # "health" => Steady(s)
         /\ ~cancelled \/ (op'.kind # "none" /\ op'.stage \notin {"undo", "giveUp"}) =>
              \A s \in Service : Steady(s)
         /\ Changing => Names(op.previous) \subseteq Service
              /\ \A s \in Service \ op.affected : Steady(s)
         /\ Names(manifest) \subseteq Service
<1>1. \A s \in Service : \/ Steady(s)
                         \/ s = First /\ op.stage = "health" /\ HealthCancelled /\ cancelled
  BY Tracked, OpNextOne DEF Healthy, Heals, ShapeInv, StageInv, At
<1>2. Changing /\ op.stage = "health" => First \in op.affected
  BY FirstFits DEF StageInv, TodoInv, AffectedInv
<1>3. Changing => Names(op.previous) \subseteq Service
  BY StackRuntimeAssumption DEF ConfigInv, IsResolved, Names
<1> QED
  BY <1>1, <1>2, <1>3, CancelledFails, NamesFit

(* The service that got healthy runs as what it was launched from is installed. *)
LEMMA Healed ==
  ASSUME ShapeInv, StageInv, ConfigInv, AttemptInv, TodoInv, AffectedInv, PortsInv, [Next]_vars,
         Heals
  PROVE  /\ First \in op.todo /\ First \in Names(manifest) /\ First \in Service
         /\ Changing => First \in op.affected /\ UNCHANGED blocked
         /\ started'[First] = op.tree /\ op.tree.env = Environment(manifest', First)
         /\ \A s \in Service \ {First} : Steady(s)
         /\ manifest' = op.attempt /\ op'.todo = op.todo \ {First}
         /\ op.retries = 0 => manifest' = manifest
         /\ manifest'.config = manifest.config
         /\ \A s \in Ported(manifest.config) \ {First} : manifest'.port[s] = manifest.port[s]
         /\ blocked' \in {blocked, blocked \ {First}}
         /\ op'.kind = op.kind /\ op'.retries = 0 /\ op.stage = "health"
         /\ op'.stage = IF op.kind = "restart" THEN "restart" ELSE "launch"
<1>1. op.stage = "health" /\ manifest' = op.attempt
      /\ started' = [started EXCEPT ![First] = op.tree]
      /\ blocked' = IF op.kind = "restart" THEN blocked \ {First} ELSE blocked
  BY DEF Heals, Healthy, Track
<1>2. First \in op.todo /\ First \in Names(manifest) /\ First \in Service
      /\ (Changing => First \in op.affected)
  BY <1>1, FirstFits DEF StageInv, TodoInv, AffectedInv
<1>3. op'.kind = op.kind /\ op'.todo = op.todo \ {First} /\ op'.retries = 0
      /\ op'.stage = IF op.kind = "restart" THEN "restart" ELSE "launch"
  BY DEF Heals, NextOne, Keeps, Fields
<1> QED
  BY <1>1, <1>2, <1>3 DEF ShapeInv, AttemptInv, PortsInv, Steady, Changing, Changes

(* The steps keep it so. *)
LEMMA NextBootRuns ==
  ShapeInv /\ StageInv /\ ConfigInv /\ AttemptInv /\ TodoInv /\ AffectedInv /\ PortsInv
    /\ BootRuns /\ RestRuns /\ Unmoved' /\ [Next]_vars => BootRuns'
<1> SUFFICES ASSUME ShapeInv, StageInv, ConfigInv, AttemptInv, TodoInv, AffectedInv, PortsInv,
                    BootRuns, RestRuns, Unmoved', [Next]_vars, op'.kind \in {"boot", "restart"}
             PROVE  op'.retries = 0 /\ Runs(Names(manifest) \ blocked, manifest)'
  BY DEF BootRuns
<1> USE DEF Runs, Steady, Environment, Names
<1>1. CASE Restarts
  <2>1. op.kind = "none" /\ op.stage = "idle" /\ life = "ready" /\ ~cancelled /\ op'.retries = 0
        /\ UNCHANGED <<manifest, blocked>> /\ ~Heals
    BY <1>1 DEF Restarts, Heals, MayBegin, StageInv
  <2>2. \A s \in Names(manifest) : Steady(s)
    BY <2>1, SteadyServices
  <2> QED
    BY <2>1, <2>2 DEF RestRuns
<1>2. CASE Heals
  BY <1>2, Healed, NamesFit DEF BootRuns
<1>3. CASE ~Restarts /\ ~Heals
  <2>1. op.kind \in {"boot", "restart"} /\ op'.retries = 0 /\ UNCHANGED <<manifest, blocked>>
    <3>1. Stays \/ Advances \/ Skips \/ Moves \/ Launches \/ Publishes
      BY <1>3, NextStep, KindKept DEF Step, Ends, Over, Changing, Changes, Plans, Planned,
         Installs, Returns, Repasses, Fails, GivesUp, Settles, Accepts
    <3> QED
      BY <3>1 DEF BootRuns, Changing, Changes, Stays, Advances, Skips, NextOne, Moves, Phase,
         Unmoved, Launches, Publishes, Keeps, Fields
  <2>2. op'.kind # "none" /\ op'.stage \notin {"undo", "giveUp"}
    BY NextStage DEF StageInv
  <2> QED
    BY <1>3, <2>1, <2>2, SteadyServices DEF BootRuns
<1> QED
  BY <1>1, <1>2, <1>3

(* At rest it is so when a boot, a restart or a change ends. *)
LEMMA NextRestRuns ==
  ShapeInv /\ StageInv /\ ConfigInv /\ AttemptInv /\ TodoInv /\ AffectedInv /\ PlanInv
    /\ PortsInv /\ SameInv /\ BlockedInv /\ BootRuns /\ RestRuns /\ PlanRuns /\ ReturnRuns
    /\ PassRuns /\ Unmoved' /\ [Next]_vars => RestRuns'
<1> SUFFICES ASSUME ShapeInv, StageInv, ConfigInv, AttemptInv, TodoInv, AffectedInv, PlanInv,
                    PortsInv, SameInv, BlockedInv, BootRuns, RestRuns, PlanRuns, ReturnRuns,
                    PassRuns, [Next]_vars, life' = "ready", ~cancelled',
                    \/ op'.kind = "none"
                    \/ /\ op'.kind \in Changes
                       /\ op'.stage \in {"claim", "unclaim", "routes", "settings", "retire"}
             PROVE  Runs(Names(manifest) \ blocked, manifest)'
  BY DEF RestRuns, Changing
<1>1. ~cancelled /\ (life = "ready" \/ (PassDone /\ op.kind = "boot"))
  BY Ages
<1>2. ASSUME ~Heals, \A s \in Service : Steady(s), UNCHANGED <<manifest, blocked>>,
             Runs(Names(manifest) \ blocked, manifest)
      PROVE  Runs(Names(manifest) \ blocked, manifest)'
  BY <1>2, NamesFit DEF Runs, Steady, Environment, Names
<1>3. CASE op.stage # "health"
  <2>1. ~Heals /\ \A s \in Service : Steady(s)
    BY <1>3, SteadyServices DEF Heals
  <2>2. CASE Stays
    BY <1>1, <1>2, <2>1, <2>2 DEF Stays, Keeps, Fields, RestRuns, Changing, PassDone, Changes
  <2>3. CASE Ends
    BY <1>1, <1>2, <2>1, <2>3 DEF Ends, RestRuns, BootRuns
  <2>4. CASE Plans \/ Restarts
    BY <1>1, <1>2, <2>1, <2>4 DEF Plans, Restarts, RestRuns, MayBegin
  <2>5. CASE Advances \/ Publishes \/ Accepts
    <3>1. op'.kind = op.kind /\ Changing /\ UNCHANGED <<manifest, blocked>>
          /\ op.stage \in {"claim", "routes", "settings"}
      <4>1. op'.kind = op.kind
        BY <2>5 DEF Advances, Publishes, Accepts, Keeps, Fields
      <4> QED
        BY <2>5, <4>1 DEF Advances, Publishes, Accepts, StageInv, Changing, Changes
    <3> QED
      BY <1>1, <1>2, <2>1, <3>1 DEF RestRuns, Changing, Changes
  <2>6. CASE GivesUp
    <3>1. Changing /\ UNCHANGED manifest /\ op.recovering /\ manifest = op.previous
          /\ blocked = op.previousBlocked
          /\ blocked' = blocked \cup (op.affected \cap Names(manifest))
      BY <2>6 DEF GivesUp, HeldDown, StageInv, ReturnRuns, BlockedInv
    <3> QED
      BY <2>1, <3>1, NamesFit DEF PlanRuns, Runs, Steady, Environment, Names
  <2>7. CASE Settles
    <3>1. Changing /\ op.stage = "launch" /\ UNCHANGED <<manifest, blocked>>
          /\ affectedReloadServices(op.before, manifest) = {}
      BY <2>7 DEF Settles, Keeps, Fields, Changing, Changes
    <3>2. Runs(op.affected \cap Names(manifest), manifest)
      BY <3>1, PassSettles DEF PassRuns
    <3>3. ASSUME NEW s \in (Names(manifest) \ op.affected) \ blocked
          PROVE  s \in Names(op.previous) \ (op.affected \cup op.previousBlocked)
                 /\ Environment(manifest, s) = Environment(op.previous, s)
      <4>1. s \in Names(op.previous) /\ s \notin op.previousBlocked
        BY <3>1, <3>3 DEF ConfigInv, PlanInv, BlockedInv, Names
      <4>2. Environment(op.before, s) = Environment(op.previous, s)
        BY <3>1, <3>3 DEF SameInv, Same
      <4>3. Environment(op.before, s) = Environment(manifest, s)
        BY <3>1, <3>3 DEF affectedReloadServices
      <4> QED
        BY <3>3, <4>1, <4>2, <4>3
    <3>4. Runs(Names(manifest) \ blocked, manifest)
      BY <3>1, <3>2, <3>3 DEF PlanRuns, Runs
    <3> QED
      BY <1>2, <2>1, <3>1, <3>4
  <2>8. CASE Installs \/ Returns \/ Repasses \/ Skips \/ Moves \/ Launches \/ Fails
    <3>1. op'.kind = "none" => op'.stage = "idle"
      BY NextStage DEF StageInv
    <3>2. op'.stage \in {"launch", "health", "undo", "giveUp"}
      BY <1>1, <2>8 DEF Installs, Returns, Recovers, Passes, Repasses, Skips, NextOne, Moves,
         Launches, Fails, Failed, Changing, Changes
    <3> QED
      BY <3>1, <3>2 DEF Changing, Changes
  <2> QED
    BY <2>1, <2>2, <2>3, <2>4, <2>5, <2>6, <2>7, <2>8, NextStep DEF Step
<1>4. CASE op.stage = "health"
  <2>1. CASE Ends
    <3>1. op.kind = "restart" /\ UNCHANGED <<manifest, blocked>> /\ ~Heals
      BY <1>1, <1>4, <2>1 DEF Ends, Heals, NextOne, Over
    <3>2. \A s \in Service : Steady(s)
      BY <1>1, <3>1, SteadyServices
    <3> QED
      BY <1>2, <3>1, <3>2 DEF BootRuns
  <2>2. CASE Stays
    BY <1>4, <2>2 DEF Stays, StageInv, Keeps, Fields
  <2>3. CASE Fails \/ Skips \/ Heals \/ Moves
    <3>1. op'.stage \in {"launch", "restart", "undo", "giveUp"}
      BY <2>3 DEF Fails, Failed, Skips, Heals, NextOne, Moves
    <3> QED
      BY <3>1, NextStage DEF StageInv
  <2> QED
    BY <1>4, <2>1, <2>2, <2>3, NextStep
    DEF Step, Plans, Restarts, MayBegin, StageInv, Advances, Installs, Returns, Repasses, GivesUp,
        Launches, Settles, Publishes, Accepts
<1> QED
  BY <1>3, <1>4

(* The steps of a change leave what it does not affect alone. *)
LEMMA NextPlanRuns ==
  ShapeInv /\ StageInv /\ ConfigInv /\ AttemptInv /\ TodoInv /\ AffectedInv /\ PortsInv
    /\ RestRuns /\ PlanRuns /\ [Next]_vars => PlanRuns'
<1> SUFFICES ASSUME ShapeInv, StageInv, ConfigInv, AttemptInv, TodoInv, AffectedInv, PortsInv,
                    RestRuns, PlanRuns, [Next]_vars, op'.kind \in Changes
             PROVE  Runs(Names(op.previous) \ (op.affected \cup op.previousBlocked), op.previous)'
  BY DEF PlanRuns, Changing
<1>1. CASE Plans
  <2>1. op.kind = "none" /\ op.stage = "idle" /\ life = "ready" /\ ~cancelled /\ ~Heals
        /\ op'.previous = manifest /\ op'.previousBlocked = blocked
    BY <1>1 DEF Plans, Planned, Heals, MayBegin, StageInv
  <2>2. \A s \in Names(manifest) : Steady(s)
    BY <2>1, SteadyServices
  <2> QED
    BY <2>1, <2>2 DEF RestRuns, Runs, Steady, Environment, Names
<1>2. CASE ~Plans
  <2>1. Changing /\ op'.previous = op.previous /\ op'.previousBlocked = op.previousBlocked
        /\ op.affected \subseteq op'.affected
    BY <1>2, NextStep, PlanKept
  <2>2. Names(op.previous) \subseteq Service
    BY <2>1, StackRuntimeAssumption DEF ConfigInv, IsResolved, Names
  <2>3. \A s \in Service \ op.affected : Steady(s)
    BY <2>1, Healed, SteadyServices
  <2> QED
    BY <2>1, <2>2, <2>3 DEF PlanRuns, Runs, Steady, Environment, Names
<1> QED
  BY <1>1, <1>2

(* A rollback keeps the manifest it returns to. *)
LEMMA NextReturnRuns ==
  ShapeInv /\ StageInv /\ ConfigInv /\ AttemptInv /\ TodoInv /\ AffectedInv /\ PortsInv
    /\ ReturnRuns /\ Unmoved' /\ [Next]_vars => ReturnRuns'
<1> SUFFICES ASSUME ShapeInv, StageInv, ConfigInv, AttemptInv, TodoInv, AffectedInv, PortsInv,
                    ReturnRuns, Unmoved', [Next]_vars, op'.kind \in Changes, op'.recovering
             PROVE  op'.retries = 0 /\ (op'.stage # "unclaim" => manifest' = op'.previous)
  BY DEF ReturnRuns, Changing
<1>1. ~Plans
  BY DEF Plans, Planned
<1>2. Changing /\ op'.previous = op.previous
  BY <1>1, NextStep, PlanKept
<1> USE DEF Changing, Changes
<1>3. CASE Returns
  BY <1>2, <1>3 DEF Returns, Recovers, AttemptInv, ReturnRuns, Passes, Keeps, Fields
<1>4. CASE Stays \/ Advances \/ GivesUp \/ Moves \/ Launches
  BY <1>2, <1>4 DEF ReturnRuns, Stays, Advances, GivesUp, Moves, Phase, Unmoved, Launches,
     Keeps, Fields
<1>5. CASE Settles \/ Publishes \/ Accepts
  BY <1>2, <1>5 DEF ReturnRuns, Settles, Publishes, Accepts, Keeps, Fields
<1>6. CASE Fails \/ Skips
  BY <1>2, <1>6 DEF ReturnRuns, Fails, Failed, Skips, NextOne, Keeps, Fields
<1>7. CASE Heals
  BY <1>2, <1>7, Healed DEF ReturnRuns, Heals, NextOne, Keeps, Fields
<1>8. CASE Installs \/ Repasses
  BY <1>2, <1>8 DEF ReturnRuns, StageInv, Installs, Repasses, Passes, Keeps, Fields
<1> QED
  BY <1>1, <1>2, <1>3, <1>4, <1>5, <1>6, <1>7, <1>8, NextStep
  DEF Step, Ends, Over, Restarts

(* A pass starts from services that are down, and each start moves one port. *)
LEMMA NextPassRuns ==
  ShapeInv /\ StageInv /\ ConfigInv /\ AttemptInv /\ TodoInv /\ AffectedInv /\ PortsInv
    /\ SameInv /\ PassRuns /\ [Next]_vars /\ DownInv' => PassRuns'
<1> SUFFICES ASSUME ShapeInv, StageInv, ConfigInv, AttemptInv, TodoInv, AffectedInv, PortsInv,
                    SameInv, PassRuns, [Next]_vars, DownInv', op'.kind \in Changes,
                    op'.stage \in {"launch", "health"}
             PROVE  PassRan(op.affected \cap Names(manifest))'
  BY DEF PassRuns, Changing
<1> USE DEF Names
<1>1. CASE Installs \/ Returns \/ Repasses
  <2>1. op'.todo = op'.affected \cap Names(manifest')
    BY <1>1 DEF Installs, Returns, Recovers, Repasses, Passes, Keeps, Fields
  <2> QED
    BY <2>1 DEF DownInv, Down, Live, Changes, PassRan
<1>2. CASE (Stays \/ Skips \/ Moves \/ Launches) /\ ~Heals
  <2>1. op'.kind = op.kind /\ op'.affected = op.affected /\ op'.before = op.before
        /\ UNCHANGED manifest
    BY <1>2 DEF Stays, Skips, NextOne, Moves, Launches, Keeps, Fields
  <2>2. op.stage \in {"launch", "health"}
    <3>1. CASE Stays
      BY <3>1 DEF Stays, Keeps, Fields
    <3> QED
      BY <1>2, <3>1 DEF Skips, Moves, Launches
  <2>3. \A s \in Service : Steady(s)
    BY <1>2, SteadyServices DEF Changes
  <2>4. ASSUME NEW s \in op.affected \cap Names(manifest), started'[s].state = "running"
        PROVE  PassEnvironment(started'[s].env, manifest.config[s], Ported(manifest.config),
                               op.before.port, manifest.port)
    BY <2>1, <2>2, <2>3, <2>4, NamesFit DEF PassRuns, PassRan, Steady, Changing
  <2> QED
    BY <2>1, <2>4 DEF PassRan, Ported
<1>3. CASE Heals
  <2>1. op'.kind = op.kind /\ op'.affected = op.affected /\ op'.before = op.before
        /\ op.stage = "health" /\ Changing /\ manifest'.config = manifest.config
    BY <1>3, Healed DEF Heals, NextOne, Keeps, Fields, Changing
  <2> DEFINE names == Ported(manifest.config)
  <2>2. ASSUME NEW s \in op.affected \cap Names(manifest), started'[s].state = "running"
        PROVE  PassEnvironment(started'[s].env, manifest.config[s], names, op.before.port,
                               manifest'.port)
    <3>1. CASE s = First
      <4>1. started'[s].env = [definition |-> manifest.config[s], ports |-> manifest'.port]
        BY <1>3, <3>1, Healed DEF Environment
      <4>2. manifest'.port = [t \in Ported(manifest'.config) |-> manifest'.port[t]]
        BY NextPorts DEF PortsInv, IsPorts, Ported
      <4>3. manifest'.port = [t \in names |-> manifest'.port[t]]
        BY <2>1, <4>2
      <4> QED
        BY <4>1, <4>3 DEF PassEnvironment
    <3>2. CASE s # First
      <4>1. Steady(s) /\ \A t \in names \ {First} : manifest'.port[t] = manifest.port[t]
        BY <1>3, <2>2, <3>2, Healed, NamesFit
      <4>2. PassEnvironment(started[s].env, manifest.config[s], names, op.before.port,
                            manifest.port)
        BY <2>1, <2>2, <4>1 DEF PassRuns, PassRan, Steady
      <4>3. First \in names => manifest.port[First] = op.before.port[First]
        <5>1. First \in op.todo
          BY <1>3, Healed
        <5> QED
          BY <2>1, <5>1 DEF SameInv
      <4> HIDE DEF names
      <4>4. PICK ports : /\ started[s].env = [definition |-> manifest.config[s], ports |-> ports]
                         /\ ports = [t \in names |-> ports[t]]
                         /\ \A t \in names : ports[t] \in {op.before.port[t], manifest.port[t]}
        BY <4>2 DEF PassEnvironment
      <4>5. \A t \in names : ports[t] \in {op.before.port[t], manifest'.port[t]}
        BY <4>1, <4>3, <4>4
      <4> QED
        BY <2>2, <4>1, <4>4, <4>5 DEF Steady, PassEnvironment
    <3> QED
      BY <3>1, <3>2
  <2> QED
    BY <2>1, <2>2 DEF PassRan, Ported
<1>4. ~(Plans \/ Ends \/ Restarts \/ Fails \/ GivesUp \/ Settles \/ Accepts)
  BY DEF Changes, Plans, Planned, Ends, Over, Restarts, Fails, Failed, GivesUp, Settles, Accepts
<1>5. ~(Advances \/ Publishes)
  BY <1>4, PlanKept, NextStep DEF Advances, Publishes, Changing, Changes
<1> QED
  BY <1>1, <1>2, <1>3, <1>4, <1>5, NextStep DEF Step

(* Together. *)
LEMMA NextAsInstalled ==
  ShapeInv /\ StageInv /\ ConfigInv /\ AttemptInv /\ TodoInv /\ AffectedInv /\ PlanInv
    /\ PortsInv /\ SameInv /\ BlockedInv /\ AsInstalledInv /\ [Next]_vars /\ DownInv' =>
      AsInstalledInv'
<1> SUFFICES ASSUME ShapeInv, StageInv, ConfigInv, AttemptInv, TodoInv, AffectedInv, PlanInv,
                    PortsInv, SameInv, BlockedInv, AsInstalledInv, [Next]_vars, DownInv',
                    Unmoved'
             PROVE  AsInstalledInv'
  BY DEF AsInstalledInv
<1>1. Unmoved
  BY Ages DEF Unmoved
<1> QED
  BY <1>1, NextBootRuns, NextRestRuns, NextPlanRuns, NextReturnRuns, NextPassRuns DEF AsInstalledInv

(* Routes lead to the ports of the installed manifest: of every service during *)
(* a boot and of those not held down at rest; a change that is not cancelled   *)
(* leaves the routes of the services it does not affect as they were.          *)
Routed(services, r) ==
  \A s \in services \cap DOMAIN Routes(r) : s \in DOMAIN active /\ active[s] = Routes(r)[s]

(* A boot has published the routes of every service. *)
BootLeads == op.kind = "boot" /\ op.stage \in {"launch", "health"} =>
  Routed(Names(manifest), manifest)

(* At rest, in a restart, and in a change before it stops and once it is      *)
(* over.                                                                      *)
RestLeads ==
  life = "ready" /\ ~cancelled
    /\ (op.kind \in {"none", "restart"}
          \/ (Changing /\ op.stage \in {"claim", "unclaim", "settings", "retire"})) =>
    Routed(Names(manifest) \ blocked, manifest)

(* A change in progress leaves the routes it found. *)
PlanLeads ==
  life = "ready" /\ ~cancelled /\ Changing /\ op.stage \notin {"settings", "retire"} =>
    Routed(Names(op.previous) \ (op.affected \cup op.previousBlocked), op.previous)

(* All three. *)
LeadInv == BootLeads /\ RestLeads /\ PlanLeads

(* A service with the same definition and port has the same route. *)
LEMMA SameRoute ==
  ASSUME NEW a, NEW b, NEW s \in Names(a) \cap Names(b), a.config[s] = b.config[s],
         s \in Ported(a.config) => a.port[s] = b.port[s], s \in DOMAIN Routes(a)
  PROVE  s \in DOMAIN Routes(b) /\ Routes(a)[s] = Routes(b)[s]
  BY DEF Routes, Names, Ported

(* The routes change where they are refreshed, replaced and unregistered. *)
LEMMA Refreshed ==
  ASSUME ShapeInv, StageInv, [Next]_vars, life' = "ready" \/ op'.kind # "none"
  PROVE  \/ UNCHANGED active
         \/ Heals /\ op.kind \in {"boot", "restart"}
         \/ op.stage = "routes" /\ active' \in {active, Routes(manifest)}
<1>1. CASE Healthy
  BY <1>1, OpNextOne DEF ShapeInv, StageInv, Heals, Healthy, RefreshRoute, At
<1>2. CASE ReplaceRoutes
  BY <1>2 DEF ReplaceRoutes, InstalledRoutes, At
<1>3. ~UnregisterRoutes
  BY DEF UnregisterRoutes, CleanedUp, StageInv, Changing, Changes
<1> QED
  BY <1>1, <1>2, <1>3, Frames

(* A start that gets healthy refreshes its own route. *)
LEMMA RefreshesRoute ==
  ASSUME ShapeInv, StageInv, ConfigInv, AttemptInv, TodoInv, AffectedInv, PortsInv, [Next]_vars,
         Heals, op.kind \in {"boot", "restart"},
         NEW services \in SUBSET Names(manifest), Routed(services \ {First}, manifest)
  PROVE  \A s \in services \cap DOMAIN Routes(manifest') :
           s \in DOMAIN active' /\ active'[s] = Routes(manifest')[s]
<1>1. /\ manifest' = op.attempt /\ manifest'.config = manifest.config
      /\ \A s \in Ported(manifest.config) \ {First} : manifest'.port[s] = manifest.port[s]
  BY Healed
<1>2. active' = IF First \in DOMAIN Routes(manifest')
                THEN [s \in DOMAIN active \cup {First} |->
                        IF s = First THEN Routes(manifest')[s] ELSE active[s]]
                ELSE active
  BY <1>1 DEF Heals, Healthy, RefreshRoute
<1>3. ASSUME NEW s \in services, s \in DOMAIN Routes(manifest')
      PROVE  s \in DOMAIN active' /\ active'[s] = Routes(manifest')[s]
  <2>1. CASE s = First
    BY <1>2, <1>3, <2>1
  <2>2. CASE s # First
    <3>1. s \in DOMAIN Routes(manifest) /\ Routes(manifest')[s] = Routes(manifest)[s]
      BY <1>1, <1>3, <2>2, SameRoute DEF Names, Ported
    <3>2. s \in DOMAIN active /\ active[s] = Routes(manifest)[s]
      BY <2>2, <3>1 DEF Routed
    <3> QED
      BY <1>2, <2>2, <3>1, <3>2
  <2> QED
    BY <2>1, <2>2
<1> QED
  BY <1>3

(* The steps keep it so. *)
LEMMA NextBootLeads ==
  ShapeInv /\ StageInv /\ ConfigInv /\ AttemptInv /\ TodoInv /\ AffectedInv /\ PortsInv
    /\ BootLeads /\ [Next]_vars => BootLeads'
<1> SUFFICES ASSUME ShapeInv, StageInv, ConfigInv, AttemptInv, TodoInv, AffectedInv, PortsInv,
                    BootLeads, [Next]_vars, op'.kind = "boot", op'.stage \in {"launch", "health"}
             PROVE  Routed(Names(manifest), manifest)'
  BY DEF BootLeads
<1>1. op.kind = "boot" /\ op'.kind = op.kind
  BY NextStep, KindKept DEF Ends, Over, Plans, Planned, Restarts, Changes
<1>2. CASE Publishes
  BY <1>2 DEF Publishes, Routed, Routes, Names
<1>3. CASE Heals
  <2>1. op.stage = "health" /\ Names(manifest') = Names(manifest)
    BY <1>3, Healed DEF Names
  <2> QED
    BY <1>1, <1>3, <2>1, RefreshesRoute DEF BootLeads, Routed, Routes, Names
<1>4. CASE ~Publishes /\ ~Heals
  <2>1. op.stage \in {"launch", "health"} /\ UNCHANGED manifest
    BY <1>1, <1>4, NextStep DEF Step, Changing, Changes, Stays, Ends, Over, Plans, Planned,
       Restarts, Advances, Installs, Returns, Repasses, Fails, GivesUp, Skips, Moves, Launches,
       Settles, Accepts, Keeps, Fields
  <2>2. UNCHANGED active
    BY <1>1, <1>4, <2>1, Refreshed
  <2> QED
    BY <1>1, <2>1, <2>2 DEF BootLeads, Routed, Routes, Names
<1> QED
  BY <1>2, <1>3, <1>4

(* Routes are refreshed by restarts, replaced by changes, and else stay. *)
LEMMA NextRestLeads ==
  ShapeInv /\ StageInv /\ ConfigInv /\ AttemptInv /\ TodoInv /\ AffectedInv /\ PlanInv
    /\ PortsInv /\ SameInv /\ BlockedInv /\ LeadInv /\ [Next]_vars => RestLeads'
<1> SUFFICES ASSUME ShapeInv, StageInv, ConfigInv, AttemptInv, TodoInv, AffectedInv, PlanInv,
                    PortsInv, SameInv, BlockedInv, LeadInv, [Next]_vars, life' = "ready",
                    ~cancelled',
                    \/ op'.kind \in {"none", "restart"}
                    \/ /\ op'.kind \in Changes
                       /\ op'.stage \in {"claim", "unclaim", "settings", "retire"}
             PROVE  Routed(Names(manifest) \ blocked, manifest)'
  BY DEF RestLeads, Changing
<1>1. ~cancelled /\ (life = "ready" \/ (PassDone /\ op.kind = "boot"))
  BY Ages
<1>2. ASSUME UNCHANGED <<manifest, blocked, active>>, Routed(Names(manifest) \ blocked, manifest)
      PROVE  Routed(Names(manifest) \ blocked, manifest)'
  BY <1>2 DEF Routed, Routes, Names
<1>3. CASE Heals
  <2>1. op.kind = "restart" /\ op'.kind = op.kind
    <3>1. op.stage = "health" /\ op'.kind = op.kind /\ op'.stage \in {"launch", "restart"}
      BY <1>3 DEF Heals, NextOne, Keeps, Fields
    <3> QED
      BY <3>1 DEF StageInv, Changing, Changes
  <2>2. manifest' = manifest /\ blocked' \in {blocked, blocked \ {First}}
    <3>1. op.retries = 0
      BY <2>1 DEF PortsInv
    <3> QED
      BY <1>3, <3>1, Healed
  <2>3. Routed((Names(manifest) \ blocked') \ {First}, manifest)
    BY <1>1, <2>1, <2>2 DEF LeadInv, RestLeads, Routed
  <2>4. \A s \in (Names(manifest) \ blocked') \cap DOMAIN Routes(manifest') :
          s \in DOMAIN active' /\ active'[s] = Routes(manifest')[s]
    BY <1>3, <2>1, <2>3, RefreshesRoute
  <2> QED
    BY <2>2, <2>4 DEF Routed, Routes, Names
<1>4. CASE Publishes
  BY <1>4 DEF Publishes, Routed, Routes, Names
<1>5. CASE GivesUp
  <2>1. Changing /\ UNCHANGED manifest /\ op.recovering /\ op.stage = "giveUp"
        /\ blocked = op.previousBlocked
        /\ blocked' = blocked \cup (op.affected \cap Names(manifest))
    BY <1>5 DEF GivesUp, HeldDown, StageInv, BlockedInv
  <2>2. UNCHANGED active /\ manifest.config = op.previous.config
    BY <2>1, Refreshed DEF ConfigInv, Heals
  <2>3. ASSUME NEW s \in Names(manifest) \ blocked', s \in DOMAIN Routes(manifest)
        PROVE  s \in DOMAIN active /\ active[s] = Routes(manifest)[s]
    <3>1. s \in Names(op.previous) \ (op.affected \cup op.previousBlocked)
      BY <2>1, <2>2 DEF Names
    <3>2. s \in DOMAIN Routes(op.previous) /\ Routes(manifest)[s] = Routes(op.previous)[s]
      BY <2>1, <2>2, <2>3, <3>1, SameRoute DEF SameInv
    <3> QED
      BY <1>1, <2>1, <3>1, <3>2 DEF LeadInv, PlanLeads, Routed, PassDone, Changing, Changes
  <2> QED
    BY <2>1, <2>2, <2>3 DEF Routed, Routes, Names
<1>6. CASE ~Heals /\ ~Publishes /\ ~GivesUp
  <2>1. CASE Ends
    <3>1. op.stage # "routes" /\ UNCHANGED <<manifest, blocked>>
      BY <2>1 DEF Ends, StageInv, Changing, Changes
    <3>2. op.kind = "boot" => Routed(Names(manifest) \ blocked, manifest)
      <4>1. op.kind = "boot" => op.stage = "launch"
        BY <2>1 DEF Ends
      <4> QED
        BY <4>1 DEF LeadInv, BootLeads, Routed
    <3>3. op.kind # "boot" => Routed(Names(manifest) \ blocked, manifest)
      BY <1>1, <2>1 DEF Ends, LeadInv, RestLeads
    <3>4. UNCHANGED active
      BY <1>6, <3>1, Refreshed
    <3> QED
      BY <1>2, <3>1, <3>2, <3>3, <3>4
  <2>2. CASE Plans \/ Restarts
    <3>1. op.kind = "none" /\ op.stage = "idle" /\ life = "ready" /\ UNCHANGED <<manifest, blocked>>
      BY <2>2 DEF Plans, Restarts, MayBegin, StageInv
    <3>2. UNCHANGED active
      BY <1>6, <3>1, Refreshed
    <3> QED
      BY <1>1, <1>2, <3>1, <3>2 DEF LeadInv, RestLeads
  <2>3. CASE ~Ends /\ ~Plans /\ ~Restarts
    <3>1. op'.kind = op.kind
      BY <2>3, NextStep, KindKept
    <3>2. Stays \/ Advances \/ Launches \/ Accepts
      BY <1>1, <1>6, <2>3, <3>1, NextStep
      DEF Step, Installs, Returns, Recovers, Passes, Repasses, Fails, Failed, Skips, NextOne,
          Moves, Settles, StageInv, Changing, Changes
    <3>3. UNCHANGED <<manifest, blocked>> /\ op.stage # "routes"
          /\ (op.kind \in {"none", "restart"}
                \/ (Changing /\ op.stage \in {"claim", "unclaim", "settings", "retire"}))
      BY <3>1, <3>2 DEF Stays, Advances, Launches, Accepts, Keeps, Fields, StageInv, Changing,
         Changes
    <3>4. UNCHANGED active
      BY <1>6, <3>3, Refreshed
    <3> QED
      BY <1>1, <1>2, <3>1, <3>3, <3>4 DEF LeadInv, RestLeads, Changing, Changes
  <2> QED
    BY <2>1, <2>2, <2>3
<1> QED
  BY <1>3, <1>4, <1>5, <1>6

(* A change publishes the same routes for what it does not affect. *)
LEMMA NextPlanLeads ==
  ShapeInv /\ StageInv /\ ConfigInv /\ AttemptInv /\ TodoInv /\ AffectedInv /\ PlanInv
    /\ PortsInv /\ SameInv /\ LeadInv /\ [Next]_vars => PlanLeads'
<1> SUFFICES ASSUME ShapeInv, StageInv, ConfigInv, AttemptInv, TodoInv, AffectedInv, PlanInv,
                    PortsInv, SameInv, LeadInv, [Next]_vars, life' = "ready", ~cancelled',
                    op'.kind \in Changes, op'.stage \notin {"settings", "retire"}
             PROVE  Routed(Names(op.previous) \ (op.affected \cup op.previousBlocked), op.previous)'
  BY DEF PlanLeads, Changing
<1>1. ~cancelled /\ (life = "ready" \/ (PassDone /\ op.kind = "boot"))
  BY Ages
<1>2. CASE Plans
  <2>1. op.kind = "none" /\ op.stage = "idle" /\ life = "ready" /\ op'.previous = manifest
        /\ op'.previousBlocked = blocked
    BY <1>2 DEF Plans, Planned, MayBegin, StageInv
  <2>2. UNCHANGED active
    BY <2>1, Refreshed DEF Heals
  <2> QED
    BY <1>1, <2>1, <2>2 DEF LeadInv, RestLeads, Routed, Routes, Names
<1>3. CASE ~Plans
  <2>1. Changing /\ op'.previous = op.previous /\ op'.previousBlocked = op.previousBlocked
        /\ op.affected \subseteq op'.affected
    BY <1>3, NextStep, PlanKept
  <2>2. op.stage \notin {"settings", "retire"}
    <3>1. CASE Stays
      BY <3>1 DEF Stays, Keeps, Fields
    <3>2. CASE ~Stays
      BY <1>1, <1>3, <2>1, <3>2, NextStep
      DEF Step, Ends, Over, Restarts, Advances, Installs, Returns, Repasses, Fails, GivesUp,
          Skips, Moves, Launches, Heals, Settles, Publishes, Accepts, Changing, Changes
    <3> QED
      BY <3>1, <3>2
  <2>3. Routed(Names(op.previous) \ (op.affected \cup op.previousBlocked), op.previous)
    BY <1>1, <2>1, <2>2 DEF LeadInv, PlanLeads, Changing, Changes
  <2>4. CASE UNCHANGED active
    BY <2>1, <2>3, <2>4 DEF Routed, Routes, Names
  <2>5. CASE op.stage = "routes" /\ active' = Routes(manifest)
    <3>1. ASSUME NEW s \in Names(op.previous) \ op.affected, s \in DOMAIN Routes(op.previous)
          PROVE  s \in DOMAIN active' /\ active'[s] = Routes(op.previous)[s]
      <4>1. s \in Names(manifest) /\ manifest.config[s] = op.previous.config[s]
        BY <2>1, <2>5, <3>1 DEF ConfigInv, PlanInv, Names
      <4>2. Environment(manifest, s) = Environment(op.previous, s)
        BY <2>1, <2>5, <3>1, <4>1 DEF SameInv, Same
      <4>3. s \in DOMAIN Routes(manifest) /\ Routes(op.previous)[s] = Routes(manifest)[s]
        BY <3>1, <4>1, <4>2, SameRoute, EnvironmentFits
      <4> QED
        BY <2>5, <4>3
    <3> QED
      BY <2>1, <3>1 DEF Routed, Routes, Names
  <2> QED
    BY <2>1, <2>4, <2>5, Refreshed DEF Changing, Changes
<1> QED
  BY <1>2, <1>3

(* The steps keep all of it. *)
LEMMA NextLeads ==
  ShapeInv /\ StageInv /\ ConfigInv /\ AttemptInv /\ TodoInv /\ AffectedInv /\ PlanInv
    /\ PortsInv /\ SameInv /\ BlockedInv /\ LeadInv /\ [Next]_vars => LeadInv'
  BY NextBootLeads, NextRestLeads, NextPlanLeads DEF LeadInv

---------------------------------------------------------------------------
(* Everything a step relies on and keeps. *)
IInv ==
  /\ ShapeInv /\ StageInv /\ ConfigInv /\ AttemptInv /\ FileInv /\ TodoInv /\ AffectedInv
  /\ LifeInv /\ RunsInv /\ OpTreeInv /\ GoneInv /\ DownInv /\ PlanInv /\ HeldInv
  /\ ClaimInv /\ UsedInv /\ RouteInv /\ SilentInv
  /\ PortsInv /\ SameInv /\ BlockedInv /\ AsInstalledInv /\ LeadInv

(* A stack that has just been given its manifest has nothing to answer for. *)
LEMMA InitInv == Init => IInv
<1> SUFFICES ASSUME Init PROVE IInv
  OBVIOUS
<1>1. IsResolved(manifest) /\ manifest.config = configured
  BY StackRuntimeAssumption DEF Init, Resolved, IsResolved
<1>2. DOMAIN op = Fields /\ op.kind = "boot" /\ op.stage = "register" /\ op.todo = {}
      /\ op.recovering = FALSE /\ op.retries = 0 /\ op.tree = NoTree
  BY DEF Init, NoOp, Fields
<1>3. started = [s \in Service |-> NoTree] /\ failedRoutes = [s \in Service |-> NoTree]
      /\ life = "starting" /\ cleanup = [stage |-> "none", clean |-> TRUE, ran |-> FALSE]
      /\ forgotten = {} /\ reserved = Files[configured] /\ active = <<>>
  BY DEF Init
<1>4. configured \in Manifests
  BY StackRuntimeAssumption DEF Init
<1>5. DOMAIN spent = {"operations", "collisions", "leaks", "phases", "staleRoutes"}
  BY DEF Init
<1>6. ~Live(NoTree) /\ IsTree(NoTree)
  BY DEF NoTree, Live, IsTree
<1>7. ShapeInv
  BY <1>2, <1>3, <1>5, <1>6 DEF ShapeInv
<1>8. StageInv
  BY <1>2, <1>3 DEF StageInv, Changing, Changes
<1>9. ConfigInv /\ AttemptInv /\ FileInv
  BY <1>1, <1>2, <1>3, <1>4 DEF ConfigInv, AttemptInv, FileInv, Changing, Changes
<1>10. TodoInv /\ AffectedInv /\ PlanInv /\ HeldInv
  BY <1>2 DEF TodoInv, AffectedInv, PlanInv, HeldInv, Changing, Changes
<1>11. LifeInv /\ RunsInv /\ OpTreeInv /\ GoneInv /\ DownInv
  BY <1>2, <1>3, <1>6 DEF LifeInv, RunsInv, OpTreeInv, GoneInv, DownInv, Down
<1>12. ClaimInv /\ UsedInv /\ RouteInv
  BY <1>2, <1>3, <1>6 DEF ClaimInv, UsedInv, RouteInv, Changing, Changes
<1>13. SilentInv
  BY <1>2, <1>3 DEF SilentInv, Changing, Changes
<1>14. PortsInv
  BY <1>2 DEF Init, Resolved, PortsInv, IsPorts, Changing, Changes
<1>15. SameInv /\ BlockedInv /\ LeadInv
  BY <1>2, <1>3 DEF SameInv, BlockedInv, LeadInv, BootLeads, RestLeads, PlanLeads, Changing, Changes
<1>16. AsInstalledInv
  <2>1. \A s \in Service : started[s].state # "running"
    BY <1>3 DEF NoTree
  <2>2. Names(manifest) \subseteq Service
    BY <1>9, NamesFit
  <2> QED
    BY <1>2, <1>3, <2>1, <2>2
    DEF AsInstalledInv, BootRuns, RestRuns, PlanRuns, ReturnRuns, PassRuns, Runs, Changing, Changes
<1> QED
  BY <1>7, <1>8, <1>9, <1>10, <1>11, <1>12, <1>13, <1>14, <1>15, <1>16 DEF IInv

(* Every step keeps it. *)
LEMMA NextInv == IInv /\ [Next]_vars => IInv'
<1> SUFFICES ASSUME IInv, [Next]_vars PROVE IInv'
  OBVIOUS
<1>1. ShapeInv' /\ StageInv' /\ ConfigInv' /\ AttemptInv' /\ FileInv' /\ TodoInv' /\ AffectedInv'
  BY NextShape, NextStage, NextConfig, NextAttempt, NextFiles, NextTodo, NextAffected DEF IInv
<1>2. LifeInv' /\ RunsInv' /\ OpTreeInv' /\ GoneInv' /\ DownInv' /\ PlanInv' /\ HeldInv'
  BY NextLife, NextRuns, NextOpTree, NextGone, NextDown, NextPlan, NextHeld DEF IInv
<1>3. ClaimInv' /\ UsedInv' /\ RouteInv' /\ SilentInv'
  BY NextClaim, NextUsed, NextRoute, NextSilent DEF IInv
<1>4. PortsInv' /\ SameInv' /\ BlockedInv' /\ LeadInv'
  BY NextPorts, NextSame, NextBlocked, NextLeads DEF IInv
<1>5. AsInstalledInv'
  BY <1>2, NextAsInstalled DEF IInv
<1> QED
  BY <1>1, <1>2, <1>3, <1>4, <1>5 DEF IInv

(* So it always holds. *)
THEOREM StackInvariant == Spec => []IInv
  BY InitInv, NextInv, PTL DEF Spec

(* Once no request is being served the installed manifest is the accepted one, *)
(* whichever step of a reload, of a stack restart or of its rollback failed.   *)
THEOREM InstalledManifestIsAccepted == Spec => []InstalledIsAccepted
<1>1. IInv => InstalledIsAccepted
  BY DEF IInv, ConfigInv, InstalledIsAccepted, Settled
<1> QED
  BY <1>1, StackInvariant, PTL

(* The files of the accepted manifest, and of the one a change in progress     *)
(* would install, stay in the stack's record.                                  *)
THEOREM ManifestFilesStayReserved == Spec => []FilesStayReserved
<1>1. IInv => FilesStayReserved
  BY DEF IInv, FileInv, FilesStayReserved
<1> QED
  BY <1>1, StackInvariant, PTL

(* No process tree that is alive leaves the supervisor's sight, and none is    *)
(* launched once the shutdown has stopped the trees.                           *)
THEOREM SupervisorLosesNoTree == Spec => []NoStrayServices
<1>1. IInv => NoStrayServices
  <2> SUFFICES ASSUME IInv PROVE NoStrayServices
    OBVIOUS
  <2>1. life = "stopped" => cleanup.stage = "done"
    BY DEF IInv, LifeInv
  <2>2. cleanup.stage \notin {"none", "trees"} => life \notin {"starting", "ready"}
    BY DEF IInv, LifeInv
  <2>3. op.kind # "none" => life \in {"starting", "ready"}
    BY DEF IInv, StageInv, Changing
  <2> QED
    BY <2>1, <2>2, <2>3 DEF IInv, GoneInv, LifeInv, NoStrayServices
<1> QED
  BY <1>1, StackInvariant, PTL

(* What the processes, the accepted manifest and the published routes use, the *)
(* stack has claimed: also where a rejected change gives claims back.          *)
THEOREM UseIsClaimed == Spec => []ClaimsCoverUse
<1>1. IInv => ClaimsCoverUse
  <2> SUFFICES ASSUME IInv PROVE ClaimsCoverUse
    OBVIOUS
  <2>1. life = "ready" => Claims(configured) \subseteq claimed
    BY DEF IInv, ClaimInv
  <2>2. Live(op.tree) => ClaimsOf(op.tree.env.definition) \subseteq claimed
    <3> SUFFICES ASSUME Live(op.tree) PROVE ClaimsOf(op.tree.env.definition) \subseteq claimed
      OBVIOUS
    <3>1. op.stage = "health" /\ op.tree.env.definition = manifest.config[First]
      BY DEF IInv, OpTreeInv
    <3>2. First \in Names(manifest)
      BY <3>1, FirstFits DEF IInv, StageInv, TodoInv
    <3>3. Claims(manifest.config) \subseteq claimed
      BY <3>1 DEF IInv, StageInv, ConfigInv, ClaimInv, Changing, Changes
    <3> QED
      BY <3>1, <3>2, <3>3, HostsClaimed DEF Names
  <2>3. ProcessesAreClaimed
    BY <2>2 DEF IInv, ShapeInv, UsedInv, ProcessesAreClaimed, Range
  <2>4. life = "ready" /\ ~cancelled /\ ~spent.staleRoutes => RoutedHosts \subseteq claimed
    <3> SUFFICES ASSUME life = "ready", ~cancelled, ~spent.staleRoutes
                 PROVE  RoutedHosts \subseteq claimed
      OBVIOUS
    <3>1. \A m : RoutedBy(m) => RoutedHosts \subseteq Claims(m)
      BY HostsClaimed DEF RoutedBy, RoutedNames, RoutedHosts
    <3>2. CASE op.stage # "settings"
      BY <2>1, <3>1, <3>2 DEF IInv, RouteInv
    <3>3. CASE op.stage = "settings"
      BY <3>1, <3>3 DEF IInv, StageInv, ClaimInv, RouteInv, Changing
    <3> QED
      BY <3>2, <3>3
  <2> QED
    BY <2>1, <2>3, <2>4 DEF ClaimsCoverUse
<1> QED
  BY <1>1, StackInvariant, PTL

(* A service that a settled stack has down is held down, or its start failed.  *)
THEOREM StopsAreExplained == Spec => []NoSilentStop
<1>1. IInv => NoSilentStop
  BY DEF IInv, SilentInv, Said, NoSilentStop, Settled
<1> QED
  BY <1>1, StackInvariant, PTL

(* Whatever runs in a settled stack was launched with the definition and the   *)
(* ports that the installed manifest has, as long as only changes moved ports: *)
(* also after a change that had to launch its services in several passes, and  *)
(* after one that was rolled back.                                             *)
THEOREM ProcessesRunAsInstalled == Spec => []RunsAsInstalled
<1>1. IInv => RunsAsInstalled
  BY DEF IInv, AsInstalledInv, Unmoved, RestRuns, Runs, RunsAsInstalled, Settled
<1> QED
  BY <1>1, StackInvariant, PTL

(* A settled stack routes exactly the services with hostnames, each to the port *)
(* it has, through every refresh, replacement and rollback.                    *)
THEOREM RoutesLeadHome == Spec => []RoutesLeadToServices
<1>1. IInv => RoutesLeadToServices
  <2> SUFFICES ASSUME IInv, Settled, NEW s \in Names(manifest) \ blocked
               PROVE  IF s \in DOMAIN Routes(manifest)
                      THEN s \in DOMAIN active /\ active[s] = Routes(manifest)[s]
                      ELSE s \notin DOMAIN active \/ spent.staleRoutes
    BY DEF RoutesLeadToServices
  <2>1. CASE s \in DOMAIN Routes(manifest)
    BY <2>1 DEF IInv, LeadInv, RestLeads, Routed, Settled
  <2>2. CASE s \notin DOMAIN Routes(manifest)
    <3>1. manifest.config = configured /\ op.stage = "idle"
      BY DEF IInv, ConfigInv, StageInv, Settled
    <3>2. spent.staleRoutes \/ RoutedBy(configured)
      BY <3>1 DEF IInv, RouteInv, Settled
    <3> QED
      BY <2>2, <3>1, <3>2 DEF RoutedBy, RoutedNames, Routes, Names
  <2> QED
    BY <2>1, <2>2
<1> QED
  BY <1>1, StackInvariant, PTL
=============================================================================
