---------------------------- MODULE StackRuntime ----------------------------
(* The supervisor of one running stack: stackRuntime in                       *)
(* services/runtime.go, the reload transaction of services/reload.go, and the *)
(* start and shutdown of StartStack in services/stack.go.                      *)
(*                                                                             *)
(* A stack starts its services, then serves requests one at a time: a saved    *)
(* manifest (reload), a restart of some services, a restart of the stack.      *)
(* Each request is a long operation under operationMu; every claim it takes,   *)
(* process it stops or launches, and route change it makes can fail, processes *)
(* exit on their own meanwhile, another program can take an automatic port,    *)
(* and a signal can cancel the lifecycle context between any two steps.        *)
(*                                                                             *)
(* The model covers managed foreground services of a stack without worktrees   *)
(* and without a service selection.                                            *)
EXTENDS Integers, FiniteSets, Functions

CONSTANTS
  Service,      \* service names
  Manifests,    \* the manifests a user may save: services to their definitions
  Initial,      \* the manifest StartStack is given
  Files,        \* Files[m]: the manifest and the includes m was read from
  Rank,         \* Rank[m][s]: the place of s in the start order of m
  Port,         \* the ports the operating system hands out for port = "auto"
  MaximumAutoPortRetryCount,
  CollisionPhases, \* when another program may take an automatic port: during
                   \* the "boot", a "change" or the "recovery" from one
  MaxOperations, MaxRepairs, MaxCollisions, MaxLeaks   \* bounds

ASSUME StackRuntimeAssumption ==
  /\ Initial \in Manifests
  /\ MaximumAutoPortRetryCount \in Nat
  /\ CollisionPhases \subseteq {"boot", "change", "recovery"}
  /\ MaxOperations \in Nat /\ MaxRepairs \in Nat /\ MaxCollisions \in Nat /\ MaxLeaks \in Nat
  /\ \A m \in Manifests : DOMAIN m \subseteq Service
ASSUME RankAssumption ==
  /\ IsFiniteSet(Service)
  /\ \A m \in Manifests : Rank[m] \in [Service -> 1..Cardinality(Service)]

VARIABLES
  life,        \* "starting", "ready", "stopping" or "stopped"
  cancelled,   \* the lifecycle context is cancelled
  manifest,    \* r.manifest: the installed manifest with its resolved ports
  configured,  \* r.configured: the accepted manifest
  blocked,     \* r.blocked: services held down until restarted or reloaded
  failures,    \* r.failures: services whose last start failed
  pending,     \* r.pendingReload: services in transition
  started,     \* r.started: the process tree tracked for each service
  failedRoutes,\* r.failedRoutes: trees left by a failed route refresh
  forgotten,   \* process trees that no list of the supervisor holds
  claimed,     \* hostnames and fixed ports this stack holds claim files for
  reserved,    \* r.manifestFiles
  recorded,    \* the files in the stack's own record; Unregistered without one
  active,      \* stackRoutes.active: the routes published in Caddy
  cleanup,     \* what the shutdown has left to do
  op,          \* the operation that holds operationMu
  spent        \* counts behind the bounds, and observations: the phases in which
               \* ports moved, and whether a change that failed left its routes

vars == << life, cancelled, manifest, configured, blocked, failures, pending,
           started, failedRoutes, forgotten, claimed, reserved, recorded,
           active, cleanup, op, spent >>

---------------------------------------------------------------------------
(* Manifests. A definition is a record of the service's command, the services *)
(* it depends on, its port ("none", "auto" or a fixed number) and its hosts.   *)

Ported(m) == {s \in DOMAIN m : m[s].port # "none"}
AutoPorted(m) == {s \in DOMAIN m : m[s].port = "auto"}
FixedPorts(m) == {m[s].port : s \in Ported(m) \ AutoPorted(m)}
ClaimsOf(definition) ==
  definition.hosts \cup (IF definition.port \in {"none", "auto"}
                         THEN {} ELSE {definition.port})
Claims(m) == UNION {ClaimsOf(m[s]) : s \in DOMAIN m}

(* A resolved manifest: every service with a port has a number. *)
Resolved(m, auto) ==
  [config |-> m,
   port |-> [s \in Ported(m) |-> IF s \in AutoPorted(m) THEN auto[s] ELSE m[s].port]]

Names(r) == DOMAIN r.config

(* What a process is launched with: its definition, and the port of every     *)
(* service (DEVHOST_PORT_<NAME> and the templates that name them).             *)
Environment(r, s) == [definition |-> r.config[s], ports |-> r.port]

\* Faulty variant: a change of ports alone affects no service.
affectedByDefinition(a, b) ==
  {s \in Names(a) \cup Names(b) :
     s \notin Names(a) \/ s \notin Names(b) \/ a.config[s] # b.config[s]}

affectedReloadServices(a, b) ==
  {s \in Names(a) \cup Names(b) :
     \/ s \notin Names(a) \/ s \notin Names(b)
     \/ Environment(a, s) # Environment(b, s)}

(* The least set that holds affected and, in either manifest, every service    *)
(* that depends on a member.                                                   *)
expandReloadGroups(affected, a, b) ==
  LET Closed(set) == \A m \in {a.config, b.config} : \A s \in DOMAIN m :
                       m[s].needs \cap set # {} => s \in set
  IN {s \in Names(a) \cup Names(b) \cup affected :
        \A set \in SUBSET Service : affected \subseteq set /\ Closed(set)
                                      => s \in set}

(* resolveReloadPorts keeps the automatic port of a service that had one;      *)
(* resolveStackRestartPorts gives every one a port none of them had.           *)
FreshPorts(m, taken, kept) ==
  {ports \in [AutoPorted(m) -> Port] :
     /\ \A s \in AutoPorted(m) : IF s \in DOMAIN kept THEN ports[s] = kept[s]
                           ELSE ports[s] \notin taken \cup Range(kept)
     /\ IsInjective(ports)
     /\ Range(ports) \cap FixedPorts(m) = {}}

resolveReloadPorts(m, r) ==
  LET keep == {s \in AutoPorted(m) \cap AutoPorted(r.config) : r.port[s] \notin FixedPorts(m)}
  IN {Resolved(m, ports) : ports \in FreshPorts(m, {}, [s \in keep |-> r.port[s]])}

resolveStackRestartPorts(m, r) ==
  {Resolved(m, ports) : ports \in FreshPorts(m, Range(r.port), [s \in {} |-> 0])}

(* ReassignAutoPort: s moves to a port no service has. *)
ReassignAutoPort(r, s) ==
  {[r EXCEPT !.port[s] = port] : port \in Port \ Range(r.port)}

Routes(r) ==
  [s \in {s \in Names(r) : r.config[s].hosts # {} /\ r.config[s].port # "none"} |->
     [hosts |-> r.config[s].hosts, port |-> r.port[s]]]

RoutedHosts == UNION {active[s].hosts : s \in DOMAIN active}

---------------------------------------------------------------------------
(* Process trees. A tree is "running" while its root lives and "lingering"     *)
(* when the root exited and descendants it started live on; it "exited" by     *)
(* itself or was "stopped". A tree whose descendants outlived SIGTERM and      *)
(* SIGKILL is "leaked": stopStartedService closes its containment either way,  *)
(* so no later stop can see or signal what is left of it.                      *)

NoTree == [env |-> <<>>, state |-> "none"]
Live(tree) == tree.state \in {"running", "lingering"}
Leaked(tree) == tree.state = "leaked"
Leaks == {tree \in Range(started) \cup Range(failedRoutes) : Leaked(tree)}

Phase == IF op.kind = "boot" THEN "boot"
         ELSE IF op.recovering THEN "recovery" ELSE "change"

CanLeak == spent.leaks < MaxLeaks /\ spent.operations <= MaxOperations
CanCollide(m, s) ==
  /\ s \in AutoPorted(m)
  /\ spent.collisions < MaxCollisions /\ spent.operations <= MaxOperations
  /\ Phase \in CollisionPhases

(* Replacing or dropping a list entry loses what is alive of its tree. *)
Forget(trees) ==
  forgotten' = forgotten \cup {tree \in trees : Live(tree) \/ Leaked(tree)}

---------------------------------------------------------------------------
(* The operation that holds operationMu, and where it stands. *)

Nothing == [config |-> <<>>, port |-> <<>>]

NoOp ==
  [kind |-> "none", stage |-> "idle", next |-> <<>>, candidate |-> Nothing,
   nextBlocked |-> {}, previous |-> Nothing, previousBlocked |-> {},
   previousClaims |-> {}, previousFiles |-> {}, affected |-> {},
   recovering |-> FALSE, claims |-> {}, todo |-> {}, failed |-> FALSE,
   pass |-> 0, before |-> Nothing, attempt |-> Nothing, retries |-> 0,
   tree |-> NoTree]

Changes == {"reload", "restartStack"}
Changing == op.kind \in Changes
At(stage) == op.stage = stage

(* The next service in start order, and the next in stop order. *)
First == CHOOSE s \in op.todo : \A t \in op.todo :
           Rank[manifest.config][s] <= Rank[manifest.config][t]
Last == CHOOSE s \in op.todo : \A t \in op.todo :
          Rank[manifest.config][s] >= Rank[manifest.config][t]

\* Faulty variant: a removed service is not among those stopped.
OldServicesOfCandidate == op.affected \cap Names(op.candidate)
(* The services a change stops before it installs its candidate. *)
OldServices == op.affected \cap Names(manifest)

(* Services a pass turned out to affect are shown as in transition too. *)
StillPending(affected) == pending \cup affected

Init ==
  /\ life = "starting" /\ cancelled = FALSE
  /\ \E r \in {Resolved(Initial, ports) : ports \in FreshPorts(Initial, {}, [s \in {} |-> 0])} :
       manifest = r
  /\ configured = Initial
  /\ blocked = {} /\ failures = {} /\ pending = {}
  /\ started = [s \in Service |-> NoTree]
  /\ failedRoutes = [s \in Service |-> NoTree]
  /\ forgotten = {}
  /\ claimed = {} /\ reserved = Files[Initial] /\ recorded = {}
  /\ active = <<>>
  /\ cleanup = [stage |-> "none", clean |-> TRUE, ran |-> FALSE]
  /\ op = [NoOp EXCEPT !.kind = "boot", !.stage = "register"]
  /\ spent = [operations |-> 0, collisions |-> 0, leaks |-> 0, phases |-> {},
              staleRoutes |-> FALSE]

(* A startup failure returns from StartStack, whose deferred calls cancel the  *)
(* lifecycle and shut down what was started.                                   *)
\* Faulty variant: an aborted startup still holds the operation.
AbortHoldingOperation == UNCHANGED op /\ cancelled' = TRUE
AbortStartup == op' = NoOp /\ cancelled' = TRUE

---------------------------------------------------------------------------
(* Startup before the services: the stack record, then the claims. *)

RegisterStack ==
  /\ At("register")
  /\ \/ /\ recorded' = reserved
        /\ op' = [op EXCEPT !.stage = "claim", !.claims = Claims(manifest.config)]
        /\ UNCHANGED cancelled
     \/ AbortStartup /\ UNCHANGED recorded
  /\ UNCHANGED <<life, manifest, configured, blocked, failures, pending, started,
       failedRoutes, forgotten, claimed, reserved, active, cleanup, spent>>

(* ClaimFixedPort and ClaimHost, for a starting stack and for claimReload. *)
Claim ==
  /\ At("claim") /\ op.claims # {}
  /\ \E claim \in op.claims :
       \/ /\ claimed' = claimed \cup {claim}
          /\ op' = [op EXCEPT !.claims = @ \ {claim}]
          /\ UNCHANGED cancelled
       \/ /\ UNCHANGED claimed
          /\ IF Changing THEN op' = [op EXCEPT !.stage = "unclaim"] /\ UNCHANGED cancelled
             ELSE AbortStartup
  /\ UNCHANGED <<life, manifest, configured, blocked, failures, pending, started,
       failedRoutes, forgotten, reserved, recorded, active, cleanup, spent>>

(* With every claim held, a starting stack publishes its routes; a change      *)
(* marks the affected services as pending and stops them, unless r.health      *)
(* reports that the lifecycle is cancelled.                                    *)
ClaimsHeld ==
  /\ At("claim") /\ op.claims = {}
  /\ IF ~Changing THEN op' = [op EXCEPT !.stage = "routes"] /\ UNCHANGED pending
     ELSE IF cancelled THEN op' = [op EXCEPT !.stage = "unclaim"] /\ UNCHANGED pending
     ELSE /\ pending' = op.affected
          /\ op' = [op EXCEPT !.stage = "stop", !.todo = OldServices]
  /\ UNCHANGED <<life, cancelled, manifest, configured, blocked, failures, started,
       failedRoutes, forgotten, claimed, reserved, recorded, active, cleanup, spent>>

---------------------------------------------------------------------------
(* r.stop: whatever an unrouted replacement left is given up, then the tracked *)
(* tree is stopped. It fails when descendants outlive SIGKILL.                 *)

StopTracked(s, leaks) ==
  /\ failedRoutes' = [failedRoutes EXCEPT ![s] = NoTree]
  /\ Forget({failedRoutes[s]})
  /\ IF leaks
     THEN /\ Live(started[s]) /\ CanLeak
          /\ started' = [started EXCEPT ![s].state = "leaked"]
          /\ spent' = [spent EXCEPT !.leaks = @ + 1]
     ELSE /\ started' = [started EXCEPT ![s].state =
                           IF Live(started[s]) THEN "stopped" ELSE @]
          /\ UNCHANGED spent

(* stopReloadServices stops the services it is given in reverse start order    *)
(* and goes on past a failure.                                                 *)
StopReloadService ==
  /\ op.stage \in {"stop", "restop", "undo", "giveUp"} /\ op.todo # {}
  /\ \E leaks \in BOOLEAN :
       /\ StopTracked(Last, leaks)
       /\ op' = [op EXCEPT !.todo = @ \ {Last}, !.failed = @ \/ leaks]
  /\ UNCHANGED <<life, cancelled, manifest, configured, blocked, failures, pending,
       claimed, reserved, recorded, active, cleanup>>

Stopped(stage) == At(stage) /\ op.todo = {}

(* startReloadServices begins a pass over the affected services of r. *)
StartPass(o, r, pass) ==
  [o EXCEPT !.stage = "launch", !.todo = o.affected \cap Names(r),
            !.pass = pass, !.before = r, !.failed = FALSE]

(* recoverReload: the previous manifest is installed and its services started, *)
(* unless the stack is shutting down.                                          *)
RecoverReload ==
  IF cancelled
  THEN /\ op' = [op EXCEPT !.stage = "unclaim"]
       /\ UNCHANGED <<manifest, blocked>>
  ELSE /\ manifest' = op.previous
       /\ blocked' = op.previousBlocked
       /\ op' = StartPass([op EXCEPT !.recovering = TRUE], op.previous, 0)

(* The old services are down: install the candidate, or recover. *)
InstallReload ==
  /\ Stopped("stop")
  /\ IF op.failed THEN RecoverReload
     ELSE /\ manifest' = op.candidate
          /\ blocked' = op.nextBlocked
          /\ op' = StartPass(op, op.candidate, 0)
  /\ UNCHANGED <<life, cancelled, configured, failures, pending, started, failedRoutes,
       forgotten, claimed, reserved, recorded, active, cleanup, spent>>

(* A start phase that fails stops every affected service of the installed      *)
(* manifest: to roll back to the previous one, or to give the services up when *)
(* the previous one cannot be started either.                                  *)
\* Faulty variant: a failed restore is rolled back like a failed change.
RestoreAgain ==
  [op EXCEPT !.stage = "undo", !.todo = op.affected \cap Names(manifest),
             !.attempt = Nothing, !.retries = 0, !.tree = NoTree]
\* Faulty variant: a failed change is given up, not rolled back.
RestoreNever ==
  [op EXCEPT !.stage = "giveUp", !.todo = op.affected \cap Names(manifest),
             !.attempt = Nothing, !.retries = 0, !.tree = NoTree]
StartPhaseFailed ==
  [op EXCEPT !.stage = IF op.recovering THEN "giveUp" ELSE "undo",
             !.todo = op.affected \cap Names(manifest),
             !.attempt = Nothing, !.retries = 0, !.tree = NoTree]

(* Services whose environment changed under them are down: start them again,   *)
(* for as many passes as automatic ports may be retried.                       *)
NextPass ==
  /\ Stopped("restop")
  /\ op' = IF op.failed \/ op.pass = MaximumAutoPortRetryCount THEN StartPhaseFailed
           ELSE StartPass(op, manifest, op.pass + 1)
  /\ UNCHANGED <<life, cancelled, manifest, configured, blocked, failures, pending, started,
       failedRoutes, forgotten, claimed, reserved, recorded, active, cleanup, spent>>

(* The candidate's services are down. A stack that shuts down restores nothing. *)
RollBack ==
  /\ Stopped("undo")
  /\ RecoverReload
  /\ UNCHANGED <<life, cancelled, configured, failures, pending, started, failedRoutes,
       forgotten, claimed, reserved, recorded, active, cleanup, spent>>

\* Faulty variant: only services whose own start failed are held down.
HeldFailures == blocked \cup (op.affected \cap failures)
HeldDown == blocked \cup (op.affected \cap Names(manifest))

(* The previous services cannot be restored: they are held down. *)
BlockServices ==
  /\ Stopped("giveUp")
  /\ blocked' = HeldDown
  /\ op' = [op EXCEPT !.stage = "unclaim"]
  /\ UNCHANGED <<life, cancelled, manifest, configured, failures, pending, started,
       failedRoutes, forgotten, claimed, reserved, recorded, active, cleanup, spent>>

---------------------------------------------------------------------------
(* r.start, for a starting stack, a change and a restart. A starting stack and *)
(* a restart refresh the service's route; all but a restart may move a taken   *)
(* automatic port.                                                             *)

RefreshRoute == op.kind \in {"boot", "restart"}
AllowPortReassignment == op.kind # "restart"
Launching == At("launch") /\ op.todo # {}
Attempt == IF op.retries = 0 THEN manifest ELSE op.attempt

NextService(o) ==
  [o EXCEPT !.stage = IF o.kind = "restart" THEN "restart" ELSE "launch",
            !.todo = @ \ {First}, !.attempt = Nothing, !.retries = 0, !.tree = NoTree]

(* A start that failed: a starting stack goes on to the next service unless it *)
(* is cancelled, a change rolls back, a restart ends.                          *)
StartFailed ==
  /\ failures' = failures \cup {First}
  /\ \/ Changing /\ op' = StartPhaseFailed /\ UNCHANGED cancelled
     \/ op.kind = "restart" /\ op' = NoOp /\ UNCHANGED cancelled
     \/ op.kind = "boot" /\ cancelled /\ AbortStartup
     \/ op.kind = "boot" /\ ~cancelled /\ op' = NextService(op) /\ UNCHANGED cancelled

(* startReloadServices checks the context first and leaves blocked services    *)
(* down; a watcher that cannot start fails the pass.                           *)
SkipBlocked ==
  /\ Launching /\ Changing /\ ~cancelled /\ First \in blocked
  /\ op' = NextService(op)
  /\ UNCHANGED <<life, cancelled, manifest, configured, blocked, failures, pending, started,
       failedRoutes, forgotten, claimed, reserved, recorded, active, cleanup, spent>>

FailBeforeStart ==
  /\ Launching /\ Changing /\ op.retries = 0
  /\ cancelled \/ First \notin blocked
  /\ op' = StartPhaseFailed
  /\ UNCHANGED <<life, cancelled, manifest, configured, blocked, failures, pending, started,
       failedRoutes, forgotten, claimed, reserved, recorded, active, cleanup, spent>>

StartCancelled ==
  /\ Launching /\ cancelled
  /\ Changing => op.retries > 0
  /\ StartFailed
  /\ UNCHANGED <<life, manifest, configured, blocked, pending, started, failedRoutes,
       forgotten, claimed, reserved, recorded, active, cleanup, spent>>

(* reassignStartupAutoPort works on the attempt's copy of the manifest, which  *)
(* is installed once the service is healthy.                                   *)
ReassignPort ==
  \E r \in ReassignAutoPort(Attempt, First) :
    op' = [op EXCEPT !.stage = "launch", !.attempt = r, !.retries = @ + 1, !.tree = NoTree]

MayRetry == AllowPortReassignment /\ op.retries < MaximumAutoPortRetryCount

(* validateAssignedAutoPort finds the port taken by another program. *)
PortTaken ==
  /\ Launching /\ ~cancelled
  /\ Changing => First \notin blocked
  /\ CanCollide(manifest.config, First)
  /\ spent' = [spent EXCEPT !.collisions = @ + 1, !.phases = @ \cup {Phase}]
  /\ IF MayRetry THEN ReassignPort /\ UNCHANGED <<cancelled, failures>>
     ELSE StartFailed
  /\ UNCHANGED <<life, manifest, configured, blocked, pending, started, failedRoutes,
       forgotten, claimed, reserved, recorded, active, cleanup>>

(* startServiceProcess launches the tree, or fails to. *)
Launch ==
  /\ Launching /\ ~cancelled
  /\ Changing => First \notin blocked
  /\ \/ /\ op' = [op EXCEPT !.stage = "health", !.attempt = Attempt,
                    !.tree = [env |-> Environment(Attempt, First), state |-> "running"]]
        /\ failures' = failures \ {First}
        /\ UNCHANGED cancelled
     \/ StartFailed
  /\ UNCHANGED <<life, manifest, configured, blocked, pending, started, failedRoutes,
       forgotten, claimed, reserved, recorded, active, cleanup, spent>>

Track(s, tree) ==
  /\ started' = [started EXCEPT ![s] = tree]
  /\ Forget({started[s]})

(* The service is healthy, and its route is refreshed where the start asks for *)
(* that: the attempt's ports and its process tree become current.              *)
Healthy ==
  /\ At("health") /\ op.tree.state = "running"
  /\ manifest' = op.attempt
  /\ Track(First, op.tree)
  /\ active' = IF RefreshRoute /\ First \in DOMAIN Routes(op.attempt)
               THEN [s \in DOMAIN active \cup {First} |->
                       IF s = First THEN Routes(op.attempt)[s] ELSE active[s]]
               ELSE active
  /\ blocked' = IF op.kind = "restart" THEN blocked \ {First} ELSE blocked
  /\ op' = NextService(op)
  /\ UNCHANGED <<life, cancelled, configured, failures, pending, failedRoutes, claimed,
       reserved, recorded, cleanup, spent>>

\* Faulty variant: a tree is kept whether or not it was stopped.
KeepEveryUnrouted(s, tree) == [failedRoutes EXCEPT ![s] = tree]
KeepUnrouted(s, tree) ==
  IF Leaked(tree) THEN [failedRoutes EXCEPT ![s] = tree] ELSE failedRoutes

(* The service is healthy but its route cannot be refreshed: the tree is       *)
(* stopped, and kept in failedRoutes as well when it leaks.                    *)
RouteRefreshFailed ==
  /\ At("health") /\ op.tree.state = "running"
  /\ RefreshRoute /\ First \in DOMAIN Routes(op.attempt)
  /\ \E leaks \in BOOLEAN :
       LET tree == [op.tree EXCEPT !.state = IF leaks THEN "leaked" ELSE "stopped"]
       IN /\ leaks => CanLeak
          /\ Track(First, tree)
          /\ failedRoutes' = KeepUnrouted(First, tree)
          /\ spent' = IF leaks THEN [spent EXCEPT !.leaks = @ + 1] ELSE spent
  /\ StartFailed
  /\ UNCHANGED <<life, manifest, configured, blocked, pending, claimed, reserved,
       recorded, active, cleanup>>

(* Cancelled while it waits for health: the tree stays tracked, for the        *)
(* shutdown or the rollback to stop.                                           *)
HealthCancelled ==
  /\ At("health") /\ cancelled
  /\ Track(First, op.tree)
  /\ StartFailed
  /\ UNCHANGED <<life, manifest, configured, blocked, pending, failedRoutes, claimed,
       reserved, recorded, active, cleanup, spent>>

(* The tree exited before it was healthy, or the check timed out. It is        *)
(* stopped. A bind collision is retried on another port; a tree that exited on *)
(* its own otherwise stays tracked as exited.                                  *)
HealthFailed ==
  /\ At("health") /\ ~cancelled
  /\ \/ /\ Live(op.tree) /\ CanLeak
        /\ spent' = [spent EXCEPT !.leaks = @ + 1]
        /\ forgotten' = forgotten \cup {[op.tree EXCEPT !.state = "leaked"]}
        /\ UNCHANGED started
        /\ StartFailed
     \/ /\ CanCollide(op.attempt.config, First)
        /\ op.retries < MaximumAutoPortRetryCount
        /\ spent' = [spent EXCEPT !.collisions = @ + 1, !.phases = @ \cup {Phase}]
        /\ UNCHANGED <<started, forgotten>>
        /\ IF MayRetry THEN ReassignPort /\ UNCHANGED <<cancelled, failures>>
           ELSE StartFailed
     \/ /\ UNCHANGED spent
        /\ IF op.tree.state = "running" THEN UNCHANGED <<started, forgotten>>
           ELSE Track(First, [op.tree EXCEPT !.state = "exited"])
        /\ StartFailed
  /\ UNCHANGED <<life, manifest, configured, blocked, pending, failedRoutes, claimed,
       reserved, recorded, active, cleanup>>

(* Any process tree may exit on its own, with or without its descendants. *)
ExitsTo(tree) ==
  {[tree EXCEPT !.state = st] :
     st \in IF tree.state = "running" THEN {"lingering", "exited"}
            ELSE IF tree.state = "lingering" THEN {"exited"} ELSE {}}

ServiceExits ==
  /\ \/ /\ \E s \in Service : \E tree \in ExitsTo(started[s]) :
             started' = [started EXCEPT ![s] = tree]
        /\ UNCHANGED op
     \/ /\ \E tree \in ExitsTo(op.tree) : op' = [op EXCEPT !.tree = tree]
        /\ UNCHANGED started
  /\ UNCHANGED <<life, cancelled, manifest, configured, blocked, failures, pending,
       failedRoutes, forgotten, claimed, reserved, recorded, active, cleanup, spent>>

(* Every service of a pass was handled. A change runs another pass over the    *)
(* services whose environment the pass changed, and publishes its routes when  *)
(* there are none.                                                             *)
PassDone ==
  /\ Stopped("launch")
  /\ LET changed == affectedReloadServices(op.before, manifest)
         affected == expandReloadGroups(op.affected \cup changed, op.before, manifest)
     IN IF op.kind = "boot"
        THEN /\ life' = "ready" /\ op' = NoOp
             /\ UNCHANGED pending
        ELSE /\ UNCHANGED life
             /\ IF changed # {}
                THEN /\ pending' = StillPending(affected)
                     /\ op' = [op EXCEPT !.stage = "restop", !.affected = affected,
                                         !.todo = affected \cap Names(manifest)]
                ELSE /\ UNCHANGED pending
                     /\ op' = IF cancelled /\ ~op.recovering THEN StartPhaseFailed
                              ELSE [op EXCEPT !.stage = "routes"]
  /\ UNCHANGED <<cancelled, manifest, configured, blocked, failures, started, failedRoutes,
       forgotten, claimed, reserved, recorded, active, cleanup, spent>>

---------------------------------------------------------------------------
\* Faulty variant: the routes are the candidate's even after a rollback.
CandidateRoutes == IF Changing THEN Routes(op.candidate) ELSE Routes(manifest)
InstalledRoutes == Routes(manifest)

(* stackRoutes.replace publishes the routes of the installed manifest, all or  *)
(* none. When the document server of a service that lost its route cannot be   *)
(* stopped, it fails after the routes were published.                          *)
ReplaceRoutes ==
  /\ At("routes")
  /\ \/ /\ active' = InstalledRoutes
        /\ op' = [op EXCEPT
             !.stage = IF op.kind = "boot" THEN "launch"
                       ELSE IF op.recovering THEN "unclaim" ELSE "settings",
             !.todo = IF op.kind = "boot" THEN Names(manifest) ELSE {}]
        /\ spent' = [spent EXCEPT !.staleRoutes = FALSE]
        /\ UNCHANGED cancelled
     \/ /\ \/ UNCHANGED <<active, spent>>
           \/ /\ DOMAIN active \ DOMAIN InstalledRoutes # {}
              /\ active' = InstalledRoutes
              /\ spent' = [spent EXCEPT !.staleRoutes = TRUE]
        /\ IF op.kind = "boot" THEN AbortStartup
           ELSE op' = StartPhaseFailed /\ UNCHANGED cancelled
  /\ UNCHANGED <<life, manifest, configured, blocked, failures, pending, started, failedRoutes,
       forgotten, claimed, reserved, recorded, cleanup>>

(* finishReservation narrows the reserved manifest files to files; when the    *)
(* record cannot be written they stay what they were.                          *)
FinishReservation(files) ==
  \/ reserved' = files /\ recorded' = files
  \/ UNCHANGED <<reserved, recorded>>

(* The pages take the new settings, which publishes health and so fails once   *)
(* the lifecycle is cancelled; then the change is accepted, and the services   *)
(* it retired are dropped.                                                     *)
Accept ==
  /\ At("settings")
  /\ IF cancelled
     THEN /\ op' = StartPhaseFailed
          /\ UNCHANGED <<configured, started, forgotten, pending>>
     ELSE /\ configured' = op.next
          /\ started' = [s \in Service |->
                           IF s \in Names(manifest) THEN started[s] ELSE NoTree]
          /\ Forget({started[s] : s \in Service \ Names(manifest)})
          /\ pending' = {}
          /\ op' = [op EXCEPT !.stage = "retire"]
  /\ UNCHANGED <<life, cancelled, manifest, blocked, failures, failedRoutes, claimed,
       reserved, recorded, active, cleanup, spent>>

\* Faulty variant: a rejected change keeps the candidate's claims.
ReleaseClaimsExceptNext(kept) == claimed' = claimed \cap Claims(op.next)

(* releaseClaimsExcept keeps a claim whose release fails. *)
ReleaseClaimsExcept(kept) ==
  \E stuck \in SUBSET (claimed \ kept) : claimed' = (claimed \cap kept) \cup stuck

RetireClaims ==
  /\ At("retire")
  /\ ReleaseClaimsExcept(Claims(manifest.config))
  /\ FinishReservation(Files[op.next])
  /\ op' = NoOp
  /\ UNCHANGED <<life, cancelled, manifest, configured, blocked, failures, pending, started,
       failedRoutes, forgotten, active, cleanup, spent>>

(* A rejected change gives back the claims and files it reserved. *)
Reject ==
  /\ At("unclaim")
  /\ ReleaseClaimsExcept(op.previousClaims)
  /\ FinishReservation(op.previousFiles)
  /\ pending' = {}
  /\ op' = NoOp
  /\ UNCHANGED <<life, cancelled, manifest, configured, blocked, failures, started,
       failedRoutes, forgotten, active, cleanup, spent>>

---------------------------------------------------------------------------
(* Requests, one at a time: each takes operationMu and checkReady admits it. *)

\* Bound: of what a stack is asked for beyond MaxOperations, only what follows starts that failed.
Quiet ==
  /\ spent.leaks = 0 /\ spent.collisions = 0
  /\ \A s \in Service : started[s].state \notin {"lingering", "exited"}

MayBegin ==
  /\ life = "ready" /\ ~cancelled /\ op.kind = "none"
  /\ \/ spent.operations < MaxOperations
     \/ blocked # {} /\ Quiet /\ spent.operations < MaxOperations + MaxRepairs

(* claimReload takes the claims the stack does not hold yet. *)
MissingClaims(next) == Claims(next) \ claimed

\* Faulty variant: the files in use are given up first.
ReserveNextOnly(next) == Files[next]
ReserveBoth(next) == reserved \cup Files[next]

(* Services held down that the change does not touch stay held down. *)
KeptBlocked(candidate, affected) ==
  {s \in blocked : s \in Names(candidate) /\ s \notin affected}

(* applyConfiguration up to the first claim: the manifest files are reserved   *)
(* first, so that no other stack takes them.                                   *)
Plan(kind, next, candidate, affected) ==
  LET expanded == expandReloadGroups(affected, manifest, candidate)
  IN /\ reserved' = ReserveBoth(next)
     /\ recorded' = ReserveBoth(next)
     /\ op' = [NoOp EXCEPT
          !.kind = kind, !.stage = "claim", !.next = next, !.candidate = candidate,
          !.affected = expanded,
          !.nextBlocked = KeptBlocked(candidate, expanded),
          !.previous = manifest, !.previousBlocked = blocked,
          !.previousClaims = claimed, !.previousFiles = reserved,
          !.claims = MissingClaims(next)]

(* A saved manifest that differs from the accepted one. It may be rejected     *)
(* before anything is stopped; its reservation can then stay behind.           *)
Reload(next) ==
  /\ MayBegin /\ next # configured
  /\ spent' = [spent EXCEPT !.operations = @ + 1]
  /\ \/ \E candidate \in resolveReloadPorts(next, manifest) :
          Plan("reload", next, candidate, affectedReloadServices(manifest, candidate))
     \/ /\ \/ UNCHANGED <<reserved, recorded>>
           \/ /\ reserved' = ReserveBoth(next)
              /\ recorded' = ReserveBoth(next)
        /\ UNCHANGED op
  /\ UNCHANGED <<life, cancelled, manifest, configured, blocked, failures, pending, started,
       failedRoutes, forgotten, claimed, active, cleanup>>

(* Every managed service, on automatic ports none of them had. *)
RestartStack ==
  /\ MayBegin
  /\ spent' = [spent EXCEPT !.operations = @ + 1]
  /\ \E candidate \in resolveStackRestartPorts(configured, manifest) :
       Plan("restartStack", configured, candidate,
            affectedReloadServices(manifest, candidate) \cup Names(candidate))
  /\ UNCHANGED <<life, cancelled, manifest, configured, blocked, failures, pending, started,
       failedRoutes, forgotten, claimed, active, cleanup>>

(* r.restart of some services: each in turn is stopped and started again on    *)
(* its own port. The first failure ends it.                                    *)
Restart(services) ==
  /\ MayBegin
  /\ spent' = [spent EXCEPT !.operations = @ + 1]
  /\ op' = [NoOp EXCEPT !.kind = "restart", !.stage = "restart", !.todo = services]
  /\ UNCHANGED <<life, cancelled, manifest, configured, blocked, failures, pending, started,
       failedRoutes, forgotten, claimed, reserved, recorded, active, cleanup>>

RestartStops ==
  /\ At("restart") /\ op.todo # {}
  /\ \E leaks \in BOOLEAN :
       /\ StopTracked(First, leaks)
       /\ \/ op' = IF leaks THEN NoOp ELSE [op EXCEPT !.stage = "launch"]
          \/ First \in blocked /\ op' = NoOp   \* its watcher cannot start
  /\ UNCHANGED <<life, cancelled, manifest, configured, blocked, failures, pending,
       claimed, reserved, recorded, active, cleanup>>

RestartDone ==
  /\ Stopped("restart")
  /\ op' = NoOp
  /\ UNCHANGED <<life, cancelled, manifest, configured, blocked, failures, pending, started,
       failedRoutes, forgotten, claimed, reserved, recorded, active, cleanup, spent>>

---------------------------------------------------------------------------
(* A signal, the idle timeout or a failed tunnel cancels the lifecycle. The    *)
(* shutdown then waits for the operation in progress, and stops the trees      *)
(* before it releases what they stand for; the stack record goes last.         *)

Cancel ==
  /\ life \in {"starting", "ready"} /\ ~cancelled
  /\ cancelled' = TRUE
  /\ UNCHANGED <<life, manifest, configured, blocked, failures, pending, started, failedRoutes,
       forgotten, claimed, reserved, recorded, active, cleanup, op, spent>>

OperationMuFree == op.kind = "none"

BeginShutdown ==
  /\ life \in {"starting", "ready"} /\ cancelled /\ OperationMuFree
  /\ life' = "stopping"
  /\ cleanup' = [stage |-> "trees", clean |-> TRUE,
                 ran |-> life = "ready" \/ \E s \in Service : started[s] # NoTree]
  /\ UNCHANGED <<cancelled, manifest, configured, blocked, failures, pending, started,
       failedRoutes, forgotten, claimed, reserved, recorded, active, op, spent>>

CleanedUp(stage, next, success) ==
  /\ life = "stopping" /\ cleanup.stage = stage
  /\ cleanup' = [cleanup EXCEPT !.stage = next, !.clean = @ /\ success]

StopTrees ==
  LET running == {s \in Service : Live(started[s])}
  IN \E leaks \in SUBSET running :
       /\ CleanedUp("trees", "hosts", leaks = {})
       /\ spent.leaks + Cardinality(leaks) <= MaxLeaks
       /\ spent' = [spent EXCEPT !.leaks = @ + Cardinality(leaks)]
       /\ started' = [s \in Service |->
            IF s \in running
            THEN [started[s] EXCEPT !.state = IF s \in leaks THEN "leaked" ELSE "stopped"]
            ELSE started[s]]
       /\ UNCHANGED <<life, cancelled, manifest, configured, blocked, failures, pending,
            failedRoutes, forgotten, claimed, reserved, recorded, active, op>>

Hosts == UNION {UNION {m[s].hosts : s \in DOMAIN m} : m \in Manifests}

ReleaseHosts ==
  \E stuck \in SUBSET (claimed \cap Hosts) :
    /\ CleanedUp("hosts", "routes", stuck = {})
    /\ claimed' = (claimed \ Hosts) \cup stuck
    /\ UNCHANGED <<life, cancelled, manifest, configured, blocked, failures, pending, started,
         failedRoutes, forgotten, reserved, recorded, active, op, spent>>

UnregisterRoutes ==
  \E stuck \in SUBSET DOMAIN active :
    /\ CleanedUp("routes", "ports", stuck = {})
    /\ active' = [s \in stuck |-> active[s]]
    /\ UNCHANGED <<life, cancelled, manifest, configured, blocked, failures, pending, started,
         failedRoutes, forgotten, claimed, reserved, recorded, op, spent>>

ReleasePorts ==
  \E stuck \in SUBSET (claimed \ Hosts) :
    /\ CleanedUp("ports", "record", stuck = {})
    /\ claimed' = (claimed \cap Hosts) \cup stuck
    /\ UNCHANGED <<life, cancelled, manifest, configured, blocked, failures, pending, started,
         failedRoutes, forgotten, reserved, recorded, active, op, spent>>

UnregisterStack ==
  /\ \/ recorded' = {} /\ CleanedUp("record", "done", TRUE)
     \/ UNCHANGED recorded /\ CleanedUp("record", "done", FALSE)
  /\ life' = "stopped"
  /\ UNCHANGED <<cancelled, manifest, configured, blocked, failures, pending, started,
       failedRoutes, forgotten, claimed, reserved, active, op, spent>>

---------------------------------------------------------------------------
Operate ==
  \/ RegisterStack \/ Claim \/ ClaimsHeld \/ StopReloadService \/ InstallReload
  \/ NextPass \/ RollBack \/ BlockServices \/ SkipBlocked \/ FailBeforeStart
  \/ StartCancelled \/ PortTaken \/ Launch \/ Healthy \/ RouteRefreshFailed
  \/ HealthCancelled \/ HealthFailed \/ PassDone \/ ReplaceRoutes \/ Accept
  \/ RetireClaims \/ Reject \/ RestartStops \/ RestartDone

ShutDown ==
  BeginShutdown \/ StopTrees \/ ReleaseHosts \/ UnregisterRoutes \/ ReleasePorts
  \/ UnregisterStack

Request ==
  \/ \E next \in Manifests : Reload(next)
  \/ RestartStack
  \/ \E services \in SUBSET Names(manifest) \ {{}} : Restart(services)

Next == Operate \/ ShutDown \/ Request \/ Cancel \/ ServiceExits

(* The operation's own goroutine and the shutdown keep running: waits for      *)
(* health and for exit are bounded by timeouts.                                *)
Spec == Init /\ [][Next]_vars /\ WF_vars(Operate) /\ WF_vars(ShutDown)

---------------------------------------------------------------------------
(* Properties. *)

Settled == life = "ready" /\ ~cancelled /\ op.kind = "none"

TypeOK ==
  /\ life \in {"starting", "ready", "stopping", "stopped"}
  /\ cancelled \in BOOLEAN
  /\ configured \in Manifests /\ manifest.config \in Manifests
  /\ DOMAIN manifest.port = Ported(manifest.config)
  /\ blocked \subseteq Service /\ failures \subseteq Service /\ pending \subseteq Service
  /\ \A s \in Service : started[s].state \in
       {"none", "running", "lingering", "exited", "stopped", "leaked"}
  /\ \A s \in Service : failedRoutes[s].state \in {"none", "leaked"}
  /\ reserved \subseteq UNION Range(Files) /\ recorded \subseteq UNION Range(Files)
  /\ claimed \subseteq UNION {Claims(m) : m \in Manifests}
  /\ DOMAIN active \subseteq Service

(* Once no operation runs, the installed manifest is the accepted one: a       *)
(* rejected reload or a failed restart of the stack leaves no trace of the     *)
(* candidate, whichever of its steps failed.                                   *)
InstalledIsAccepted == Settled => manifest.config = configured

(* Every process that runs in a settled stack was launched with the definition *)
(* and the ports the installed manifest has now; only services held down after *)
(* a failed restore are excepted. This is what the passes of                   *)
(* startReloadServices are for.                                                *)
RunsAsInstalled ==
  Settled /\ spent.phases \subseteq {"change"} => \A s \in Names(manifest) \ blocked :
    started[s].state = "running" => started[s].env = Environment(manifest, s)

(* A settled stack never leaves a service down that it stopped itself without  *)
(* saying why: such a service is blocked or its failure is recorded.           *)
NoSilentStop ==
  Settled => \A s \in Names(manifest) :
    started[s].state \in {"none", "stopped"} => s \in blocked \cup failures

(* The supervisor loses sight of a process tree only after it has tried to     *)
(* stop it: not when a service is removed from the manifest, replaced by a     *)
(* restart or by a change, or retried on another port. And once the shutdown   *)
(* has stopped the trees, no operation in progress launches another one.       *)
NoStrayServices ==
  /\ \A tree \in forgotten : ~Live(tree)
  /\ life = "stopped" \/ cleanup.stage \notin {"none", "trees"} =>
       op.kind = "none" /\ \A s \in Service : ~Live(started[s])

(* The claims outlive the processes: while a process tree the supervisor can   *)
(* still stop is alive, its hostnames and fixed port stay claimed.             *)
ProcessesAreClaimed ==
  \A tree \in Range(started) \cup {op.tree} :
    Live(tree) => ClaimsOf(tree.env.definition) \subseteq claimed

(* Whatever the stack uses it has claimed, through every rejected change, its  *)
(* rollback and the shutdown: what its processes were launched with, what the  *)
(* accepted manifest names, and the hostnames Caddy routes to it. Excepted are *)
(* routes that were published although their change failed, until routes are   *)
(* published again: their claims may have been given back.                     *)
ClaimsCoverUse ==
  /\ ProcessesAreClaimed
  /\ life = "ready" => Claims(configured) \subseteq claimed
  /\ life = "ready" /\ ~cancelled /\ ~spent.staleRoutes => RoutedHosts \subseteq claimed

(* In a settled stack exactly the services with hostnames are routed, each to  *)
(* the port it has; excepted are services held down after a failed restore, and *)
(* what a change that failed left of its routes.                               *)
RoutesLeadToServices ==
  Settled => \A s \in Names(manifest) \ blocked :
    IF s \in DOMAIN Routes(manifest)
    THEN s \in DOMAIN active /\ active[s] = Routes(manifest)[s]
    ELSE s \notin DOMAIN active \/ spent.staleRoutes

(* The files of the accepted manifest, and of the candidate of a change in     *)
(* progress, stay reserved in the stack record, so no other stack starts from  *)
(* them.                                                                       *)
FilesStayReserved ==
  life = "ready" =>
    /\ Files[configured] \subseteq recorded
    /\ Changing => Files[op.next] \subseteq recorded

(* "Stack stopped." is printed by a stack that ran and whose cleanup found no  *)
(* error; nothing it launched is alive then.                                   *)
StoppedMeansGone ==
  life = "stopped" /\ cleanup.clean /\ cleanup.ran => forgotten = {} /\ Leaks = {}

(* Every request ends, whatever fails in it and in the recovery from it. *)
RequestsEnd == op.kind # "none" ~> op.kind = "none"

(* A stack whose lifecycle was cancelled stops, also in the middle of startup  *)
(* or of a change.                                                             *)
CancelledStops == cancelled ~> life = "stopped"
=============================================================================
