-------------------------------- MODULE Claims --------------------------------
(***************************************************************************)
(* The claim files of caddy/routes.go: one file per hostname and per fixed *)
(* port a stack uses, created exclusively, naming its owner's PID, start   *)
(* identity and manifest.  Unlike the stack records they are read, judged  *)
(* and replaced without a lock, one system call at a time.  StartStack     *)
(* cleans up what dead stacks left, claims its ports and then its hosts,   *)
(* registers its routes, and releases in the order hosts, routes, ports,   *)
(* stack record.  The stack records come in by what they promise,          *)
(* ManifestOwnership.                                                      *)
(***************************************************************************)
EXTENDS Naturals, FiniteSets

CONSTANTS
  Process,      \* devhost processes: an incarnation is never reused
  Pid,          \* PIDs, which are reused
  Name,         \* hostnames and bound fixed ports
  Hosts,        \* the hostnames among them
  Manifests,    \* manifest paths
  Manifest,     \* Manifest[p]: the manifest p runs
  Wants,        \* Wants[p]: the names p's manifest claims
  KillZombies,  \* processes whose manifest sets killZombies
  Overlap,      \* the first stacks, whose starts and stops may overlap
  Verified,     \* are start identities always readable?
  MaxFaults,    \* crashes and failed system calls in a behaviour
  None

ASSUME HostsAssumption == Hosts \subseteq Name
ASSUME OverlapAssumption == Overlap \subseteq Process
ASSUME ManifestAssumption == Manifest \in [Process -> Manifests]
ASSUME WantsAssumption == Wants \in [Process -> SUBSET Name]
ASSUME FaultsAssumption == MaxFaults \in Nat
ASSUME NoneAssumption == None \notin Pid /\ None \notin Name

VARIABLES
  pid,        \* pid[p]: the PID of p while it runs, None before and after
  stage,      \* stage[p]: the system call p makes next
  name,       \* name[p]: the name it is about
  seen,       \* seen[p]: what p last read from a claim file
  todo,       \* todo[p]: names still to clean up or to claim
  holds,      \* holds[p]: stackState.claimedFixedPorts and claimedHosts
  file,       \* file[n]: the claim file of n: absent, empty or one record
  routes,     \* routes[h]: the registrations of host h
  registered, \* the manifests each process has in its stack record
  faults,
  kept        \* observer: host claims p kept as another wrote them under its PID

observed == <<faults, kept>>
vars == <<pid, stage, name, seen, todo, holds, file, routes, registered, observed>>
local == <<name, seen, todo, holds>>

Starting == {"register", "cleanHosts", "cleanPorts", "judge", "claim", "assert", "create",
             "fill", "read", "decide", "replace", "recreate"}
Stopping == {"releaseHosts", "drop", "unroute", "releasePorts", "unregister"}
Stages == Starting \union Stopping \union {"down", "running", "leaving", "gone", "killed"}

Absent == {}
Record == [pid : Pid, owner : Process]
Own(p) == [pid |-> pid[p], owner |-> p]
\* The file p created and has not written yet: nobody can parse it.
Torn(p) == [pid |-> None, owner |-> p]
Readable(content) == \E r \in content : r.pid # None

Alive(p) == pid[p] # None

TypeOK ==
  /\ pid \in [Process -> Pid \union {None}]
  /\ stage \in [Process -> Stages]
  /\ name \in [Process -> Name \union {None}]
  /\ todo \in [Process -> SUBSET Name]
  /\ holds \in [Process -> SUBSET Name]
  /\ registered \in [Process -> SUBSET Manifests]
  /\ \A n \in Name : file[n] = Absent \/ \E r \in Record \union {Torn(p) : p \in Process} : file[n] = {r}
  /\ \A p \in Process : seen[p] = Absent \/ \E r \in Record : seen[p] = {r}
  /\ routes \in [Hosts -> SUBSET Record]
  /\ faults \in 0..MaxFaults
  /\ kept \in [Process -> SUBSET Hosts]

Ownership == INSTANCE ManifestOwnership WITH
  Proc <- Process, File <- Manifests, holds <- registered

Init ==
  /\ Ownership!Init
  /\ pid = [p \in Process |-> None]
  /\ stage = [p \in Process |-> "down"]
  /\ name = [p \in Process |-> None]
  /\ seen = [p \in Process |-> Absent]
  /\ todo = [p \in Process |-> {}]
  /\ holds = [p \in Process |-> {}]
  /\ file = [n \in Name |-> Absent]
  /\ routes = [h \in Hosts |-> {}]
  /\ faults = 0
  /\ kept = [p \in Process |-> {}]

\* Faulty variant: the owner is looked up by PID alone.
IsOwnerAliveByPid(r) == {\E p \in Process : pid[p] = r.pid}

\* Faulty variant: an identity that was not read is no match.
IsOwnerAliveDoubted(r) == {FALSE, r.owner \in {p \in Process : pid[p] = r.pid}}

\* The answers isRecordOwnerAlive can give.  A process that merely has the
\* recorded PID passes for the owner when its identity cannot be read.
IsOwnerAlive(r) ==
  {alive \in BOOLEAN :
     /\ Alive(r.owner) => alive
     /\ alive => IF Verified THEN Alive(r.owner) ELSE \E p \in Process : pid[p] = r.pid}

\* isHostClaimStale and isFixedPortClaimStale: the own PID is never stale.
MayBeStale(p, r) == r.pid # pid[p] /\ FALSE \in IsOwnerAlive(r)
MayBeFresh(p, r) == r.pid = pid[p] \/ TRUE \in IsOwnerAlive(r)

\* Faulty variant: the manifest of the record is not compared.
IsZombiePid(p, r) == p \in KillZombies /\ r.pid # pid[p]

\* A live owner that claims for the same manifest may be killed.
IsZombie(p, r) == p \in KillZombies /\ r.pid # pid[p] /\ Manifest[r.owner] = Manifest[p]

\* The record was written by this PID for this manifest.
IsOwn(p, r) == r.pid = pid[p] /\ Manifest[r.owner] = Manifest[p]

Go(p, next) == stage' = [stage EXCEPT ![p] = next]
Visit(p, n) == name' = [name EXCEPT ![p] = n]
See(p, content) == seen' = [seen EXCEPT ![p] = content]
Existing(names) == {n \in names : file[n] # Absent}
\* No other stack is starting or stopping; the first stacks need not wait.
OthersIdle(p) ==
  \/ \A q \in Process \ {p} : stage[q] \notin Starting \union Stopping
  \/ p \in Overlap /\ \A q \in Process \ Overlap : stage[q] = "down"

\* An error ends the start; the deferred cleanup gives back what was claimed.
Fail(p) == Go(p, "releaseHosts")

-----------------------------------------------------------------------------
Spawn(p, n) ==
  /\ stage[p] = "down"
  /\ \A q \in Process : pid[q] # n
  /\ OthersIdle(p)
  /\ pid' = [pid EXCEPT ![p] = n]
  /\ Go(p, "register")
  /\ UNCHANGED <<local, file, routes, registered, observed>>

\* RegisterStack: another stack must not hold the manifest.  Cleanup begins
\* under the route lock with the registrations of dead owners.
Register(p) ==
  /\ stage[p] = "register"
  /\ \A q \in Process : stage[q] # "cleanHosts" /\ (stage[q] = "judge" => name[q] \notin Hosts)
  /\ Ownership!Take(p, {Manifest[p]})
  /\ \E dead \in SUBSET UNION {routes[h] : h \in Hosts} :
       /\ \A h \in Hosts : \A r \in routes[h] : (r \notin dead) \in IsOwnerAlive(r)
       /\ routes' = [h \in Hosts |-> routes[h] \ dead]
  /\ todo' = [todo EXCEPT ![p] = Existing(Hosts)]
  /\ Go(p, "cleanHosts")
  /\ UNCHANGED <<pid, name, seen, holds, file, observed>>

RefuseManifest(p) ==
  /\ stage[p] = "register"
  /\ \E q \in Process \ {p} : Manifest[p] \in registered[q]
  /\ Go(p, "unregister")
  /\ UNCHANGED <<pid, local, file, routes, registered, observed>>

\* CleanupStaleFixedPortClaims and then the claims follow the hosts' cleanup.
CleanupDone(p) ==
  /\ todo[p] = {}
  /\ \/ /\ stage[p] = "cleanHosts"
        /\ todo' = [todo EXCEPT ![p] = Existing(Name \ Hosts)]
        /\ Go(p, "cleanPorts")
     \/ /\ stage[p] = "cleanPorts"
        /\ todo' = [todo EXCEPT ![p] = Wants[p]]
        /\ Go(p, "claim")
  /\ UNCHANGED <<pid, name, seen, holds, file, routes, registered, observed>>

\* A claim file listed by ReadDir is read; one that is gone or cannot be
\* parsed ends the start.
Look(p, n) ==
  /\ stage[p] \in {"cleanHosts", "cleanPorts"} /\ n \in todo[p]
  /\ todo' = [todo EXCEPT ![p] = @ \ {n}]
  /\ Visit(p, n)
  /\ IF Readable(file[n])
     THEN Go(p, "judge") /\ See(p, file[n])
     ELSE Fail(p) /\ UNCHANGED seen
  /\ UNCHANGED <<pid, holds, file, routes, registered, observed>>

\* The owner of the record that was read is looked up; the claim file, whatever
\* it holds by now, is removed when that owner is dead.
Judge(p) ==
  /\ stage[p] = "judge"
  /\ \E r \in seen[p] :
       \/ MayBeStale(p, r) /\ file' = [file EXCEPT ![name[p]] = Absent]
       \/ MayBeFresh(p, r) /\ UNCHANGED file
  /\ See(p, Absent)
  /\ Go(p, IF name[p] \in Hosts THEN "cleanHosts" ELSE "cleanPorts")
  /\ UNCHANGED <<pid, name, todo, holds, routes, registered, observed>>

-----------------------------------------------------------------------------
\* The claim loops of StartStack: every fixed port, then every hostname.
ClaimName(p, n) ==
  /\ stage[p] = "claim" /\ n \in todo[p]
  /\ n \in Hosts => todo[p] \subseteq Hosts
  /\ todo' = [todo EXCEPT ![p] = @ \ {n}]
  /\ Visit(p, n)
  /\ Go(p, IF n \in Hosts THEN "assert" ELSE "create")
  /\ UNCHANGED <<pid, seen, holds, file, routes, registered, observed>>

\* Faulty variant: only the claim file is asked.
HostAssumedAvailable(p) ==
  /\ stage[p] = "assert"
  /\ Go(p, "create")
  /\ UNCHANGED <<pid, local, file, routes, registered, observed>>

\* assertHostIsAvailable: no live owner but this stack has routes for the host.
HostAvailable(p) ==
  /\ stage[p] = "assert"
  /\ \A r \in routes[name[p]] : IsOwn(p, r) \/ FALSE \in IsOwnerAlive(r)
  /\ Go(p, "create")
  /\ UNCHANGED <<pid, local, file, routes, registered, observed>>

RouteTaken(p) ==
  /\ stage[p] = "assert"
  /\ \E r \in routes[name[p]] : ~IsOwn(p, r) /\ ~IsZombie(p, r) /\ TRUE \in IsOwnerAlive(r)
  /\ Fail(p)
  /\ UNCHANGED <<pid, local, file, routes, registered, observed>>

\* stopZombie signals whatever process has the PID by now and waits for the
\* recorded owner to be gone.
Kill(n) ==
  LET victims == {q \in Process : pid[q] = n}
  IN  /\ pid' = [q \in Process |-> IF q \in victims THEN None ELSE pid[q]]
      /\ registered' = [q \in Process |-> IF q \in victims THEN {} ELSE registered[q]]
      /\ holds' = [q \in Process |-> IF q \in victims THEN {} ELSE holds[q]]

\* The stages after the kill: the victims are gone, p goes on.
Killing(p, n, next) ==
  stage' = [q \in Process |-> IF q = p THEN next ELSE IF pid[q] = n THEN "killed" ELSE stage[q]]

KillRouteOwner(p) ==
  /\ stage[p] = "assert"
  /\ \E r \in routes[name[p]] :
       /\ IsZombie(p, r) /\ TRUE \in IsOwnerAlive(r)
       /\ Kill(r.pid)
       /\ Killing(p, r.pid, "assert")
  /\ UNCHANGED <<name, seen, todo, file, routes, observed>>

\* writeFileExclusive opens with O_EXCL: of two creators one gets the file.
Create(p) ==
  /\ stage[p] \in {"create", "recreate"}
  /\ IF file[name[p]] = Absent
     THEN file' = [file EXCEPT ![name[p]] = {Torn(p)}] /\ Go(p, "fill")
     ELSE UNCHANGED file /\ IF stage[p] = "create" THEN Go(p, "read") ELSE Fail(p)
  /\ UNCHANGED <<pid, local, routes, registered, observed>>

Claimed(p) ==
  /\ holds' = [holds EXCEPT ![p] = @ \union {name[p]}]
  /\ Go(p, "claim")

\* The opened file is written, unless its directory entry was removed or
\* replaced meanwhile: then what is written belongs to no entry.
Fill(p) ==
  /\ stage[p] = "fill"
  /\ file' = IF file[name[p]] = {Torn(p)} THEN [file EXCEPT ![name[p]] = {Own(p)}] ELSE file
  /\ Claimed(p)
  /\ UNCHANGED <<pid, name, seen, todo, routes, registered, observed>>

\* The claim exists: read and parse it.
Read(p) ==
  /\ stage[p] = "read"
  /\ IF Readable(file[name[p]])
     THEN Go(p, "decide") /\ See(p, file[name[p]])
     ELSE Fail(p) /\ UNCHANGED seen
  /\ UNCHANGED <<pid, name, todo, holds, file, routes, registered, observed>>

\* A stale claim is removed and claimed again.
TakeOver(p) ==
  /\ stage[p] = "decide"
  /\ \E r \in seen[p] : MayBeStale(p, r)
  /\ file' = [file EXCEPT ![name[p]] = Absent]
  /\ See(p, Absent)
  /\ Go(p, "recreate")
  /\ UNCHANGED <<pid, name, todo, holds, routes, registered, observed>>

\* A hostname this PID holds for this manifest is left as it is.
KeepHost(p) ==
  /\ stage[p] = "decide" /\ name[p] \in Hosts
  /\ \E r \in seen[p] : IsOwn(p, r)
  /\ See(p, Absent)
  /\ Claimed(p)
  /\ kept' = [kept EXCEPT ![p] = @ \union {name[p]}]
  /\ UNCHANGED <<pid, name, todo, file, routes, registered, faults>>

KillClaimant(p) ==
  /\ stage[p] = "decide"
  /\ \E r \in seen[p] :
       /\ MayBeFresh(p, r) /\ IsZombie(p, r)
       /\ Kill(r.pid)
       /\ Killing(p, r.pid, "replace")
  /\ UNCHANGED <<name, seen, todo, file, routes, observed>>

\* The zombie's claim file goes before the claim is written again.
ReplaceClaim(p) ==
  /\ stage[p] = "replace"
  /\ file' = [file EXCEPT ![name[p]] = Absent]
  /\ See(p, Absent)
  /\ Go(p, "recreate")
  /\ UNCHANGED <<pid, name, todo, holds, routes, registered, observed>>

\* "already claimed by PID ... from ...", or the fixed port conflict.
RefuseName(p) ==
  /\ stage[p] = "decide"
  /\ \E r \in seen[p] :
       /\ MayBeFresh(p, r) /\ ~IsZombie(p, r)
       /\ name[p] \in Hosts => ~IsOwn(p, r)
  /\ See(p, Absent)
  /\ Fail(p)
  /\ UNCHANGED <<pid, name, todo, holds, file, routes, registered, observed>>

\* Every name is claimed: the services start.
ClaimsHeld(p) ==
  /\ stage[p] = "claim" /\ todo[p] = {}
  /\ Go(p, "running")
  /\ UNCHANGED <<pid, local, file, routes, registered, observed>>

\* A service became healthy: the route of its host is registered.
Activate(p, h) ==
  /\ stage[p] = "running" /\ h \in holds[p]
  /\ routes' = [routes EXCEPT ![h] = @ \union {Own(p)}]
  /\ UNCHANGED <<pid, stage, local, file, registered, observed>>

-----------------------------------------------------------------------------
Stop(p) ==
  /\ stage[p] = "running"
  /\ OthersIdle(p)
  /\ Go(p, "releaseHosts")
  /\ UNCHANGED <<pid, local, file, routes, registered, observed>>

\* The names released in the current stage of the cleanup.
Releasing(p) ==
  IF stage[p] = "releaseHosts" THEN holds[p] \cap Hosts
  ELSE IF stage[p] = "releasePorts" THEN holds[p] ELSE {}

\* ReleaseHostClaim and ReleaseFixedPortClaim remove only an own record.
Release(p, n) ==
  /\ n \in Releasing(p)
  /\ holds' = [holds EXCEPT ![p] = @ \ {n}]
  /\ Visit(p, n)
  /\ IF \E r \in file[n] : IsOwn(p, r)
     THEN Go(p, "drop")
     ELSE UNCHANGED stage
  /\ UNCHANGED <<pid, seen, todo, file, routes, registered, observed>>

Drop(p) ==
  /\ stage[p] = "drop"
  /\ file' = [file EXCEPT ![name[p]] = Absent]
  /\ Go(p, IF name[p] \in Hosts THEN "releaseHosts" ELSE "releasePorts")
  /\ UNCHANGED <<pid, local, routes, registered, observed>>

Unroute(p) ==
  /\ stage[p] = "releaseHosts" /\ Releasing(p) = {}
  /\ routes' = [h \in Hosts |-> {r \in routes[h] : ~IsOwn(p, r)}]
  /\ Go(p, "releasePorts")
  /\ UNCHANGED <<pid, local, file, registered, observed>>

\* UnregisterStack is last; what follows is the end of the process.
Unregister(p) ==
  /\ \/ stage[p] = "releasePorts" /\ Releasing(p) = {}
     \/ stage[p] = "unregister"
  /\ Ownership!Drop(p)
  /\ Go(p, "leaving")
  /\ UNCHANGED <<pid, local, file, routes, observed>>

Exit(p) ==
  /\ stage[p] = "leaving"
  /\ pid' = [pid EXCEPT ![p] = None]
  /\ Go(p, "gone")
  /\ UNCHANGED <<local, file, routes, registered, observed>>

-----------------------------------------------------------------------------
Fault == faults < MaxFaults /\ faults' = faults + 1 /\ UNCHANGED kept

\* The file system refuses a read, a removal or a write, or a zombie cannot be
\* killed or is not seen to exit: a start fails, the cleanup goes on with what
\* is next.
CallFails(p) ==
  /\ Fault
  /\ \/ stage[p] \in {"judge", "assert", "create", "fill", "decide", "replace", "recreate"} /\ Fail(p)
     \/ stage[p] = "drop" /\ Go(p, IF name[p] \in Hosts THEN "releaseHosts" ELSE "releasePorts")
     \/ stage[p] = "releaseHosts" /\ Releasing(p) = {} /\ Go(p, "releasePorts")
  /\ See(p, Absent)
  /\ UNCHANGED <<pid, name, todo, holds, file, routes, registered>>

\* The process dies wherever it is; its files stay.
Crash(p) ==
  /\ Fault
  /\ Alive(p)
  /\ pid' = [pid EXCEPT ![p] = None]
  /\ holds' = [holds EXCEPT ![p] = {}]
  /\ Ownership!Drop(p)
  /\ Go(p, "gone")
  /\ UNCHANGED <<name, seen, todo, file, routes>>

Start(p) ==
  \/ Register(p) \/ RefuseManifest(p) \/ CleanupDone(p) \/ Judge(p)
  \/ \E n \in Name : Look(p, n) \/ ClaimName(p, n)
  \/ HostAvailable(p) \/ RouteTaken(p) \/ KillRouteOwner(p)
  \/ Create(p) \/ Fill(p) \/ Read(p) \/ TakeOver(p) \/ KeepHost(p)
  \/ KillClaimant(p) \/ ReplaceClaim(p) \/ RefuseName(p)
  \/ ClaimsHeld(p) \/ \E h \in Hosts : Activate(p, h)

Shutdown(p) ==
  Stop(p) \/ (\E n \in Name : Release(p, n)) \/ Drop(p) \/ Unroute(p) \/ Unregister(p) \/ Exit(p)

Next ==
  \E p \in Process :
    \/ \E n \in Pid : Spawn(p, n)
    \/ Start(p) \/ Shutdown(p)
    \/ CallFails(p) \/ Crash(p)

Spec == Init /\ [][Next]_vars
-----------------------------------------------------------------------------
\* No hostname is routed to two running stacks, also between the release of a
\* host claim and the removal of the routes (why assertHostIsAvailable reads
\* the registrations and not only the claim).  Excepted is what is left of a
\* stopping stack for one that started meanwhile: it can have looked before the
\* other's service was healthy.
Leaving(p) == stage[p] \in Stopping \union {"leaving"}
Overtaken(p, q) == {p, q} \subseteq Overlap /\ (Leaving(p) \/ Leaving(q))

RoutesExclusive ==
  \A h \in Hosts : \A r, s \in routes[h] :
    Alive(r.owner) /\ Alive(s.owner) =>
      r = s \/ Overtaken(r.owner, s.owner) \/ h \in kept[r.owner] \union kept[s.owner]

\* A hostname or fixed port belongs to one running stack at a time, although
\* no lock orders the exclusive create, the stale check and the removal.  Starts
\* that overlap are promised it only while no third stack left a claim behind.
\* Excepted are claims a stack kept that a dead one wrote under the same PID:
\* they are stale to everybody else.
Exclusive ==
  /\ \A p, q \in Process : p # q => holds[p] \cap holds[q] \subseteq kept[p] \union kept[q]
  /\ RoutesExclusive

\* Whatever a running stack holds is named by a claim file of its own, so the
\* next stack that wants it finds out: no cleanup, takeover or release of
\* another stack has removed or replaced it.
HeldIsRecorded ==
  \A p \in Process : \A n \in holds[p] \ kept[p] : file[n] = {Own(p)}

\* Zombie cleanup kills a leftover process and never a running stack
\* ("stacks that are still running, are never killed").
NoRunningStackKilled ==
  [][\A p \in Process : stage[p] # "killed" /\ stage'[p] = "killed" => registered[p] = {}]_vars

\* The claims of exited processes can be reused: a start is refused a name only
\* while another running stack wants it.  Excepted is a claim that a dead stack
\* wrote under the PID of the one that starts.
ExitedClaimsReused ==
  [][\A p \in Process :
       stage[p] \in {"assert", "decide"} /\ stage'[p] = "releaseHosts" /\ faults' = faults =>
         \/ \E q \in Process \ {p} : Alive(q) /\ name[p] \in Wants[q]
         \/ \E r \in seen[p] : r.pid = pid[p]]_vars

(* Read in the documentation, and not what the code does: see README.md.    *)

\* A start that was not cut short by the file system fails only when another
\* running stack wants the manifest or the name it failed on.
FailsOnlyForHolder ==
  [][\A p \in Process :
       stage[p] \in Starting /\ stage'[p] \in Stopping /\ faults' = faults =>
         \E q \in Process \ {p} : Alive(q) /\ (name'[p] \in Wants[q] \/ Manifest[q] = Manifest[p])]_vars
=============================================================================
