----------------------------- MODULE ClaimsProofs -----------------------------
(***************************************************************************)
(* The claim files for any number of processes, PIDs and names.  Types are *)
(* proved for every instance; the rest for instances that are Restricted.  *)
(* The argument: the claim protocol takes no lock, so what one process has *)
(* seen is kept true not by exclusion but by what the others may still do: *)
(* a dead owner never comes back and never writes again, a live one drops  *)
(* only what it wrote, and a claim of a dead owner is there to be removed  *)
(* only when a single process is starting or stopping (Cleared).  So every *)
(* removal finds the claim its owner was judged by, or none.               *)
(***************************************************************************)
EXTENDS Claims, TLAPS

USE HostsAssumption, ManifestAssumption, WantsAssumption, NoneAssumption
USE DEF Go, Visit, See, Fail, Alive, local, observed

\* The actions of a process by what they do to the claims.
Begins(p) == (\E n \in Pid : Spawn(p, n)) \/ Register(p) \/ RefuseManifest(p)
Cleans(p) == CleanupDone(p) \/ Judge(p) \/ \E n \in Name : Look(p, n)
Seeks(p) ==
  \/ \E n \in Name : ClaimName(p, n)
  \/ HostAvailable(p) \/ RouteTaken(p) \/ Read(p) \/ RefuseName(p) \/ KeepHost(p) \/ ClaimsHeld(p)
Writes(p) == Create(p) \/ Fill(p) \/ TakeOver(p) \/ ReplaceClaim(p)
Kills(p) == KillRouteOwner(p) \/ KillClaimant(p)
Serves(p) == \E h \in Hosts : Activate(p, h)
Stops(p) ==
  Stop(p) \/ (\E n \in Name : Release(p, n)) \/ Drop(p) \/ Unroute(p) \/ Unregister(p) \/ Exit(p)
Breaks(p) == CallFails(p) \/ Crash(p)

\* Every step belongs to one of these groups.
LEMMA NextSteps == [Next]_vars =>
  \/ UNCHANGED vars
  \/ \E p \in Process : Begins(p) \/ Cleans(p) \/ Seeks(p) \/ Writes(p) \/ Kills(p) \/ Serves(p)
                          \/ Stops(p) \/ Breaks(p)
  BY DEF Next, Start, Shutdown, Begins, Cleans, Seeks, Writes, Kills, Serves, Stops, Breaks

\* The instances spoken of: identities can be read, and at most two stacks
\* start or stop at the same time.
Restricted == Verified = TRUE /\ \A p, q, r \in Overlap : p = q \/ q = r \/ p = r

\* p is starting or stopping; p has been started.
Busy(p) == stage[p] \in Starting \union Stopping
Met(p) == stage[p] # "down"

\* The stages of the claim loops, and those between the look at the routes
\* and the claim.
Claiming == {"claim", "assert", "create", "fill", "read", "decide", "replace", "recreate"}
Asserted == {"create", "read", "decide", "replace", "recreate"}
Torns == {Torn(p) : p \in Process}

\* The types; a claim file and what was read from it hold at most one record.
TypeInv ==
  /\ pid \in [Process -> Pid \union {None}]
  /\ stage \in [Process -> Stages]
  /\ name \in [Process -> Name \union {None}]
  /\ seen \in [Process -> SUBSET Record]
  /\ todo \in [Process -> SUBSET Name]
  /\ holds \in [Process -> SUBSET Name]
  /\ file \in [Name -> SUBSET (Record \union Torns)]
  /\ \A p \in Process : \A r, s \in seen[p] : r = s
  /\ \A n \in Name : \A r, s \in file[n] : r = s
  /\ routes \in [Hosts -> SUBSET Record]
  /\ registered \in [Process -> SUBSET Manifests]
  /\ kept \in [Process -> SUBSET Hosts]
  /\ faults \in Nat

\* A process has a PID from its start to its end, and no other has it.
LifeInv ==
  /\ \A p \in Process : Alive(p) <=> stage[p] \notin {"down", "gone", "killed"}
  /\ \A p, q \in Process : Alive(p) /\ pid[p] = pid[q] => p = q

\* As soon as a stack that may not overlap has been started, one stack at a
\* time starts or stops.
PhaseInv ==
  (\E x \in Process \ Overlap : Met(x)) => \A p, q \in Process : Busy(p) /\ Busy(q) => p = q

\* A manifest is registered by one process, and by each that gets past it.
RegInv ==
  /\ \A p, q \in Process : p # q => registered[p] \cap registered[q] = {}
  /\ \A p \in Process : registered[p] \subseteq {Manifest[p]}
  /\ \A p \in Process : stage[p] \in (Starting \ {"register"}) \union {"running"} =>
       Manifest[p] \in registered[p]

\* What a process holds, has left to claim and works on are names it wants.
HoldInv ==
  \A p \in Process :
    /\ holds[p] \subseteq Wants[p]
    /\ holds[p] # {} =>
         stage[p] \in Claiming \union {"running", "releaseHosts", "drop", "releasePorts"}
    /\ stage[p] \in Claiming => todo[p] \subseteq Wants[p]
    /\ stage[p] \in Claiming \ {"claim"} => name[p] \in Wants[p] \ todo[p]
    /\ stage[p] \in {"drop", "judge"} => name[p] \in Name
    /\ stage[p] = "assert" => name[p] \in Hosts
    /\ stage[p] = "drop" => name[p] \notin holds[p]

\* A claim file was written by a process that wants its name, under its PID,
\* and has got as far as that name.
RecordInv ==
  \A n \in Name : \A r \in file[n] :
    /\ Met(r.owner) /\ n \in Wants[r.owner]
    /\ Alive(r.owner) => r.pid \in {None, pid[r.owner]}
    /\ stage[r.owner] \notin {"register", "cleanHosts", "cleanPorts", "judge"}
    /\ stage[r.owner] \in Claiming => n \notin todo[r.owner]
    /\ stage[r.owner] \in Claiming \ {"claim", "fill"} => n # name[r.owner]

\* The record a process has read is not its own, tells its owner truly, and
\* nobody but that owner can hold the name by now.
SeenInv ==
  \A p \in Process : stage[p] \in {"judge", "decide", "replace"} => \A r \in seen[p] :
      /\ r.owner # p /\ Met(r.owner) /\ name[p] \in Wants[r.owner]
      /\ Alive(r.owner) => r.pid = pid[r.owner]
      /\ \A q \in Process : name[p] \in holds[q] \ kept[q] => q = r.owner
      /\ stage[p] = "replace" => ~Alive(r.owner)

\* A claim is replaced after a record was read and its owner killed.
ReplaceInv == \A p \in Process : stage[p] = "replace" => seen[p] # {}

\* Nobody touches a claim file between its creation and the write.
FillInv == \A p \in Process : stage[p] = "fill" => file[name[p]] = {Torn(p)}

\* A claim that is about to be removed on release is still the own one.
DropInv == \A p \in Process : stage[p] = "drop" => \E r \in file[name[p]] : IsOwn(p, r)

\* A route was registered by a process that got its claims; while that is
\* running it holds the host.
RoutedInv ==
  \A h \in Hosts : \A r \in routes[h] :
    /\ Met(r.owner) /\ h \in Wants[r.owner] /\ stage[r.owner] \notin Starting
    /\ Alive(r.owner) => r.pid = pid[r.owner]
    /\ stage[r.owner] = "running" => h \in holds[r.owner]

\* A process past assertHostIsAvailable, or that has the claim, has no other
\* stack's route to fear: that one still holds the host, or runs under the
\* PID that had it.
AssertInv ==
  \A h \in Hosts, p, q \in Process :
    p # q /\ Alive(q) /\ Own(q) \in routes[h] /\ ~({p, q} \subseteq Overlap) =>
      /\ stage[p] \in Asserted /\ name[p] = h => h \in holds[q]
      /\ stage[p] = "fill" /\ name[p] = h => h \in kept[q]
      /\ h \in holds[p] => h \in kept[p] \union kept[q]

\* The inductive invariant.
IInv ==
  /\ Restricted
  /\ TypeInv /\ LifeInv /\ PhaseInv /\ RegInv /\ HoldInv
  /\ RecordInv /\ SeenInv /\ ReplaceInv /\ FillInv /\ DropInv /\ HeldIsRecorded
  /\ RoutedInv /\ AssertInv /\ RoutesExclusive

\* Identities that can be read give one answer.
LEMMA Answers == ASSUME Verified = TRUE, NEW r PROVE IsOwnerAlive(r) = {Alive(r.owner)}
  BY DEF IsOwnerAlive

\* While two stacks are starting or stopping there is no third.
LEMMA Alone ==
  ASSUME Restricted, PhaseInv, NEW p \in Process, NEW q \in Process, p # q, Busy(p), Busy(q),
         NEW x \in Process, Met(x)
  PROVE  x \in {p, q}
  BY DEF Restricted, PhaseInv, Busy, Met, Starting, Stopping

\* p kills q, a live stack of its own manifest.
Slays(p, q) ==
  /\ q # p /\ Alive(q) /\ Met(q) /\ Manifest[q] = Manifest[p]
  /\ stage[p] \in {"assert", "decide"}
  /\ stage[p] = "decide" => \E r \in seen[p] : r.owner = q
  /\ pid' = [pid EXCEPT ![q] = None] /\ holds' = [holds EXCEPT ![q] = {}]
  /\ registered' = [registered EXCEPT ![q] = {}]
  /\ stage' = [stage EXCEPT ![q] = "killed",
                           ![p] = IF stage[p] = "assert" THEN "assert" ELSE "replace"]
  /\ UNCHANGED <<name, seen, todo, file, routes, observed>>

\* A zombie that is killed is a live process that runs p's manifest.
LEMMA Killed ==
  ASSUME Restricted, TypeInv, LifeInv, HoldInv, SeenInv, RoutedInv, NEW p \in Process, Kills(p)
  PROVE  \E q \in Process : Slays(p, q)
<1>1. CASE KillRouteOwner(p)
  <2>1. PICK r \in routes[name[p]] : /\ IsZombie(p, r) /\ TRUE \in IsOwnerAlive(r)
                                    /\ Kill(r.pid) /\ Killing(p, r.pid, "assert")
    BY <1>1 DEF KillRouteOwner
  <2>2. name[p] \in Hosts
    BY <1>1 DEF KillRouteOwner, HoldInv
  <2>3. Alive(r.owner)
    BY <2>1, Answers DEF Restricted
  <2>4. Alive(r.owner) /\ r.owner \in Process /\ r.pid = pid[r.owner] /\ r.owner # p
    BY <2>1, <2>2, <2>3 DEF RoutedInv, IsZombie, TypeInv, Record
  <2> QED
    BY <1>1, <2>1, <2>4 DEF KillRouteOwner, IsZombie, Kill, Killing, Slays, TypeInv, LifeInv, Met
<1>2. CASE KillClaimant(p)
  <2>1. PICK r \in seen[p] : /\ IsZombie(p, r) /\ MayBeFresh(p, r)
                            /\ Kill(r.pid) /\ Killing(p, r.pid, "replace")
    BY <1>2 DEF KillClaimant
  <2>2. Alive(r.owner)
    BY <2>1, Answers DEF Restricted, MayBeFresh, IsZombie
  <2>3. Alive(r.owner) /\ r.owner \in Process /\ r.pid = pid[r.owner] /\ r.owner # p
    BY <1>2, <2>1, <2>2 DEF KillClaimant, SeenInv, IsZombie, TypeInv, Record
  <2> QED
    BY <1>2, <2>1, <2>3 DEF KillClaimant, IsZombie, Kill, Killing, Slays, TypeInv, LifeInv, Met
<1> QED
  BY <1>1, <1>2 DEF Kills

\* What a removal of a stale claim does.
Frees(p) ==
  \/ UNCHANGED file
  \/ /\ file' = [file EXCEPT ![name[p]] = Absent]
     /\ \A q \in Process : Busy(q) => q = p
     /\ \A q \in Process : name[p] \notin holds[q] \ kept[q]

\* A claim is removed as stale only when nobody else is starting or stopping
\* and nobody holds the name.
LEMMA Cleared ==
  ASSUME Restricted, TypeInv, LifeInv, PhaseInv, HoldInv, SeenInv, ReplaceInv,
         NEW p \in Process, Judge(p) \/ TakeOver(p) \/ ReplaceClaim(p)
  PROVE  Frees(p)
<1>1. stage[p] \in {"judge", "decide", "replace"} /\ Busy(p)
  BY DEF Judge, TakeOver, ReplaceClaim, Busy, Starting
<1>2. \/ UNCHANGED file
      \/ file' = [file EXCEPT ![name[p]] = Absent] /\ \E r \in seen[p] : ~Alive(r.owner)
  <2>1. \A r : MayBeStale(p, r) => ~Alive(r.owner)
    BY Answers DEF MayBeStale, Restricted
  <2>2. stage[p] = "replace" => \E r \in seen[p] : ~Alive(r.owner)
    BY DEF SeenInv, ReplaceInv
  <2> QED
    BY <2>1, <2>2 DEF Judge, TakeOver, ReplaceClaim
<1>3. ASSUME NEW r \in seen[p], ~Alive(r.owner)
      PROVE  /\ \A q \in Process : Busy(q) => q = p
             /\ \A q \in Process : name[p] \notin holds[q] \ kept[q]
  <2>1. r.owner \in Process /\ r.owner # p /\ Met(r.owner)
    BY <1>1 DEF SeenInv, TypeInv, Record
  <2>2. \A q \in Process : Busy(q) => Alive(q)
    BY DEF LifeInv, Busy, Starting, Stopping
  <2>3. \A q \in Process : Busy(q) => q = p
    BY <1>1, <1>3, <2>1, <2>2, Alone
  <2>4. \A q \in Process : name[p] \in holds[q] \ kept[q] => q = r.owner
    BY <1>1 DEF SeenInv
  <2> QED
    BY <1>3, <2>3, <2>4 DEF LifeInv, HoldInv, Claiming
<1> QED
  BY <1>2, <1>3 DEF Frees

\* A file without a record tells its creator, and no owner that runs.
LEMMA Contents ==
  ASSUME NEW p \in Process, NEW q \in Process
  PROVE  /\ {Torn(q)} # Absent /\ {Own(q)} # Absent
         /\ p # q => Torn(p) # Torn(q)
         /\ Alive(q) => Torn(p) # Own(q)
<1>1. Torn(p).owner = p /\ Torn(q).owner = q /\ Torn(p).pid = None /\ Own(q).pid = pid[q]
  BY DEF Torn, Own
<1> QED
  BY <1>1 DEF Absent

\* Claim files that an action leaves alone.
LEMMA Untouched ==
  ASSUME file \in [Name -> SUBSET (Record \union Torns)], NEW p \in Process, NEW n \in Name
  PROVE  /\ Create(p) /\ file[n] # Absent => file'[n] = file[n]
         /\ Fill(p) /\ (\E r \in file[n] : r # Torn(p)) => file'[n] = file[n]
         /\ Drop(p) /\ n # name[p] => file'[n] = file[n]
<1>1. Create(p) /\ file[n] # Absent => file'[n] = file[n]
  BY DEF Create
<1>2. Fill(p) /\ (\E r \in file[n] : r # Torn(p)) => file'[n] = file[n]
  BY DEF Fill
<1>3. Drop(p) /\ n # name[p] => file'[n] = file[n]
  BY DEF Drop
<1> QED
  BY <1>1, <1>2, <1>3

\* A zombie is killed by its PID, which is never the own one.
LEMMA Struck ==
  ASSUME TypeInv, HoldInv, NEW p \in Process, Kills(p)
  PROVE  \E n \in Pid :
           /\ n # pid[p] /\ Kill(n)
           /\ \/ stage[p] = "assert" /\ Killing(p, n, "assert")
              \/ stage[p] = "decide" /\ Killing(p, n, "replace")
           /\ UNCHANGED <<name, seen, todo, file, routes, observed>>
<1>1. CASE KillRouteOwner(p)
  <2>1. name[p] \in Hosts
    BY <1>1 DEF KillRouteOwner, HoldInv
  <2> QED
    BY <1>1, <2>1 DEF KillRouteOwner, IsZombie, TypeInv, Record
<1>2. CASE KillClaimant(p)
  BY <1>2 DEF KillClaimant, IsZombie, TypeInv, Record
<1> QED
  BY <1>1, <1>2 DEF Kills

\* The steps keep the types and the life of a process, in every instance.
LEMMA NextType ==
  TypeInv /\ LifeInv /\ HoldInv /\ [Next]_vars => TypeInv'
<1> SUFFICES ASSUME TypeInv, LifeInv, HoldInv, [Next]_vars
             PROVE  TypeInv'
  OBVIOUS
<1> USE DEF TypeInv, HoldInv, Claiming, Stages, Record, Torns, Torn, Own, Absent, Starting,
            Stopping
<1>1. ASSUME NEW p \in Process, Begins(p) PROVE TypeInv'
  <2>1. ASSUME NEW n \in Pid, Spawn(p, n) PROVE TypeInv'
    BY <2>1 DEF Spawn, OthersIdle
  <2>2. CASE Register(p)
    BY <2>2 DEF Register, Ownership!Take, Existing
  <2>3. CASE RefuseManifest(p)
    BY <2>3 DEF RefuseManifest
  <2> QED
    BY <1>1, <2>1, <2>2, <2>3 DEF Begins
<1>2. ASSUME NEW p \in Process, Cleans(p) PROVE TypeInv'
  <2>1. CASE CleanupDone(p)
    BY <2>1 DEF CleanupDone, Existing
  <2>2. CASE Judge(p)
    BY <2>2 DEF Judge
  <2>3. ASSUME NEW n \in Name, Look(p, n) PROVE TypeInv'
    <3>1. \A m \in Name : file[m] \subseteq Record \/ ~Readable(file[m])
      BY DEF Readable
    <3> HIDE DEF Record, Torns, Torn, Own, Absent
    <3> QED
      BY <2>3, <3>1 DEF Look
  <2> QED
    BY <1>2, <2>1, <2>2, <2>3 DEF Cleans
<1>3. ASSUME NEW p \in Process, Seeks(p) PROVE TypeInv'
  <2>1. ASSUME NEW n \in Name, ClaimName(p, n) PROVE TypeInv'
    BY <2>1 DEF ClaimName
  <2>2. CASE HostAvailable(p)
    BY <2>2 DEF HostAvailable, IsOwn
  <2>3. CASE RouteTaken(p)
    BY <2>3 DEF RouteTaken
  <2>4. CASE Read(p)
    <3>1. \A n \in Name : file[n] \subseteq Record \/ ~Readable(file[n])
      BY DEF Readable
    <3> HIDE DEF Record, Torns, Torn, Own, Absent
    <3> QED
      BY <2>4, <3>1 DEF Read
  <2>5. CASE RefuseName(p)
    BY <2>5 DEF RefuseName
  <2>6. CASE KeepHost(p)
    BY <2>6 DEF KeepHost, Claimed, IsOwn
  <2>7. CASE ClaimsHeld(p)
    BY <2>7 DEF ClaimsHeld
  <2> QED
    BY <1>3, <2>1, <2>2, <2>3, <2>4, <2>5, <2>6, <2>7 DEF Seeks
<1>4. ASSUME NEW p \in Process, Writes(p) PROVE TypeInv'
  <2>1. CASE Create(p)
    BY <2>1 DEF Create
  <2>2. CASE Fill(p)
    BY <2>2 DEF Fill, Claimed
  <2>3. CASE TakeOver(p)
    BY <2>3 DEF TakeOver, MayBeStale
  <2>4. CASE ReplaceClaim(p)
    BY <2>4 DEF ReplaceClaim
  <2> QED
    BY <1>4, <2>1, <2>2, <2>3, <2>4 DEF Writes
<1>5. ASSUME NEW p \in Process, Kills(p) PROVE TypeInv'
  BY <1>5, Struck DEF Kill, Killing
<1>6. ASSUME NEW p \in Process, Serves(p) PROVE TypeInv'
  BY <1>6 DEF Serves, Activate, LifeInv
<1>7. ASSUME NEW p \in Process, Stops(p) PROVE TypeInv'
  <2>1. CASE Stop(p)
    BY <2>1 DEF Stop, OthersIdle
  <2>2. ASSUME NEW n \in Name, Release(p, n) PROVE TypeInv'
    BY <2>2 DEF Release, Releasing
  <2>3. CASE Drop(p)
    BY <2>3 DEF Drop
  <2>4. CASE Unroute(p)
    BY <2>4 DEF Unroute, IsOwn
  <2>5. CASE Unregister(p)
    BY <2>5 DEF Unregister, Ownership!Drop, Releasing
  <2>6. CASE Exit(p)
    BY <2>6 DEF Exit
  <2> QED
    BY <1>7, <2>1, <2>2, <2>3, <2>4, <2>5, <2>6 DEF Stops
<1>8. ASSUME NEW p \in Process, Breaks(p) PROVE TypeInv'
  <2>1. CASE CallFails(p)
    BY <2>1 DEF CallFails, Fault
  <2>2. CASE Crash(p)
    BY <2>2 DEF Crash, Fault, Ownership!Drop
  <2> QED
    BY <1>8, <2>1, <2>2 DEF Breaks
<1>9. CASE UNCHANGED vars
  BY <1>9 DEF vars
<1> QED
  BY <1>1, <1>2, <1>3, <1>4, <1>5, <1>6, <1>7, <1>8, <1>9, NextSteps

LEMMA NextLife ==
  TypeInv /\ LifeInv /\ HoldInv /\ [Next]_vars => LifeInv'
<1> SUFFICES ASSUME TypeInv, LifeInv, HoldInv, [Next]_vars
             PROVE  LifeInv'
  OBVIOUS
<1> USE DEF LifeInv, TypeInv, Stages, Starting, Stopping
<1>1. ASSUME NEW p \in Process, Begins(p) PROVE LifeInv'
  BY <1>1 DEF Begins, Register, RefuseManifest, Spawn, OthersIdle, Ownership!Take, Existing
<1>2. ASSUME NEW p \in Process, Cleans(p) PROVE LifeInv'
  BY <1>2 DEF Cleans, CleanupDone, Judge, Look, Existing, Readable
<1>3. ASSUME NEW p \in Process, Seeks(p) PROVE LifeInv'
  <2>1. ASSUME NEW n \in Name, ClaimName(p, n) PROVE LifeInv'
    BY <2>1 DEF ClaimName
  <2>2. CASE HostAvailable(p)
    BY <2>2 DEF HostAvailable, IsOwn
  <2>3. CASE RouteTaken(p)
    BY <2>3 DEF RouteTaken
  <2>4. CASE Read(p)
    BY <2>4 DEF Read, Readable
  <2>5. CASE RefuseName(p)
    BY <2>5 DEF RefuseName
  <2>6. CASE KeepHost(p)
    BY <2>6 DEF KeepHost, Claimed, IsOwn
  <2>7. CASE ClaimsHeld(p)
    BY <2>7 DEF ClaimsHeld
  <2> QED
    BY <1>3, <2>1, <2>2, <2>3, <2>4, <2>5, <2>6, <2>7 DEF Seeks
<1>4. ASSUME NEW p \in Process, Writes(p) PROVE LifeInv'
  <2>1. CASE Create(p)
    BY <2>1 DEF Create
  <2>2. CASE Fill(p)
    BY <2>2 DEF Fill, Claimed
  <2>3. CASE TakeOver(p)
    BY <2>3 DEF TakeOver, MayBeStale
  <2>4. CASE ReplaceClaim(p)
    BY <2>4 DEF ReplaceClaim
  <2> QED
    BY <1>4, <2>1, <2>2, <2>3, <2>4 DEF Writes
<1>5. ASSUME NEW p \in Process, Kills(p) PROVE LifeInv'
  BY <1>5, Struck DEF Kill, Killing
<1>6. ASSUME NEW p \in Process, Serves(p) PROVE LifeInv'
  BY <1>6 DEF Serves, Activate
<1>7. ASSUME NEW p \in Process, Stops(p) PROVE LifeInv'
  BY <1>7 DEF Stops, Stop, OthersIdle, Release, Releasing, Drop, Unroute, Unregister,
     Ownership!Drop, Exit
<1>8. ASSUME NEW p \in Process, Breaks(p) PROVE LifeInv'
  BY <1>8 DEF Breaks, CallFails, Crash, Fault, Ownership!Drop
<1>9. CASE UNCHANGED vars
  BY <1>9 DEF vars
<1> QED
  BY <1>1, <1>2, <1>3, <1>4, <1>5, <1>6, <1>7, <1>8, <1>9, NextSteps

\* The steps keep one stack at a time busy.
LEMMA NextPhase ==
  Restricted /\ TypeInv /\ LifeInv /\ HoldInv /\ SeenInv /\ RoutedInv /\ PhaseInv /\
  [Next]_vars => PhaseInv'
<1> SUFFICES ASSUME Restricted, TypeInv, LifeInv, HoldInv, SeenInv, RoutedInv, PhaseInv,
                    [Next]_vars
             PROVE  PhaseInv'
  OBVIOUS
<1> USE DEF LifeInv, PhaseInv, TypeInv, Busy, Met, Starting, Stopping
<1>1. ASSUME NEW p \in Process, Begins(p) PROVE PhaseInv'
  BY <1>1 DEF Begins, Register, RefuseManifest, Spawn, OthersIdle, Ownership!Take, Existing
<1>2. ASSUME NEW p \in Process, Cleans(p) PROVE PhaseInv'
  BY <1>2 DEF Cleans, CleanupDone, Judge, Look, Existing, Readable
<1>3. ASSUME NEW p \in Process, Seeks(p) PROVE PhaseInv'
  <2>1. ASSUME NEW n \in Name, ClaimName(p, n) PROVE PhaseInv'
    BY <2>1 DEF ClaimName
  <2>2. CASE HostAvailable(p)
    BY <2>2 DEF HostAvailable, IsOwn
  <2>3. CASE RouteTaken(p)
    BY <2>3 DEF RouteTaken
  <2>4. CASE Read(p)
    BY <2>4 DEF Read, Readable
  <2>5. CASE RefuseName(p)
    BY <2>5 DEF RefuseName
  <2>6. CASE KeepHost(p)
    BY <2>6 DEF KeepHost, Claimed, IsOwn
  <2>7. CASE ClaimsHeld(p)
    BY <2>7 DEF ClaimsHeld
  <2> QED
    BY <1>3, <2>1, <2>2, <2>3, <2>4, <2>5, <2>6, <2>7 DEF Seeks
<1>4. ASSUME NEW p \in Process, Writes(p) PROVE PhaseInv'
  <2>1. CASE Create(p)
    BY <2>1 DEF Create
  <2>2. CASE Fill(p)
    BY <2>2 DEF Fill, Claimed
  <2>3. CASE TakeOver(p)
    BY <2>3 DEF TakeOver, MayBeStale
  <2>4. CASE ReplaceClaim(p)
    BY <2>4 DEF ReplaceClaim
  <2> QED
    BY <1>4, <2>1, <2>2, <2>3, <2>4 DEF Writes
<1>5. ASSUME NEW p \in Process, Kills(p) PROVE PhaseInv'
  <2>1. PICK q \in Process : Slays(p, q)
    BY <1>5, Killed
  <2> QED
    BY <2>1 DEF Slays
<1>6. ASSUME NEW p \in Process, Serves(p) PROVE PhaseInv'
  BY <1>6 DEF Serves, Activate
<1>7. ASSUME NEW p \in Process, Stops(p) PROVE PhaseInv'
  BY <1>7 DEF Stops, Stop, OthersIdle, Release, Releasing, Drop, Unroute, Unregister,
     Ownership!Drop, Exit
<1>8. ASSUME NEW p \in Process, Breaks(p) PROVE PhaseInv'
  BY <1>8 DEF Breaks, CallFails, Crash, Fault, Ownership!Drop
<1>9. CASE UNCHANGED vars
  BY <1>9 DEF vars
<1> QED
  BY <1>1, <1>2, <1>3, <1>4, <1>5, <1>6, <1>7, <1>8, <1>9, NextSteps

\* The steps keep the registrations.
LEMMA NextReg ==
  Restricted /\ TypeInv /\ LifeInv /\ HoldInv /\ SeenInv /\ RoutedInv /\ RegInv /\
  [Next]_vars => RegInv'
<1> SUFFICES ASSUME Restricted, TypeInv, LifeInv, HoldInv, SeenInv, RoutedInv, RegInv,
                    [Next]_vars
             PROVE  RegInv'
  OBVIOUS
<1> USE DEF RegInv, TypeInv, Met, Starting, Stopping
<1>1. ASSUME NEW p \in Process, Begins(p) PROVE RegInv'
  <2>1. ASSUME NEW n \in Pid, Spawn(p, n) PROVE RegInv'
    BY <2>1 DEF Spawn, OthersIdle
  <2>2. CASE Register(p)
    BY <2>2 DEF Register, Ownership!Take, Existing
  <2>3. CASE RefuseManifest(p)
    BY <2>3 DEF RefuseManifest
  <2> QED
    BY <1>1, <2>1, <2>2, <2>3 DEF Begins
<1>2. ASSUME NEW p \in Process, Cleans(p) PROVE RegInv'
  BY <1>2 DEF Cleans, CleanupDone, Judge, Look, Existing, Readable
<1>3. ASSUME NEW p \in Process, Seeks(p) PROVE RegInv'
  <2>1. ASSUME NEW n \in Name, ClaimName(p, n) PROVE RegInv'
    BY <2>1 DEF ClaimName
  <2>2. CASE HostAvailable(p)
    BY <2>2 DEF HostAvailable, IsOwn
  <2>3. CASE RouteTaken(p)
    BY <2>3 DEF RouteTaken
  <2>4. CASE Read(p)
    BY <2>4 DEF Read, Readable
  <2>5. CASE RefuseName(p)
    BY <2>5 DEF RefuseName
  <2>6. CASE KeepHost(p)
    BY <2>6 DEF KeepHost, Claimed, IsOwn
  <2>7. CASE ClaimsHeld(p)
    BY <2>7 DEF ClaimsHeld
  <2> QED
    BY <1>3, <2>1, <2>2, <2>3, <2>4, <2>5, <2>6, <2>7 DEF Seeks
<1>4. ASSUME NEW p \in Process, Writes(p) PROVE RegInv'
  <2>1. CASE Create(p)
    BY <2>1 DEF Create
  <2>2. CASE Fill(p)
    BY <2>2 DEF Fill, Claimed
  <2>3. CASE TakeOver(p)
    BY <2>3 DEF TakeOver, MayBeStale
  <2>4. CASE ReplaceClaim(p)
    BY <2>4 DEF ReplaceClaim
  <2> QED
    BY <1>4, <2>1, <2>2, <2>3, <2>4 DEF Writes
<1>5. ASSUME NEW p \in Process, Kills(p) PROVE RegInv'
  <2>1. PICK q \in Process : Slays(p, q)
    BY <1>5, Killed
  <2> QED
    BY <2>1 DEF Slays
<1>6. ASSUME NEW p \in Process, Serves(p) PROVE RegInv'
  BY <1>6 DEF Serves, Activate
<1>7. ASSUME NEW p \in Process, Stops(p) PROVE RegInv'
  BY <1>7 DEF Stops, Stop, OthersIdle, Release, Releasing, Drop, Unroute, Unregister,
     Ownership!Drop, Exit
<1>8. ASSUME NEW p \in Process, Breaks(p) PROVE RegInv'
  BY <1>8 DEF Breaks, CallFails, Crash, Fault, Ownership!Drop
<1>9. CASE UNCHANGED vars
  BY <1>9 DEF vars
<1> QED
  BY <1>1, <1>2, <1>3, <1>4, <1>5, <1>6, <1>7, <1>8, <1>9, NextSteps

\* The steps keep names within what is wanted.
LEMMA NextHold ==
  TypeInv /\ LifeInv /\ HoldInv /\ [Next]_vars => HoldInv'
<1> SUFFICES ASSUME TypeInv, LifeInv, HoldInv, [Next]_vars
             PROVE  HoldInv'
  OBVIOUS
<1> USE DEF LifeInv, HoldInv, TypeInv, Claiming
<1>1. ASSUME NEW p \in Process, Begins(p) PROVE HoldInv'
  BY <1>1 DEF Begins, Register, RefuseManifest, Spawn, OthersIdle, Ownership!Take, Existing
<1>2. ASSUME NEW p \in Process, Cleans(p) PROVE HoldInv'
  BY <1>2 DEF Cleans, CleanupDone, Judge, Look, Existing, Readable
<1>3. ASSUME NEW p \in Process, Seeks(p) PROVE HoldInv'
  <2>1. ASSUME NEW n \in Name, ClaimName(p, n) PROVE HoldInv'
    BY <2>1 DEF ClaimName
  <2>2. CASE HostAvailable(p)
    BY <2>2 DEF HostAvailable, IsOwn
  <2>3. CASE RouteTaken(p)
    BY <2>3 DEF RouteTaken
  <2>4. CASE Read(p)
    BY <2>4 DEF Read, Readable
  <2>5. CASE RefuseName(p)
    BY <2>5 DEF RefuseName
  <2>6. CASE KeepHost(p)
    BY <2>6 DEF KeepHost, Claimed, IsOwn
  <2>7. CASE ClaimsHeld(p)
    BY <2>7 DEF ClaimsHeld
  <2> QED
    BY <1>3, <2>1, <2>2, <2>3, <2>4, <2>5, <2>6, <2>7 DEF Seeks
<1>4. ASSUME NEW p \in Process, Writes(p) PROVE HoldInv'
  <2>1. CASE Create(p)
    BY <2>1 DEF Create
  <2>2. CASE Fill(p)
    BY <2>2 DEF Fill, Claimed
  <2>3. CASE TakeOver(p)
    BY <2>3 DEF TakeOver, MayBeStale
  <2>4. CASE ReplaceClaim(p)
    BY <2>4 DEF ReplaceClaim
  <2> QED
    BY <1>4, <2>1, <2>2, <2>3, <2>4 DEF Writes
<1>5. ASSUME NEW p \in Process, Kills(p) PROVE HoldInv'
  BY <1>5, Struck DEF Kill, Killing
<1>6. ASSUME NEW p \in Process, Serves(p) PROVE HoldInv'
  BY <1>6 DEF Serves, Activate
<1>7. ASSUME NEW p \in Process, Stops(p) PROVE HoldInv'
  BY <1>7 DEF Stops, Stop, OthersIdle, Release, Releasing, Drop, Unroute, Unregister,
     Ownership!Drop, Exit
<1>8. ASSUME NEW p \in Process, Breaks(p) PROVE HoldInv'
  BY <1>8 DEF Breaks, CallFails, Crash, Fault, Ownership!Drop
<1>9. CASE UNCHANGED vars
  BY <1>9 DEF vars
<1> QED
  BY <1>1, <1>2, <1>3, <1>4, <1>5, <1>6, <1>7, <1>8, <1>9, NextSteps

\* The steps keep claim records true.
LEMMA NextRecord ==
  Restricted /\ TypeInv /\ LifeInv /\ HoldInv /\ SeenInv /\ RoutedInv /\ FillInv /\
  RecordInv /\ [Next]_vars => RecordInv'
<1> SUFFICES ASSUME Restricted, TypeInv, LifeInv, HoldInv, SeenInv, RoutedInv, FillInv,
                    RecordInv, [Next]_vars
             PROVE  RecordInv'
  OBVIOUS
<1> USE DEF LifeInv, HoldInv, FillInv, RecordInv, TypeInv, Claiming, Met, Record, Torns, Torn,
            Own, Absent
<1>1. ASSUME NEW p \in Process, Begins(p) PROVE RecordInv'
  BY <1>1 DEF Begins, Register, RefuseManifest, Spawn, OthersIdle, Ownership!Take, Existing
<1>2. ASSUME NEW p \in Process, Cleans(p) PROVE RecordInv'
  <2>1. CASE CleanupDone(p)
    BY <2>1 DEF CleanupDone, Existing
  <2>2. CASE Judge(p)
    BY <2>2 DEF Judge
  <2>3. ASSUME NEW n \in Name, Look(p, n) PROVE RecordInv'
    BY <2>3 DEF Look, Readable
  <2> QED
    BY <1>2, <2>1, <2>2, <2>3 DEF Cleans
<1>3. ASSUME NEW p \in Process, Seeks(p) PROVE RecordInv'
  <2>1. ASSUME NEW n \in Name, ClaimName(p, n) PROVE RecordInv'
    BY <2>1 DEF ClaimName
  <2>2. CASE HostAvailable(p)
    BY <2>2 DEF HostAvailable, IsOwn
  <2>3. CASE RouteTaken(p)
    BY <2>3 DEF RouteTaken
  <2>4. CASE Read(p)
    BY <2>4 DEF Read, Readable
  <2>5. CASE RefuseName(p)
    BY <2>5 DEF RefuseName
  <2>6. CASE KeepHost(p)
    BY <2>6 DEF KeepHost, Claimed, IsOwn
  <2>7. CASE ClaimsHeld(p)
    BY <2>7 DEF ClaimsHeld
  <2> QED
    BY <1>3, <2>1, <2>2, <2>3, <2>4, <2>5, <2>6, <2>7 DEF Seeks
<1>4. ASSUME NEW p \in Process, Writes(p) PROVE RecordInv'
  <2>1. CASE Create(p)
    BY <2>1 DEF Create
  <2>2. CASE Fill(p)
    BY <2>2 DEF Fill, Claimed
  <2>3. CASE TakeOver(p)
    BY <2>3 DEF TakeOver, MayBeStale
  <2>4. CASE ReplaceClaim(p)
    BY <2>4 DEF ReplaceClaim
  <2> QED
    BY <1>4, <2>1, <2>2, <2>3, <2>4 DEF Writes
<1>5. ASSUME NEW p \in Process, Kills(p) PROVE RecordInv'
  <2>1. PICK q \in Process : Slays(p, q)
    BY <1>5, Killed
  <2> QED
    BY <2>1 DEF Slays
<1>6. ASSUME NEW p \in Process, Serves(p) PROVE RecordInv'
  BY <1>6 DEF Serves, Activate
<1>7. ASSUME NEW p \in Process, Stops(p) PROVE RecordInv'
  <2>1. CASE Stop(p)
    BY <2>1 DEF Stop, OthersIdle
  <2>2. ASSUME NEW n \in Name, Release(p, n) PROVE RecordInv'
    BY <2>2 DEF Release, Releasing
  <2>3. CASE Drop(p)
    BY <2>3 DEF Drop
  <2>4. CASE Unroute(p)
    BY <2>4 DEF Unroute, IsOwn
  <2>5. CASE Unregister(p)
    BY <2>5 DEF Unregister, Ownership!Drop, Releasing
  <2>6. CASE Exit(p)
    BY <2>6 DEF Exit
  <2> QED
    BY <1>7, <2>1, <2>2, <2>3, <2>4, <2>5, <2>6 DEF Stops
<1>8. ASSUME NEW p \in Process, Breaks(p) PROVE RecordInv'
  BY <1>8 DEF Breaks, CallFails, Crash, Fault, Ownership!Drop
<1>9. CASE UNCHANGED vars
  BY <1>9 DEF vars
<1> QED
  BY <1>1, <1>2, <1>3, <1>4, <1>5, <1>6, <1>7, <1>8, <1>9, NextSteps

\* The steps keep true what was read: only the owner could make it false, and
\* it is dead, or it takes nothing it does not want.
LEMMA NextSeen ==
  Restricted /\ TypeInv /\ LifeInv /\ HoldInv /\ SeenInv /\ RoutedInv /\ PhaseInv /\
  RecordInv /\ FillInv /\ HeldIsRecorded /\ [Next]_vars => SeenInv'
<1> SUFFICES ASSUME Restricted, TypeInv, LifeInv, HoldInv, SeenInv, RoutedInv, PhaseInv,
                    RecordInv, FillInv, HeldIsRecorded, [Next]_vars
             PROVE  SeenInv'
  OBVIOUS
<1> USE DEF LifeInv, PhaseInv, HoldInv, RecordInv, SeenInv, FillInv, HeldIsRecorded, TypeInv,
            Claiming, Met, Record, Torns, Torn, Own, Absent
<1>1. ASSUME NEW p \in Process, Begins(p) PROVE SeenInv'
  BY <1>1 DEF Begins, Register, RefuseManifest, Spawn, OthersIdle, Ownership!Take, Existing
<1>2. ASSUME NEW p \in Process, Cleans(p) PROVE SeenInv'
  BY <1>2 DEF Cleans, CleanupDone, Judge, Look, Existing, Readable
<1>3. ASSUME NEW p \in Process, Seeks(p) PROVE SeenInv'
  <2>1. ASSUME NEW n \in Name, ClaimName(p, n) PROVE SeenInv'
    BY <2>1 DEF ClaimName
  <2>2. CASE HostAvailable(p)
    BY <2>2 DEF HostAvailable, IsOwn
  <2>3. CASE RouteTaken(p)
    BY <2>3 DEF RouteTaken
  <2>4. CASE Read(p)
    BY <2>4 DEF Read, Readable
  <2>5. CASE RefuseName(p)
    BY <2>5 DEF RefuseName
  <2>6. CASE KeepHost(p)
    BY <2>6 DEF KeepHost, Claimed, IsOwn
  <2>7. CASE ClaimsHeld(p)
    BY <2>7 DEF ClaimsHeld
  <2> QED
    BY <1>3, <2>1, <2>2, <2>3, <2>4, <2>5, <2>6, <2>7 DEF Seeks
<1>4. ASSUME NEW p \in Process, Writes(p) PROVE SeenInv'
  <2>1. CASE Create(p)
    BY <2>1 DEF Create
  <2>2. CASE Fill(p)
    BY <2>2, Alone DEF Fill, Claimed, Busy, Starting
  <2>3. CASE TakeOver(p)
    BY <2>3 DEF TakeOver, MayBeStale
  <2>4. CASE ReplaceClaim(p)
    BY <2>4 DEF ReplaceClaim
  <2> QED
    BY <1>4, <2>1, <2>2, <2>3, <2>4 DEF Writes
<1>5. ASSUME NEW p \in Process, Kills(p) PROVE SeenInv'
  <2>1. PICK q \in Process : Slays(p, q)
    BY <1>5, Killed
  <2> QED
    BY <2>1 DEF Slays
<1>6. ASSUME NEW p \in Process, Serves(p) PROVE SeenInv'
  BY <1>6 DEF Serves, Activate
<1>7. ASSUME NEW p \in Process, Stops(p) PROVE SeenInv'
  <2>1. CASE Stop(p)
    BY <2>1 DEF Stop, OthersIdle
  <2>2. ASSUME NEW n \in Name, Release(p, n) PROVE SeenInv'
    BY <2>2 DEF Release, Releasing
  <2>3. CASE Drop(p)
    BY <2>3 DEF Drop
  <2>4. CASE Unroute(p)
    BY <2>4 DEF Unroute, IsOwn
  <2>5. CASE Unregister(p)
    BY <2>5 DEF Unregister, Ownership!Drop, Releasing
  <2>6. CASE Exit(p)
    BY <2>6 DEF Exit
  <2> QED
    BY <1>7, <2>1, <2>2, <2>3, <2>4, <2>5, <2>6 DEF Stops
<1>8. ASSUME NEW p \in Process, Breaks(p) PROVE SeenInv'
  <2>1. CASE CallFails(p)
    BY <2>1 DEF CallFails, Fault
  <2>2. CASE Crash(p)
    BY <2>2 DEF Crash, Fault, Ownership!Drop
  <2> QED
    BY <1>8, <2>1, <2>2 DEF Breaks
<1>9. CASE UNCHANGED vars
  BY <1>9 DEF vars
<1> QED
  BY <1>1, <1>2, <1>3, <1>4, <1>5, <1>6, <1>7, <1>8, <1>9, NextSteps

\* The steps keep what is to be replaced.
LEMMA NextReplace ==
  Restricted /\ TypeInv /\ LifeInv /\ HoldInv /\ SeenInv /\ RoutedInv /\ ReplaceInv /\
  [Next]_vars => ReplaceInv'
<1> SUFFICES ASSUME Restricted, TypeInv, LifeInv, HoldInv, SeenInv, RoutedInv, ReplaceInv,
                    [Next]_vars
             PROVE  ReplaceInv'
  OBVIOUS
<1> USE DEF ReplaceInv, TypeInv
<1>1. ASSUME NEW p \in Process, Begins(p) PROVE ReplaceInv'
  BY <1>1 DEF Begins, Register, RefuseManifest, Spawn, OthersIdle, Ownership!Take, Existing
<1>2. ASSUME NEW p \in Process, Cleans(p) PROVE ReplaceInv'
  BY <1>2 DEF Cleans, CleanupDone, Judge, Look, Existing, Readable
<1>3. ASSUME NEW p \in Process, Seeks(p) PROVE ReplaceInv'
  <2>1. ASSUME NEW n \in Name, ClaimName(p, n) PROVE ReplaceInv'
    BY <2>1 DEF ClaimName
  <2>2. CASE HostAvailable(p)
    BY <2>2 DEF HostAvailable, IsOwn
  <2>3. CASE RouteTaken(p)
    BY <2>3 DEF RouteTaken
  <2>4. CASE Read(p)
    BY <2>4 DEF Read, Readable
  <2>5. CASE RefuseName(p)
    BY <2>5 DEF RefuseName
  <2>6. CASE KeepHost(p)
    BY <2>6 DEF KeepHost, Claimed, IsOwn
  <2>7. CASE ClaimsHeld(p)
    BY <2>7 DEF ClaimsHeld
  <2> QED
    BY <1>3, <2>1, <2>2, <2>3, <2>4, <2>5, <2>6, <2>7 DEF Seeks
<1>4. ASSUME NEW p \in Process, Writes(p) PROVE ReplaceInv'
  <2>1. CASE Create(p)
    BY <2>1 DEF Create
  <2>2. CASE Fill(p)
    BY <2>2 DEF Fill, Claimed
  <2>3. CASE TakeOver(p)
    BY <2>3 DEF TakeOver, MayBeStale
  <2>4. CASE ReplaceClaim(p)
    BY <2>4 DEF ReplaceClaim
  <2> QED
    BY <1>4, <2>1, <2>2, <2>3, <2>4 DEF Writes
<1>5. ASSUME NEW p \in Process, Kills(p) PROVE ReplaceInv'
  <2>1. PICK q \in Process : Slays(p, q)
    BY <1>5, Killed
  <2> QED
    BY <2>1 DEF Slays
<1>6. ASSUME NEW p \in Process, Serves(p) PROVE ReplaceInv'
  BY <1>6 DEF Serves, Activate
<1>7. ASSUME NEW p \in Process, Stops(p) PROVE ReplaceInv'
  BY <1>7 DEF Stops, Stop, OthersIdle, Release, Releasing, Drop, Unroute, Unregister,
     Ownership!Drop, Exit
<1>8. ASSUME NEW p \in Process, Breaks(p) PROVE ReplaceInv'
  BY <1>8 DEF Breaks, CallFails, Crash, Fault, Ownership!Drop
<1>9. CASE UNCHANGED vars
  BY <1>9 DEF vars
<1> QED
  BY <1>1, <1>2, <1>3, <1>4, <1>5, <1>6, <1>7, <1>8, <1>9, NextSteps

\* No step touches a file that its creator has not written yet.
LEMMA NextFill ==
  Restricted /\ TypeInv /\ LifeInv /\ HoldInv /\ SeenInv /\ RoutedInv /\ PhaseInv /\
  ReplaceInv /\ DropInv /\ FillInv /\ [Next]_vars => FillInv'
<1> SUFFICES ASSUME Restricted, TypeInv, LifeInv, HoldInv, SeenInv, RoutedInv, PhaseInv,
                    ReplaceInv, DropInv, FillInv, [Next]_vars
             PROVE  FillInv'
  OBVIOUS
<1> USE DEF LifeInv, PhaseInv, HoldInv, ReplaceInv, DropInv, FillInv, TypeInv, Claiming, Busy,
            Starting, IsOwn, Torn, Own, Absent
<1>1. ASSUME NEW p \in Process, Begins(p) PROVE FillInv'
  BY <1>1 DEF Begins, Register, RefuseManifest, Spawn, OthersIdle, Ownership!Take, Existing
<1>2. ASSUME NEW p \in Process, Cleans(p) PROVE FillInv'
  <2>1. CASE CleanupDone(p)
    BY <2>1 DEF CleanupDone, Existing
  <2>2. CASE Judge(p)
    <3>1. Frees(p)
      BY <2>2, Cleared
    <3> QED
      BY <2>2, <3>1 DEF Judge, Frees, Busy, Starting, Stopping
  <2>3. ASSUME NEW n \in Name, Look(p, n) PROVE FillInv'
    BY <2>3 DEF Look, Readable
  <2> QED
    BY <1>2, <2>1, <2>2, <2>3 DEF Cleans
<1>3. ASSUME NEW p \in Process, Seeks(p) PROVE FillInv'
  <2>1. ASSUME NEW n \in Name, ClaimName(p, n) PROVE FillInv'
    BY <2>1 DEF ClaimName
  <2>2. CASE HostAvailable(p)
    BY <2>2 DEF HostAvailable, IsOwn
  <2>3. CASE RouteTaken(p)
    BY <2>3 DEF RouteTaken
  <2>4. CASE Read(p)
    BY <2>4 DEF Read, Readable
  <2>5. CASE RefuseName(p)
    BY <2>5 DEF RefuseName
  <2>6. CASE KeepHost(p)
    BY <2>6 DEF KeepHost, Claimed, IsOwn
  <2>7. CASE ClaimsHeld(p)
    BY <2>7 DEF ClaimsHeld
  <2> QED
    BY <1>3, <2>1, <2>2, <2>3, <2>4, <2>5, <2>6, <2>7 DEF Seeks
<1>4. ASSUME NEW p \in Process, Writes(p) PROVE FillInv'
  <2>1. CASE Create(p)
    <3> SUFFICES ASSUME NEW q \in Process, stage'[q] = "fill" PROVE file'[name'[q]] = {Torn(q)}
      BY DEF FillInv
    <3>1. CASE q = p
      BY <2>1, <3>1 DEF Create
    <3>2. CASE q # p
      <4>1. file[name[q]] = {Torn(q)} /\ name'[q] = name[q] /\ name[q] \in Name
        BY <2>1, <3>2 DEF Create, FillInv
      <4> HIDE DEF Torn, Own, Absent
      <4> QED
        BY <2>1, <4>1, Contents, Untouched
    <3> QED
      BY <3>1, <3>2
  <2>2. CASE Fill(p)
    <3> SUFFICES ASSUME NEW q \in Process, stage'[q] = "fill" PROVE file'[name'[q]] = {Torn(q)}
      BY DEF FillInv
    <3>1. CASE q = p
      BY <2>2, <3>1 DEF Fill, Claimed
    <3>2. CASE q # p
      <4>1. file[name[q]] = {Torn(q)} /\ name'[q] = name[q] /\ name[q] \in Name
        BY <2>2, <3>2 DEF Fill, Claimed, FillInv
      <4>2. \E r \in file[name[q]] : r # Torn(p)
        BY <3>2, <4>1, Contents
      <4> HIDE DEF Torn, Own, Absent
      <4>3. Fill(p) /\ file \in [Name -> SUBSET (Record \union Torns)]
        BY <2>2
      <4>4. file'[name[q]] = file[name[q]]
        BY ONLY <4>1, <4>2, <4>3, Untouched
      <4> QED
        BY <4>1, <4>4
    <3> QED
      BY <3>1, <3>2
  <2>3. CASE TakeOver(p)
    <3>1. Frees(p)
      BY <2>3, Cleared
    <3> QED
      BY <2>3, <3>1 DEF TakeOver, Frees, Busy, Starting, Stopping
  <2>4. CASE ReplaceClaim(p)
    <3>1. Frees(p)
      BY <2>4, Cleared
    <3> QED
      BY <2>4, <3>1 DEF ReplaceClaim, Frees, Busy, Starting, Stopping
  <2> QED
    BY <1>4, <2>1, <2>2, <2>3, <2>4 DEF Writes
<1>5. ASSUME NEW p \in Process, Kills(p) PROVE FillInv'
  <2>1. PICK q \in Process : Slays(p, q)
    BY <1>5, Killed
  <2> QED
    BY <2>1 DEF Slays
<1>6. ASSUME NEW p \in Process, Serves(p) PROVE FillInv'
  BY <1>6 DEF Serves, Activate
<1>7. ASSUME NEW p \in Process, Stops(p) PROVE FillInv'
  <2>1. CASE Stop(p)
    BY <2>1 DEF Stop, OthersIdle
  <2>2. ASSUME NEW n \in Name, Release(p, n) PROVE FillInv'
    BY <2>2 DEF Release, Releasing
  <2>3. CASE Drop(p)
    <3> SUFFICES ASSUME NEW q \in Process, stage'[q] = "fill" PROVE file'[name'[q]] = {Torn(q)}
      BY DEF FillInv
    <3>1. file[name[q]] = {Torn(q)} /\ name'[q] = name[q] /\ name[q] \in Name
      BY <2>3 DEF Drop, FillInv
    <3>2. Alive(p) /\ \E r \in file[name[p]] : IsOwn(p, r)
      BY <2>3 DEF Drop, DropInv
    <3>3. Torn(q).pid = None
      BY DEF Torn
    <3> HIDE DEF Torn, Own, Absent
    <3>4. name[q] # name[p]
      BY <3>1, <3>2, <3>3 DEF IsOwn
    <3> QED
      BY <2>3, <3>1, <3>4, Untouched
  <2>4. CASE Unroute(p)
    BY <2>4 DEF Unroute, IsOwn
  <2>5. CASE Unregister(p)
    BY <2>5 DEF Unregister, Ownership!Drop, Releasing
  <2>6. CASE Exit(p)
    BY <2>6 DEF Exit
  <2> QED
    BY <1>7, <2>1, <2>2, <2>3, <2>4, <2>5, <2>6 DEF Stops
<1>8. ASSUME NEW p \in Process, Breaks(p) PROVE FillInv'
  BY <1>8 DEF Breaks, CallFails, Crash, Fault, Ownership!Drop
<1>9. CASE UNCHANGED vars
  BY <1>9 DEF vars
<1> QED
  BY <1>1, <1>2, <1>3, <1>4, <1>5, <1>6, <1>7, <1>8, <1>9, NextSteps

\* No step replaces a claim its owner is about to remove.
LEMMA NextDrop ==
  Restricted /\ TypeInv /\ LifeInv /\ HoldInv /\ SeenInv /\ RoutedInv /\ PhaseInv /\
  ReplaceInv /\ DropInv /\ FillInv /\ [Next]_vars => DropInv'
<1> SUFFICES ASSUME Restricted, TypeInv, LifeInv, HoldInv, SeenInv, RoutedInv, PhaseInv,
                    ReplaceInv, DropInv, FillInv, [Next]_vars
             PROVE  DropInv'
  OBVIOUS
<1> USE DEF LifeInv, PhaseInv, HoldInv, ReplaceInv, DropInv, FillInv, TypeInv, Claiming, Busy,
            Stopping, IsOwn, Torn, Own, Absent
<1>1. ASSUME NEW p \in Process, Begins(p) PROVE DropInv'
  BY <1>1 DEF Begins, Register, RefuseManifest, Spawn, OthersIdle, Ownership!Take, Existing
<1>2. ASSUME NEW p \in Process, Cleans(p) PROVE DropInv'
  <2>1. CASE CleanupDone(p)
    BY <2>1 DEF CleanupDone, Existing
  <2>2. CASE Judge(p)
    <3>1. Frees(p)
      BY <2>2, Cleared
    <3> QED
      BY <2>2, <3>1 DEF Judge, Frees, Busy, Starting, Stopping
  <2>3. ASSUME NEW n \in Name, Look(p, n) PROVE DropInv'
    BY <2>3 DEF Look, Readable
  <2> QED
    BY <1>2, <2>1, <2>2, <2>3 DEF Cleans
<1>3. ASSUME NEW p \in Process, Seeks(p) PROVE DropInv'
  <2>1. ASSUME NEW n \in Name, ClaimName(p, n) PROVE DropInv'
    BY <2>1 DEF ClaimName
  <2>2. CASE HostAvailable(p)
    BY <2>2 DEF HostAvailable, IsOwn
  <2>3. CASE RouteTaken(p)
    BY <2>3 DEF RouteTaken
  <2>4. CASE Read(p)
    BY <2>4 DEF Read, Readable
  <2>5. CASE RefuseName(p)
    BY <2>5 DEF RefuseName
  <2>6. CASE KeepHost(p)
    BY <2>6 DEF KeepHost, Claimed, IsOwn
  <2>7. CASE ClaimsHeld(p)
    BY <2>7 DEF ClaimsHeld
  <2> QED
    BY <1>3, <2>1, <2>2, <2>3, <2>4, <2>5, <2>6, <2>7 DEF Seeks
<1>4. ASSUME NEW p \in Process, Writes(p) PROVE DropInv'
  <2>1. CASE Create(p)
    <3> SUFFICES ASSUME NEW q \in Process, stage'[q] = "drop"
                 PROVE  (\E r \in file[name[q]] : IsOwn(q, r))'
      BY DEF DropInv
    <3>1. q # p /\ name'[q] = name[q] /\ name[q] \in Name
      BY <2>1 DEF Create
    <3>2. stage[q] = "drop" /\ UNCHANGED pid
      BY <2>1 DEF Create
    <3>3. \E r \in file[name[q]] : IsOwn(q, r)
      BY <3>2 DEF DropInv
    <3>4. file'[name[q]] = file[name[q]]
      BY <2>1, <3>1, <3>3, Untouched
    <3> QED
      BY <3>1, <3>2, <3>3, <3>4
  <2>2. CASE Fill(p)
    <3> SUFFICES ASSUME NEW q \in Process, stage'[q] = "drop"
                 PROVE  (\E r \in file[name[q]] : IsOwn(q, r))'
      BY DEF DropInv
    <3>1. q # p /\ name'[q] = name[q] /\ stage[q] = "drop"
      BY <2>2 DEF Fill, Claimed
    <3>2. q # p /\ name'[q] = name[q] /\ name[q] \in Name /\ Alive(q)
          /\ \E r \in file[name[q]] : IsOwn(q, r)
      BY <3>1 DEF DropInv
    <3>3. ~IsOwn(q, Torn(p))
      BY <3>2 DEF IsOwn
    <3> QED
      BY <2>2, <3>2, <3>3 DEF Fill
  <2>3. CASE TakeOver(p)
    <3>1. Frees(p)
      BY <2>3, Cleared
    <3> QED
      BY <2>3, <3>1 DEF TakeOver, Frees, Busy, Starting, Stopping
  <2>4. CASE ReplaceClaim(p)
    <3>1. Frees(p)
      BY <2>4, Cleared
    <3> QED
      BY <2>4, <3>1 DEF ReplaceClaim, Frees, Busy, Starting, Stopping
  <2> QED
    BY <1>4, <2>1, <2>2, <2>3, <2>4 DEF Writes
<1>5. ASSUME NEW p \in Process, Kills(p) PROVE DropInv'
  <2>1. PICK q \in Process : Slays(p, q)
    BY <1>5, Killed
  <2> QED
    BY <2>1 DEF Slays
<1>6. ASSUME NEW p \in Process, Serves(p) PROVE DropInv'
  BY <1>6 DEF Serves, Activate
<1>7. ASSUME NEW p \in Process, Stops(p) PROVE DropInv'
  BY <1>7 DEF Stops, Stop, OthersIdle, Release, Releasing, Drop, Unroute, Unregister,
     Ownership!Drop, Exit
<1>8. ASSUME NEW p \in Process, Breaks(p) PROVE DropInv'
  <2>1. CASE CallFails(p)
    BY <2>1 DEF CallFails, Fault
  <2>2. CASE Crash(p)
    BY <2>2 DEF Crash, Fault, Ownership!Drop
  <2> QED
    BY <1>8, <2>1, <2>2 DEF Breaks
<1>9. CASE UNCHANGED vars
  BY <1>9 DEF vars
<1> QED
  BY <1>1, <1>2, <1>3, <1>4, <1>5, <1>6, <1>7, <1>8, <1>9, NextSteps

\* No step takes away the claim of a name that is held.
LEMMA NextHeldIsRecorded ==
  Restricted /\ TypeInv /\ LifeInv /\ HoldInv /\ SeenInv /\ RoutedInv /\ PhaseInv /\
  ReplaceInv /\ RecordInv /\ DropInv /\ FillInv /\ HeldIsRecorded /\
  [Next]_vars => HeldIsRecorded'
<1> SUFFICES ASSUME Restricted, TypeInv, LifeInv, HoldInv, SeenInv, RoutedInv, PhaseInv,
                    ReplaceInv, RecordInv, DropInv, FillInv, HeldIsRecorded, [Next]_vars
             PROVE  HeldIsRecorded'
  OBVIOUS
<1> USE DEF LifeInv, PhaseInv, HoldInv, ReplaceInv, RecordInv, DropInv, FillInv, HeldIsRecorded,
            TypeInv, Claiming, IsOwn, Torn, Own, Absent
<1>1. ASSUME NEW p \in Process, Begins(p) PROVE HeldIsRecorded'
  <2>1. ASSUME NEW n \in Pid, Spawn(p, n) PROVE HeldIsRecorded'
    <3>1. holds[p] = {} /\ \A q \in Process \ {p} : Own(q)' = Own(q)
      BY <2>1 DEF Spawn
    <3> HIDE DEF Own
    <3> QED
      BY <2>1, <3>1 DEF Spawn, HeldIsRecorded
  <2>2. CASE Register(p)
    BY <2>2 DEF Register, Ownership!Take, Existing
  <2>3. CASE RefuseManifest(p)
    BY <2>3 DEF RefuseManifest
  <2> QED
    BY <1>1, <2>1, <2>2, <2>3 DEF Begins
<1>2. ASSUME NEW p \in Process, Cleans(p) PROVE HeldIsRecorded'
  <2>1. CASE CleanupDone(p)
    BY <2>1 DEF CleanupDone, Existing
  <2>2. CASE Judge(p)
    <3>1. Frees(p)
      BY <2>2, Cleared
    <3>2. \A q \in Process : Own(q)' = Own(q) /\ {Own(q)} # Absent
      BY <2>2, Contents DEF Judge
    <3> HIDE DEF Own, Absent
    <3>3. holds' = holds /\ kept' = kept
      BY <2>2 DEF Judge
    <3>4. \A q \in Process : \A n \in holds[q] \ kept[q] : file'[n] = file[n]
      BY <3>1 DEF Frees
    <3> QED
      BY <3>2, <3>3, <3>4
  <2>3. ASSUME NEW n \in Name, Look(p, n) PROVE HeldIsRecorded'
    BY <2>3 DEF Look, Readable
  <2> QED
    BY <1>2, <2>1, <2>2, <2>3 DEF Cleans
<1>3. ASSUME NEW p \in Process, Seeks(p) PROVE HeldIsRecorded'
  <2>1. ASSUME NEW n \in Name, ClaimName(p, n) PROVE HeldIsRecorded'
    BY <2>1 DEF ClaimName
  <2>2. CASE HostAvailable(p)
    BY <2>2 DEF HostAvailable, IsOwn
  <2>3. CASE RouteTaken(p)
    BY <2>3 DEF RouteTaken
  <2>4. CASE Read(p)
    BY <2>4 DEF Read, Readable
  <2>5. CASE RefuseName(p)
    BY <2>5 DEF RefuseName
  <2>6. CASE KeepHost(p)
    BY <2>6 DEF KeepHost, Claimed, IsOwn
  <2>7. CASE ClaimsHeld(p)
    BY <2>7 DEF ClaimsHeld
  <2> QED
    BY <1>3, <2>1, <2>2, <2>3, <2>4, <2>5, <2>6, <2>7 DEF Seeks
<1>4. ASSUME NEW p \in Process, Writes(p) PROVE HeldIsRecorded'
  <2>1. CASE Create(p)
    <3> SUFFICES ASSUME NEW q \in Process, NEW n \in holds'[q] \ kept'[q]
                 PROVE  file'[n] = {Own(q)}'
      BY DEF HeldIsRecorded
    <3>1. file[n] = {Own(q)} /\ n \in Name
      BY <2>1 DEF Create, HeldIsRecorded
    <3>2. Own(q)' = Own(q)
      BY <2>1 DEF Create
    <3> HIDE DEF Own, Torn, Absent
    <3> QED
      BY <2>1, <3>1, <3>2, Contents, Untouched
  <2>2. CASE Fill(p)
    <3> SUFFICES ASSUME NEW q \in Process, NEW n \in holds'[q] \ kept'[q]
                 PROVE  file'[n] = {Own(q)}'
      BY DEF HeldIsRecorded
    <3>1. CASE q = p /\ n = name[p]
      BY <2>2, <3>1 DEF Fill, Claimed
    <3>2. CASE ~(q = p /\ n = name[p])
      <4>1. n \in Name /\ file[n] = {Own(q)}
        BY <2>2, <3>2 DEF Fill, Claimed, HeldIsRecorded
      <4>2. stage[q] = "fill" \/ holds[q] # {}
        BY <2>2, <3>2 DEF Fill, Claimed
      <4>3. Own(q)' = Own(q) /\ Alive(q)
        BY <2>2, <4>2 DEF Fill
      <4>4. \E r \in file[n] : r # Torn(p)
        BY <4>1, <4>3, Contents
      <4> HIDE DEF Own, Torn, Absent
      <4>5. Fill(p) /\ file \in [Name -> SUBSET (Record \union Torns)]
        BY <2>2
      <4>6. file'[n] = file[n]
        BY ONLY <4>1, <4>4, <4>5, Untouched
      <4> QED
        BY <4>1, <4>3, <4>6
    <3> QED
      BY <3>1, <3>2
  <2>3. CASE TakeOver(p)
    <3>1. Frees(p)
      BY <2>3, Cleared
    <3> QED
      BY <2>3, <3>1 DEF TakeOver, Frees, Busy, Starting, Stopping
  <2>4. CASE ReplaceClaim(p)
    <3>1. Frees(p)
      BY <2>4, Cleared
    <3> QED
      BY <2>4, <3>1 DEF ReplaceClaim, Frees, Busy, Starting, Stopping
  <2> QED
    BY <1>4, <2>1, <2>2, <2>3, <2>4 DEF Writes
<1>5. ASSUME NEW p \in Process, Kills(p) PROVE HeldIsRecorded'
  <2>1. PICK q \in Process : Slays(p, q)
    BY <1>5, Killed
  <2> QED
    BY <2>1 DEF Slays
<1>6. ASSUME NEW p \in Process, Serves(p) PROVE HeldIsRecorded'
  BY <1>6 DEF Serves, Activate
<1>7. ASSUME NEW p \in Process, Stops(p) PROVE HeldIsRecorded'
  <2>1. CASE Stop(p)
    BY <2>1 DEF Stop, OthersIdle
  <2>2. ASSUME NEW n \in Name, Release(p, n) PROVE HeldIsRecorded'
    BY <2>2 DEF Release, Releasing
  <2>3. CASE Drop(p)
    <3> SUFFICES ASSUME NEW q \in Process, NEW n \in holds'[q] \ kept'[q]
                 PROVE  file'[n] = {Own(q)}'
      BY DEF HeldIsRecorded
    <3>1. file[n] = {Own(q)} /\ n \in Name /\ Alive(q)
      BY <2>3 DEF Drop, HeldIsRecorded
    <3>2. n # name[p]
      BY <2>3, <3>1 DEF Drop, DropInv
    <3>3. Own(q)' = Own(q)
      BY <2>3 DEF Drop
    <3> HIDE DEF Own, Torn, Absent
    <3> QED
      BY <2>3, <3>1, <3>2, <3>3, Untouched
  <2>4. CASE Unroute(p)
    BY <2>4 DEF Unroute, IsOwn
  <2>5. CASE Unregister(p)
    BY <2>5 DEF Unregister, Ownership!Drop, Releasing
  <2>6. CASE Exit(p)
    <3>1. holds[p] = {} /\ \A q \in Process \ {p} : Own(q)' = Own(q)
      BY <2>6 DEF Exit
    <3> HIDE DEF Own
    <3> QED
      BY <2>6, <3>1 DEF Exit, HeldIsRecorded
  <2> QED
    BY <1>7, <2>1, <2>2, <2>3, <2>4, <2>5, <2>6 DEF Stops
<1>8. ASSUME NEW p \in Process, Breaks(p) PROVE HeldIsRecorded'
  <2>1. CASE CallFails(p)
    BY <2>1 DEF CallFails, Fault
  <2>2. CASE Crash(p)
    BY <2>2 DEF Crash, Fault, Ownership!Drop
  <2> QED
    BY <1>8, <2>1, <2>2 DEF Breaks
<1>9. CASE UNCHANGED vars
  BY <1>9 DEF vars
<1> QED
  BY <1>1, <1>2, <1>3, <1>4, <1>5, <1>6, <1>7, <1>8, <1>9, NextSteps

\* The steps keep routes true.
LEMMA NextRouted ==
  Restricted /\ TypeInv /\ LifeInv /\ HoldInv /\ SeenInv /\ RoutedInv /\
  [Next]_vars => RoutedInv'
<1> SUFFICES ASSUME Restricted, TypeInv, LifeInv, HoldInv, SeenInv, RoutedInv, [Next]_vars
             PROVE  RoutedInv'
  OBVIOUS
<1> USE DEF LifeInv, HoldInv, TypeInv, Claiming, Met, Starting, IsOwn, Record, Torns, Torn, Own,
            Absent, RoutedInv
<1>1. ASSUME NEW p \in Process, Begins(p) PROVE RoutedInv'
  <2>1. ASSUME NEW n \in Pid, Spawn(p, n) PROVE RoutedInv'
    BY <2>1 DEF Spawn, OthersIdle
  <2>2. CASE Register(p)
    BY <2>2 DEF Register, Ownership!Take, Existing
  <2>3. CASE RefuseManifest(p)
    BY <2>3 DEF RefuseManifest
  <2> QED
    BY <1>1, <2>1, <2>2, <2>3 DEF Begins
<1>2. ASSUME NEW p \in Process, Cleans(p) PROVE RoutedInv'
  <2>1. CASE CleanupDone(p)
    BY <2>1 DEF CleanupDone, Existing
  <2>2. CASE Judge(p)
    BY <2>2 DEF Judge
  <2>3. ASSUME NEW n \in Name, Look(p, n) PROVE RoutedInv'
    BY <2>3 DEF Look, Readable
  <2> QED
    BY <1>2, <2>1, <2>2, <2>3 DEF Cleans
<1>3. ASSUME NEW p \in Process, Seeks(p) PROVE RoutedInv'
  <2>1. ASSUME NEW n \in Name, ClaimName(p, n) PROVE RoutedInv'
    BY <2>1 DEF ClaimName
  <2>2. CASE HostAvailable(p)
    BY <2>2 DEF HostAvailable, IsOwn
  <2>3. CASE RouteTaken(p)
    BY <2>3 DEF RouteTaken
  <2>4. CASE Read(p)
    BY <2>4 DEF Read, Readable
  <2>5. CASE RefuseName(p)
    BY <2>5 DEF RefuseName
  <2>6. CASE KeepHost(p)
    BY <2>6 DEF KeepHost, Claimed, IsOwn
  <2>7. CASE ClaimsHeld(p)
    BY <2>7 DEF ClaimsHeld
  <2> QED
    BY <1>3, <2>1, <2>2, <2>3, <2>4, <2>5, <2>6, <2>7 DEF Seeks
<1>4. ASSUME NEW p \in Process, Writes(p) PROVE RoutedInv'
  <2>1. CASE Create(p)
    BY <2>1 DEF Create
  <2>2. CASE Fill(p)
    BY <2>2 DEF Fill, Claimed
  <2>3. CASE TakeOver(p)
    BY <2>3 DEF TakeOver, MayBeStale
  <2>4. CASE ReplaceClaim(p)
    BY <2>4 DEF ReplaceClaim
  <2> QED
    BY <1>4, <2>1, <2>2, <2>3, <2>4 DEF Writes
<1>5. ASSUME NEW p \in Process, Kills(p) PROVE RoutedInv'
  <2>1. PICK q \in Process : Slays(p, q)
    BY <1>5, Killed
  <2> QED
    BY <2>1 DEF Slays
<1>6. ASSUME NEW p \in Process, Serves(p) PROVE RoutedInv'
  BY <1>6 DEF Serves, Activate
<1>7. ASSUME NEW p \in Process, Stops(p) PROVE RoutedInv'
  <2>1. CASE Stop(p)
    BY <2>1 DEF Stop, OthersIdle
  <2>2. ASSUME NEW n \in Name, Release(p, n) PROVE RoutedInv'
    BY <2>2 DEF Release, Releasing
  <2>3. CASE Drop(p)
    BY <2>3 DEF Drop
  <2>4. CASE Unroute(p)
    BY <2>4 DEF Unroute, IsOwn
  <2>5. CASE Unregister(p)
    BY <2>5 DEF Unregister, Ownership!Drop, Releasing
  <2>6. CASE Exit(p)
    BY <2>6 DEF Exit
  <2> QED
    BY <1>7, <2>1, <2>2, <2>3, <2>4, <2>5, <2>6 DEF Stops
<1>8. ASSUME NEW p \in Process, Breaks(p) PROVE RoutedInv'
  <2>1. CASE CallFails(p)
    BY <2>1 DEF CallFails, Fault
  <2>2. CASE Crash(p)
    BY <2>2 DEF Crash, Fault, Ownership!Drop
  <2> QED
    BY <1>8, <2>1, <2>2 DEF Breaks
<1>9. CASE UNCHANGED vars
  BY <1>9 DEF vars
<1> QED
  BY <1>1, <1>2, <1>3, <1>4, <1>5, <1>6, <1>7, <1>8, <1>9, NextSteps

\* A route appears under a claimed host only from its holder.
LEMMA NextAssert ==
  Restricted /\ TypeInv /\ LifeInv /\ HoldInv /\ SeenInv /\ RoutedInv /\ PhaseInv /\ FillInv /\
  HeldIsRecorded /\ AssertInv /\ [Next]_vars => AssertInv'
<1> SUFFICES ASSUME Restricted, TypeInv, LifeInv, HoldInv, SeenInv, RoutedInv, PhaseInv,
                    FillInv, HeldIsRecorded, AssertInv, [Next]_vars
             PROVE  AssertInv'
  OBVIOUS
<1> USE DEF LifeInv, PhaseInv, HoldInv, FillInv, HeldIsRecorded, AssertInv, TypeInv, Claiming,
            Met, Starting, IsOwn, Asserted, Record, Torns, Torn, Own, Absent
<1>1. ASSUME NEW p \in Process, Begins(p) PROVE AssertInv'
  <2>1. ASSUME NEW n \in Pid, Spawn(p, n) PROVE AssertInv'
    BY <2>1 DEF Spawn, RoutedInv
  <2>2. CASE Register(p)
    BY <2>2 DEF Register, Ownership!Take, Existing
  <2>3. CASE RefuseManifest(p)
    BY <2>3 DEF RefuseManifest
  <2> QED
    BY <1>1, <2>1, <2>2, <2>3 DEF Begins
<1>2. ASSUME NEW p \in Process, Cleans(p) PROVE AssertInv'
  BY <1>2 DEF Cleans, CleanupDone, Judge, Look, Existing, Readable
<1>3. ASSUME NEW p \in Process, Seeks(p) PROVE AssertInv'
  <2>1. ASSUME NEW n \in Name, ClaimName(p, n) PROVE AssertInv'
    BY <2>1 DEF ClaimName
  <2>2. CASE HostAvailable(p)
    <3>1. \A r \in routes[name[p]] : IsOwn(p, r) \/ FALSE \in IsOwnerAlive(r)
      BY <2>2 DEF HostAvailable
    <3>2. Verified = TRUE
      BY DEF Restricted
    <3>3. \A r \in routes[name[p]] : Alive(r.owner) => IsOwn(p, r)
      BY ONLY <3>1, <3>2, Answers DEF Alive
    <3>4. \A q \in Process \ {p} : Alive(q) => Own(q) \notin routes[name[p]]
      BY <2>2, <3>3 DEF HostAvailable
    <3> QED
      BY <2>2, <3>4 DEF HostAvailable, AssertInv
  <2>3. CASE RouteTaken(p)
    BY <2>3 DEF RouteTaken
  <2>4. CASE Read(p)
    BY <2>4 DEF Read, Readable
  <2>5. CASE RefuseName(p)
    BY <2>5 DEF RefuseName
  <2>6. CASE KeepHost(p)
    BY <2>6 DEF KeepHost, Claimed, IsOwn
  <2>7. CASE ClaimsHeld(p)
    BY <2>7 DEF ClaimsHeld
  <2> QED
    BY <1>3, <2>1, <2>2, <2>3, <2>4, <2>5, <2>6, <2>7 DEF Seeks
<1>4. ASSUME NEW p \in Process, Writes(p) PROVE AssertInv'
  <2>1. CASE Create(p)
    BY <2>1 DEF Create
  <2>2. CASE Fill(p)
    BY <2>2 DEF Fill, Claimed
  <2>3. CASE TakeOver(p)
    BY <2>3 DEF TakeOver, MayBeStale
  <2>4. CASE ReplaceClaim(p)
    BY <2>4 DEF ReplaceClaim
  <2> QED
    BY <1>4, <2>1, <2>2, <2>3, <2>4 DEF Writes
<1>5. ASSUME NEW p \in Process, Kills(p) PROVE AssertInv'
  <2>1. PICK q \in Process : Slays(p, q)
    BY <1>5, Killed
  <2> QED
    BY <2>1 DEF Slays
<1>6. ASSUME NEW p \in Process, Serves(p) PROVE AssertInv'
  BY <1>6 DEF Serves, Activate
<1>7. ASSUME NEW p \in Process, Stops(p) PROVE AssertInv'
  <2>1. CASE Stop(p)
    BY <2>1 DEF Stop, OthersIdle
  <2>2. ASSUME NEW n \in Name, Release(p, n) PROVE AssertInv'
    <3> SUFFICES ASSUME NEW h \in Hosts, NEW x \in Process, NEW q \in Process, x # q, Alive(q),
                        Own(q) \in routes[h], ~({x, q} \subseteq Overlap)
                 PROVE  /\ stage'[x] \in Asserted /\ name'[x] = h => h \in holds'[q]
                        /\ stage'[x] = "fill" /\ name'[x] = h => h \in kept'[q]
                        /\ h \in holds'[x] => h \in kept'[x] \union kept'[q]
      BY <2>2 DEF Release, AssertInv
    <3>1. stage[p] \in Stopping /\ stage'[p] \in Stopping
      BY <2>2 DEF Release, Releasing, Stopping
    <3>2. x # p /\ stage'[x] \in Asserted /\ q = p => FALSE
      BY <2>2, <3>1 DEF Release, PhaseInv, Busy, Met
    <3> QED
      BY <2>2, <3>1, <3>2 DEF Release, Stopping, AssertInv
  <2>3. CASE Drop(p)
    BY <2>3 DEF Drop
  <2>4. CASE Unroute(p)
    BY <2>4 DEF Unroute, IsOwn
  <2>5. CASE Unregister(p)
    BY <2>5 DEF Unregister, Ownership!Drop, Releasing
  <2>6. CASE Exit(p)
    BY <2>6 DEF Exit
  <2> QED
    BY <1>7, <2>1, <2>2, <2>3, <2>4, <2>5, <2>6 DEF Stops
<1>8. ASSUME NEW p \in Process, Breaks(p) PROVE AssertInv'
  BY <1>8 DEF Breaks, CallFails, Crash, Fault, Ownership!Drop
<1>9. CASE UNCHANGED vars
  BY <1>9 DEF vars
<1> QED
  BY <1>1, <1>2, <1>3, <1>4, <1>5, <1>6, <1>7, <1>8, <1>9, NextSteps

\* A second route for a host appears only under the exceptions of Exclusive.
LEMMA NextRoutes ==
  Restricted /\ TypeInv /\ LifeInv /\ HoldInv /\ SeenInv /\ RoutedInv /\ PhaseInv /\
  HeldIsRecorded /\ AssertInv /\ RoutesExclusive /\ [Next]_vars => RoutesExclusive'
<1> SUFFICES ASSUME Restricted, TypeInv, LifeInv, HoldInv, SeenInv, RoutedInv, PhaseInv,
                    HeldIsRecorded, AssertInv, RoutesExclusive, [Next]_vars
             PROVE  RoutesExclusive'
  OBVIOUS
<1> USE DEF LifeInv, PhaseInv, HoldInv, HeldIsRecorded, AssertInv, RoutesExclusive, TypeInv,
            Claiming, Leaving, Overtaken, Starting, Stopping, IsOwn, Record, Torns, Torn, Own,
            Absent
<1>1. ASSUME NEW p \in Process, Begins(p) PROVE RoutesExclusive'
  <2>1. ASSUME NEW n \in Pid, Spawn(p, n) PROVE RoutesExclusive'
    BY <2>1 DEF Spawn, RoutedInv, Met, RoutesExclusive
  <2>2. CASE Register(p)
    BY <2>2 DEF Register, Ownership!Take, Existing
  <2>3. CASE RefuseManifest(p)
    BY <2>3 DEF RefuseManifest
  <2> QED
    BY <1>1, <2>1, <2>2, <2>3 DEF Begins
<1>2. ASSUME NEW p \in Process, Cleans(p) PROVE RoutesExclusive'
  <2>1. CASE CleanupDone(p)
    BY <2>1 DEF CleanupDone, Existing
  <2>2. CASE Judge(p)
    BY <2>2 DEF Judge
  <2>3. ASSUME NEW n \in Name, Look(p, n) PROVE RoutesExclusive'
    <3>1. UNCHANGED <<pid, routes, kept>> /\ \A q \in Process : Leaving(q) => Leaving(q)'
      BY <2>3 DEF Look
    <3> HIDE DEF Leaving
    <3> QED
      BY <3>1
  <2> QED
    BY <1>2, <2>1, <2>2, <2>3 DEF Cleans
<1>3. ASSUME NEW p \in Process, Seeks(p) PROVE RoutesExclusive'
  <2>1. ASSUME NEW n \in Name, ClaimName(p, n) PROVE RoutesExclusive'
    BY <2>1 DEF ClaimName
  <2>2. CASE HostAvailable(p)
    BY <2>2 DEF HostAvailable, IsOwn
  <2>3. CASE RouteTaken(p)
    BY <2>3 DEF RouteTaken
  <2>4. CASE Read(p)
    BY <2>4 DEF Read, Readable
  <2>5. CASE RefuseName(p)
    BY <2>5 DEF RefuseName
  <2>6. CASE KeepHost(p)
    BY <2>6 DEF KeepHost, Claimed, IsOwn
  <2>7. CASE ClaimsHeld(p)
    BY <2>7 DEF ClaimsHeld
  <2> QED
    BY <1>3, <2>1, <2>2, <2>3, <2>4, <2>5, <2>6, <2>7 DEF Seeks
<1>4. ASSUME NEW p \in Process, Writes(p) PROVE RoutesExclusive'
  <2>1. CASE Create(p)
    BY <2>1 DEF Create
  <2>2. CASE Fill(p)
    BY <2>2 DEF Fill, Claimed
  <2>3. CASE TakeOver(p)
    BY <2>3 DEF TakeOver, MayBeStale
  <2>4. CASE ReplaceClaim(p)
    BY <2>4 DEF ReplaceClaim
  <2> QED
    BY <1>4, <2>1, <2>2, <2>3, <2>4 DEF Writes
<1>5. ASSUME NEW p \in Process, Kills(p) PROVE RoutesExclusive'
  <2>1. PICK q \in Process : Slays(p, q)
    BY <1>5, Killed
  <2> QED
    BY <2>1 DEF Slays
<1>6. ASSUME NEW p \in Process, Serves(p) PROVE RoutesExclusive'
  <2>1. PICK h \in Hosts : Activate(p, h)
    BY <1>6 DEF Serves
  <2>2. ASSUME NEW s \in routes[h], Alive(s.owner), s # Own(p)
        PROVE  Overtaken(p, s.owner) \/ h \in kept[p] \union kept[s.owner]
    <3> DEFINE q == s.owner
    <3>1. q \in Process /\ s = Own(q) /\ q # p
      BY <2>2 DEF RoutedInv
    <3>2. CASE ~({p, q} \subseteq Overlap)
      BY <2>1, <2>2, <3>1, <3>2 DEF Activate, AssertInv
    <3>3. CASE stage[q] = "running"
      BY <2>1, <2>2, <3>1, <3>3 DEF Activate, RoutedInv, HeldIsRecorded
    <3>4. CASE stage[q] # "running"
      BY <2>2, <3>1, <3>2, <3>4 DEF RoutedInv, Stages
    <3> QED
      BY <3>3, <3>4
  <2> QED
    BY <2>1, <2>2 DEF Activate, RoutesExclusive
<1>7. ASSUME NEW p \in Process, Stops(p) PROVE RoutesExclusive'
  <2>1. CASE Stop(p)
    BY <2>1 DEF Stop, OthersIdle
  <2>2. ASSUME NEW n \in Name, Release(p, n) PROVE RoutesExclusive'
    BY <2>2 DEF Release, Releasing
  <2>3. CASE Drop(p)
    BY <2>3 DEF Drop
  <2>4. CASE Unroute(p)
    BY <2>4 DEF Unroute, IsOwn
  <2>5. CASE Unregister(p)
    BY <2>5 DEF Unregister, Ownership!Drop, Releasing
  <2>6. CASE Exit(p)
    BY <2>6 DEF Exit
  <2> QED
    BY <1>7, <2>1, <2>2, <2>3, <2>4, <2>5, <2>6 DEF Stops
<1>8. ASSUME NEW p \in Process, Breaks(p) PROVE RoutesExclusive'
  <2>1. CASE CallFails(p)
    <3>1. UNCHANGED <<pid, routes, kept>> /\ \A q \in Process : Leaving(q) => Leaving(q)'
      BY <2>1 DEF CallFails, Fault
    <3> HIDE DEF Leaving
    <3> QED
      BY <3>1
  <2>2. CASE Crash(p)
    BY <2>2 DEF Crash, Fault, Ownership!Drop
  <2> QED
    BY <1>8, <2>1, <2>2 DEF Breaks
<1>9. CASE UNCHANGED vars
  BY <1>9 DEF vars
<1> QED
  BY <1>1, <1>2, <1>3, <1>4, <1>5, <1>6, <1>7, <1>8, <1>9, NextSteps

\* The initial states satisfy the invariant.
LEMMA InitInv == Restricted /\ Init => IInv
<1> SUFFICES ASSUME Restricted, Init PROVE IInv
  OBVIOUS
<1>1. TypeInv /\ LifeInv /\ PhaseInv /\ RegInv /\ HoldInv
  BY DEF Init, Ownership!Init, TypeInv, LifeInv, PhaseInv, RegInv, HoldInv, Stages, Starting,
     Stopping, Absent, Busy, Claiming
<1>2. RecordInv /\ SeenInv /\ ReplaceInv /\ FillInv /\ DropInv /\ HeldIsRecorded
  BY DEF Init, RecordInv, SeenInv, ReplaceInv, FillInv, DropInv, HeldIsRecorded, Absent
<1>3. RoutedInv /\ AssertInv /\ RoutesExclusive
  BY DEF Init, RoutedInv, AssertInv, RoutesExclusive
<1> QED
  BY <1>1, <1>2, <1>3 DEF IInv

\* Every step keeps it.
LEMMA NextInv == IInv /\ [Next]_vars => IInv'
<1> SUFFICES ASSUME IInv, [Next]_vars PROVE IInv'
  OBVIOUS
<1> USE DEF IInv
<1>1. Restricted'
  BY DEF Restricted
<1>2. TypeInv' /\ LifeInv' /\ PhaseInv' /\ RegInv' /\ HoldInv'
  BY NextType, NextLife, NextPhase, NextReg, NextHold
<1>3. RecordInv' /\ SeenInv' /\ ReplaceInv' /\ FillInv' /\ DropInv' /\ HeldIsRecorded'
  BY NextRecord, NextSeen, NextReplace, NextFill, NextDrop, NextHeldIsRecorded
<1>4. RoutedInv' /\ AssertInv' /\ RoutesExclusive'
  BY NextRouted, NextAssert, NextRoutes
<1> QED
  BY <1>1, <1>2, <1>3, <1>4

\* The invariant holds in every restricted instance.
LEMMA Invariant == Restricted /\ Spec => []IInv
  BY InitInv, NextInv, PTL DEF Spec

\* The variables have their types, in every instance: a claim file is absent,
\* not written yet, or one record.
THEOREM TypeCorrect == Spec => []TypeOK
<1> DEFINE FaultInv == faults \in 0..MaxFaults
<1>1. FaultInv /\ [Next]_vars => FaultInv'
  <2> SUFFICES ASSUME FaultInv, [Next]_vars
               PROVE  faults' = faults \/ (faults < MaxFaults /\ faults' = faults + 1)
    BY FaultsAssumption
  <2>1. ASSUME NEW p \in Process, Breaks(p) PROVE faults < MaxFaults /\ faults' = faults + 1
    BY <2>1 DEF Breaks, CallFails, Crash, Fault
  <2>2. ASSUME NEW p \in Process, ~Breaks(p), Kills(p) \/ Serves(p) \/ Stops(p)
        PROVE  faults' = faults
    BY <2>2 DEF Kills, KillRouteOwner, KillClaimant, Serves, Activate, Stops, Stop, Release, Drop,
       Unroute, Unregister, Exit
  <2>3. ASSUME NEW p \in Process, Begins(p) \/ Cleans(p) \/ Seeks(p) \/ Writes(p)
        PROVE  faults' = faults
    BY <2>3 DEF Begins, Spawn, Register, RefuseManifest, Cleans, CleanupDone, Judge, Look, Seeks,
       ClaimName, HostAvailable, RouteTaken, Read, RefuseName, KeepHost, ClaimsHeld, Writes, Create,
       Fill, TakeOver, ReplaceClaim
  <2> QED
    BY <2>1, <2>2, <2>3, NextSteps DEF vars
<1>2. Init => FaultInv /\ TypeInv /\ LifeInv /\ HoldInv
  BY FaultsAssumption DEF Init, Ownership!Init, TypeInv, LifeInv, HoldInv, Stages, Starting,
     Stopping, Absent, Claiming
<1>3. TypeInv /\ LifeInv /\ HoldInv /\ [Next]_vars => (TypeInv /\ LifeInv /\ HoldInv)'
  BY NextType, NextLife, NextHold
<1>4. FaultInv /\ TypeInv => TypeOK
  <2> SUFFICES ASSUME FaultInv, TypeInv PROVE TypeOK
    OBVIOUS
  <2>1. ASSUME NEW n \in Name
        PROVE  file[n] = Absent \/ \E r \in Record \union Torns : file[n] = {r}
    BY DEF TypeInv, Absent
  <2>2. ASSUME NEW p \in Process PROVE seen[p] = Absent \/ \E r \in Record : seen[p] = {r}
    BY DEF TypeInv, Absent
  <2> QED
    BY <2>1, <2>2 DEF TypeInv, TypeOK, Torns
<1> QED
  BY <1>2, <1>3, <1>4, <1>1, PTL DEF Spec

\* Whatever a running stack holds is named by a claim file of its own: no
\* cleanup, takeover or release of another stack removes or replaces it.
THEOREM HeldClaimsRecorded == Restricted /\ Spec => []HeldIsRecorded
<1>1. IInv => HeldIsRecorded
  BY DEF IInv
<1> QED
  BY <1>1, Invariant, PTL

\* A hostname or fixed port belongs to one running stack at a time, and a
\* hostname is routed to one, although no lock orders the exclusive create,
\* the stale check and the removal.
THEOREM NamesExclusive == Restricted /\ Spec => []Exclusive
<1>1. IInv => Exclusive
  <2> SUFFICES ASSUME IInv PROVE Exclusive
    OBVIOUS
  <2>1. ASSUME NEW p \in Process, NEW q \in Process, p # q,
               NEW n \in holds[p] \cap holds[q], n \notin kept[p] \union kept[q]
        PROVE  FALSE
    <3>1. file[n] = {Own(p)} /\ file[n] = {Own(q)}
      BY <2>1 DEF IInv, HeldIsRecorded
    <3>2. Own(p).owner = p /\ Own(q).owner = q
      BY DEF Own
    <3> QED
      BY <2>1, <3>1, <3>2
  <2> QED
    BY <2>1 DEF IInv, Exclusive
<1> QED
  BY <1>1, Invariant, PTL

\* Nothing but a kill ends in "killed".
LEMMA OnlyKillsKill ==
  ASSUME stage \in [Process -> Stages], [Next]_vars, NEW q \in Process,
         stage[q] # "killed", stage'[q] = "killed"
  PROVE  \E p \in Process : Kills(p)
<1>1. ASSUME NEW p \in Process, Begins(p) PROVE FALSE
  BY <1>1 DEF Begins, Register, RefuseManifest, Spawn
<1>2. ASSUME NEW p \in Process, Cleans(p) PROVE FALSE
  BY <1>2 DEF Cleans, CleanupDone, Judge, Look
<1>3. ASSUME NEW p \in Process, Seeks(p) PROVE FALSE
  BY <1>3 DEF Seeks, ClaimName, HostAvailable, RouteTaken, Read, RefuseName, KeepHost,
     ClaimsHeld, Claimed
<1>4. ASSUME NEW p \in Process, Writes(p) PROVE FALSE
  BY <1>4 DEF Writes, Create, Fill, TakeOver, ReplaceClaim, Claimed
<1>5. ASSUME NEW p \in Process, Serves(p) PROVE FALSE
  BY <1>5 DEF Serves, Activate
<1>6. ASSUME NEW p \in Process, Stops(p) PROVE FALSE
  BY <1>6 DEF Stops, Stop, Release, Releasing, Drop, Unroute, Unregister, Exit
<1>7. ASSUME NEW p \in Process, Breaks(p) PROVE FALSE
  BY <1>7 DEF Breaks, CallFails, Crash, Fault
<1> QED
  BY <1>1, <1>2, <1>3, <1>4, <1>5, <1>6, <1>7, NextSteps DEF vars

\* A start gives up a name it looked at for a reason, or for a fault.
LEMMA GivesUp ==
  ASSUME stage \in [Process -> Stages], [Next]_vars, NEW q \in Process,
         stage[q] \in {"assert", "decide"},
         stage'[q] = "releaseHosts", faults \in Nat, faults' = faults
  PROVE  RouteTaken(q) \/ RefuseName(q)
<1>1. ASSUME NEW p \in Process, Begins(p) PROVE RouteTaken(q) \/ RefuseName(q)
  BY <1>1 DEF Begins, Register, RefuseManifest, Spawn
<1>2. ASSUME NEW p \in Process, Cleans(p) PROVE RouteTaken(q) \/ RefuseName(q)
  BY <1>2 DEF Cleans, CleanupDone, Judge, Look
<1>3. ASSUME NEW p \in Process, Seeks(p) PROVE RouteTaken(q) \/ RefuseName(q)
  <2>1. RouteTaken(p) \/ RefuseName(p) => p = q
    BY <1>3 DEF RouteTaken, RefuseName
  <2>2. ~(RouteTaken(p) \/ RefuseName(p)) => FALSE
    BY <1>3 DEF Seeks, ClaimName, HostAvailable, Read, KeepHost, ClaimsHeld, Claimed
  <2> QED
    BY <2>1, <2>2
<1>4. ASSUME NEW p \in Process, Writes(p) PROVE RouteTaken(q) \/ RefuseName(q)
  BY <1>4 DEF Writes, Create, Fill, TakeOver, ReplaceClaim, Claimed
<1>5. ASSUME NEW p \in Process, Serves(p) PROVE RouteTaken(q) \/ RefuseName(q)
  BY <1>5 DEF Serves, Activate
<1>6. ASSUME NEW p \in Process, Stops(p) PROVE RouteTaken(q) \/ RefuseName(q)
  BY <1>6 DEF Stops, Stop, Release, Releasing, Drop, Unroute, Unregister, Exit
<1>7. ASSUME NEW p \in Process, Breaks(p) PROVE RouteTaken(q) \/ RefuseName(q)
  BY <1>7 DEF Breaks, CallFails, Crash, Fault
<1>8. ASSUME NEW p \in Process, Kills(p) PROVE RouteTaken(q) \/ RefuseName(q)
  BY <1>8 DEF Kills, KillRouteOwner, KillClaimant, Killing
<1> QED
  BY <1>1, <1>2, <1>3, <1>4, <1>5, <1>6, <1>7, <1>8, NextSteps DEF vars

\* Zombie cleanup kills a leftover process and never a stack that is still
\* registered as running.
THEOREM RunningStacksSurvive == Restricted /\ Spec => NoRunningStackKilled
<1>1. ASSUME IInv, [Next]_vars, NEW q \in Process, stage[q] # "killed", stage'[q] = "killed"
      PROVE  registered[q] = {}
  <2> USE DEF IInv
  <2>1. PICK p \in Process : Kills(p)
    BY <1>1, OnlyKillsKill DEF TypeInv
  <2>2. PICK x \in Process : Slays(p, x)
    BY <1>1, <2>1, Killed
  <2>3. x = q
    BY <1>1, <2>2 DEF Slays, TypeInv
  <2>4. Manifest[p] \in registered[p] /\ registered[q] \subseteq {Manifest[p]} /\ p # q
    BY <1>1, <2>2, <2>3 DEF Slays, RegInv, Starting
  <2> QED
    BY <1>1, <2>4 DEF RegInv
<1>2. IInv /\ [Next]_vars =>
        [\A p \in Process : stage[p] # "killed" /\ stage'[p] = "killed" => registered[p] = {}]_vars
  BY <1>1
<1> QED
  BY <1>2, Invariant, PTL DEF Spec, NoRunningStackKilled

\* The claims of exited processes can be reused: a start is refused a name only
\* while another running stack wants it, or a dead one left a claim for it
\* under the PID of the one that starts.
THEOREM ExitedClaimsFree == Restricted /\ Spec => ExitedClaimsReused
<1>1. ASSUME IInv, NEW p \in Process, RouteTaken(p)
      PROVE  \E q \in Process \ {p} : Alive(q) /\ name[p] \in Wants[q]
  <2> USE DEF IInv
  <2>1. PICK r \in routes[name[p]] : ~IsOwn(p, r) /\ TRUE \in IsOwnerAlive(r)
    BY <1>1 DEF RouteTaken
  <2>2. Alive(r.owner)
    BY <1>1, <2>1, Answers DEF Restricted
  <2>3. name[p] \in Hosts
    BY <1>1 DEF RouteTaken, HoldInv
  <2>4. r.owner \in Process /\ r.pid = pid[r.owner] /\ name[p] \in Wants[r.owner]
    BY <1>1, <2>2, <2>3 DEF RoutedInv, TypeInv, Record
  <2> QED
    BY <2>1, <2>2, <2>4 DEF IsOwn
<1>2. ASSUME IInv, NEW p \in Process, RefuseName(p)
      PROVE  \/ \E q \in Process \ {p} : Alive(q) /\ name[p] \in Wants[q]
             \/ \E r \in seen[p] : r.pid = pid[p]
  <2> USE DEF IInv
  <2>1. PICK r \in seen[p] : MayBeFresh(p, r)
    BY <1>2 DEF RefuseName
  <2>2. CASE r.pid # pid[p]
    <3>1. Alive(r.owner)
      BY <1>2, <2>1, <2>2, Answers DEF MayBeFresh, Restricted
    <3>2. r.owner \in Process \ {p} /\ name[p] \in Wants[r.owner]
      BY <1>2 DEF RefuseName, SeenInv, TypeInv, Record
    <3> QED
      BY <3>1, <3>2
  <2> QED
    BY <2>2
<1>3. ASSUME IInv, [Next]_vars, NEW p \in Process, stage[p] \in {"assert", "decide"},
             stage'[p] = "releaseHosts", faults' = faults
      PROVE  \/ \E q \in Process \ {p} : Alive(q) /\ name[p] \in Wants[q]
             \/ \E r \in seen[p] : r.pid = pid[p]
  BY <1>1, <1>2, <1>3, GivesUp DEF IInv, TypeInv
<1>4. IInv /\ [Next]_vars =>
        [\A p \in Process :
           stage[p] \in {"assert", "decide"} /\ stage'[p] = "releaseHosts" /\ faults' = faults =>
             \/ \E q \in Process \ {p} : Alive(q) /\ name[p] \in Wants[q]
             \/ \E r \in seen[p] : r.pid = pid[p]]_vars
  BY <1>3
<1> QED
  BY <1>4, Invariant, PTL DEF Spec, ExitedClaimsReused

===============================================================================
