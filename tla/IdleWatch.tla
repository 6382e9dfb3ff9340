------------------------------- MODULE IdleWatch -------------------------------
(***************************************************************************)
(* The idle timeout (services/idle_timeout.go, devtools/tracker.go): the   *)
(* watch looks at the access log and, less often, at the activity tracker  *)
(* and the chat sessions, and lets the stack loop shut the stack down      *)
(* after Timeout ticks without activity.  Pages come and go, Caddy routes  *)
(* requests, chat turns run, and a reload turns the timeout off and on.    *)
(***************************************************************************)
EXTENDS Naturals

CONSTANTS
  Timeout,     \* in ticks
  StatEvery,   \* ticks between two looks at the access log
  CheckEvery,  \* ticks between two looks at the tracker
  MaxPages     \* pages open at a time

ASSUME IdleWatchAssumption ==
  /\ {Timeout, StatEvery, CheckEvery, MaxPages} \subseteq Nat \ {0}
  /\ StatEvery <= Timeout /\ CheckEvery <= Timeout

Kinds == {"page", "traffic", "turn", "set", "start"}

VARIABLES
  idleFor,   \* ticks since the tracker's lastActivity, up to Timeout + 1
  open,      \* activeCount: pages with a connection
  unseen,    \* is the access log newer than lastModTime?
  chat,      \* the chat session: "none", "starting" (not registered), "idle", "turn"
  enabled,   \* is the timeout set?
  watch,     \* run: "off", "wait", or "checked" between its two reads
  stat,      \* ticks since the last look at the access log
  check,     \* ticks since the last look at the tracker
  expired,   \* is a timeout in the expired channel?
  ended,     \* the stack loop has begun to shut down
  ago        \* observer: ticks since the last activity of each kind

tracker == <<idleFor, open>>
timers == <<stat, check>>
watchVars == <<tracker, unseen, chat, enabled, watch, timers, expired, ended, ago>>

Ticks == 0..Timeout + 1

\* Types of the state; a watch that let the timeout expire has ended.
WatchTypeOK ==
  /\ idleFor \in Ticks
  /\ open \in 0..MaxPages
  /\ unseen \in BOOLEAN
  /\ chat \in {"none", "starting", "idle", "turn"}
  /\ enabled \in BOOLEAN
  /\ watch \in {"off", "wait", "checked"}
  /\ stat \in 0..StatEvery /\ check \in 0..CheckEvery
  /\ expired \in BOOLEAN /\ ended \in BOOLEAN
  /\ ago \in [Kinds -> Ticks]
  /\ watch # "off" => enabled

WatchInit ==
  /\ idleFor = 0 /\ open = 0 /\ unseen = FALSE /\ chat = "none"
  /\ enabled = TRUE /\ watch = "wait" /\ stat = 0 /\ check = 0
  /\ expired = FALSE /\ ended = FALSE
  /\ ago = [k \in Kinds |-> 0]

Later(n) == IF n > Timeout THEN n ELSE n + 1

Seen(kind) == ago' = [ago EXCEPT ![kind] = 0]

-----------------------------------------------------------------------------
\* Time passes, unless a timer of the watch is due.
Tick ==
  /\ ~ended
  /\ watch = "wait" => stat < StatEvery /\ check < CheckEvery
  /\ watch # "checked"
  /\ idleFor' = Later(idleFor)
  /\ ago' = [k \in Kinds |->
       IF (k = "page" /\ open > 0) \/ (k = "turn" /\ chat = "turn")
         THEN 0
         ELSE Later(ago[k])]
  /\ stat' = IF watch = "wait" THEN stat + 1 ELSE stat
  /\ check' = IF watch = "wait" THEN check + 1 ELSE check
  /\ UNCHANGED <<open, unseen, chat, enabled, watch, expired, ended>>

\* A page connects: the request is recorded, and the connection counted.
OpenPage ==
  /\ ~ended /\ open < MaxPages
  /\ open' = open + 1 /\ idleFor' = 0
  /\ Seen("page")
  /\ UNCHANGED <<unseen, chat, enabled, watch, timers, expired, ended>>

\* Faulty variant: only a new connection is recorded.
ClosePageSilently ==
  /\ ~ended /\ open > 0
  /\ open' = open - 1
  /\ Seen("page")
  /\ UNCHANGED <<idleFor, unseen, chat, enabled, watch, timers, expired, ended>>

\* DecrementActive: the last connection to end restarts the countdown.
ClosePage ==
  /\ ~ended /\ open > 0
  /\ open' = open - 1
  /\ idleFor' = IF open' = 0 THEN 0 ELSE idleFor
  /\ Seen("page")
  /\ UNCHANGED <<unseen, chat, enabled, watch, timers, expired, ended>>

\* Caddy logs a request to one of the stack's services.
Request ==
  /\ ~ended
  /\ unseen' = TRUE
  /\ Seen("traffic")
  /\ UNCHANGED <<tracker, chat, enabled, watch, timers, expired, ended>>

\* A page asks for a chat session; it is registered when its process answered.
StartChat ==
  /\ ~ended /\ chat = "none"
  /\ chat' = "starting" /\ idleFor' = 0
  /\ Seen("start")
  /\ UNCHANGED <<open, unseen, enabled, watch, timers, expired, ended>>

Register ==
  /\ ~ended /\ chat = "starting"
  /\ chat' = "idle"
  /\ UNCHANGED <<tracker, unseen, enabled, watch, timers, expired, ended, ago>>

\* A message goes through the connection of a page, which may leave.
BeginTurn ==
  /\ ~ended /\ chat = "idle" /\ open > 0
  /\ chat' = "turn"
  /\ Seen("turn")
  /\ UNCHANGED <<tracker, unseen, enabled, watch, timers, expired, ended>>

EndTurn ==
  /\ ~ended /\ chat = "turn"
  /\ chat' = "idle"
  /\ Seen("turn")
  /\ UNCHANGED <<tracker, unseen, enabled, watch, timers, expired, ended>>

-----------------------------------------------------------------------------
(* idleWatch *)

\* Faulty variant: the time of the newest request is not kept.
StatAgain ==
  /\ watch = "wait" /\ stat = StatEvery
  /\ stat' = 0
  /\ idleFor' = IF unseen THEN 0 ELSE idleFor
  /\ UNCHANGED <<open, unseen, chat, enabled, watch, check, expired, ended, ago>>

\* The access log is newer than it was: that is activity.
Stat ==
  /\ watch = "wait" /\ stat = StatEvery
  /\ stat' = 0
  /\ unseen' = FALSE
  /\ idleFor' = IF unseen THEN 0 ELSE idleFor
  /\ UNCHANGED <<open, chat, enabled, watch, check, expired, ended, ago>>

IsIdle == open = 0 /\ idleFor > Timeout

CheckIdle ==
  /\ watch = "wait" /\ check = CheckEvery
  /\ check' = 0
  /\ watch' = IF IsIdle THEN "checked" ELSE "wait"
  /\ UNCHANGED <<tracker, unseen, chat, enabled, stat, expired, ended, ago>>

\* HasActiveChatSessions, which knows the registered sessions; then the stack
\* loop hears of it and the watch ends.
CheckChat ==
  /\ watch = "checked"
  /\ IF chat = "turn"
       THEN watch' = "wait" /\ UNCHANGED expired
       ELSE watch' = "off" /\ expired' = TRUE
  /\ UNCHANGED <<tracker, unseen, chat, enabled, timers, ended, ago>>

\* A reload removes the timeout, and waits for the watch to end.
TurnOff ==
  /\ ~ended /\ enabled /\ watch # "checked"
  /\ enabled' = FALSE /\ watch' = "off"
  /\ UNCHANGED <<tracker, unseen, chat, timers, expired, ended, ago>>

\* A reload sets it: the access log is emptied and the idle period starts over.
TurnOn ==
  /\ ~ended /\ ~enabled
  /\ enabled' = TRUE /\ watch' = "wait"
  /\ idleFor' = 0 /\ unseen' = FALSE /\ stat' = 0 /\ check' = 0
  /\ Seen("set")
  /\ UNCHANGED <<open, chat, expired, ended>>

\* The stack loop.
Shutdown ==
  /\ expired /\ ~ended
  /\ ended' = TRUE /\ expired' = FALSE
  /\ UNCHANGED <<tracker, unseen, chat, enabled, watch, timers, ago>>

WatchNext ==
  \/ Tick \/ OpenPage \/ ClosePage \/ Request
  \/ StartChat \/ Register \/ BeginTurn \/ EndTurn
  \/ Stat \/ CheckIdle \/ CheckChat \/ TurnOff \/ TurnOn \/ Shutdown

WatchSpec == WatchInit /\ [][WatchNext]_watchVars

\* Time passes, Go's timers fire and its select loops run.
FairWatchSpec ==
  WatchSpec /\ WF_watchVars(Tick) /\ WF_watchVars(Stat) /\ SF_watchVars(CheckIdle) /\ WF_watchVars(CheckChat)
       /\ WF_watchVars(Shutdown)

-----------------------------------------------------------------------------
(* Properties *)

\* The watch finds the stack idle and no chat turn in progress.
FindsIdle == watch = "wait" /\ watch' = "checked" /\ chat # "turn"

\* The watch takes the stack for idle only a full timeout after the last page
\* left and after the timeout was set: neither the reload of a page nor of the
\* manifest ends a stack that was quiet before (set's comment, F5 protection).
ReloadRestartsCountdown ==
  [][FindsIdle => ago["page"] > Timeout /\ ago["set"] > Timeout]_watchVars

\* A stack that nobody uses any more is shut down.
Quiet == enabled /\ \A k \in Kinds : ago[k] > Timeout
UnusedStackStops == <>[]Quiet => <>ended

(* Read in the documentation, and not what the code does: see README.md.    *)

\* A chat turn restarts the countdown (the guide's list of activities).
TurnRestartsCountdown == [][FindsIdle => ago["turn"] > Timeout]_watchVars

\* So does a request through Caddy.
TrafficRestartsCountdown == [][FindsIdle => ago["traffic"] > Timeout]_watchVars

\* The stack is not idle while a chat session starts.
StartingIsProtected == [][FindsIdle => chat # "starting"]_watchVars
=============================================================================
