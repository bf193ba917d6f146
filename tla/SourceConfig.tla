--------------------------- MODULE SourceConfig ---------------------------
(***************************************************************************)
(* How a configuration of Main becomes running drivers: the debounce of    *)
(* EdgeAgent._config_loop (scheduler.py) and SourceManager.apply_config    *)
(* and _stop_source (manager.py).  Main's edits and the network run        *)
(* concurrently with the loop, and every await of apply_config (a driver's *)
(* stop, a driver's start) lets the rest of the edge look at _drivers.     *)
(*                                                                         *)
(* A configuration is its config_version and, for every source, the        *)
(* config_rev it carries (0: the source is not in it).                     *)
(***************************************************************************)
EXTENDS Integers, FiniteSets

CONSTANTS
  Sources,    \* source codes with a driver of their own
  Leaky,      \* those whose failed start leaves a connection open
  MaxEdits,   \* bound: edits Main makes
  MaxFaults,  \* bound: starts that fail, pulls that fail
  MaxStarts   \* bound: starts of the process

ASSUME SourceConfigAssumption ==
  /\ Leaky \subseteq Sources
  /\ MaxEdits \in Nat /\ MaxFaults \in Nat /\ MaxStarts \in Nat \ {0}

VARIABLES
  main,        \* Main's configuration
  pulled,      \* cfg, the reply of pull_config being handled
  pendingRev,  \* EdgeAgent._pending_rev
  settled,     \* config_debounce_s have passed since _pending_rev_since
  appliedRev,  \* applied_rev of _config_loop
  kvRev,       \* SQLite kv["config_rev"]
  phase,       \* where _config_loop is
  left,        \* the sources a loop of apply_config has yet to visit
  busy,        \* the sources whose stop() or start() is awaited, at most one
  drivers,     \* _drivers with _source_rev: the rev of a registered driver
  conns,       \* connections and tasks of drivers that are open
  faults, starts

loop == <<pulled, pendingRev, settled, appliedRev, phase, left>>
vars == <<main, loop, kvRev, busy, drivers, conns, faults, starts>>

Rev == 0..MaxEdits
Config == [version : Rev, rev : [Sources -> Rev]]
Phases == {"sleep", "pull", "stopping", "restarting"}
NotWanted == [s \in Sources |-> 0]
NoDrivers == [s \in Sources |-> 0]

TypeOK ==
  /\ main \in Config
  /\ pulled \in Config
  /\ pendingRev \in Rev \cup {-1}
  /\ settled \in BOOLEAN
  /\ appliedRev \in Rev \cup {-1}
  /\ kvRev \in Rev
  /\ phase \in Phases
  /\ left \subseteq Sources
  /\ busy \subseteq Sources
  /\ drivers \in [Sources -> Rev]
  /\ conns \subseteq Sources \X Rev
  /\ faults \in 0..MaxFaults
  /\ starts \in 1..MaxStarts

Init ==
  /\ main = [version |-> 0, rev |-> NotWanted]
  /\ pulled = [version |-> 0, rev |-> NotWanted]
  /\ pendingRev = -1 /\ settled = FALSE /\ appliedRev = -1 /\ kvRev = 0
  /\ phase = "sleep" /\ left = {} /\ busy = {}
  /\ drivers = NoDrivers /\ conns = {}
  /\ faults = 0 /\ starts = 1

Registered == {s \in Sources : drivers[s] # 0}
Wanted == {s \in Sources : pulled.rev[s] # 0}

-----------------------------------------------------------------------------
(* Main (external): an edit gives the configuration a new version, and the *)
(* source it touches that version as its rev.                              *)

Edit(s) ==
  /\ main.version < MaxEdits
  /\ \E r \in {0, main.version + 1} :
       main' = [version |-> main.version + 1, rev |-> [main.rev EXCEPT ![s] = r]]
  /\ UNCHANGED <<loop, kvRev, busy, drivers, conns, faults, starts>>

-----------------------------------------------------------------------------
(* _config_loop.                                                           *)

\* pull_config returns Main's configuration of the moment.
Pull ==
  /\ phase = "sleep"
  /\ pulled' = main
  /\ phase' = "pull"
  /\ UNCHANGED <<main, pendingRev, settled, appliedRev, kvRev, left, busy, drivers,
                 conns, faults, starts>>

\* pull_config fails: the loop sleeps and polls again.
PullFails ==
  /\ phase = "sleep"
  /\ faults < MaxFaults
  /\ faults' = faults + 1
  /\ UNCHANGED <<main, loop, kvRev, busy, drivers, conns, starts>>

\* config_debounce_s pass since _pending_rev_since.
DebouncePasses ==
  /\ pendingRev # -1
  /\ ~settled
  /\ settled' = TRUE
  /\ UNCHANGED <<main, pulled, pendingRev, appliedRev, kvRev, phase, left, busy,
                 drivers, conns, faults, starts>>

\* A version other than the pending one starts the debounce anew.
Debounce ==
  /\ phase = "pull"
  /\ pulled.version # pendingRev
  /\ pendingRev' = pulled.version
  /\ settled' = FALSE
  /\ phase' = "sleep"
  /\ UNCHANGED <<main, pulled, appliedRev, kvRev, left, busy, drivers, conns,
                 faults, starts>>

\* Nothing to apply: applied already, or not settled yet.
Skip ==
  /\ phase = "pull"
  /\ pulled.version = pendingRev
  /\ pulled.version = appliedRev \/ ~settled
  /\ phase' = "sleep"
  /\ UNCHANGED <<main, pulled, pendingRev, settled, appliedRev, kvRev, left, busy,
                 drivers, conns, faults, starts>>

\* apply_config begins: first the drivers nobody wants any more.
ApplyBegins ==
  /\ phase = "pull"
  /\ pulled.version = pendingRev
  /\ pulled.version # appliedRev
  /\ settled
  /\ phase' = "stopping"
  /\ left' = Registered \ Wanted
  /\ UNCHANGED <<main, pulled, pendingRev, settled, appliedRev, kvRev, busy, drivers,
                 conns, faults, starts>>

-----------------------------------------------------------------------------
(* apply_config.                                                           *)

\* Mutant: a driver is restarted whatever its rev.
AlwaysStale(s) == TRUE

\* Mutant: a registered driver is kept, whatever its rev.
KeepsAny(s) == drivers[s] = 0

\* The driver of s does not run the rev of the configuration.
Stale(s) == drivers[s] # pulled.rev[s]

\* Mutant: the driver leaves _drivers, but its stop() is not awaited: the
\* coroutine goes on while the connection is open.
StopForgotten(s) ==
  /\ drivers' = [drivers EXCEPT ![s] = 0]
  /\ UNCHANGED <<busy, conns>>

\* _stop_source takes the driver out of _drivers and awaits its stop().
StopBegins(s) ==
  /\ drivers' = [drivers EXCEPT ![s] = 0]
  /\ busy' = {s}
  /\ UNCHANGED conns

\* First loop: a driver that is not wanted.
StopUnwanted(s) ==
  /\ phase = "stopping"
  /\ busy = {}
  /\ s \in left
  /\ StopBegins(s)
  /\ left' = left \ {s}
  /\ UNCHANGED <<main, pulled, pendingRev, settled, appliedRev, kvRev, phase, faults,
                 starts>>

StopLoopEnds ==
  /\ phase = "stopping"
  /\ busy = {}
  /\ left = {}
  /\ phase' = "restarting"
  /\ left' = Wanted
  /\ UNCHANGED <<main, pulled, pendingRev, settled, appliedRev, kvRev, busy, drivers,
                 conns, faults, starts>>

\* Second loop: a source whose driver runs the right rev is left alone.
KeepDriver(s) ==
  /\ phase = "restarting"
  /\ busy = {}
  /\ s \in left
  /\ ~Stale(s)
  /\ left' = left \ {s}
  /\ UNCHANGED <<main, pulled, pendingRev, settled, appliedRev, kvRev, phase, busy,
                 drivers, conns, faults, starts>>

\* Second loop: a driver of another rev is stopped first.
StopOld(s) ==
  /\ phase = "restarting"
  /\ busy = {}
  /\ s \in left \cap Registered
  /\ Stale(s)
  /\ StopBegins(s)
  /\ UNCHANGED <<main, loop, kvRev, faults, starts>>

\* The awaited stop() of s returns: its connection is closed.
StopEnds(s) ==
  /\ s \in busy
  /\ busy' = {}
  /\ conns' = {c \in conns : c[1] # s}
  /\ UNCHANGED <<main, loop, kvRev, drivers, faults, starts>>

\* _build and start() succeed: the driver is registered.
StartSucceeds(s) ==
  /\ phase = "restarting"
  /\ busy = {}
  /\ s \in left \ Registered
  /\ drivers' = [drivers EXCEPT ![s] = pulled.rev[s]]
  /\ conns' = conns \cup {<<s, pulled.rev[s]>>}
  /\ left' = left \ {s}
  /\ UNCHANGED <<main, pulled, pendingRev, settled, appliedRev, kvRev, phase, busy,
                 faults, starts>>

\* start() raises: the source is logged and given up; a start that had
\* connected before it raised (opcua.py:41-45) leaves its connection open.
StartFails(s) ==
  /\ phase = "restarting"
  /\ busy = {}
  /\ s \in left \ Registered
  /\ faults < MaxFaults
  /\ faults' = faults + 1
  /\ left' = left \ {s}
  /\ conns' = IF s \in Leaky THEN conns \cup {<<s, pulled.rev[s]>>} ELSE conns
  /\ UNCHANGED <<main, pulled, pendingRev, settled, appliedRev, kvRev, phase, busy,
                 drivers, starts>>

\* Mutant: the version recorded is the one Main holds by then.
MarksCurrent == main.version

\* Mutant: the version recorded is the one that was applied before.
MarksPrevious == appliedRev

\* The version a finished apply_config has applied.
FinishedRev == pulled.version

\* apply_config returns: the loop records the version and sleeps.
ApplyEnds ==
  /\ phase = "restarting"
  /\ busy = {}
  /\ left = {}
  /\ kvRev' = FinishedRev
  /\ appliedRev' = FinishedRev
  /\ phase' = "sleep"
  /\ UNCHANGED <<main, pulled, pendingRev, settled, left, busy, drivers, conns,
                 faults, starts>>

\* The process is restarted: only config_rev survives, in kv.
Restart ==
  /\ starts < MaxStarts
  /\ starts' = starts + 1
  /\ pendingRev' = -1 /\ settled' = FALSE /\ appliedRev' = -1
  /\ phase' = "sleep" /\ left' = {} /\ busy' = {}
  /\ drivers' = NoDrivers /\ conns' = {}
  /\ UNCHANGED <<main, pulled, kvRev, faults>>

-----------------------------------------------------------------------------
ConfigLoop ==
  \/ Pull \/ Debounce \/ Skip \/ ApplyBegins \/ StopLoopEnds \/ ApplyEnds
  \/ \E s \in Sources :
       StopUnwanted(s) \/ KeepDriver(s) \/ StopOld(s) \/ StopEnds(s)

Next ==
  \/ ConfigLoop \/ PullFails \/ DebouncePasses \/ Restart
  \/ \E s \in Sources : Edit(s) \/ StartSucceeds(s) \/ StartFails(s)

Spec == Init /\ [][Next]_vars

\* The loop runs, its clock advances, and the start of a source that is tried
\* again and again succeeds in the end.
FairSpec ==
  /\ Spec
  /\ WF_vars(ConfigLoop)
  /\ WF_vars(DebouncePasses)
  /\ \A s \in Sources : SF_vars(StartSucceeds(s))
  /\ \A s \in Sources : WF_vars(StartSucceeds(s) \/ StartFails(s))

-----------------------------------------------------------------------------
(* Properties.                                                             *)

(***************************************************************************)
(* While no configuration is being applied, every driver that runs belongs *)
(* to the configuration applied last, at that configuration's rev          *)
(* (manager.py:106-155, scheduler.py:171-174).                             *)
(***************************************************************************)
ConfigInForce ==
  phase = "sleep" /\ appliedRev # -1 /\ appliedRev = pulled.version =>
    \A s \in Registered : drivers[s] = pulled.rev[s]

(***************************************************************************)
(* A source has at most one open connection: the new driver is not started *)
(* before the old one has stopped, though other sources are edited,        *)
(* started and stopped in between (two masters on one serial line).  A     *)
(* source whose failed start leaves its connection open is excepted.       *)
(***************************************************************************)
OneConnection ==
  \A s \in Sources \ Leaky : \A c, d \in conns : c[1] = s /\ d[1] = s => c = d

(***************************************************************************)
(* A driver whose source has not changed is not disturbed by the edit of   *)
(* another source (manager.py:7-8, "sửa một nguồn không làm gián đoạn các  *)
(* nguồn khác"); only a restart of the process takes it away.              *)
(***************************************************************************)
Undisturbed ==
  [][\A s \in Registered : drivers'[s] # drivers[s] =>
       drivers[s] # pulled.rev[s] \/ starts' # starts]_vars

(***************************************************************************)
(* A configuration that stands still is applied in the end, though pulls   *)
(* fail, it was edited while an older one was being applied, or the        *)
(* process restarts: no driver of an older one is left.                    *)
(***************************************************************************)
ConfigArrives ==
  <>[](appliedRev = main.version /\ \A s \in Registered : drivers[s] = main.rev[s])

(***************************************************************************)
(* Claim of kien-truc-he-thong-giam-sat-iot.html:537: every part connects  *)
(* again by itself, without a manual restart.  So a source of a            *)
(* configuration that stands still runs in the end, when starting it works *)
(* often enough.                                                           *)
(***************************************************************************)
SourceRecovers == <>[](\A s \in Sources : main.rev[s] # 0 => drivers[s] # 0)
=============================================================================
