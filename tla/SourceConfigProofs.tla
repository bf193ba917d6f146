------------------------- MODULE SourceConfigProofs -------------------------
(***************************************************************************)
(* Proofs about SourceConfig, for every set of sources and every number of *)
(* edits, faults and restarts.                                             *)
(***************************************************************************)
EXTENDS SourceConfig, FiniteSetTheorems, TLAPS

\* The awaited stop() is that of one source, which is out of _drivers.
Awaiting ==
  /\ \A s, t \in busy : s = t
  /\ \A s \in busy : drivers[s] = 0

\* An open connection belongs to a registered driver or to one that is being
\* stopped; a source whose failed start leaks is excepted.
Owned ==
  \A s \in Sources \ Leaky : \A c \in conns :
    c[1] = s => s \in busy \/ drivers[s] # 0

\* What was applied is no younger than what was pulled, what was pulled no
\* younger than Main's configuration, and a version is that of one
\* configuration.
Versions ==
  /\ appliedRev <= pulled.version
  /\ pulled.version <= main.version
  /\ pulled.version = main.version => pulled = main

\* How far apply_config has come with the drivers.
Progress ==
  /\ phase \in {"sleep", "pull"} /\ appliedRev = pulled.version =>
       \A s \in Registered : drivers[s] = pulled.rev[s]
  /\ phase = "stopping" => left = Registered \ Wanted
  /\ phase = "restarting" =>
       /\ left \subseteq Wanted
       /\ \A s \in Registered : s \in left \/ drivers[s] = pulled.rev[s]

\* The inductive invariant.
SourceInv == TypeOK /\ Awaiting /\ Owned /\ OneConnection /\ Versions /\ Progress

\* An edit gives Main's configuration the next version.
LEMMA EditType ==
  ASSUME TypeOK, NEW s \in Sources, Edit(s)
  PROVE  main' \in Config /\ main'.version = main.version + 1
<1>1. PICK r \in {0, main.version + 1} :
        main' = [version |-> main.version + 1, rev |-> [main.rev EXCEPT ![s] = r]]
  BY DEF Edit
<1>2. main.version \in Rev /\ main.version < MaxEdits /\ main.rev \in [Sources -> Rev]
  BY DEF TypeOK, Config, Edit
<1>3. main.version + 1 \in Rev /\ r \in Rev
  BY <1>2, SourceConfigAssumption DEF Rev
<1>4. QED
  BY <1>1, <1>2, <1>3 DEF Config

\* The process starts without drivers and without a configuration.
LEMMA SourceInitially == Init => SourceInv
<1> SUFFICES ASSUME Init PROVE SourceInv
  OBVIOUS
<1>1. 0 \in Rev /\ 0 \in 0..MaxFaults /\ 1 \in 1..MaxStarts
  BY SourceConfigAssumption DEF Rev
<1>2. TypeOK
  BY <1>1 DEF Init, TypeOK, Config, Phases, NotWanted, NoDrivers
<1>3. QED
  BY <1>2 DEF Init, SourceInv, Awaiting, Owned, OneConnection, Versions, Progress,
     Registered, NoDrivers, NotWanted

\* Every step keeps the types.
LEMMA SourceTypeStep == TypeOK /\ [Next]_vars => TypeOK'
<1> SUFFICES ASSUME TypeOK, [Next]_vars PROVE TypeOK'
  OBVIOUS
<1> USE DEF TypeOK, loop
<1>1. CASE Pull \/ Debounce \/ Skip \/ StopLoopEnds \/ ApplyEnds
  BY <1>1 DEF Pull, Debounce, Skip, StopLoopEnds, ApplyEnds, FinishedRev, Config,
     Phases, Wanted
<1>2. CASE ApplyBegins
  BY <1>2 DEF ApplyBegins, Phases, Registered
<1>3. ASSUME NEW s \in Sources, StopUnwanted(s) \/ KeepDriver(s) \/ StopOld(s)
      PROVE  TypeOK'
  <2>1. 0 \in Rev
    BY SourceConfigAssumption DEF Rev
  <2>2. QED
    BY <1>3, <2>1 DEF StopUnwanted, KeepDriver, StopOld, StopBegins
<1>4. ASSUME NEW s \in Sources, StopEnds(s) PROVE TypeOK'
  BY <1>4 DEF StopEnds
<1>5. ASSUME NEW s \in Sources, StartSucceeds(s) PROVE TypeOK'
  <2>1. pulled.rev[s] \in Rev
    BY DEF Config
  <2>2. QED
    BY <1>5, <2>1 DEF StartSucceeds
<1>6. ASSUME NEW s \in Sources, StartFails(s) PROVE TypeOK'
  <2>1. pulled.rev[s] \in Rev /\ faults + 1 \in 0..MaxFaults
    BY <1>6, SourceConfigAssumption DEF Config, StartFails
  <2>2. QED
    BY <1>6, <2>1 DEF StartFails
<1>7. ASSUME NEW s \in Sources, Edit(s) PROVE TypeOK'
  BY <1>7, EditType DEF Edit
<1>8. CASE PullFails
  BY <1>8, SourceConfigAssumption DEF PullFails
<1>9. CASE DebouncePasses \/ UNCHANGED vars
  BY <1>9 DEF DebouncePasses, vars
<1>10. CASE Restart
  <2>1. NoDrivers \in [Sources -> Rev] /\ starts + 1 \in 1..MaxStarts
    BY <1>10, SourceConfigAssumption DEF NoDrivers, Restart, Rev
  <2>2. QED
    BY <1>10, <2>1 DEF Restart, Phases
<1>11. QED
  BY <1>1, <1>2, <1>3, <1>4, <1>5, <1>6, <1>7, <1>8, <1>9, <1>10
     DEF Next, ConfigLoop

\* Connections follow the drivers: a stop is awaited before anything else is
\* started, and only a start opens one.
LEMMA ConnectionStep ==
  SourceInv /\ [Next]_vars => (Awaiting /\ Owned /\ OneConnection)'
<1> SUFFICES ASSUME SourceInv, [Next]_vars
             PROVE  (Awaiting /\ Owned /\ OneConnection)'
  OBVIOUS
<1> USE DEF SourceInv, Awaiting, Owned, OneConnection, loop
<1>1. ASSUME UNCHANGED <<busy, drivers, conns>>
      PROVE  (Awaiting /\ Owned /\ OneConnection)'
  BY <1>1
<1>2. CASE \/ Pull \/ Debounce \/ Skip \/ ApplyBegins \/ StopLoopEnds \/ ApplyEnds
           \/ PullFails \/ DebouncePasses \/ UNCHANGED vars
  BY <1>1, <1>2 DEF Pull, Debounce, Skip, ApplyBegins, StopLoopEnds, ApplyEnds,
     PullFails, DebouncePasses, vars
<1>3. ASSUME NEW s \in Sources, Edit(s) \/ KeepDriver(s)
      PROVE  (Awaiting /\ Owned /\ OneConnection)'
  BY <1>1, <1>3 DEF Edit, KeepDriver
<1>4. ASSUME NEW s \in Sources, StopUnwanted(s) \/ StopOld(s)
      PROVE  (Awaiting /\ Owned /\ OneConnection)'
  <2>1. busy = {} /\ StopBegins(s)
    BY <1>4 DEF StopUnwanted, StopOld
  <2>2. /\ drivers'[s] = 0
        /\ \A t \in Sources : t # s => drivers'[t] = drivers[t]
    BY <2>1 DEF StopBegins, TypeOK
  <2>3. QED
    BY <2>1, <2>2 DEF StopBegins
<1>5. ASSUME NEW s \in Sources, StopEnds(s)
      PROVE  (Awaiting /\ Owned /\ OneConnection)'
  BY <1>5 DEF StopEnds
<1>6. ASSUME NEW s \in Sources, StartSucceeds(s)
      PROVE  (Awaiting /\ Owned /\ OneConnection)'
  <2>1. /\ busy = {} /\ busy' = {}
        /\ drivers[s] = 0 /\ pulled.rev[s] \in Rev
        /\ s \in left
        /\ conns' = conns \cup {<<s, pulled.rev[s]>>}
    BY <1>6 DEF StartSucceeds, Registered, TypeOK, Config
  <2>2. /\ drivers'[s] = pulled.rev[s]
        /\ \A t \in Sources : t # s => drivers'[t] = drivers[t]
    BY <1>6 DEF StartSucceeds, TypeOK
  <2>3. pulled.rev[s] # 0
    BY <1>6, <2>1 DEF StartSucceeds, Progress, Wanted
  <2>4. QED
    BY <2>1, <2>2, <2>3
<1>7. ASSUME NEW s \in Sources, StartFails(s)
      PROVE  (Awaiting /\ Owned /\ OneConnection)'
  <2>1. UNCHANGED <<busy, drivers>>
    BY <1>7 DEF StartFails
  <2>2. \A c \in conns' \ conns : c[1] = s /\ s \in Leaky
    BY <1>7 DEF StartFails
  <2>3. \A t \in Sources \ Leaky : \A c \in conns' : c[1] = t => c \in conns
    BY <2>2
  <2>4. QED
    BY <2>1, <2>3
<1>8. CASE Restart
  BY <1>8 DEF Restart
<1>9. QED
  BY <1>2, <1>3, <1>4, <1>5, <1>6, <1>7, <1>8 DEF Next, ConfigLoop

\* Versions only grow, and each names one configuration.
LEMMA VersionsStep == SourceInv /\ [Next]_vars => Versions'
<1> SUFFICES ASSUME SourceInv, [Next]_vars PROVE Versions'
  OBVIOUS
<1> USE DEF SourceInv, Versions, loop
<1>1. /\ main.version \in Int /\ pulled.version \in Int /\ appliedRev \in Int
      /\ 0 <= pulled.version
  BY DEF TypeOK, Config, Rev
<1>2. ASSUME NEW s \in Sources, Edit(s) PROVE Versions'
  BY <1>1, <1>2, EditType DEF Edit
<1>3. CASE Pull
  BY <1>1, <1>3 DEF Pull
<1>4. CASE ApplyEnds
  BY <1>1, <1>4 DEF ApplyEnds, FinishedRev
<1>5. CASE Restart
  BY <1>1, <1>5 DEF Restart
<1>6. CASE \/ Debounce \/ Skip \/ ApplyBegins \/ StopLoopEnds
           \/ PullFails \/ DebouncePasses \/ UNCHANGED vars
  BY <1>6 DEF Debounce, Skip, ApplyBegins, StopLoopEnds, PullFails, DebouncePasses, vars
<1>7. ASSUME NEW s \in Sources,
             \/ StopUnwanted(s) \/ KeepDriver(s) \/ StopOld(s) \/ StopEnds(s)
             \/ StartSucceeds(s) \/ StartFails(s)
      PROVE  Versions'
  BY <1>7 DEF StopUnwanted, KeepDriver, StopOld, StopEnds, StartSucceeds, StartFails
<1>8. QED
  BY <1>2, <1>3, <1>4, <1>5, <1>6, <1>7 DEF Next, ConfigLoop

\* The two loops of apply_config leave no driver of another configuration.
LEMMA ProgressStep == SourceInv /\ [Next]_vars => Progress'
<1> SUFFICES ASSUME SourceInv, [Next]_vars PROVE Progress'
  OBVIOUS
<1> USE DEF SourceInv, Progress, Registered, Wanted, loop
<1>1. /\ main.version \in Int /\ pulled.version \in Int /\ appliedRev \in Int
      /\ 0 <= pulled.version
  BY DEF TypeOK, Config, Rev
<1>2. CASE Pull
  <2>1. phase' = "pull" /\ pulled' = main /\ UNCHANGED <<appliedRev, drivers>>
    BY <1>2 DEF Pull
  <2>2. appliedRev = main.version => pulled = main
    BY <1>1 DEF Versions
  <2>3. QED
    BY <1>2, <2>1, <2>2 DEF Pull
<1>3. CASE Debounce \/ Skip
  BY <1>3 DEF Debounce, Skip
<1>4. CASE ApplyBegins
  BY <1>4 DEF ApplyBegins
<1>5. CASE StopLoopEnds
  BY <1>5 DEF StopLoopEnds
<1>6. CASE ApplyEnds
  BY <1>6 DEF ApplyEnds, FinishedRev
<1>7. CASE Restart
  BY <1>1, <1>7 DEF Restart
<1>8. CASE PullFails \/ DebouncePasses \/ UNCHANGED vars
  BY <1>8 DEF PullFails, DebouncePasses, vars
<1>9. ASSUME NEW s \in Sources, StopUnwanted(s) \/ StopOld(s) PROVE Progress'
  <2>1. /\ drivers'[s] = 0
        /\ \A t \in Sources : t # s => drivers'[t] = drivers[t]
    BY <1>9 DEF StopUnwanted, StopOld, StopBegins, TypeOK
  <2>2. CASE StopUnwanted(s)
    BY <2>1, <2>2 DEF StopUnwanted
  <2>3. CASE StopOld(s)
    BY <2>1, <2>3 DEF StopOld
  <2>4. QED
    BY <1>9, <2>2, <2>3
<1>10. ASSUME NEW s \in Sources, KeepDriver(s) PROVE Progress'
  BY <1>10 DEF KeepDriver, Stale
<1>11. ASSUME NEW s \in Sources, StartSucceeds(s) PROVE Progress'
  <2>1. /\ drivers'[s] = pulled.rev[s]
        /\ \A t \in Sources : t # s => drivers'[t] = drivers[t]
    BY <1>11 DEF StartSucceeds, TypeOK
  <2>2. QED
    BY <1>11, <2>1 DEF StartSucceeds
<1>12. ASSUME NEW s \in Sources, StartFails(s) PROVE Progress'
  BY <1>12 DEF StartFails
<1>13. ASSUME NEW s \in Sources, Edit(s) \/ StopEnds(s) PROVE Progress'
  BY <1>13 DEF Edit, StopEnds
<1>14. QED
  BY <1>2, <1>3, <1>4, <1>5, <1>6, <1>7, <1>8, <1>9, <1>10, <1>11, <1>12, <1>13
     DEF Next, ConfigLoop

\* The invariant holds of every behaviour.
LEMMA SourceAlways == Spec => []SourceInv
<1>1. SourceInv /\ [Next]_vars => SourceInv'
  BY SourceTypeStep, ConnectionStep, VersionsStep, ProgressStep DEF SourceInv
<1>2. QED
  BY <1>1, SourceInitially, PTL DEF Spec

(***************************************************************************)
(* The type invariant of the configuration loop.                           *)
(***************************************************************************)
THEOREM SourceTyped == Spec => []TypeOK
<1>1. SourceInv => TypeOK
  BY DEF SourceInv
<1>2. QED
  BY <1>1, SourceAlways, PTL

(***************************************************************************)
(* A source has one open connection at most, however its configuration     *)
(* comes and goes: stop() is awaited before start().                       *)
(***************************************************************************)
THEOREM NeverTwoConnections == Spec => []OneConnection
<1>1. SourceInv => OneConnection
  BY DEF SourceInv
<1>2. QED
  BY <1>1, SourceAlways, PTL

(***************************************************************************)
(* Between two runs of apply_config the drivers are those of the           *)
(* configuration applied last.                                             *)
(***************************************************************************)
THEOREM DriversFollowConfig == Spec => []ConfigInForce
<1>1. SourceInv => ConfigInForce
  BY DEF SourceInv, Progress, ConfigInForce
<1>2. QED
  BY <1>1, SourceAlways, PTL

(***************************************************************************)
(* Only a source whose configuration differs from the one being applied    *)
(* loses its driver.                                                       *)
(***************************************************************************)
THEOREM OthersUndisturbed == Spec => Undisturbed
<1>1. ASSUME SourceInv, [Next]_vars, NEW s \in Registered, drivers'[s] # drivers[s]
      PROVE  drivers[s] # pulled.rev[s] \/ starts' # starts
  <2> USE DEF SourceInv, Registered, Wanted, loop
  <2>1. CASE \/ Pull \/ Debounce \/ Skip \/ ApplyBegins \/ StopLoopEnds \/ ApplyEnds
             \/ PullFails \/ DebouncePasses \/ UNCHANGED vars
    BY <1>1, <2>1 DEF Pull, Debounce, Skip, ApplyBegins, StopLoopEnds, ApplyEnds,
       PullFails, DebouncePasses, vars
  <2>2. ASSUME NEW t \in Sources,
               Edit(t) \/ KeepDriver(t) \/ StopEnds(t) \/ StartFails(t)
        PROVE  FALSE
    BY <1>1, <2>2 DEF Edit, KeepDriver, StopEnds, StartFails
  <2>3. ASSUME NEW t \in Sources, StartSucceeds(t) PROVE FALSE
    BY <1>1, <2>3 DEF StartSucceeds, TypeOK
  <2>4. ASSUME NEW t \in Sources, StopUnwanted(t) \/ StopOld(t)
        PROVE  drivers[s] # pulled.rev[s]
    <3>1. s = t
      BY <1>1, <2>4 DEF StopUnwanted, StopOld, StopBegins, TypeOK
    <3>2. CASE StopUnwanted(t)
      BY <1>1, <3>1, <3>2 DEF StopUnwanted, Progress
    <3>3. CASE StopOld(t)
      BY <3>1, <3>3 DEF StopOld, Stale
    <3>4. QED
      BY <2>4, <3>2, <3>3
  <2>5. CASE Restart
    BY <1>1, <2>5, SourceConfigAssumption DEF Restart, TypeOK
  <2>6. QED
    BY <1>1, <2>1, <2>2, <2>3, <2>4, <2>5 DEF Next, ConfigLoop
<1>2. SourceInv /\ [Next]_vars =>
        [\A s \in Registered : drivers'[s] # drivers[s] =>
           drivers[s] # pulled.rev[s] \/ starts' # starts]_vars
  BY <1>1
<1>3. QED
  BY <1>2, SourceAlways, PTL DEF Spec, Undisturbed

-----------------------------------------------------------------------------
(* apply_config comes to an end: what it has left to do gets less with each *)
(* of its steps, whatever Main edits meanwhile.                            *)

Applying == phase \in {"stopping", "restarting"}

\* An upper bound of the steps apply_config has yet to take: an unwanted driver is
\* stopped and awaited; a source is visited, and its old driver stopped and awaited.
Work ==
  IF phase = "stopping"
  THEN 3 * Cardinality(Sources) + 2 * Cardinality(left) + Cardinality(busy) + 1
  ELSE 2 * Cardinality(left \cap Registered) + Cardinality(left) + Cardinality(busy)

\* The steps of apply_config.
ApplyStep ==
  \/ StopLoopEnds \/ ApplyEnds
  \/ \E s \in Sources :
       \/ StopUnwanted(s) \/ KeepDriver(s) \/ StopOld(s) \/ StopEnds(s)
       \/ StartSucceeds(s) \/ StartFails(s)

\* The sets Work counts.
LEMMA Counts ==
  ASSUME IsFiniteSet(Sources), SourceInv
  PROVE  /\ IsFiniteSet(left) /\ Cardinality(left) \in 0..Cardinality(Sources)
         /\ IsFiniteSet(left \cap Registered)
         /\ Cardinality(left \cap Registered) \in 0..Cardinality(Sources)
         /\ IsFiniteSet(busy) /\ Cardinality(busy) \in 0..1
         /\ busy = {} => Cardinality(busy) = 0
         /\ \A s \in busy : busy = {s} /\ Cardinality(busy) = 1
         /\ Cardinality(Sources) \in Nat
<1>1. left \subseteq Sources /\ left \cap Registered \subseteq Sources
      /\ \A s, t \in busy : s = t
  BY DEF SourceInv, TypeOK, Awaiting
<1>2. Cardinality(Sources) \in Nat
  BY FS_CardinalityType
<1>3. ASSUME NEW T \in SUBSET Sources
      PROVE  IsFiniteSet(T) /\ Cardinality(T) \in 0..Cardinality(Sources)
  <2>1. IsFiniteSet(T) /\ Cardinality(T) <= Cardinality(Sources)
    BY FS_Subset
  <2>2. Cardinality(T) \in Nat
    BY <2>1, FS_CardinalityType
  <2>. QED
    BY <1>2, <2>1, <2>2
<1>4. busy = {} => IsFiniteSet(busy) /\ Cardinality(busy) = 0
  BY FS_EmptySet
<1>5. \A s \in busy : busy = {s}
  BY <1>1
<1>6. \A s \in busy : IsFiniteSet(busy) /\ Cardinality(busy) = 1
  BY <1>5, FS_Singleton
<1>7. IsFiniteSet(busy) /\ Cardinality(busy) \in 0..1
  BY <1>4, <1>6
<1>. QED
  BY <1>1, <1>2, <1>3, <1>4, <1>5, <1>6, <1>7

LEMMA WorkIsBounded ==
  ASSUME IsFiniteSet(Sources), SourceInv
  PROVE  Work \in 0..5 * Cardinality(Sources) + 2
<1>. DEFINE n == Cardinality(Sources)
            l == Cardinality(left)
            r == Cardinality(left \cap Registered)
            b == Cardinality(busy)
<1>1. n \in Nat /\ l \in 0..n /\ r \in 0..n /\ b \in 0..1
  BY Counts
<1>2. Work = IF phase = "stopping" THEN 3 * n + 2 * l + b + 1 ELSE 2 * r + l + b
  BY DEF Work
<1>. HIDE DEF n, l, r, b
<1>3. Work \in 0..5 * n + 2
  BY <1>1, <1>2
<1>. QED
  BY <1>3 DEF n

LEMMA SecondLoopIsLess ==
  ASSUME NEW n \in Nat, NEW l \in 0..n, NEW b \in 0..1, NEW m \in 0..n, NEW r \in 0..n
  PROVE  2 * r + m + b < 3 * n + 2 * l + b + 1
OBVIOUS

LEMMA OneVisitLess ==
  ASSUME NEW l \in Int, NEW b \in Int, NEW r \in Int, NEW q \in Int, q <= r
  PROVE  2 * q + (l - 1) + b < 2 * r + l + b
OBVIOUS

LEMMA WorkGoesDown ==
  ASSUME IsFiniteSet(Sources), SourceInv, SourceInv', Applying, ApplyStep
  PROVE  ~Applying' \/ Work' < Work
<1>. DEFINE n == Cardinality(Sources)
            l == Cardinality(left)
            r == Cardinality(left \cap Registered)
            b == Cardinality(busy)
<1>1. n \in Nat /\ l \in 0..n /\ r \in 0..n /\ b \in 0..1
  BY Counts
<1>2. l' \in 0..n /\ r' \in 0..n /\ b' \in 0..1
  <2>1. /\ Cardinality(left') \in 0..Cardinality(Sources)
        /\ Cardinality(left' \cap Registered') \in 0..Cardinality(Sources)
        /\ IsFiniteSet(left') /\ IsFiniteSet(left' \cap Registered')
    <3>1. left' \subseteq Sources /\ left' \cap Registered' \subseteq Sources
      BY DEF SourceInv, TypeOK
    <3>2. IsFiniteSet(left') /\ IsFiniteSet(left' \cap Registered')
      BY <3>1, FS_Subset
    <3>3. Cardinality(left') <= n /\ Cardinality(left' \cap Registered') <= n
      BY <3>1, FS_Subset
    <3>4. Cardinality(left') \in Nat /\ Cardinality(left' \cap Registered') \in Nat
      BY <3>2, FS_CardinalityType
    <3>. HIDE DEF n
    <3>5. Cardinality(left') \in 0..n /\ Cardinality(left' \cap Registered') \in 0..n
      BY <1>1, <3>3, <3>4
    <3>. QED
      BY <3>2, <3>5 DEF n
  <2>2. Cardinality(busy') \in 0..1
    <3>1. \A s, t \in busy' : s = t
      BY DEF SourceInv, Awaiting
    <3>2. CASE busy' = {}
      BY <3>2, FS_EmptySet
    <3>3. CASE busy' # {}
      <4>1. PICK s \in busy' : busy' = {s}
        BY <3>1, <3>3
      <4>2. Cardinality({s}) = 1
        BY FS_Singleton
      <4>. QED
        BY <4>1, <4>2
    <3>. QED
      BY <3>2, <3>3
  <2>. QED
    BY <2>1, <2>2
<1>3. Work = IF phase = "stopping" THEN 3 * n + 2 * l + b + 1 ELSE 2 * r + l + b
  BY DEF Work
<1>4. Work' = IF phase' = "stopping" THEN 3 * n + 2 * l' + b' + 1 ELSE 2 * r' + l' + b'
  BY DEF Work
<1>5. ASSUME NEW s \in left, left' = left \ {s} PROVE l' = l - 1
  BY <1>5, Counts, FS_RemoveElement
<1>6. busy = {} => b = 0
  BY Counts
<1>7. \A s : busy' = {s} => b' = 1
  BY FS_Singleton
<1>8. CASE StopLoopEnds
  <2>1. phase = "stopping" /\ phase' = "restarting" /\ b' = b
    BY <1>8 DEF StopLoopEnds
  <2>. HIDE DEF n, l, r, b
  <2>2. 2 * r' + l' + b < 3 * n + 2 * l + b + 1
    BY <1>1, <1>2, SecondLoopIsLess
  <2>. QED
    BY <1>3, <1>4, <2>1, <2>2
<1>9. CASE ApplyEnds
  BY <1>9 DEF ApplyEnds, Applying
<1>10. ASSUME NEW s \in Sources, StopUnwanted(s) PROVE Work' < Work
  <2>1. phase = "stopping" /\ phase' = phase /\ l' = l - 1 /\ b = 0 /\ b' = 1
    BY <1>5, <1>6, <1>7, <1>10 DEF StopUnwanted, StopBegins
  <2>. HIDE DEF n, l, r, b
  <2>. QED
    BY <1>1, <1>2, <1>3, <1>4, <2>1
<1>11. ASSUME NEW s \in Sources, KeepDriver(s) PROVE Work' < Work
  <2>1. phase = "restarting" /\ phase' = phase /\ l' = l - 1 /\ b' = b
    BY <1>5, <1>11 DEF KeepDriver
  <2>2. r' <= r
    <3>1. left' \cap Registered' \subseteq left \cap Registered
      BY <1>11 DEF KeepDriver, Registered
    <3>2. IsFiniteSet(left \cap Registered)
      BY Counts
    <3>. QED
      BY <3>1, <3>2, FS_Subset
  <2>. HIDE DEF n, l, r, b
  <2>3. r \in Int /\ r' \in Int /\ l \in Int /\ b \in Int
    BY <1>1, <1>2
  <2>4. 2 * r' + (l - 1) + b < 2 * r + l + b
    BY <2>2, <2>3, OneVisitLess
  <2>. QED
    BY <1>3, <1>4, <2>1, <2>4
<1>12. ASSUME NEW s \in Sources, StopOld(s) PROVE Work' < Work
  <2>1. phase = "restarting" /\ phase' = phase /\ l' = l /\ b = 0 /\ b' = 1
    BY <1>6, <1>7, <1>12 DEF StopOld, StopBegins, loop
  <2>2. r' = r - 1
    <3>1. left' \cap Registered' = (left \cap Registered) \ {s} /\ s \in left \cap Registered
      BY <1>12 DEF StopOld, StopBegins, Registered, loop, SourceInv, TypeOK
    <3>2. IsFiniteSet(left \cap Registered)
      BY Counts
    <3>. QED
      BY <3>1, <3>2, FS_RemoveElement
  <2>. HIDE DEF n, l, r, b
  <2>. QED
    BY <1>1, <1>2, <1>3, <1>4, <2>1, <2>2
<1>13. ASSUME NEW s \in Sources, StopEnds(s) PROVE Work' < Work
  <2>1. phase' = phase /\ l' = l /\ r' = r
    BY <1>13 DEF StopEnds, loop, Registered
  <2>2. b = 1 /\ b' = 0
    BY <1>13, Counts, FS_EmptySet DEF StopEnds
  <2>. HIDE DEF n, l, r, b
  <2>. QED
    BY <1>1, <1>2, <1>3, <1>4, <2>1, <2>2
<1>14. ASSUME NEW s \in Sources, StartSucceeds(s) \/ StartFails(s) PROVE Work' < Work
  <2>1. phase = "restarting" /\ phase' = phase /\ l' = l - 1 /\ b' = b
    BY <1>5, <1>14 DEF StartSucceeds, StartFails
  <2>2. left' \cap Registered' = left \cap Registered
    BY <1>14 DEF StartSucceeds, StartFails, Registered, SourceInv, TypeOK
  <2>3. r' = r
    BY <2>2
  <2>. HIDE DEF n, l, r, b
  <2>. QED
    BY <1>1, <1>2, <1>3, <1>4, <2>1, <2>3
<1>. QED
  BY <1>8, <1>9, <1>10, <1>11, <1>12, <1>13, <1>14 DEF ApplyStep

\* While a configuration is being applied, the rest of the system leaves it alone.
LEMMA ApplyAlone ==
  ASSUME Applying, Applying', [Next]_vars
  PROVE  ApplyStep \/ UNCHANGED <<phase, left, busy, drivers>>
BY DEF Applying, ApplyStep, Next, ConfigLoop, vars, loop, Pull, Debounce, Skip, ApplyBegins,
       PullFails, DebouncePasses, Restart, Edit

(***************************************************************************)
(* apply_config always comes nearer to its end, in a bounded number of     *)
(* steps, though Main edits the configuration and starts fail meanwhile.   *)
(***************************************************************************)
THEOREM ApplyIsBounded ==
  ASSUME IsFiniteSet(Sources)
  PROVE  Spec =>
           /\ [](Work \in 0..5 * Cardinality(Sources) + 2)
           /\ [][Applying /\ Applying' =>
                   Work' < Work \/ UNCHANGED <<phase, left, busy, drivers>>]_vars
<1>1. SourceInv => Work \in 0..5 * Cardinality(Sources) + 2
  BY WorkIsBounded
<1>2. SourceInv /\ SourceInv' /\ [Next]_vars =>
        [Applying /\ Applying' =>
           Work' < Work \/ UNCHANGED <<phase, left, busy, drivers>>]_vars
  BY WorkGoesDown, ApplyAlone
<1>. QED
  BY <1>1, <1>2, SourceAlways, PTL DEF Spec

(***************************************************************************)
(* So it ends: as long as its awaits return, what it has left to do        *)
(* becomes less, from every number, or the run is over.                    *)
(***************************************************************************)
THEOREM ApplyGoesOn ==
  ASSUME IsFiniteSet(Sources), NEW n \in Nat
  PROVE  Spec /\ []([]Applying => <><<ApplyStep>>_vars) =>
           [](Applying /\ Work = n => <>(~Applying \/ Work < n))
<1>. DEFINE There == Applying /\ Work = n
            Past == ~Applying \/ Work < n
<1>1. SourceInv /\ SourceInv' /\ There /\ [Next]_vars => There' \/ Past'
  <2>. SUFFICES ASSUME SourceInv, SourceInv', There, [Next]_vars, Applying' PROVE There' \/ Past'
    OBVIOUS
  <2>1. CASE ApplyStep
    BY <2>1, WorkGoesDown
  <2>2. CASE UNCHANGED <<phase, left, busy, drivers>>
    <3>1. Work' = Work
      BY <2>2 DEF Work, Registered
    <3>. QED
      BY <3>1
  <2>. QED
    BY <2>1, <2>2, ApplyAlone
<1>2. SourceInv /\ SourceInv' /\ There /\ <<ApplyStep>>_vars => Past'
  BY WorkGoesDown
<1>3. There => Applying
  OBVIOUS
<1>. HIDE DEF There, Past
<1>4. Spec /\ []([]Applying => <><<ApplyStep>>_vars) => [](There => <>Past)
  BY <1>1, <1>2, <1>3, SourceAlways, PTL DEF Spec
<1>. QED
  BY <1>4, PTL DEF There, Past
=============================================================================
