---------------------------- MODULE DaemonProofs ----------------------------
(***************************************************************************)
(* TypeOK and OneServes of Daemon, for any number of commands and faults,  *)
(* typed at any time, the one in the middle of the other or not; and, for  *)
(* commands and faults that come one after the other (Paced), what its     *)
(* other invariants say of the PID file.                                   *)
(*                                                                         *)
(* A daemon that serves holds both of its ports, and a port is taken only  *)
(* when nobody has it: that is PortsAreHeld.  It needs to know which       *)
(* process can be where: only a front end binds, only a core server starts *)
(* a daemon (PlacesOK).                                                    *)
(*                                                                         *)
(* What the PID file does for a stop is PacedInv.  A process of a daemon   *)
(* that stands, not signalled, is named by the file, or somebody is about  *)
(* to signal it, or the file is yet to be created (Accounted).  It stays   *)
(* so because the file that is unlinked is the one that was read (Names):  *)
(* a process that could interfere would be one of an older daemon, gone    *)
(* wrong, and only one goes wrong at a time (FaultsInTurn), or one of the  *)
(* newest, whose file is its own.  A core server that is cut short before  *)
(* it writes its number leaves an empty file when nothing else stands      *)
(* (Empty), and a stop then signals nobody, whatever number it takes.  A   *)
(* process cut short before its kill() is beyond help: then it is Lost,    *)
(* and nothing more is claimed.                                            *)
(***************************************************************************)
EXTENDS Daemon, TLAPS

PlacesOK ==
    \A a \in Actor :
        /\ pc[a] \in Starting => a[2] = "core"
        /\ pc[a] = "bind" => a[2] \in Front
        /\ pc[a] = "serving" => a[2] \in Member
        /\ pc[a] \in {"read", "write"} => fd[a] \in Cmd

PortsAreHeld ==
    \A c \in Cmd, f \in Front : pc[<<c, f>>] = "serving" => port[f] = c

PortInv == TypeOK /\ PlacesOK /\ PortsAreHeld

\* What a number or a process is.
LEMMA Numbers ==
    /\ Nobody \notin Cmd /\ Lingering \notin Cmd /\ Nobody # Lingering
    /\ \A c \in Cmd, m \in Member \cup {"command"} : <<c, m>> \in Actor
    /\ \A a \in Actor : /\ a[1] \in Cmd /\ a[2] \in Member \cup {"command"}
                        /\ a = <<a[1], a[2]>>
BY DaemonAssumption DEF Cmd, Nobody, Lingering, Actor

LEMMA InitPort == Init => PortInv
<1> SUFFICES ASSUME Init PROVE PortInv
  OBVIOUS
<1>1. TypeOK
  <2>1. /\ path \in Cmd \cup {Nobody} /\ content \in [Cmd -> Cmd \cup {Nobody}]
        /\ port \in [Front -> Cmd \cup {Nobody, Lingering}]
        /\ fd \in [Actor -> Cmd \cup {Nobody}] /\ got \in [Actor -> Cmd \cup {Nobody}]
    BY DEF Init
  <2>2. /\ pc \in [Actor -> Place] /\ signalled \subseteq Actor /\ spoiled \in BOOLEAN
        /\ struck \subseteq Window /\ fault \in [Actor -> {"none", "failed", "cut"}]
        /\ said \in {"nothing", "stopped", "not running", "already running", "failed"}
    BY DEF Init, Place
  <2>3. typed \in Seq({"start", "stop", "restart"}) /\ Len(typed) <= MaxCmd
    BY DaemonAssumption DEF Init
  <2>4. QED
    BY <2>1, <2>2, <2>3 DEF TypeOK
<1>2. \A a \in Actor : pc[a] = "new"
  BY DEF Init
<1>3. PlacesOK
  BY <1>2 DEF PlacesOK, Starting
<1>4. PortsAreHeld
  BY <1>2, Numbers DEF PortsAreHeld, Member
<1>5. QED
  BY <1>1, <1>3, <1>4 DEF PortInv

\* Where a process goes.
LEMMA Moves ==
    ASSUME NEW a \in Actor, NEW place \in Place, PortInv, Goto(a, place)
    PROVE  /\ pc' \in [Actor -> Place]
           /\ pc'[a] = place
           /\ \A b \in Actor : b # a => pc'[b] = pc[b]
BY DEF Goto, PortInv, TypeOK

\* What it forgets.
LEMMA Forgets ==
    ASSUME NEW a \in Actor, PortInv, Forget(a)
    PROVE  /\ fd' \in [Actor -> Cmd \cup {Nobody}]
           /\ got' \in [Actor -> Cmd \cup {Nobody}]
           /\ \A b \in Actor : b # a => fd'[b] = fd[b]
BY DEF Forget, PortInv, TypeOK

\* A port is released by the process that holds it, which no longer serves.
LEMMA ReleaseKeeps ==
    ASSUME NEW a \in Actor, PortInv, Release(a),
           pc' \in [Actor -> Place], pc'[a] = "gone",
           \A b \in Actor : pc'[b] = "serving" => pc[b] = "serving"
    PROVE  PortsAreHeld' /\ port' \in [Front -> Cmd \cup {Nobody, Lingering}]
<1>1. PICK next \in Free :
          port' = [f \in Front |-> IF a = <<port[f], f>> THEN next ELSE port[f]]
  BY DEF Release
<1>2. next \in Cmd \cup {Nobody, Lingering}
  BY DEF Free
<1>3. port' \in [Front -> Cmd \cup {Nobody, Lingering}]
  BY <1>1, <1>2 DEF PortInv, TypeOK
<1>4. ASSUME NEW c \in Cmd, NEW f \in Front, pc'[<<c, f>>] = "serving"
      PROVE  port'[f] = c
  <2>1. pc[<<c, f>>] = "serving" /\ <<c, f>> # a
    BY <1>4, Numbers DEF Member
  <2>2. port[f] = c
    BY <2>1 DEF PortInv, PortsAreHeld
  <2>3. QED
    BY <1>1, <2>1, <2>2
<1>5. QED
  BY <1>3, <1>4 DEF PortsAreHeld

\* The processes of D move, each to a place it may be at; the others stay.
PlaceOK(a) == /\ pc[a] \in Starting => a[2] = "core"
              /\ pc[a] = "bind" => a[2] \in Front
              /\ pc[a] = "serving" => a[2] \in Member
              /\ pc[a] \in {"read", "write"} => fd[a] \in Cmd

LEMMA PlacesKept ==
    ASSUME NEW D, PortInv, \A b \in Actor \ D : pc'[b] = pc[b] /\ fd'[b] = fd[b],
           \A b \in Actor \cap D : PlaceOK(b)'
    PROVE  PlacesOK'
BY DEF PortInv, PlacesOK, PlaceOK

LEMMA PortsKept ==
    ASSUME PortInv, port' = port,
           \A c \in Cmd, f \in Front : pc'[<<c, f>>] = "serving" => pc[<<c, f>>] = "serving"
    PROVE  PortsAreHeld'
BY DEF PortInv, PortsAreHeld

\* What a command reports.
LEMMA Reports ==
    ASSUME NEW a \in Actor, PortInv,
           NEW what \in {"stopped", "not running", "already running", "failed"},
           said' = what \/ said' = IF a[2] = "command" THEN what ELSE said
    PROVE  said' \in {"nothing", "stopped", "not running", "already running", "failed"}
BY DEF PortInv, TypeOK

\* A process takes a step that leaves the ports alone.
LEMMA MoveKeeps ==
    ASSUME NEW a \in Actor, NEW place \in Place, PortInv, Goto(a, place),
           UNCHANGED port, \A b \in Actor : b # a => fd'[b] = fd[b], PlaceOK(a)',
           place # "serving" \/ a[2] \notin Front
    PROVE  pc' \in [Actor -> Place] /\ PlacesOK' /\ PortsAreHeld'
<1>1. /\ pc' \in [Actor -> Place] /\ pc'[a] = place
      /\ \A b \in Actor : b # a => pc'[b] = pc[b]
  BY Moves
<1>2. \A b \in Actor \cap {a} : PlaceOK(b)'
  BY DEF PlaceOK
<1>3. PlacesOK'
  BY <1>1, <1>2, PlacesKept
<1>4. \A c \in Cmd, f \in Front : pc'[<<c, f>>] = "serving" => pc[<<c, f>>] = "serving"
  BY <1>1, Numbers DEF Member
<1>5. QED
  BY <1>1, <1>3, <1>4, PortsKept

\* A process ends.
LEMMA EndKeeps ==
    ASSUME NEW a \in Actor, PortInv, Goto(a, "gone"), Release(a),
           Forget(a) \/ UNCHANGED opened
    PROVE  /\ pc' \in [Actor -> Place] /\ PlacesOK' /\ PortsAreHeld'
           /\ port' \in [Front -> Cmd \cup {Nobody, Lingering}]
           /\ fd' \in [Actor -> Cmd \cup {Nobody}] /\ got' \in [Actor -> Cmd \cup {Nobody}]
<1>1. /\ pc' \in [Actor -> Place] /\ pc'[a] = "gone"
      /\ \A b \in Actor : b # a => pc'[b] = pc[b]
  BY Moves DEF Place
<1>2. /\ fd' \in [Actor -> Cmd \cup {Nobody}] /\ got' \in [Actor -> Cmd \cup {Nobody}]
      /\ \A d \in Actor : d # a => fd'[d] = fd[d]
  BY Forgets DEF opened, PortInv, TypeOK
<1>3. \A b \in Actor \cap {a} : PlaceOK(b)'
  BY <1>1 DEF PlaceOK, Starting
<1>4. PlacesOK'
  BY <1>1, <1>2, <1>3, PlacesKept
<1>5. \A b \in Actor : pc'[b] = "serving" => pc[b] = "serving"
  BY <1>1
<1>6. QED
  BY <1>1, <1>2, <1>4, <1>5, ReleaseKeeps
-----------------------------------------------------------------------------
\* stop_daemon() returns, in a command that goes on to start or in a process
\* that ends.
LEMMA StopReturnsPort ==
    ASSUME NEW a \in Actor, NEW what \in {"stopped", "not running"},
           PortInv, StopReturns(a, what), Forget(a) \/ UNCHANGED opened,
           path' \in Cmd \cup {Nobody}, spoiled' \in BOOLEAN, UNCHANGED <<content, signalled>>
    PROVE  PortInv'
<1> DEFINE b == <<a[1], "core">>
<1>0. b \in Actor /\ a[2] \in Member \cup {"command"} /\ "gone" \in Place /\ "test" \in Place
  BY Numbers DEF Member, Place, Alive, Starting
<1>1. /\ pc' \in [Actor -> Place] /\ pc'[a] = "gone"
      /\ \A d \in Actor : d # a /\ d # b => pc'[d] = pc[d]
      /\ b # a => pc'[b] \in {pc[b], "test"}
  <2>1. CASE a[2] = "command" /\ typed[a[1]] = "restart"
    <3>1. pc' = [pc EXCEPT ![a] = "gone", ![b] = "test"]
      BY <2>1 DEF StopReturns
    <3>2. a # b
      BY <2>1, Numbers
    <3>3. QED
      BY <1>0, <3>1, <3>2 DEF PortInv, TypeOK
  <2>2. CASE ~(a[2] = "command" /\ typed[a[1]] = "restart")
    <3>1. Goto(a, "gone")
      BY <2>2 DEF StopReturns
    <3>2. QED
      BY <1>0, <3>1, Moves
  <2>3. QED
    BY <2>1, <2>2
<1>2. /\ fd' \in [Actor -> Cmd \cup {Nobody}] /\ got' \in [Actor -> Cmd \cup {Nobody}]
      /\ \A d \in Actor : d # a => fd'[d] = fd[d]
  BY Forgets DEF opened, PortInv, TypeOK
<1>3. \A d \in Actor : pc'[d] = "serving" => pc[d] = "serving"
  BY <1>1
<1>4. PortsAreHeld' /\ port' \in [Front -> Cmd \cup {Nobody, Lingering}]
  BY <1>1, <1>3, ReleaseKeeps DEF StopReturns
<1>5. said' \in {"nothing", "stopped", "not running", "already running", "failed"}
  BY Reports DEF StopReturns
<1>6. TypeOK'
  BY <1>1, <1>2, <1>4, <1>5 DEF StopReturns, PortInv, TypeOK
<1>7. PlacesOK'
  <2>1. \A d \in Actor \ {a, b} : pc'[d] = pc[d] /\ fd'[d] = fd[d]
    BY <1>1, <1>2
  <2>2. PlaceOK(a)'
    BY <1>1 DEF PlaceOK, Starting
  <2>3. b # a => PlaceOK(b)'
    BY <1>0, <1>1, <1>2 DEF PlaceOK, Starting, PortInv, PlacesOK
  <2>4. \A d \in Actor \cap {a, b} : PlaceOK(d)'
    BY <2>2, <2>3 DEF PlaceOK
  <2>5. QED
    BY <2>1, <2>4, PlacesKept
<1>8. QED
  BY <1>4, <1>6, <1>7 DEF PortInv

LEMMA StopOpenPort == ASSUME NEW a \in Actor, PortInv, StopOpen(a) PROVE PortInv'
<1>1. CASE path = Nobody
  <2>1. /\ StopReturns(a, "not running") /\ Forget(a)
        /\ UNCHANGED <<path, content, signalled, spoiled>>
    BY <1>1 DEF StopOpen, files
  <2>2. QED
    BY <2>1, StopReturnsPort DEF PortInv, TypeOK
<1>2. CASE path # Nobody
  <2>1. /\ fd' = [fd EXCEPT ![a] = path] /\ Goto(a, "read")
        /\ UNCHANGED <<path, content, port, got, signalled, typed, said, fault, struck, spoiled>>
    BY <1>2 DEF StopOpen, files, history
  <2>2. path \in Cmd /\ "read" \in Place
    BY <1>2 DEF PortInv, TypeOK, Place, Alive, Stopping
  <2>3. /\ fd' \in [Actor -> Cmd \cup {Nobody}] /\ fd'[a] \in Cmd
        /\ \A b \in Actor : b # a => fd'[b] = fd[b]
    BY <2>1, <2>2 DEF PortInv, TypeOK
  <2>4. pc'[a] = "read"
    BY <2>1, <2>2, Moves
  <2>5. PlaceOK(a)'
    BY <2>3, <2>4 DEF PlaceOK, Starting
  <2>6. pc' \in [Actor -> Place] /\ PlacesOK' /\ PortsAreHeld'
    BY <2>1, <2>2, <2>3, <2>5, MoveKeeps
  <2>7. QED
    BY <2>1, <2>3, <2>6 DEF PortInv, TypeOK
<1>3. QED
  BY <1>1, <1>2

LEMMA StopReadPort == ASSUME NEW a \in Actor, PortInv, StopRead(a) PROVE PortInv'
<1>1. /\ got' = [got EXCEPT ![a] = content[fd[a]]] /\ Goto(a, "unlink") /\ pc[a] = "read"
      /\ UNCHANGED <<path, content, port, fd, signalled, typed, said, fault, struck, spoiled>>
  BY DEF StopRead, At, files, history
<1>2. "unlink" \in Place
  BY DEF Place, Alive, Stopping
<1>3. fd[a] \in Cmd
  BY <1>1 DEF PortInv, PlacesOK
<1>4. got' \in [Actor -> Cmd \cup {Nobody}]
  BY <1>1, <1>3 DEF PortInv, TypeOK
<1>5. PlaceOK(a)'
  BY <1>1, <1>2, Moves DEF PlaceOK, Starting
<1>6. pc' \in [Actor -> Place] /\ PlacesOK' /\ PortsAreHeld'
  BY <1>1, <1>2, <1>5, MoveKeeps
<1>7. QED
  BY <1>1, <1>4, <1>6 DEF PortInv, TypeOK

LEMMA StopUnlinkPort == ASSUME NEW a \in Actor, PortInv, StopUnlink(a) PROVE PortInv'
<1>1. CASE path = Nobody
  <2>1. /\ StopFails(a) /\ Forget(a) /\ UNCHANGED <<path, content, signalled>>
    BY <1>1 DEF StopUnlink
  <2>2. /\ pc' \in [Actor -> Place] /\ PlacesOK' /\ PortsAreHeld'
        /\ port' \in [Front -> Cmd \cup {Nobody, Lingering}]
        /\ fd' \in [Actor -> Cmd \cup {Nobody}] /\ got' \in [Actor -> Cmd \cup {Nobody}]
    BY <2>1, EndKeeps DEF StopFails
  <2>3. said' \in {"nothing", "stopped", "not running", "already running", "failed"}
    BY <2>1, Reports DEF StopFails
  <2>4. QED
    BY <2>1, <2>2, <2>3 DEF StopFails, PortInv, TypeOK
<1>2. CASE path # Nobody
  <2>1. /\ path' = Nobody /\ Goto(a, "kill")
        /\ UNCHANGED <<content, port, fd, got, signalled, typed, said, fault, struck, spoiled>>
    BY <1>2 DEF StopUnlink, opened, history
  <2>2. "kill" \in Place
    BY DEF Place, Alive, Stopping
  <2>3. PlaceOK(a)'
    BY <2>1, <2>2, Moves DEF PlaceOK, Starting
  <2>4. pc' \in [Actor -> Place] /\ PlacesOK' /\ PortsAreHeld'
    BY <2>1, <2>2, <2>3, MoveKeeps
  <2>5. QED
    BY <2>1, <2>4 DEF PortInv, TypeOK
<1>3. QED
  BY <1>1, <1>2

LEMMA StopKillPort == ASSUME NEW a \in Actor, PortInv, StopKill(a) PROVE PortInv'
<1>1. PICK g \in Target(a) :
          IF Group(g) = {}
          THEN StopReturns(a, "not running") /\ UNCHANGED <<signalled, spoiled>>
          ELSE /\ signalled' = signalled \cup Receivers(g)
               /\ Goto(a, "nap")
               /\ UNCHANGED <<port, history>>
  BY DEF StopKill
<1>2. Forget(a) /\ UNCHANGED <<path, content>> /\ g \in Cmd \cup {Nobody}
  BY DEF StopKill, files, Target, PortInv, TypeOK
<1>3. CASE Group(g) = {}
  BY <1>1, <1>2, <1>3, StopReturnsPort DEF PortInv, TypeOK
<1>4. CASE Group(g) # {}
  <2>1. /\ signalled' = signalled \cup Receivers(g) /\ Goto(a, "nap")
        /\ UNCHANGED <<port, typed, said, fault, struck, spoiled>>
    BY <1>1, <1>4 DEF history
  <2>2. "nap" \in Place
    BY DEF Place, Alive, Stopping
  <2>3. signalled' \subseteq Actor
    <3>1. \A h \in Group(g) : h \in Actor
      <4>1. g \in Cmd
        BY <1>2, <1>4, Numbers DEF Group, Target, PortInv, TypeOK
      <4>2. QED
        BY <4>1 DEF Group, Actor
    <3>2. QED
      BY <2>1, <3>1 DEF Receivers, PortInv, TypeOK
  <2>4. /\ fd' \in [Actor -> Cmd \cup {Nobody}] /\ got' \in [Actor -> Cmd \cup {Nobody}]
        /\ \A b \in Actor : b # a => fd'[b] = fd[b]
    BY <1>2, Forgets
  <2>5. PlaceOK(a)'
    BY <2>1, <2>2, Moves DEF PlaceOK, Starting
  <2>6. pc' \in [Actor -> Place] /\ PlacesOK' /\ PortsAreHeld'
    BY <2>1, <2>2, <2>4, <2>5, MoveKeeps
  <2>7. QED
    BY <1>2, <2>1, <2>3, <2>4, <2>6 DEF PortInv, TypeOK
<1>5. QED
  BY <1>3, <1>4

LEMMA StopNapOverPort == ASSUME NEW a \in Actor, PortInv, StopNapOver(a) PROVE PortInv'
BY StopReturnsPort DEF StopNapOver, files, PortInv, TypeOK
-----------------------------------------------------------------------------
LEMMA StartTestPort == ASSUME NEW a \in Actor, PortInv, StartTest(a) PROVE PortInv'
<1>1. /\ pc[a] = "test" /\ UNCHANGED <<path, content, port, fd, got, signalled, typed, fault, struck, spoiled>>
      /\ \/ Goto(a, "create") /\ UNCHANGED said
         \/ Goto(a, "gone") /\ said' = "already running"
  BY DEF StartTest, At, files, opened
<1>2. "create" \in Place /\ "gone" \in Place
  BY DEF Place, Alive, Starting
<1>3. a[2] = "core"
  BY <1>1 DEF PortInv, PlacesOK, Starting
<1>4. pc'[a] \in {"create", "gone"}
  BY <1>1, <1>2, Moves
<1>5. PlaceOK(a)'
  BY <1>3, <1>4 DEF PlaceOK
<1>6. pc' \in [Actor -> Place] /\ PlacesOK' /\ PortsAreHeld'
  BY <1>1, <1>2, <1>5, MoveKeeps
<1>7. said' \in {"nothing", "stopped", "not running", "already running", "failed"}
  BY <1>1, Reports DEF PortInv, TypeOK
<1>8. QED
  BY <1>1, <1>6, <1>7 DEF PortInv, TypeOK

LEMMA StartCreatePort == ASSUME NEW a \in Actor, PortInv, StartCreate(a) PROVE PortInv'
<1>1. /\ pc[a] = "create" /\ Goto(a, "write")
      /\ path' = IF path = Nobody THEN a[1] ELSE path
      /\ fd' = [fd EXCEPT ![a] = path']
      /\ UNCHANGED <<content, port, got, signalled, typed, said, fault, struck, spoiled>>
  BY DEF StartCreate, At, history
<1>2. "write" \in Place
  BY DEF Place, Alive, Starting
<1>3. a[2] = "core"
  BY <1>1 DEF PortInv, PlacesOK, Starting
<1>4. pc'[a] = "write"
  BY <1>1, <1>2, Moves
<1>5. path' \in Cmd
  BY <1>1, Numbers DEF PortInv, TypeOK
<1>6. /\ fd' \in [Actor -> Cmd \cup {Nobody}] /\ fd'[a] \in Cmd
      /\ \A b \in Actor : b # a => fd'[b] = fd[b]
  BY <1>1, <1>5 DEF PortInv, TypeOK
<1>7. PlaceOK(a)'
  BY <1>3, <1>4, <1>6 DEF PlaceOK
<1>8. pc' \in [Actor -> Place] /\ PlacesOK' /\ PortsAreHeld'
  BY <1>1, <1>2, <1>6, <1>7, MoveKeeps
<1>9. QED
  BY <1>1, <1>5, <1>6, <1>8 DEF PortInv, TypeOK

LEMMA StartWritePort == ASSUME NEW a \in Actor, PortInv, StartWrite(a) PROVE PortInv'
<1>1. /\ pc[a] = "write" /\ Goto(a, "fork http") /\ Forget(a)
      /\ content' = [content EXCEPT ![fd[a]] = a[1]]
      /\ UNCHANGED <<path, port, signalled, typed, said, fault, struck, spoiled>>
  BY DEF StartWrite, At, history
<1>2. "fork http" \in Place
  BY DEF Place, Alive, Starting
<1>3. a[2] = "core"
  BY <1>1 DEF PortInv, PlacesOK, Starting
<1>4. pc'[a] = "fork http"
  BY <1>1, <1>2, Moves
<1>5. content' \in [Cmd -> Cmd \cup {Nobody}]
  BY <1>1, Numbers DEF PortInv, TypeOK
<1>6. /\ fd' \in [Actor -> Cmd \cup {Nobody}] /\ got' \in [Actor -> Cmd \cup {Nobody}]
      /\ \A b \in Actor : b # a => fd'[b] = fd[b]
  BY <1>1, Forgets
<1>7. PlaceOK(a)'
  BY <1>3, <1>4 DEF PlaceOK
<1>8. pc' \in [Actor -> Place] /\ PlacesOK' /\ PortsAreHeld'
  BY <1>1, <1>2, <1>6, <1>7, MoveKeeps
<1>9. QED
  BY <1>1, <1>5, <1>6, <1>8 DEF PortInv, TypeOK

\* The core server moves on, and the front end it forks is about to bind.
LEMMA ForkPort == ASSUME NEW a \in Actor, PortInv, Fork(a) PROVE PortInv'
<1>1. /\ pc[a] \in {"fork http", "fork midnet"}
      /\ UNCHANGED <<path, content, port, fd, got, signalled, typed, said, fault, struck, spoiled>>
      /\ \E f \in Front, next \in {"fork midnet", "serving"} :
            pc' = [pc EXCEPT ![a] = next, ![<<a[1], f>>] = "bind"]
  BY DEF Fork, At, files, opened, history, Front
<1>2. PICK f \in Front, next \in {"fork midnet", "serving"} :
          pc' = [pc EXCEPT ![a] = next, ![<<a[1], f>>] = "bind"]
  BY <1>1
<1> DEFINE b == <<a[1], f>>
<1>3. a[2] = "core"
  BY <1>1 DEF PortInv, PlacesOK, Starting
<1>4. b \in Actor /\ a # b /\ b[2] = f
  BY <1>3, Numbers DEF Member, Front
<1>5. next \in Place /\ "bind" \in Place
  BY DEF Place, Alive, Starting
<1>6. /\ pc' \in [Actor -> Place] /\ pc'[a] = next /\ pc'[b] = "bind"
      /\ \A d \in Actor : d # a /\ d # b => pc'[d] = pc[d]
  BY <1>2, <1>4, <1>5 DEF PortInv, TypeOK
<1>7. PlaceOK(a)' /\ PlaceOK(b)'
  BY <1>3, <1>4, <1>6 DEF PlaceOK, Starting, Member
<1>8. \A d \in Actor \cap {a, b} : PlaceOK(d)'
  BY <1>7 DEF PlaceOK
<1>9. \A d \in Actor \ {a, b} : pc'[d] = pc[d] /\ fd'[d] = fd[d]
  BY <1>1, <1>6
<1>10. PlacesOK'
  BY <1>8, <1>9, PlacesKept
<1>11. \A c \in Cmd, g \in Front : pc'[<<c, g>>] = "serving" => pc[<<c, g>>] = "serving"
  <2>1. \A c \in Cmd, g \in Front : <<c, g>> \in Actor /\ <<c, g>> # a
    BY <1>3, Numbers DEF Member, Front
  <2>2. QED
    BY <1>6, <2>1
<1>12. PortsAreHeld'
  BY <1>1, <1>11, PortsKept
<1>13. QED
  BY <1>1, <1>6, <1>10, <1>12 DEF PortInv, TypeOK
-----------------------------------------------------------------------------
\* A port is bound when nobody serves on it.
LEMMA BindPort == ASSUME NEW a \in Actor, PortInv, Bind(a) PROVE PortInv'
<1>1. /\ pc[a] = "bind" /\ "serving" \in Place /\ "open" \in Place
      /\ UNCHANGED <<path, content, fd, got, signalled, typed, said, fault, struck>>
  BY DEF Bind, At, files, opened, Place, Alive, Stopping
<1>2. a[2] \in Front /\ a[1] \in Cmd /\ a = <<a[1], a[2]>>
  BY <1>1, Numbers DEF PortInv, PlacesOK
<1>3. CASE port[a[2]] = Nobody
  <2>1. port' = [port EXCEPT ![a[2]] = a[1]] /\ Goto(a, "serving") /\ UNCHANGED spoiled
    BY <1>3 DEF Bind
  <2>2. /\ pc' \in [Actor -> Place] /\ pc'[a] = "serving"
        /\ \A b \in Actor : b # a => pc'[b] = pc[b]
    BY <1>1, <2>1, Moves
  <2>3. port' \in [Front -> Cmd \cup {Nobody, Lingering}]
    BY <1>2, <2>1 DEF PortInv, TypeOK
  <2>4. PlaceOK(a)'
    BY <1>2, <2>2 DEF PlaceOK, Starting, Member
  <2>5. \A b \in Actor \cap {a} : PlaceOK(b)'
    BY <2>4 DEF PlaceOK
  <2>6. PlacesOK'
    BY <1>1, <2>2, <2>5, PlacesKept
  <2>7. ASSUME NEW c \in Cmd, NEW f \in Front, pc'[<<c, f>>] = "serving"
        PROVE  port'[f] = c
    <3>1. CASE <<c, f>> = a
      BY <1>2, <2>1, <3>1 DEF PortInv, TypeOK
    <3>2. CASE <<c, f>> # a
      <4>1. pc[<<c, f>>] = "serving"
        BY <2>2, <2>7, <3>2, Numbers DEF Member
      <4>2. port[f] = c
        BY <4>1 DEF PortInv, PortsAreHeld
      <4>3. f # a[2]
        BY <1>3, <4>2, Numbers
      <4>4. QED
        BY <2>1, <4>2, <4>3 DEF PortInv, TypeOK
    <3>3. QED
      BY <3>1, <3>2
  <2>8. PortsAreHeld'
    BY <2>7 DEF PortsAreHeld
  <2>9. QED
    BY <1>1, <2>1, <2>2, <2>3, <2>6, <2>8 DEF PortInv, TypeOK
<1>4. CASE port[a[2]] # Nobody
  <2>1. /\ Goto(a, "open") /\ UNCHANGED port
        /\ spoiled' = (spoiled \/ port[a[2]] = Lingering)
    BY <1>4 DEF Bind
  <2>2. pc'[a] = "open"
    BY <1>1, <2>1, Moves
  <2>3. PlaceOK(a)'
    BY <2>2 DEF PlaceOK, Starting
  <2>4. pc' \in [Actor -> Place] /\ PlacesOK' /\ PortsAreHeld'
    BY <1>1, <2>1, <2>3, MoveKeeps
  <2>5. spoiled' \in BOOLEAN
    BY <2>1
  <2>6. QED
    BY <1>1, <2>1, <2>4, <2>5 DEF PortInv, TypeOK
<1>5. QED
  BY <1>3, <1>4

LEMMA DiePort == ASSUME NEW a \in Actor, PortInv, Die(a) PROVE PortInv'
<1>1. /\ Goto(a, "gone") /\ Release(a) /\ Forget(a) /\ signalled' = signalled \ {a}
      /\ UNCHANGED <<path, content, typed, said, fault, struck, spoiled>>
  BY DEF Die, files, history
<1>2. QED
  BY <1>1, EndKeeps DEF PortInv, TypeOK
-----------------------------------------------------------------------------
\* A process appears: the daemon of a start, the command of a stop or restart.
LEMMA TypePort ==
    ASSUME NEW what \in {"start", "stop", "restart"}, PortInv, Type(what)
    PROVE  PortInv'
<1>1. PICK c \in Cmd : c = Len(typed) + 1
  BY DEF Type
<1>2. /\ typed' = Append(typed, what)
      /\ said' = "nothing" /\ spoiled' = FALSE
      /\ UNCHANGED <<path, content, port, fd, got, signalled, fault, struck>>
      /\ IF what = "start" THEN Goto(<<c, "core">>, "test")
                           ELSE Goto(<<c, "command">>, "open")
  BY <1>1 DEF Type, files, opened
<1>3. typed' \in Seq({"start", "stop", "restart"}) /\ Len(typed') <= MaxCmd
  <2>1. typed \in Seq({"start", "stop", "restart"})
    BY DEF PortInv, TypeOK
  <2>2. c <= MaxCmd
    BY DaemonAssumption DEF Cmd
  <2>3. QED
    BY <1>1, <1>2, <2>1, <2>2
<1>4. pc' \in [Actor -> Place] /\ PlacesOK' /\ PortsAreHeld'
  <2>1. CASE what = "start"
    <3>1. "test" \in Place /\ <<c, "core">> \in Actor
      BY Numbers DEF Place, Alive, Starting, Member
    <3>2. pc'[<<c, "core">>] = "test"
      BY <1>2, <2>1, <3>1, Moves
    <3>3. PlaceOK(<<c, "core">>)'
      BY <3>2 DEF PlaceOK
    <3>4. QED
      BY <1>2, <2>1, <3>1, <3>3, MoveKeeps
  <2>2. CASE what # "start"
    <3>1. "open" \in Place /\ <<c, "command">> \in Actor
      BY Numbers DEF Place, Alive, Stopping
    <3>2. pc'[<<c, "command">>] = "open"
      BY <1>2, <2>2, <3>1, Moves
    <3>3. PlaceOK(<<c, "command">>)'
      BY <3>2 DEF PlaceOK, Starting
    <3>4. QED
      BY <1>2, <2>2, <3>1, <3>3, MoveKeeps
  <2>3. QED
    BY <2>1, <2>2
<1>5. QED
  BY <1>2, <1>3, <1>4 DEF PortInv, TypeOK

LEMMA FaultType ==
    ASSUME NEW a \in Actor, NEW kind \in {"failed", "cut"}, PortInv, Fault(a, kind)
    PROVE  /\ fault' \in [Actor -> {"none", "failed", "cut"}]
           /\ struck' \subseteq Window /\ spoiled' \in BOOLEAN
BY DEF Fault, PortInv, TypeOK

LEMMA FailStopsPort == ASSUME NEW a \in Actor, PortInv, FailStops(a) PROVE PortInv'
<1>1. /\ Goto(a, "open") /\ Fault(a, "failed")
      /\ UNCHANGED <<path, content, port, fd, got, signalled, typed, said>>
  BY DEF FailStops, files, opened
<1>2. "open" \in Place
  BY DEF Place, Alive, Stopping
<1>3. pc'[a] = "open"
  BY <1>1, <1>2, Moves
<1>4. PlaceOK(a)'
  BY <1>3 DEF PlaceOK, Starting
<1>5. pc' \in [Actor -> Place] /\ PlacesOK' /\ PortsAreHeld'
  BY <1>1, <1>2, <1>4, MoveKeeps
<1>6. /\ fault' \in [Actor -> {"none", "failed", "cut"}]
      /\ struck' \subseteq Window /\ spoiled' \in BOOLEAN
  BY <1>1, FaultType
<1>7. QED
  BY <1>1, <1>5, <1>6 DEF PortInv, TypeOK

\* A process is cut short, wherever it is.
LEMMA CutPort ==
    ASSUME NEW a \in Actor, PortInv, Goto(a, "gone"), Fault(a, "cut"), Forget(a), Release(a),
           content' \in [Cmd -> Cmd \cup {Nobody}], UNCHANGED <<path, signalled, typed>>,
           said' \in {said, "failed"}
    PROVE  PortInv'
<1>1. /\ fault' \in [Actor -> {"none", "failed", "cut"}]
      /\ struck' \subseteq Window /\ spoiled' \in BOOLEAN
  BY FaultType
<1>2. /\ pc' \in [Actor -> Place] /\ PlacesOK' /\ PortsAreHeld'
      /\ port' \in [Front -> Cmd \cup {Nobody, Lingering}]
      /\ fd' \in [Actor -> Cmd \cup {Nobody}] /\ got' \in [Actor -> Cmd \cup {Nobody}]
  BY EndKeeps
<1>3. QED
  BY <1>1, <1>2 DEF PortInv, TypeOK

LEMMA FailExitsPort == ASSUME NEW a \in Actor, PortInv, FailExits(a) PROVE PortInv'
<1>1. /\ Goto(a, "gone") /\ Fault(a, "cut") /\ Forget(a) /\ Release(a)
      /\ UNCHANGED <<path, signalled, typed>> /\ said' \in {said, "failed"}
  BY DEF FailExits
<1>2. content' \in [Cmd -> Cmd \cup {Nobody}]
  BY Numbers DEF FailExits, PortInv, TypeOK
<1>3. QED
  BY <1>1, <1>2, CutPort

LEMMA Kill9Port == ASSUME NEW a \in Actor, PortInv, Kill9(a) PROVE PortInv'
BY CutPort DEF Kill9, files, PortInv, TypeOK

LEMMA ExpirePort == ASSUME NEW f \in Front, PortInv, Expire(f) PROVE PortInv'
<1>1. /\ port[f] = Lingering /\ port' = [port EXCEPT ![f] = Nobody]
      /\ UNCHANGED <<path, content, pc, fd, got, signalled, typed, said, fault, struck, spoiled>>
  BY DEF Expire, files, opened, history
<1>2. PortsAreHeld'
  <2>1. ASSUME NEW c \in Cmd, NEW g \in Front, pc'[<<c, g>>] = "serving"
        PROVE  port'[g] = c
    <3>1. port[g] = c
      BY <1>1, <2>1 DEF PortInv, PortsAreHeld
    <3>2. g # f
      BY <1>1, <3>1, Numbers
    <3>3. QED
      BY <1>1, <3>1, <3>2 DEF PortInv, TypeOK
  <2>2. QED
    BY <2>1 DEF PortsAreHeld
<1>3. PlacesOK'
  BY <1>1 DEF PortInv, PlacesOK
<1>4. QED
  BY <1>1, <1>2, <1>3 DEF PortInv, TypeOK
-----------------------------------------------------------------------------
LEMMA NextPort == PortInv /\ [Next]_vars => PortInv'
<1> SUFFICES ASSUME PortInv, [Next]_vars PROVE PortInv'
  OBVIOUS
<1>1. ASSUME NEW a \in Actor, Step(a) PROVE PortInv'
  BY <1>1, StopOpenPort, StopReadPort, StopUnlinkPort, StopKillPort, StopNapOverPort,
     StartTestPort, StartCreatePort, StartWritePort, ForkPort, BindPort, DiePort
     DEF Step, Stop, Start
<1>2. ASSUME NEW a \in Actor, FailStops(a) \/ FailExits(a) \/ Kill9(a) PROVE PortInv'
  BY <1>2, FailStopsPort, FailExitsPort, Kill9Port
<1>3. ASSUME NEW what \in {"start", "stop", "restart"}, Type(what) PROVE PortInv'
  BY <1>3, TypePort
<1>4. ASSUME NEW f \in Front, Expire(f) PROVE PortInv'
  BY <1>4, ExpirePort
<1>5. ASSUME UNCHANGED vars PROVE PortInv'
  BY <1>5 DEF vars, files, opened, history, PortInv, TypeOK, PlacesOK, PortsAreHeld
<1>6. QED
  BY <1>1, <1>2, <1>3, <1>4, <1>5 DEF Next

LEMMA AlwaysPort == Spec => []PortInv
BY InitPort, NextPort, PTL DEF Spec

\* The PID file, the ports and the processes stay of their kinds, in any
\* interleaving of the commands.
THEOREM DaemonTypeCorrect == Spec => []TypeOK
<1>1. PortInv => TypeOK
  BY DEF PortInv
<1>2. QED
  BY <1>1, AlwaysPort, PTL

\* At most one daemon serves with its three processes, however many are started
\* at once and whatever the PID file says: two of them would need both ports.
THEOREM OneDaemonServes == Spec => []OneServes
<1>1. ASSUME PortInv, NEW c \in Cmd, NEW d \in Cmd, Complete(c), Complete(d)
      PROVE  c = d
  <2>1. pc[<<c, "http">>] = "serving" /\ pc[<<d, "http">>] = "serving"
    BY <1>1 DEF Complete, Member, Front, At
  <2>2. port["http"] = c /\ port["http"] = d
    BY <1>1, <2>1 DEF PortInv, PortsAreHeld, Front
  <2>3. QED
    BY <2>2
<1>2. PortInv => OneServes
  BY <1>1 DEF OneServes
<1>3. QED
  BY <1>2, AlwaysPort, PTL
-----------------------------------------------------------------------------
(* Commands, and faults, one after the other.                              *)

Newest == Len(typed)
IsMember(a) == a[2] \in Member
IsCommand(a) == a[2] = "command"

\* On its way to unlink the PID file; in the group of its daemon and not
\* signalled; about to signal daemon c.
Stops(a) == pc[a] \in {"open", "read", "unlink"} /\ a \notin signalled
Standing(a) == IsMember(a) /\ Live(a) /\ a \notin signalled
Killer(c) == \E a \in Actor : At(a, "kill") /\ got[a] = c

\* A core server was cut short before it wrote its number, when it was alone:
\* the file may be empty, but nothing stands, or only a core server that tests it.
Empty == "write" \in struck /\ \A b \in Actor : Standing(b) => pc[b] = "test"

\* Nothing is there before it is typed, and only the newest command and its
\* daemon are under way: the daemon of a stop never, that of a restart after it.
Born ==
    /\ \A a \in Actor : a[1] > Newest => pc[a] = "new"
    /\ \A a, b \in Actor : IsCommand(a) /\ Live(a) /\ IsMember(b) =>
          a[1] = Newest /\ (b[1] = Newest => pc[b] = "new")
    /\ \A a \in Actor : pc[a] \in Starting \cup {"bind"} => a[1] = Newest
    /\ \A a \in Actor :
          a[1] = Newest /\ IsMember(a) /\ typed[Newest] = "stop" => pc[a] = "new"

\* A front end is there once the core server has forked it.
Forked ==
    \A a, b \in Actor : a[1] = b[1] /\ a[2] = "core" /\ b[2] \in Front =>
        /\ pc[a] \in {"new", "test", "create", "write", "fork http"} => pc[b] = "new"
        /\ pc[a] = "fork midnet" => (pc[b] = "new" <=> b[2] = "midnet")
        /\ pc[a] = "serving" => pc[b] # "new"

\* An inode holds the number of the daemon that created it, or will, or is empty
\* for good.
Written ==
    /\ \A i \in Cmd : content[i] \in {Nobody, i}
    /\ path # Nobody /\ content[path] = Nobody =>
          (\E a \in Actor : a[1] = path /\ pc[a] = "write") \/ Empty
    /\ \A a \in Actor : pc[a] = "create" => path = Nobody
    /\ \A a \in Actor : pc[a] = "write" => fd[a] = a[1]

\* What is read is the number of the inode, in a process of a daemon its own; a
\* command may have read nothing when nothing stands.
HasRead ==
    \A a \in Actor :
        /\ pc[a] = "read" => content[fd[a]] = fd[a] \/ (IsCommand(a) /\ Empty)
        /\ pc[a] \in {"unlink", "kill"} =>
              \/ got[a] = fd[a] /\ got[a] \in Cmd /\ content[got[a]] = got[a]
              \/ IsCommand(a) /\ got[a] = Nobody /\ Empty
        /\ pc[a] \in {"read", "unlink", "kill"} /\ IsMember(a) => fd[a] = a[1]

\* The file that is unlinked is the one that was read: meanwhile no other takes
\* its name.
Names ==
    /\ \A a \in Actor : IsCommand(a) =>
          /\ pc[a] \in {"read", "unlink"} => path \in {Nobody, fd[a]}
          /\ pc[a] \in {"kill", "nap"} => path = Nobody
    /\ \A a \in Actor : IsMember(a) /\ Stops(a) => path \in {Nobody, a[1]}
    /\ \A a, b \in Actor : pc[b] \in {"test", "create"} /\ Stops(a) => path = a[1]
    /\ \A a \in Actor : IsMember(a) /\ At(a, "kill") => path \in {Nobody, Newest} /\ path # a[1]

\* One process at a time is gone wrong, and it is that one which stops a daemon
\* that no longer starts.
FaultsInTurn ==
    /\ \A a \in Actor : fault[a] # "none" => pc[a] \in Stopping \cup {"gone"}
    /\ \A a \in Actor : fault[a] = "cut" => pc[a] = "gone"
    /\ \A a, b \in Actor : fault[a] # "none" /\ fault[b] # "none" /\ Live(a) /\ Live(b) => a = b
    /\ \A a \in Actor :
          Standing(a) /\ pc[a] \in Stopping /\ a[1] # Newest => fault[a] # "none"

\* A group is signalled as a whole.
Signals ==
    /\ \A a \in signalled : /\ IsMember(a) /\ Live(a) /\ content[a[1]] = a[1]
                            /\ \A b \in Actor : b[1] = a[1] => ~Standing(b)
    /\ \A a \in Actor : IsMember(a) /\ pc[a] = "nap" => a \in signalled

\* What stands of a daemon is named by the PID file, about to be signalled, or
\* has not created the file yet.
Accounted ==
    \A a \in Actor : Standing(a) =>
        path = a[1] \/ Killer(a[1]) \/ pc[a] \in {"test", "create"}

\* When a process of a daemon is gone, and was not cut short, what stands of it
\* is about to be signalled.
Departed ==
    \A a, b \in Actor :
        a[1] = b[1] /\ IsMember(a) /\ pc[a] = "gone" /\ fault[a] # "cut" /\ Standing(b) =>
            Killer(b[1])

\* A stop that has succeeded leaves no PID file.
Told ==
    (/\ Newest # 0 /\ typed[Newest] = "stop"
     /\ said \in {"stopped", "not running"}) => path = Nobody

PacedInv ==
    /\ PortInv /\ Born /\ Forked /\ Written /\ HasRead /\ Names
    /\ FaultsInTurn /\ Signals /\ Accounted /\ Departed /\ Told

LEMMA Actors ==
    /\ \A a, b \in Actor : a[1] = b[1] /\ a[2] = b[2] => a = b
    /\ \A c \in Cmd, m \in Member \cup {"command"} :
          <<c, m>> \in Actor /\ <<c, m>>[1] = c /\ <<c, m>>[2] = m
    /\ \A a \in Actor : /\ a[1] \in Cmd /\ a[1] # Nobody
                        /\ IsCommand(a) <=> ~IsMember(a)
                        /\ IsMember(a) <=> a[2] \in Front \/ a[2] = "core"
    /\ "core" \notin Front /\ Front = {"http", "midnet"} /\ Nobody \notin Cmd
BY Numbers DEF Member, Front, IsMember, IsCommand

LEMMA Numerals ==
    /\ \A c \in Cmd : c \in Nat /\ c # Nobody
    /\ PortInv => Newest \in Nat /\ Newest <= MaxCmd
<1>1. \A c \in Cmd : c \in Nat /\ c # Nobody
  BY DaemonAssumption DEF Cmd, Nobody
<1>2. PortInv => Len(typed) \in Nat
  <2>1. PortInv => typed \in Seq({"start", "stop", "restart"})
    BY DEF PortInv, TypeOK
  <2> QED BY <2>1
<1>3. PortInv => Newest \in Nat /\ Newest <= MaxCmd
  BY <1>2 DEF PortInv, TypeOK, Newest
<1> QED BY <1>1, <1>3, DaemonAssumption

LEMMA Places ==
    /\ Alive = {"open", "read", "unlink", "kill", "nap", "test", "create", "write",
                "fork http", "fork midnet", "bind", "serving"}
    /\ Stopping = {"open", "read", "unlink", "kill", "nap"}
    /\ Starting = {"test", "create", "write", "fork http", "fork midnet"}
BY DEF Alive, Stopping, Starting

LEMMA EmptyKept ==
    ASSUME struck \subseteq struck',
           \A b \in Actor : Standing(b)' =>
               pc'[b] = "test" \/ (Standing(b) /\ (pc[b] = "test" => pc'[b] = "test"))
    PROVE  Empty => Empty'
<1>1. Empty => "write" \in struck' /\ \A b \in Actor : Standing(b)' => pc'[b] = "test"
  BY DEF Empty
<1> QED BY <1>1 DEF Empty

\* What stands, and is past the test, excludes an empty file.
LEMMA NotEmpty ==
    ASSUME NEW a \in Actor, Standing(a), pc[a] # "test"
    PROVE  ~Empty
BY DEF Empty

\* Steps that leave alone the file, and who creates and fills it.
LEMMA WrittenKept ==
    ASSUME PacedInv, UNCHANGED <<path, content>>,
           \A b \in Actor : /\ pc'[b] = "create" => pc[b] = "create"
                            /\ pc'[b] = "write" => pc[b] = "write" /\ fd'[b] = fd[b]
                            /\ pc[b] = "write" => pc'[b] = "write",
           path # Nobody /\ Empty => Empty'
    PROVE  Written'
<1>1. path' = path /\ content' = content
  OBVIOUS
<1>2. \A i \in Cmd : content[i] \in {Nobody, i}
  BY DEF PacedInv, Written
<1>3. path # Nobody /\ content[path] = Nobody =>
          (\E b \in Actor : b[1] = path /\ pc'[b] = "write") \/ Empty'
  <2>1. path # Nobody /\ content[path] = Nobody =>
          (\E b \in Actor : b[1] = path /\ pc[b] = "write") \/ Empty
    BY DEF PacedInv, Written
  <2> QED BY <2>1
<1>4. \A b \in Actor : pc'[b] = "create" => path = Nobody
  BY DEF PacedInv, Written
<1>5. \A b \in Actor : pc'[b] = "write" => fd'[b] = b[1]
  BY DEF PacedInv, Written
<1> QED BY <1>1, <1>2, <1>3, <1>4, <1>5 DEF Written

\* Steps that leave alone the name of the file, who stops and who is about to kill.
LEMMA NamesKept ==
    ASSUME PacedInv, UNCHANGED <<path, typed>>,
           \A b \in Actor :
               /\ pc'[b] \in {"read", "unlink", "kill", "nap", "test", "create"} =>
                     pc'[b] = pc[b] /\ fd'[b] = fd[b]
               /\ Stops(b)' => Stops(b)
               /\ At(b, "kill")' => At(b, "kill")
    PROVE  Names'
<1>1. path' = path /\ Newest' = Newest
  BY DEF Newest
<1>2. \A b \in Actor : IsCommand(b) =>
          /\ pc'[b] \in {"read", "unlink"} => path \in {Nobody, fd'[b]}
          /\ pc'[b] \in {"kill", "nap"} => path = Nobody
  BY DEF PacedInv, Names
<1>3. \A b \in Actor : IsMember(b) /\ Stops(b)' => path \in {Nobody, b[1]}
  BY DEF PacedInv, Names
<1>4. \A b, d \in Actor : pc'[d] \in {"test", "create"} /\ Stops(b)' => path = b[1]
  BY DEF PacedInv, Names
<1>5. \A b \in Actor : IsMember(b) /\ At(b, "kill")' => path \in {Nobody, Newest} /\ path # b[1]
  BY DEF PacedInv, Names
<1> QED BY ONLY <1>1, <1>2, <1>3, <1>4, <1>5 DEF Names, IsMember, IsCommand

\* Steps that leave alone who has read what; an inode that has its number keeps it.
LEMMA ReadKept ==
    ASSUME PacedInv, PortInv', \A i \in Cmd : content[i] = i => content'[i] = i,
           \A i \in Cmd : content'[i] = content[i] \/ content'[i] = i,
           \A b \in Actor : pc'[b] \in {"read", "unlink", "kill"} =>
               pc'[b] = pc[b] /\ fd'[b] = fd[b] /\ got'[b] = got[b],
           \A b \in Actor : IsCommand(b) /\ Live(b) /\ Empty => Empty'
    PROVE  HasRead'
<1>1. ASSUME NEW b \in Actor
      PROVE  /\ pc'[b] = "read" => content'[fd'[b]] = fd'[b] \/ (IsCommand(b) /\ Empty')
             /\ pc'[b] \in {"unlink", "kill"} =>
                   \/ got'[b] = fd'[b] /\ got'[b] \in Cmd /\ content'[got'[b]] = got'[b]
                   \/ IsCommand(b) /\ got'[b] = Nobody /\ Empty'
             /\ pc'[b] \in {"read", "unlink", "kill"} /\ IsMember(b) => fd'[b] = b[1]
  <2>1. pc'[b] \in {"read", "unlink", "kill"} =>
            pc'[b] = pc[b] /\ fd'[b] = fd[b] /\ got'[b] = got[b] /\ Live(b)
    BY Places DEF Live
  <2>2. /\ pc[b] = "read" => fd[b] \in Cmd /\ (content[fd[b]] = fd[b] \/ (IsCommand(b) /\ Empty))
        /\ pc[b] \in {"unlink", "kill"} =>
              \/ got[b] = fd[b] /\ got[b] \in Cmd /\ content[got[b]] = got[b]
              \/ IsCommand(b) /\ got[b] = Nobody /\ Empty
        /\ pc[b] \in {"read", "unlink", "kill"} /\ IsMember(b) => fd[b] = b[1]
    BY DEF PacedInv, HasRead, PortInv, PlacesOK
  <2> QED BY <2>1, <2>2
<1> QED BY <1>1 DEF HasRead, IsMember, IsCommand

\* The process a ends, of itself or cut short, and nothing else changes but that
\* its number may get into the file.
Leaves(a) ==
    /\ Live(a) /\ pc'[a] = "gone" /\ \A b \in Actor : b # a => pc'[b] = pc[b]
    /\ UNCHANGED <<path, typed>> /\ signalled' = signalled \ {a} /\ struck \subseteq struck'
    /\ \A i \in Cmd : content'[i] = content[i] \/ content'[i] = i
    /\ \A b \in Actor : b # a => fd'[b] = fd[b] /\ got'[b] = got[b] /\ fault'[b] = fault[b]
    /\ fault'[a] \in {fault[a], "cut"}

LEMMA LeavePaced ==
    ASSUME NEW a \in Actor, PacedInv, PortInv', Leaves(a),
           said' = said \/ path = Nobody \/ said' \in {"failed", "already running"},
           \A b \in Actor : At(a, "kill") /\ Standing(b) => b[1] # got[a],
           \/ pc[a] # "write" \/ a \in signalled
           \/ "write" \in struck' /\ \A b \in Actor : fault[b] # "none" => ~Live(b),
           \/ path = Nobody \/ a \in signalled
           \/ fault'[a] = "cut" \/ IsCommand(a) \/ pc[a] = "test"
    PROVE  PacedInv'
<1>1. /\ pc'[a] = "gone" /\ \A b \in Actor : b # a => pc'[b] = pc[b]
      /\ path' = path /\ typed' = typed /\ Newest' = Newest
      /\ signalled' = signalled \ {a} /\ pc[a] \in Alive /\ struck \subseteq struck'
      /\ \A i \in Cmd : content'[i] = content[i] \/ content'[i] = i
      /\ \A i \in Cmd : content[i] = i => content'[i] = i
      /\ \A b \in Actor : b # a => fd'[b] = fd[b] /\ got'[b] = got[b] /\ fault'[b] = fault[b]
      /\ fault'[a] \in {fault[a], "cut"}
  BY DEF Leaves, Newest, Live
<1>2. "gone" \notin Alive
  BY Places
<1>3. \A b \in Actor : b # a => /\ Standing(b)' <=> Standing(b)
                                /\ Stops(b)' <=> Stops(b)
                                /\ At(b, "kill")' <=> At(b, "kill")
                                /\ Live(b)' <=> Live(b)
  BY <1>1 DEF Standing, Stops, At, Live, IsMember
<1>4. ~Standing(a)' /\ ~Stops(a)' /\ ~At(a, "kill")' /\ ~Live(a)'
  BY <1>1, <1>2 DEF Standing, Stops, At, Live
<1>5. \A c \in Cmd : (\E b \in Actor : Standing(b) /\ b[1] = c) /\ Killer(c) => Killer(c)'
  BY <1>1, <1>3 DEF Killer
<1>51. Empty => Empty'
  BY <1>1, <1>3, <1>4, EmptyKept
<1>6. Born'
  <2>1. \A b \in Actor : b[1] > Newest => pc'[b] = "new"
    <3>1. \A b \in Actor : pc[b] = "new" => pc'[b] = "new"
      BY <1>1, Places
    <3>2. \A b \in Actor : b[1] > Newest => pc[b] = "new"
      BY DEF PacedInv, Born
    <3> QED BY <3>1, <3>2
  <2>3. \A b, d \in Actor : IsCommand(b) /\ Live(b)' /\ IsMember(d) =>
            b[1] = Newest /\ (d[1] = Newest => pc'[d] = "new")
    <3>1. ASSUME NEW b \in Actor, NEW d \in Actor, IsCommand(b), Live(b)', IsMember(d)
          PROVE  b[1] = Newest /\ (d[1] = Newest => pc'[d] = "new")
      <4>1. b # a /\ Live(b)
        BY <1>3, <1>4, <3>1
      <4>2. b[1] = Newest /\ (d[1] = Newest => pc[d] = "new")
        BY <3>1, <4>1 DEF PacedInv, Born
      <4>3. pc[a] # "new"
        BY <1>1, Places
      <4> QED BY <1>1, <4>2, <4>3
    <3> QED BY <3>1
  <2>4. \A b \in Actor : pc'[b] \in Starting \cup {"bind"} => b[1] = Newest
    BY <1>1, Places DEF PacedInv, Born
  <2>5. \A b \in Actor : b[1] = Newest /\ IsMember(b) /\ typed[Newest] = "stop" => pc'[b] = "new"
    <3>1. \A b \in Actor : pc[b] = "new" => pc'[b] = "new"
      BY <1>1, Places
    <3>2. \A b \in Actor : b[1] = Newest /\ IsMember(b) /\ typed[Newest] = "stop" => pc[b] = "new"
      BY DEF PacedInv, Born
    <3> QED BY <3>1, <3>2
  <2> QED BY <1>1, <2>1, <2>3, <2>4, <2>5 DEF Born, IsMember, IsCommand, Starting
<1>7. Forked'
  <2>1. ASSUME NEW b \in Actor, NEW d \in Actor, b[1] = d[1], b[2] = "core", d[2] \in Front
        PROVE  /\ pc'[b] \in {"new", "test", "create", "write", "fork http"} => pc'[d] = "new"
               /\ pc'[b] = "fork midnet" => (pc'[d] = "new" <=> d[2] = "midnet")
               /\ pc'[b] = "serving" => pc'[d] # "new"
    <3>1. /\ pc[b] \in {"new", "test", "create", "write", "fork http"} => pc[d] = "new"
          /\ pc[b] = "fork midnet" => (pc[d] = "new" <=> d[2] = "midnet")
          /\ pc[b] = "serving" => pc[d] # "new"
      BY <2>1 DEF PacedInv, Forked
    <3>2. pc[a] # "new"
      BY <1>1, Places
    <3> QED BY <1>1, <3>1, <3>2
  <2> QED BY ONLY <2>1 DEF Forked
<1>8. Written'
  <2>1. \A b \in Actor : pc'[b] = "create" \/ pc'[b] = "write" => pc'[b] = pc[b] /\ fd'[b] = fd[b]
    BY <1>1
  <2>2. path # Nobody /\ content'[path] = Nobody => path \in Cmd /\ content[path] = Nobody
    <3>1. path # Nobody => path \in Cmd
      BY DEF PacedInv, PortInv, TypeOK
    <3>2. \A i \in Cmd : i # Nobody
      BY Actors
    <3> QED BY <1>1, <3>1, <3>2
  <2>3. ASSUME path # Nobody, content'[path] = Nobody
        PROVE  (\E b \in Actor : b[1] = path /\ pc'[b] = "write") \/ Empty'
    <3>1. (\E b \in Actor : b[1] = path /\ pc[b] = "write") \/ Empty
      BY <2>2, <2>3 DEF PacedInv, Written
    <3>2. ASSUME NEW b \in Actor, b[1] = path, pc[b] = "write", b # a
          PROVE  \E d \in Actor : d[1] = path /\ pc'[d] = "write"
      BY <1>1, <3>2
    <3>3. ASSUME a[1] = path, pc[a] = "write"
          PROVE  Empty'
      <4>1. a \notin signalled
        BY <2>2, <2>3, <3>3 DEF PacedInv, Signals
      <4>2. "write" \in struck' /\ \A b \in Actor : fault[b] # "none" => ~Live(b)
        BY <3>3, <4>1
      <4>3. pc[a] \in Starting
        BY <3>3, Places
      <4>4. /\ a[1] = Newest /\ a[2] = "core" /\ IsMember(a)
            /\ \A b \in Actor : pc[b] \in Starting => b = a
        <5>1. a[1] = Newest
          BY <4>3 DEF PacedInv, Born
        <5>2. a[2] = "core" /\ IsMember(a)
          BY <4>3, Actors DEF PacedInv, PortInv, PlacesOK
        <5>3. \A b \in Actor : pc[b] \in Starting => b[1] = a[1] /\ b[2] = a[2]
          BY <5>1, <5>2 DEF PacedInv, Born, PortInv, PlacesOK
        <5> QED BY <5>1, <5>2, <5>3, Actors
      <4>5. \A b \in Actor : IsCommand(b) => ~Live(b)
        BY <3>3, <4>4 DEF PacedInv, Born
      <4>6. ASSUME NEW b \in Actor, Standing(b), b # a
            PROVE  FALSE
        <5>1. b[1] # path
          <6>1. b[1] = a[1] => b[2] \in Front
            <7>1. b[1] = a[1] => b[2] # a[2]
              BY <4>6, Actors
            <7>2. b[2] \in Front \/ b[2] = "core"
              BY <4>6, Actors DEF Standing
            <7> QED BY <4>4, <7>1, <7>2
          <6>2. pc[b] # "new"
            BY <4>6, Places DEF Standing, Live
          <6> QED BY <3>3, <4>4, <6>1, <6>2 DEF PacedInv, Forked
        <5>2. pc[b] \notin {"test", "create"}
          BY <4>4, <4>6, Places
        <5>3. Killer(b[1])
          BY <4>6, <5>1, <5>2 DEF PacedInv, Accounted
        <5>4. PICK x \in Actor : At(x, "kill") /\ got[x] = b[1]
          BY <5>3 DEF Killer
        <5>5. pc[x] = "kill" /\ x \notin signalled /\ Live(x) /\ pc[x] \in Stopping
          BY <5>4, Places DEF At, Live
        <5>6. IsMember(x)
          BY <4>5, <5>5, Actors
        <5>7. got[x] = x[1]
          <6>1. ~IsCommand(x)
            BY <5>6, Actors
          <6> QED BY <5>5, <5>6, <6>1 DEF PacedInv, HasRead
        <5>8. x[1] # Newest /\ Standing(x)
          BY <3>3, <4>4, <5>1, <5>4, <5>5, <5>6, <5>7 DEF Standing
        <5>9. fault[x] # "none"
          BY <5>5, <5>8 DEF PacedInv, FaultsInTurn
        <5> QED BY <4>2, <5>5, <5>9
      <4>7. \A b \in Actor : ~Standing(b)'
        BY <1>3, <1>4, <4>6
      <4> QED BY <4>2, <4>7 DEF Empty
    <3> QED BY <1>51, <3>1, <3>2, <3>3
  <2>4. \A b \in Actor : pc'[b] = "create" => path = Nobody
    BY <2>1 DEF PacedInv, Written
  <2>5. \A b \in Actor : pc'[b] = "write" => fd'[b] = b[1]
    BY <2>1 DEF PacedInv, Written
  <2>6. \A i \in Cmd : content'[i] \in {Nobody, i}
    BY <1>1 DEF PacedInv, Written
  <2>7. path' = path
    BY <1>1
  <2> QED BY <2>3, <2>4, <2>5, <2>6, <2>7 DEF Written
<1>9. HasRead'
  <2>1. \A b \in Actor : pc'[b] \in {"read", "unlink", "kill"} =>
            pc'[b] = pc[b] /\ fd'[b] = fd[b] /\ got'[b] = got[b]
    BY <1>1
  <2> QED BY <1>1, <1>51, <2>1, ReadKept
<1>10. Names'
  <2>1. \A b \in Actor : pc'[b] \in {"read", "unlink", "kill", "nap", "test", "create"} =>
            b # a /\ pc'[b] = pc[b] /\ fd'[b] = fd[b]
    BY <1>1
  <2>2. \A b \in Actor : (Stops(b)' => Stops(b)) /\ (At(b, "kill")' => At(b, "kill"))
    BY <1>3, <1>4
  <2>4. UNCHANGED <<path, typed>>
    BY <1>1
  <2> QED BY <2>1, <2>2, <2>4, NamesKept
<1>11. FaultsInTurn'
  <2>1. \A b \in Actor : fault'[b] # "none" => pc'[b] \in Stopping \cup {"gone"}
    BY <1>1 DEF PacedInv, FaultsInTurn
  <2>2. \A b \in Actor : fault'[b] = "cut" => pc'[b] = "gone"
    BY <1>1 DEF PacedInv, FaultsInTurn
  <2>3. \A b \in Actor : Live(b)' => b # a /\ Live(b) /\ fault'[b] = fault[b]
    BY <1>1, <1>3, <1>4
  <2>4. \A b \in Actor : Standing(b)' => b # a /\ Standing(b) /\ pc'[b] = pc[b] /\ fault'[b] = fault[b]
    BY <1>1, <1>3, <1>4
  <2>5. \A b, d \in Actor :
            fault'[b] # "none" /\ fault'[d] # "none" /\ Live(b)' /\ Live(d)' => b = d
    BY <2>3 DEF PacedInv, FaultsInTurn
  <2>6. \A b \in Actor :
            Standing(b)' /\ pc'[b] \in Stopping /\ b[1] # Newest => fault'[b] # "none"
    BY <2>4 DEF PacedInv, FaultsInTurn
  <2> QED BY <1>1, <2>1, <2>2, <2>5, <2>6 DEF FaultsInTurn, Stopping
<1>12. Signals'
  <2>1. \A b \in signalled' : b \in signalled /\ b # a /\ b \in Actor
    BY <1>1 DEF PacedInv, PortInv, TypeOK
  <2>2. \A b \in Actor : Standing(b)' => Standing(b)
    BY <1>3, <1>4
  <2>3. \A b \in Actor : pc'[b] = "nap" => b # a /\ pc[b] = "nap"
    BY <1>1
  <2>4. \A b \in signalled' : /\ IsMember(b) /\ Live(b)' /\ content'[b[1]] = b[1]
                              /\ \A d \in Actor : d[1] = b[1] => ~Standing(d)'
    BY <1>1, <1>3, <2>1, <2>2, Actors DEF PacedInv, Signals
  <2>5. \A b \in Actor : IsMember(b) /\ pc'[b] = "nap" => b \in signalled'
    BY <1>1, <2>3 DEF PacedInv, Signals
  <2> QED BY <2>4, <2>5 DEF Signals, IsMember
<1>13. Accounted'
  <2>1. ASSUME NEW b \in Actor, Standing(b)'
        PROVE  path' = b[1] \/ Killer(b[1])' \/ pc'[b] \in {"test", "create"}
    <3>1. b # a /\ Standing(b) /\ pc'[b] = pc[b]
      BY <1>1, <1>3, <1>4, <2>1
    <3>2. path = b[1] \/ Killer(b[1]) \/ pc[b] \in {"test", "create"}
      BY <3>1 DEF PacedInv, Accounted
    <3> QED BY <1>1, <1>5, <3>1, <3>2, Actors
  <2> QED BY <2>1 DEF Accounted
<1>14. Departed'
  <2>1. ASSUME NEW b \in Actor, NEW d \in Actor, b[1] = d[1], IsMember(b),
               pc'[b] = "gone", fault'[b] # "cut", Standing(d)'
        PROVE  Killer(d[1])'
    <3>1. d # a /\ Standing(d) /\ pc'[d] = pc[d]
      BY <1>1, <1>3, <1>4, <2>1
    <3>2. Killer(d[1]) => Killer(d[1])'
      BY <1>5, <3>1, Actors
    <3>3. CASE b # a
      <4>1. pc[b] = "gone" /\ fault[b] # "cut"
        BY <1>1, <2>1, <3>3
      <4>2. Killer(d[1])
        BY <2>1, <3>1, <4>1 DEF PacedInv, Departed
      <4> QED BY <3>2, <4>2
    <3>4. CASE b = a
      <4>1. a \notin signalled
        BY <2>1, <3>1, <3>4 DEF PacedInv, Signals
      <4>2. path = Nobody \/ pc[a] = "test"
        BY <2>1, <3>4, <4>1, Actors
      <4>3. pc[a] # "test" /\ pc[d] \notin {"test", "create"}
        <5>1. pc[d] # "new" /\ pc[a] # "new"
          BY <1>1, <3>1, Places DEF Standing, Live
        <5>2. ASSUME a[2] = "core", d[2] = "core"
              PROVE  FALSE
          <6>1. a[1] = d[1] /\ a[2] = d[2] /\ a # d
            BY <2>1, <3>1, <3>4, <5>2
          <6> QED BY <6>1, Actors
        <5>3. pc[a] = "test" => a[2] = "core"
          BY Places DEF PacedInv, PortInv, PlacesOK
        <5>4. pc[d] \in {"test", "create"} => d[2] = "core"
          BY Places DEF PacedInv, PortInv, PlacesOK
        <5>5. a[2] \in Front \/ a[2] = "core"
          BY <2>1, <3>4, Actors
        <5>6. d[2] \in Front \/ d[2] = "core"
          BY <3>1, Actors DEF Standing
        <5> QED BY <2>1, <3>1, <3>4, <5>1, <5>2, <5>3, <5>4, <5>5, <5>6 DEF PacedInv, Forked
      <4>4. path # d[1]
        BY <4>2, <4>3, Actors
      <4>5. Killer(d[1])
        BY <3>1, <4>3, <4>4 DEF PacedInv, Accounted
      <4> QED BY <3>2, <4>5
    <3> QED BY <3>3, <3>4
  <2> QED BY <2>1 DEF Departed, IsMember
<1>15. Told'
  BY <1>1 DEF PacedInv, Told
<1> QED
  BY <1>6, <1>7, <1>8, <1>9, <1>10, <1>11, <1>12, <1>13, <1>14, <1>15 DEF PacedInv

LEMMA LeaveEffect ==
    ASSUME NEW a \in Actor, PacedInv, Live(a), Goto(a, "gone"), struck \subseteq struck',
           UNCHANGED <<path, typed>>, signalled' = signalled \ {a},
           content' = content \/ content' = [content EXCEPT ![fd[a]] = fd[a]],
           Forget(a) \/ UNCHANGED opened,
           fault' = fault \/ fault' = [fault EXCEPT ![a] = "cut"]
    PROVE  Leaves(a)
<1>1. /\ pc \in [Actor -> Place] /\ fd \in [Actor -> Cmd \cup {Nobody}]
      /\ content \in [Cmd -> Cmd \cup {Nobody}]
      /\ got \in [Actor -> Cmd \cup {Nobody}] /\ fault \in [Actor -> {"none", "failed", "cut"}]
  BY DEF PacedInv, PortInv, TypeOK
<1>2. pc'[a] = "gone" /\ \A b \in Actor : b # a => pc'[b] = pc[b]
  BY <1>1 DEF Goto
<1>3. \A b \in Actor : b # a => fd'[b] = fd[b] /\ got'[b] = got[b]
  BY <1>1 DEF Forget, opened
<1>4. /\ \A b \in Actor : b # a => fault'[b] = fault[b]
      /\ fault'[a] \in {fault[a], "cut"}
  BY <1>1
<1>5. \A i \in Cmd : content'[i] = content[i] \/ content'[i] = i
  BY <1>1
<1> QED BY <1>2, <1>3, <1>4, <1>5 DEF Leaves

\* While a command stops a daemon and the file is gone, no process of a daemon
\* is on its way to stop it, unless the command is about to signal it.
LEMMA NobodyElseStops ==
    ASSUME NEW a \in Actor, NEW b \in Actor, PacedInv, IsCommand(a), Live(a), path = Nobody,
           \A d \in Actor : At(a, "kill") /\ Standing(d) => d[1] # got[a],
           Stops(b), IsMember(b)
    PROVE  FALSE
<1>1. Standing(b) /\ Live(b) /\ pc[b] \notin {"test", "create", "kill", "new"} /\ pc[b] \in Stopping
  BY Places DEF Standing, Stops, Live
<1>2. Killer(b[1])
  BY <1>1, Actors DEF PacedInv, Accounted
<1>3. PICK x \in Actor : At(x, "kill") /\ got[x] = b[1]
  BY <1>2 DEF Killer
<1>4. Live(x) /\ x \notin signalled /\ pc[x] = "kill" /\ pc[x] \in Stopping
  BY <1>3, Places DEF At, Live
<1>5. CASE IsCommand(x)
  <2>1. a[1] = Newest /\ x[1] = Newest
    BY <1>4, <1>5 DEF PacedInv, Born
  <2>2. x = a
    BY <1>5, <2>1, Actors DEF IsCommand
  <2> QED BY <1>1, <1>3, <2>2
<1>6. CASE IsMember(x)
  <2>1. got[x] = x[1]
    BY <1>4, <1>6, Actors DEF PacedInv, HasRead
  <2>2. b[1] # Newest
    BY <1>1 DEF PacedInv, Born
  <2>3. Standing(x) /\ x[1] # Newest
    BY <1>3, <1>4, <1>6, <2>1, <2>2 DEF Standing
  <2>4. fault[b] # "none" /\ fault[x] # "none"
    BY <1>1, <1>4, <2>2, <2>3 DEF PacedInv, FaultsInTurn
  <2>5. b = x
    BY <1>1, <1>4, <2>4 DEF PacedInv, FaultsInTurn
  <2> QED BY <1>1, <1>4, <2>5
<1> QED BY <1>5, <1>6, Actors

\* Steps that leave alone what is new, what starts and who lives keep Born.
LEMMA BornKept ==
    ASSUME PacedInv, UNCHANGED typed,
           \A b \in Actor :
               /\ pc[b] = "new" => pc'[b] = "new"
               /\ pc'[b] \in Starting \cup {"bind"} => pc[b] \in Starting \cup {"bind"}
               /\ Live(b)' => Live(b)
    PROVE  Born'
<1>1. Newest' = Newest /\ typed' = typed
  BY DEF Newest
<1>2. \A b \in Actor : b[1] > Newest => pc'[b] = "new"
  BY DEF PacedInv, Born
<1>4. \A b, d \in Actor : IsCommand(b) /\ Live(b)' /\ IsMember(d) =>
          b[1] = Newest /\ (d[1] = Newest => pc'[d] = "new")
  BY DEF PacedInv, Born
<1>5. \A b \in Actor : pc'[b] \in Starting \cup {"bind"} => b[1] = Newest
  BY DEF PacedInv, Born
<1>6. \A b \in Actor : b[1] = Newest /\ IsMember(b) /\ typed[Newest] = "stop" => pc'[b] = "new"
  BY DEF PacedInv, Born
<1> QED BY <1>1, <1>2, <1>4, <1>5, <1>6 DEF Born, IsMember, IsCommand, Starting

\* Steps that leave alone who stands, who has gone, and the file, keep Accounted
\* and Departed.
LEMMA DepartKept ==
    ASSUME PacedInv, UNCHANGED <<path, fault>>,
           \A b \in Actor : (Standing(b)' => Standing(b)) /\ (pc'[b] = "gone" => pc[b] = "gone"),
           \A c \in Cmd : Killer(c) => Killer(c)'
    PROVE  /\ Departed'
           /\ (\A b \in Actor : pc[b] \in {"test", "create"} => pc'[b] \in {"test", "create"})
                  => Accounted'
<1>1. path' = path /\ fault' = fault
  OBVIOUS
<1>2. ASSUME NEW b \in Actor, NEW d \in Actor, b[1] = d[1], IsMember(b),
             pc'[b] = "gone", fault[b] # "cut", Standing(d)'
      PROVE  Killer(d[1])'
  <2>1. Killer(d[1])
    BY <1>2 DEF PacedInv, Departed
  <2> QED BY <2>1, Actors
<1>3. Departed'
  BY <1>1, <1>2 DEF Departed, IsMember
<1>4. ASSUME \A b \in Actor : pc[b] \in {"test", "create"} => pc'[b] \in {"test", "create"}
      PROVE  Accounted'
  <2>1. ASSUME NEW b \in Actor, Standing(b)'
        PROVE  path = b[1] \/ Killer(b[1])' \/ pc'[b] \in {"test", "create"}
    <3>1. path = b[1] \/ Killer(b[1]) \/ pc[b] \in {"test", "create"}
      BY <2>1 DEF PacedInv, Accounted
    <3> QED BY <1>4, <3>1, Actors
  <2> QED BY <1>1, <2>1 DEF Accounted
<1> QED BY <1>3, <1>4

LEMMA FaultsKept ==
    ASSUME PacedInv, UNCHANGED <<typed, fault>>,
           \A b \in Actor :
               /\ pc[b] \in Stopping \cup {"gone"} => pc'[b] \in Stopping \cup {"gone"}
               /\ pc[b] = "gone" => pc'[b] = "gone"
               /\ Live(b)' => Live(b) \/ fault[b] = "none"
               /\ Standing(b)' /\ pc'[b] \in Stopping => Standing(b) /\ pc[b] \in Stopping
    PROVE  FaultsInTurn'
<1>1. Newest' = Newest /\ fault' = fault
  BY DEF Newest
<1>2. \A b \in Actor : /\ fault[b] # "none" => pc'[b] \in Stopping \cup {"gone"}
                       /\ fault[b] = "cut" => pc'[b] = "gone"
  BY DEF PacedInv, FaultsInTurn
<1>3. \A b, d \in Actor : fault[b] # "none" /\ fault[d] # "none" /\ Live(b)' /\ Live(d)' => b = d
  BY DEF PacedInv, FaultsInTurn
<1>4. \A b \in Actor :
          Standing(b)' /\ pc'[b] \in Stopping /\ b[1] # Newest => fault[b] # "none"
  BY DEF PacedInv, FaultsInTurn
<1> QED BY <1>1, <1>2, <1>3, <1>4 DEF FaultsInTurn, Stopping

\* Who is about to kill is, if he keeps the number he has read.
LEMMA KillersKept ==
    ASSUME \A b \in Actor : At(b, "kill") => At(b, "kill")' /\ got'[b] = got[b]
    PROVE  \A c \in Cmd : Killer(c) => Killer(c)'
<1>1. ASSUME NEW c \in Cmd, NEW x \in Actor, At(x, "kill"), got[x] = c
      PROVE  Killer(c)'
  <2>1. At(x, "kill")' /\ got'[x] = c
    BY <1>1
  <2> QED BY <2>1 DEF Killer
<1> QED BY <1>1 DEF Killer

\* Steps that leave alone what is new, and how far a core server has come.
LEMMA ForkedKept ==
    ASSUME PacedInv,
           \A b \in Actor : pc'[b] = "new" <=> pc[b] = "new",
           \A b \in Actor : b[2] = "core" =>
               /\ pc'[b] \in {"new", "test", "create", "write", "fork http"} =>
                     pc[b] \in {"new", "test", "create", "write", "fork http"}
               /\ pc'[b] \in {"fork midnet", "serving"} => pc'[b] = pc[b]
    PROVE  Forked'
<1>0. Forked
  BY DEF PacedInv
<1>1. ASSUME NEW b \in Actor, NEW d \in Actor, b[1] = d[1], b[2] = "core", d[2] \in Front
      PROVE  /\ pc'[b] \in {"new", "test", "create", "write", "fork http"} => pc'[d] = "new"
             /\ pc'[b] = "fork midnet" => (pc'[d] = "new" <=> d[2] = "midnet")
             /\ pc'[b] = "serving" => pc'[d] # "new"
  <2>1. /\ pc[b] \in {"new", "test", "create", "write", "fork http"} => pc[d] = "new"
        /\ pc[b] = "fork midnet" => (pc[d] = "new" <=> d[2] = "midnet")
        /\ pc[b] = "serving" => pc[d] # "new"
    BY ONLY <1>0, <1>1 DEF Forked
  <2> QED BY <1>1, <2>1
<1> QED BY <1>1 DEF Forked

\* Steps that signal nobody, and after which who lives still does.
LEMMA SignalsKept ==
    ASSUME PacedInv, UNCHANGED <<content, signalled>>,
           \A b \in Actor : /\ Live(b) => Live(b)'
                            /\ Standing(b)' => Standing(b)
                            /\ pc'[b] = "nap" => pc[b] = "nap"
    PROVE  Signals'
<1>1. signalled \subseteq Actor
  BY DEF PacedInv, PortInv, TypeOK
<1>2. \A b \in signalled : /\ IsMember(b) /\ Live(b)' /\ content[b[1]] = b[1]
                           /\ \A d \in Actor : d[1] = b[1] => ~Standing(d)'
  BY <1>1 DEF PacedInv, Signals
<1>3. \A b \in Actor : IsMember(b) /\ pc'[b] = "nap" => b \in signalled
  BY DEF PacedInv, Signals
<1> QED BY <1>2, <1>3 DEF Signals, IsMember

\* A process on its way to unlink the file takes a step to it.
LEMMA ApproachPaced ==
    ASSUME NEW a \in Actor, PacedInv, PortInv', Stops(a), pc'[a] \in {"read", "unlink"},
           \A b \in Actor : b # a => pc'[b] = pc[b] /\ fd'[b] = fd[b] /\ got'[b] = got[b],
           UNCHANGED <<path, content, signalled, typed, said, fault, struck>>,
           IsMember(a) => fd'[a] = a[1], IsCommand(a) => path \in {Nobody, fd'[a]},
           pc'[a] = "read" => content[fd'[a]] = fd'[a] \/ (IsCommand(a) /\ Empty),
           pc'[a] = "unlink" =>
               \/ got'[a] = fd'[a] /\ got'[a] \in Cmd /\ content[got'[a]] = got'[a]
               \/ IsCommand(a) /\ got'[a] = Nobody /\ Empty
    PROVE  PacedInv'
<1>1. /\ path' = path /\ content' = content /\ signalled' = signalled /\ typed' = typed
      /\ said' = said /\ fault' = fault /\ struck' = struck /\ Newest' = Newest
  BY DEF Newest
<1>2. pc[a] \in {"open", "read", "unlink"} /\ a \notin signalled
  BY DEF Stops
<1>3. \A b \in Actor : /\ Standing(b)' <=> Standing(b)
                       /\ Stops(b)' <=> Stops(b)
                       /\ At(b, "kill")' <=> At(b, "kill")
                       /\ At(b, "kill") => got'[b] = got[b]
                       /\ Live(b)' <=> Live(b)
  BY <1>1, <1>2, Places DEF Standing, Stops, At, Live, IsMember
<1>4. \A b \in Actor : /\ pc'[b] \in Stopping <=> pc[b] \in Stopping
                       /\ pc'[b] \notin {"open", "read", "unlink"} => pc'[b] = pc[b]
                       /\ pc[b] \notin {"open", "read", "unlink"} => pc'[b] = pc[b]
  BY <1>2, Places
<1>5. \A c \in Cmd : Killer(c) => Killer(c)'
  BY <1>3, KillersKept
<1>51. Empty => Empty'
  <2>1. \A b \in Actor : Standing(b)' => Standing(b) /\ (pc[b] = "test" => pc'[b] = "test")
    BY <1>2, <1>3
  <2> QED BY <1>1, <2>1, EmptyKept
<1>6. Born'
  <2>1. \A b \in Actor : /\ pc[b] = "new" <=> pc'[b] = "new"
                         /\ pc[b] \in Starting \cup {"bind"} <=> pc'[b] \in Starting \cup {"bind"}
    BY <1>2, Places
  <2> QED BY <1>3, <2>1, BornKept
<1>7. Forked'
  BY <1>2, ForkedKept
<1>8. Written'
  <2>1. \A b \in Actor : /\ pc'[b] = "create" => pc[b] = "create"
                         /\ pc'[b] = "write" => pc[b] = "write" /\ fd'[b] = fd[b]
                         /\ pc[b] = "write" => pc'[b] = "write"
    BY <1>2
  <2> QED BY <1>51, <2>1, WrittenKept
<1>9. HasRead'
  <2>1. ASSUME NEW b \in Actor
        PROVE  /\ pc'[b] = "read" => content[fd'[b]] = fd'[b] \/ (IsCommand(b) /\ Empty')
               /\ pc'[b] \in {"unlink", "kill"} =>
                     \/ got'[b] = fd'[b] /\ got'[b] \in Cmd /\ content[got'[b]] = got'[b]
                     \/ IsCommand(b) /\ got'[b] = Nobody /\ Empty'
               /\ pc'[b] \in {"read", "unlink", "kill"} /\ IsMember(b) => fd'[b] = b[1]
    <3>1. CASE b = a
      BY <1>51, <3>1
    <3>2. CASE b # a
      BY <1>51, <3>2 DEF PacedInv, HasRead
    <3> QED BY <3>1, <3>2
  <2> QED BY <1>1, <2>1 DEF HasRead, IsMember, IsCommand
<1>10. Names'
  <2>1. ASSUME NEW b \in Actor, IsCommand(b)
        PROVE  /\ pc'[b] \in {"read", "unlink"} => path \in {Nobody, fd'[b]}
               /\ pc'[b] \in {"kill", "nap"} => path = Nobody
    <3>1. CASE b = a
      BY <2>1, <3>1
    <3>2. CASE b # a
      BY <2>1, <3>2 DEF PacedInv, Names
    <3> QED BY <3>1, <3>2
  <2>2. \A b \in Actor : IsMember(b) /\ Stops(b)' => path \in {Nobody, b[1]}
    BY <1>3 DEF PacedInv, Names
  <2>3. \A b, d \in Actor : pc'[d] \in {"test", "create"} /\ Stops(b)' => path = b[1]
    BY <1>3, <1>4 DEF PacedInv, Names
  <2>4. \A b \in Actor : IsMember(b) /\ At(b, "kill")' => path \in {Nobody, Newest} /\ path # b[1]
    BY <1>3 DEF PacedInv, Names
  <2> QED BY <1>1, <2>1, <2>2, <2>3, <2>4 DEF Names, IsMember, IsCommand
<1>11. FaultsInTurn'
  BY <1>3, <1>4, FaultsKept
<1>12. Signals'
  BY <1>3, SignalsKept
<1>13. Accounted'
  <2>1. \A b \in Actor : pc[b] \in {"test", "create"} => pc'[b] \in {"test", "create"}
    BY <1>2
  <2>2. \A b \in Actor : pc'[b] = "gone" => pc[b] = "gone"
    OBVIOUS
  <2> QED BY <1>3, <1>5, <2>1, <2>2, DepartKept
<1>14. Departed'
  <2>1. \A b \in Actor : pc'[b] = "gone" => pc[b] = "gone"
    OBVIOUS
  <2> QED BY <1>3, <1>5, <2>1, DepartKept
<1>15. Told'
  BY <1>1 DEF PacedInv, Told
<1> QED
  BY <1>6, <1>7, <1>8, <1>9, <1>10, <1>11, <1>12, <1>13, <1>14, <1>15 DEF PacedInv

\* A restart has stopped what there was to stop, and its daemon comes to be.
LEMMA RestartPaced ==
    ASSUME NEW a \in Actor, NEW k \in Actor, PacedInv, PortInv', Live(a), IsCommand(a),
           k[1] = a[1], k[2] = "core", typed[Newest] # "stop", path = Nobody,
           pc'[a] = "gone", pc'[k] = "test",
           \A b \in Actor : b # a /\ b # k => pc'[b] = pc[b],
           \A b \in Actor : b # a => fd'[b] = fd[b] /\ got'[b] = got[b],
           UNCHANGED <<path, content, signalled, typed, fault, struck>>,
           \A b \in Actor : At(a, "kill") /\ Standing(b) => b[1] # got[a]
    PROVE  PacedInv'
<1>1. /\ path' = path /\ content' = content /\ signalled' = signalled /\ typed' = typed
      /\ fault' = fault /\ struck' = struck /\ Newest' = Newest
  BY DEF Newest
<1>2. a[1] = Newest /\ IsMember(k) /\ a # k /\ pc[k] = "new" /\ k \notin signalled
  <2>1. a[1] = Newest /\ IsMember(k)
    BY Actors DEF PacedInv, Born
  <2>2. pc[k] = "new"
    BY <2>1 DEF PacedInv, Born
  <2>3. k \notin signalled
    BY <2>2, Places DEF PacedInv, Signals, Live
  <2> QED BY <2>1, <2>2, <2>3, Actors
<1>3. a \notin signalled /\ pc[a] \in Alive /\ pc[a] \notin Starting \cup {"bind", "serving"}
  <2>1. a \notin signalled
    BY Actors DEF PacedInv, Signals
  <2>2. pc[a] \in Alive
    BY DEF Live
  <2>3. pc[a] \notin Starting \cup {"bind", "serving"}
    <3>1. a[2] = "command" /\ a[2] # "core" /\ a[2] \notin Front /\ a[2] \notin Member
      BY Actors DEF IsCommand, IsMember
    <3> QED BY <3>1 DEF PacedInv, PortInv, PlacesOK
  <2> QED BY <2>1, <2>2, <2>3
<1>4. \A b \in Actor : Newest = b[1] /\ IsMember(b) => pc[b] = "new"
  BY DEF PacedInv, Born
<1>5. \A b \in Actor : b # a /\ b # k => /\ Standing(b)' <=> Standing(b)
                                         /\ Stops(b)' <=> Stops(b)
                                         /\ At(b, "kill")' <=> At(b, "kill")
                                         /\ Live(b)' <=> Live(b)
  BY <1>1 DEF Standing, Stops, At, Live, IsMember
<1>6. /\ ~Standing(a)' /\ ~Stops(a)' /\ ~At(a, "kill")' /\ ~Live(a)'
      /\ ~Stops(k)' /\ ~At(k, "kill")' /\ ~Stops(k) /\ ~Standing(k) /\ ~Standing(a)
      /\ ~At(k, "kill") /\ ~Live(k)
  BY <1>2, Places, Actors DEF Standing, Stops, At, Live, IsMember
<1>7. \A c \in Cmd : (\E b \in Actor : Standing(b) /\ b[1] = c) /\ Killer(c) => Killer(c)'
  <2>1. ASSUME NEW c \in Cmd, NEW b \in Actor, Standing(b), b[1] = c,
               NEW x \in Actor, At(x, "kill"), got[x] = c
        PROVE  Killer(c)'
    <3>1. x # a /\ x # k
      BY <1>6, <2>1
    <3>2. At(x, "kill")' /\ got'[x] = c
      BY <1>5, <2>1, <3>1
    <3> QED BY <3>2 DEF Killer
  <2> QED BY <2>1 DEF Killer
<1>8. \A b \in Actor : IsMember(b) => ~Stops(b)
  BY NobodyElseStops
<1>9. \A b \in Actor : ~Stops(b)'
  <2>1. ASSUME NEW b \in Actor, b # a, b # k, IsCommand(b), Stops(b)
        PROVE  FALSE
    <3>1. Live(b)
      BY <2>1, Places DEF Stops, Live
    <3>2. b[1] = Newest
      BY <1>2, <2>1, <3>1 DEF PacedInv, Born
    <3> QED BY <1>2, <2>1, <3>2, Actors DEF IsCommand
  <2> QED BY <1>5, <1>6, <1>8, <2>1, Actors
<1>91. Empty => Empty'
  <2>1. \A b \in Actor : Standing(b)' => pc'[b] = "test" \/ (Standing(b) /\ pc'[b] = pc[b])
    BY <1>5, <1>6
  <2> QED BY <1>1, <2>1, EmptyKept
<1>10. Born'
  <2>1. \A b \in Actor : b[1] > Newest => pc'[b] = "new"
    <3>1. ASSUME NEW b \in Actor, b[1] > Newest
          PROVE  pc'[b] = "new"
      <4>1. b # a /\ b # k
        <5>1. Newest \in Nat
          BY Numerals DEF PacedInv
        <5>2. ~(Newest > Newest)
          BY ONLY <5>1
        <5> QED BY <1>2, <3>1, <5>2
      <4> QED BY <3>1, <4>1 DEF PacedInv, Born
    <3> QED BY <3>1
  <2>3. \A b \in Actor : ~(IsCommand(b) /\ Live(b)')
    <3>1. ASSUME NEW b \in Actor, IsCommand(b), Live(b)'
          PROVE  FALSE
      <4>1. b # a /\ b # k
        BY <1>2, <1>6, <3>1, Actors
      <4>2. Live(b)
        BY <1>5, <3>1, <4>1
      <4>3. b[1] = Newest
        BY <1>2, <3>1, <4>2 DEF PacedInv, Born
      <4> QED BY <1>2, <3>1, <4>1, <4>3, Actors DEF IsCommand
    <3> QED BY <3>1
  <2>4. \A b \in Actor : pc'[b] \in Starting \cup {"bind"} => b[1] = Newest
    <3>1. ASSUME NEW b \in Actor, pc'[b] \in Starting \cup {"bind"}
          PROVE  b[1] = Newest
      <4>1. b # a
        BY <3>1, Places
      <4>2. CASE b # k
        BY <3>1, <4>1, <4>2 DEF PacedInv, Born
      <4> QED BY <1>2, <4>2
    <3> QED BY <3>1
  <2> QED BY <1>1, <2>1, <2>3, <2>4 DEF Born, IsMember, IsCommand, Starting
<1>11. Forked'
  <2>1. ASSUME NEW b \in Actor, NEW d \in Actor, b[1] = d[1], b[2] = "core", d[2] \in Front
        PROVE  /\ pc'[b] \in {"new", "test", "create", "write", "fork http"} => pc'[d] = "new"
               /\ pc'[b] = "fork midnet" => (pc'[d] = "new" <=> d[2] = "midnet")
               /\ pc'[b] = "serving" => pc'[d] # "new"
    <3>1. b # a /\ d # a /\ d # k /\ pc'[d] = pc[d]
      BY <2>1, Actors DEF IsCommand, IsMember
    <3>2. CASE b = k
      <4>1. d[1] = Newest /\ IsMember(d)
        BY <1>2, <2>1, <3>2, Actors
      <4>2. pc'[d] = "new"
        BY <1>4, <3>1, <4>1
      <4> QED BY <3>2, <4>2
    <3>3. CASE b # k
      <4>1. pc'[b] = pc[b]
        BY <3>1, <3>3
      <4>2. /\ pc[b] \in {"new", "test", "create", "write", "fork http"} => pc[d] = "new"
            /\ pc[b] = "fork midnet" => (pc[d] = "new" <=> d[2] = "midnet")
            /\ pc[b] = "serving" => pc[d] # "new"
        BY <2>1 DEF PacedInv, Forked
      <4> QED BY <3>1, <4>1, <4>2
    <3> QED BY <3>2, <3>3
  <2> QED BY ONLY <2>1 DEF Forked
<1>12. Written'
  <2>1. \A b \in Actor : /\ pc'[b] = "create" => pc[b] = "create"
                         /\ pc'[b] = "write" => pc[b] = "write" /\ fd'[b] = fd[b]
                         /\ pc[b] = "write" => pc'[b] = "write"
    BY <1>2, <1>3, Places
  <2> QED BY <1>91, <2>1, WrittenKept
<1>13. HasRead'
  <2>1. \A b \in Actor : pc'[b] \in {"read", "unlink", "kill"} =>
            pc'[b] = pc[b] /\ fd'[b] = fd[b] /\ got'[b] = got[b]
    OBVIOUS
  <2> QED BY <1>1, <1>91, <2>1, ReadKept
<1>14. Names'
  <2>1. \A b \in Actor : At(b, "kill")' => At(b, "kill")
    BY <1>5, <1>6
  <2>2. \A b \in Actor : IsMember(b) /\ At(b, "kill")' => path \in {Nobody, Newest} /\ path # b[1]
    BY <2>1 DEF PacedInv, Names
  <2> QED BY <1>1, <1>9, <2>2 DEF Names, IsMember, IsCommand
<1>15. FaultsInTurn'
  <2>1. \A b \in Actor : fault[b] # "none" => b # k /\ pc'[b] \in Stopping \cup {"gone"}
    BY <1>2, Places DEF PacedInv, FaultsInTurn
  <2>2. \A b \in Actor : fault[b] = "cut" => pc'[b] = "gone"
    BY <1>2 DEF PacedInv, FaultsInTurn
  <2>3. \A b \in Actor : Live(b)' /\ b # k => Live(b)
    BY <1>5, <1>6
  <2>4. \A b \in Actor : Standing(b)' /\ pc'[b] \in Stopping => Standing(b) /\ pc[b] \in Stopping
    BY <1>5, <1>6, Places
  <2> QED BY <1>1, <2>1, <2>2, <2>3, <2>4 DEF PacedInv, FaultsInTurn, Stopping
<1>16. Signals'
  <2>1. signalled \subseteq Actor
    BY DEF PacedInv, PortInv, TypeOK
  <2>2. ASSUME NEW b \in signalled
        PROVE  /\ IsMember(b) /\ Live(b)' /\ content[b[1]] = b[1]
               /\ \A d \in Actor : d[1] = b[1] => ~Standing(d)'
    <3>1. /\ IsMember(b) /\ Live(b) /\ content[b[1]] = b[1] /\ b \in Actor
          /\ \A d \in Actor : d[1] = b[1] => ~Standing(d)
      BY <2>1 DEF PacedInv, Signals
    <3>2. b[1] # Newest
      BY <1>4, <3>1, Places DEF Live
    <3>3. b # a /\ b # k
      BY <1>2, <1>3
    <3> QED BY <1>2, <1>5, <1>6, <3>1, <3>2, <3>3
  <2>3. \A b \in Actor : pc'[b] = "nap" => pc[b] = "nap"
    BY <1>2
  <2> QED BY <1>1, <2>2, <2>3 DEF PacedInv, Signals, IsMember
<1>17. Accounted'
  <2>1. ASSUME NEW b \in Actor, Standing(b)'
        PROVE  path = b[1] \/ Killer(b[1])' \/ pc'[b] \in {"test", "create"}
    <3>1. CASE b = k
      BY <3>1
    <3>2. CASE b # k
      <4>1. b # a /\ Standing(b) /\ pc'[b] = pc[b]
        BY <1>5, <1>6, <2>1, <3>2
      <4>2. path = b[1] \/ Killer(b[1]) \/ pc[b] \in {"test", "create"}
        BY <4>1 DEF PacedInv, Accounted
      <4> QED BY <1>7, <4>1, <4>2, Actors
    <3> QED BY <3>1, <3>2
  <2> QED BY <1>1, <2>1 DEF Accounted
<1>18. Departed'
  <2>1. ASSUME NEW b \in Actor, NEW d \in Actor, b[1] = d[1], IsMember(b),
               pc'[b] = "gone", fault[b] # "cut", Standing(d)'
        PROVE  Killer(d[1])'
    <3>1. b # a /\ b # k
      BY <2>1, Actors
    <3>2. pc'[b] = pc[b] /\ pc[b] # "new"
      BY <2>1, <3>1
    <3>3. b[1] # Newest
      BY <1>4, <2>1, <3>2
    <3>4. d # k /\ d # a /\ Standing(d)
      BY <1>2, <1>5, <1>6, <2>1, <3>3
    <3>5. Killer(d[1])
      BY <2>1, <3>2, <3>4 DEF PacedInv, Departed
    <3> QED BY <1>7, <3>4, <3>5, Actors
  <2> QED BY <1>1, <2>1 DEF Departed, IsMember
<1>19. Told'
  BY <1>1 DEF PacedInv, Told
<1> QED
  BY <1>10, <1>11, <1>12, <1>13, <1>14, <1>15, <1>16, <1>17, <1>18, <1>19 DEF PacedInv

\* The PID file is unlinked: it is the one of the daemon to be signalled.
LEMMA UnlinkPaced ==
    ASSUME NEW a \in Actor, PacedInv, PortInv', At(a, "unlink"), path # Nobody,
           path' = Nobody, pc'[a] = "kill",
           \A b \in Actor : b # a => pc'[b] = pc[b],
           UNCHANGED <<content, fd, got, signalled, typed, said, fault, struck>>
    PROVE  PacedInv'
<1>1. /\ content' = content /\ signalled' = signalled /\ typed' = typed /\ fd' = fd /\ got' = got
      /\ said' = said /\ fault' = fault /\ struck' = struck /\ Newest' = Newest
  BY DEF Newest
<1>2. pc[a] = "unlink" /\ a \notin signalled /\ Stops(a) /\ Live(a) /\ ~At(a, "kill")
  BY Places DEF At, Stops, Live
<1>3. \A b \in Actor : b # a => /\ Standing(b)' <=> Standing(b)
                                /\ Stops(b)' <=> Stops(b)
                                /\ At(b, "kill")' <=> At(b, "kill")
                                /\ Live(b)' <=> Live(b)
  BY <1>1 DEF Standing, Stops, At, Live, IsMember
<1>4. /\ (Standing(a)' <=> Standing(a)) /\ ~Stops(a)' /\ At(a, "kill")' /\ Live(a)'
  BY <1>1, <1>2, Places DEF Standing, Stops, At, Live, IsMember
<1>5. got[a] = path \/ Empty
  <2>1. \/ got[a] = fd[a]
        \/ Empty
    BY <1>2 DEF PacedInv, HasRead
  <2>2. CASE IsCommand(a)
    BY <1>2, <2>1, <2>2 DEF PacedInv, Names
  <2>3. CASE IsMember(a)
    <3>1. fd[a] = a[1]
      BY <1>2, <2>3 DEF PacedInv, HasRead
    <3>2. path \in {Nobody, a[1]}
      BY <1>2, <2>3 DEF PacedInv, Names
    <3> QED BY <2>1, <3>1, <3>2
  <2> QED BY <2>2, <2>3, Actors
<1>51. Empty => Empty'
  <2>1. \A b \in Actor : Standing(b)' => Standing(b) /\ (pc[b] = "test" => pc'[b] = "test")
    BY <1>2, <1>3, <1>4
  <2> QED BY <1>1, <2>1, EmptyKept
<1>6. \A c \in Cmd : Killer(c) \/ (c = path /\ got[a] = path) => Killer(c)'
  <2>1. ASSUME NEW c \in Cmd, NEW x \in Actor, At(x, "kill"), got[x] = c
        PROVE  Killer(c)'
    <3>1. At(x, "kill")' /\ got'[x] = c
      BY <1>1, <1>2, <1>3, <2>1
    <3> QED BY <3>1 DEF Killer
  <2>2. ASSUME NEW c \in Cmd, c = path, got[a] = path
        PROVE  Killer(c)'
    BY <1>1, <1>4, <2>2 DEF Killer
  <2> QED BY <2>1, <2>2 DEF Killer
<1>7. \A b \in Actor : pc[b] \notin {"test", "create"} \/ \A d \in Actor : Stops(d) => d = a
  <2>1. ASSUME NEW b \in Actor, pc[b] \in {"test", "create"}, NEW d \in Actor, Stops(d), d # a
        PROVE  FALSE
    <3>1. b[1] = Newest /\ IsMember(b) /\ pc[b] # "new"
      <4>1. b[1] = Newest
        BY <2>1, Places DEF PacedInv, Born
      <4>2. b[2] = "core"
        BY <2>1, Places DEF PacedInv, PortInv, PlacesOK
      <4> QED BY <2>1, <4>1, <4>2, Actors
    <3>2. Live(d) /\ pc[d] \in Stopping /\ d \notin signalled
      BY <2>1, Places DEF Stops, Live
    <3>3. IsMember(a) /\ IsMember(d)
      BY <1>2, <3>1, <3>2, Actors DEF PacedInv, Born
    <3>4. path = a[1] /\ path = d[1]
      BY <1>2, <2>1 DEF PacedInv, Names
    <3>5. a[1] # Newest
      <4>1. CASE a[1] = Newest
        <5>1. a[2] # "core" /\ d[2] # "core"
          <6>1. b # a /\ b # d
            BY <1>2, <2>1 DEF Stops
          <6>2. b[2] = "core"
            BY <2>1, Places DEF PacedInv, PortInv, PlacesOK
          <6>3. b[1] = a[1] /\ b[1] = d[1]
            BY <3>1, <3>4, <4>1
          <6>4. a[2] # b[2] /\ d[2] # b[2]
            BY <6>1, <6>3, Actors
          <6> QED BY <6>2, <6>4
        <5>2. b[2] = "core" /\ a[2] \in Front /\ b[1] = a[1]
          BY <2>1, <3>1, <3>3, <4>1, <5>1, Places, Actors DEF PacedInv, PortInv, PlacesOK
        <5>3. pc[a] = "new"
          BY <2>1, <5>2 DEF PacedInv, Forked
        <5> QED BY <1>2, <5>3
      <4> QED BY <4>1
    <3>6. Standing(a) /\ Standing(d) /\ pc[a] \in Stopping
      BY <1>2, <3>2, <3>3, Places DEF Standing
    <3>7. fault[a] # "none" /\ fault[d] # "none"
      BY <3>2, <3>4, <3>5, <3>6 DEF PacedInv, FaultsInTurn
    <3>8. a = d
      BY <1>2, <3>2, <3>7 DEF PacedInv, FaultsInTurn
    <3> QED BY <2>1, <3>8
  <2> QED BY <2>1
<1>8. \A b \in Actor : /\ pc[b] = "new" <=> pc'[b] = "new"
                       /\ pc[b] \in Starting \cup {"bind"} <=> pc'[b] \in Starting \cup {"bind"}
                       /\ pc'[b] # "kill" => pc'[b] = pc[b]
                       /\ pc[b] \notin {"unlink", "kill"} => pc'[b] = pc[b]
                       /\ pc'[b] \in Stopping <=> pc[b] \in Stopping
  BY <1>2, Places
<1>9. Born'
  BY <1>2, <1>3, <1>8, BornKept
<1>10. Forked'
  BY <1>8, ForkedKept
<1>11. Written'
  <2>1. \A b \in Actor : /\ pc'[b] = "create" => pc[b] = "create"
                         /\ pc'[b] = "write" => pc[b] = "write"
    BY <1>8
  <2>2. \A b \in Actor : pc'[b] = "create" => path = Nobody
    BY <2>1 DEF PacedInv, Written
  <2>3. \A b \in Actor : pc'[b] = "write" => fd[b] = b[1]
    BY <2>1 DEF PacedInv, Written
  <2>4. \A i \in Cmd : content[i] \in {Nobody, i}
    BY DEF PacedInv, Written
  <2> QED BY <1>1, <2>2, <2>3, <2>4 DEF Written
<1>12. HasRead'
  <2>1. \A b \in Actor : /\ pc'[b] = "read" => pc[b] = "read"
                         /\ pc'[b] \in {"unlink", "kill"} => pc[b] \in {"unlink", "kill"}
    BY <1>2
  <2>2. ASSUME NEW b \in Actor
        PROVE  /\ pc'[b] = "read" => content[fd[b]] = fd[b] \/ (IsCommand(b) /\ Empty')
               /\ pc'[b] \in {"unlink", "kill"} =>
                     \/ got[b] = fd[b] /\ got[b] \in Cmd /\ content[got[b]] = got[b]
                     \/ IsCommand(b) /\ got[b] = Nobody /\ Empty'
               /\ pc'[b] \in {"read", "unlink", "kill"} /\ IsMember(b) => fd[b] = b[1]
    BY <1>51, <2>1 DEF PacedInv, HasRead
  <2> QED BY <1>1, <2>2 DEF HasRead, IsMember, IsCommand
<1>13. Names'
  <2>1. \A b, d \in Actor : pc'[d] \in {"test", "create"} => ~Stops(b)'
    <3>1. \A d \in Actor : pc'[d] \in {"test", "create"} => pc[d] \in {"test", "create"}
      BY <1>8
    <3>2. \A b \in Actor : Stops(b)' => Stops(b) /\ b # a
      BY <1>3, <1>4
    <3> QED BY <1>7, <3>1, <3>2
  <2> QED BY <1>1, <2>1, Actors DEF Names, IsMember, IsCommand
<1>14. FaultsInTurn'
  BY <1>2, <1>3, <1>4, <1>8, FaultsKept
<1>15. Signals'
  BY <1>3, <1>4, SignalsKept
<1>16. Accounted'
  <2>1. ASSUME NEW b \in Actor, Standing(b)'
        PROVE  Killer(b[1])' \/ pc'[b] \in {"test", "create"}
    <3>1. path = b[1] \/ Killer(b[1]) \/ pc[b] \in {"test", "create"}
      BY <1>3, <1>4, <2>1 DEF PacedInv, Accounted
    <3>2. Empty => pc[b] = "test"
      BY <1>3, <1>4, <2>1 DEF Empty
    <3> QED BY <1>5, <1>6, <1>8, <3>1, <3>2, Actors
  <2> QED BY <2>1 DEF Accounted
<1>17. Departed'
  <2>1. ASSUME NEW b \in Actor, NEW d \in Actor, b[1] = d[1], IsMember(b),
               pc'[b] = "gone", fault[b] # "cut", Standing(d)'
        PROVE  Killer(d[1])'
    <3>1. pc[b] = "gone" /\ Standing(d)
      BY <1>2, <1>3, <1>4, <2>1
    <3>2. Killer(d[1])
      BY <2>1, <3>1 DEF PacedInv, Departed
    <3> QED BY <1>6, <3>2, Actors
  <2> QED BY <1>1, <2>1 DEF Departed, IsMember
<1>18. Told'
  BY <1>1 DEF PacedInv, Told
<1> QED
  BY <1>9, <1>10, <1>11, <1>12, <1>13, <1>14, <1>15, <1>16, <1>17, <1>18 DEF PacedInv

LEMMA Groups ==
    \A g \in Cmd : /\ Group(g) \subseteq Actor
                   /\ \A b \in Actor :
                         b \in Group(g) <=> b[1] = g /\ IsMember(b) /\ Live(b)
<1> SUFFICES ASSUME NEW g \in Cmd
             PROVE  /\ Group(g) \subseteq Actor
                    /\ \A b \in Actor :
                          b \in Group(g) <=> b[1] = g /\ IsMember(b) /\ Live(b)
  OBVIOUS
<1>1. {g} \X Member \subseteq Actor
  BY DEF Actor
<1>2. \A b \in Actor : b \in {g} \X Member <=> b[1] = g /\ b[2] \in Member
  BY Numbers
<1> QED BY <1>1, <1>2 DEF Group, IsMember

\* The group that is signalled is the whole daemon whose number was read.
LEMMA SignalPaced ==
    ASSUME NEW a \in Actor, NEW g \in Cmd, PacedInv, PortInv', At(a, "kill"),
           got[a] = g \/ got[a] = Nobody,
           signalled' = signalled \cup Group(g), pc'[a] = "nap",
           \A b \in Actor : b # a => pc'[b] = pc[b] /\ fd'[b] = fd[b] /\ got'[b] = got[b],
           UNCHANGED <<path, content, typed, said, fault, struck>>
    PROVE  PacedInv'
<1>1. /\ path' = path /\ content' = content /\ typed' = typed
      /\ said' = said /\ fault' = fault /\ struck' = struck /\ Newest' = Newest
  BY DEF Newest
<1>2. /\ pc[a] = "kill" /\ a \notin signalled /\ Live(a) /\ ~Stops(a)
      /\ IsMember(a) => a[1] = g
      /\ content[g] = g \/ \A b \in Actor : ~Standing(b)
  <2>1. pc[a] = "kill" /\ a \notin signalled /\ Live(a) /\ ~Stops(a)
    BY Places DEF At, Stops, Live
  <2>2. \/ got[a] = fd[a] /\ got[a] \in Cmd /\ content[got[a]] = got[a]
        \/ IsCommand(a) /\ got[a] = Nobody /\ Empty
    BY <2>1 DEF PacedInv, HasRead
  <2>3. IsMember(a) => fd[a] = a[1] /\ ~IsCommand(a)
    BY <2>1, Actors DEF PacedInv, HasRead
  <2>4. ASSUME IsCommand(a), Empty, NEW b \in Actor, Standing(b)
        PROVE  FALSE
    <3>1. pc[b] = "test"
      BY <2>4 DEF Empty
    <3>2. b[1] = Newest /\ IsMember(b)
      BY <2>4, <3>1, Places DEF PacedInv, Born, Standing
    <3> QED BY <2>1, <2>4, <3>1, <3>2 DEF PacedInv, Born
  <2> QED BY <2>1, <2>2, <2>3, <2>4, Actors
<1>3. \A b \in Actor : /\ pc[b] = "new" <=> pc'[b] = "new"
                       /\ pc[b] \in Starting \cup {"bind"} <=> pc'[b] \in Starting \cup {"bind"}
                       /\ pc'[b] # "nap" => pc'[b] = pc[b] /\ b # a
                       /\ pc[b] \notin {"kill", "nap"} => pc'[b] = pc[b]
                       /\ pc'[b] \in Stopping <=> pc[b] \in Stopping
                       /\ Live(b)' <=> Live(b)
  BY <1>2, Places DEF Live
<1>4. \A b \in Actor :
          b \in signalled' <=> b \in signalled \/ (b[1] = g /\ IsMember(b) /\ Live(b))
  BY Groups
<1>5. \A b \in Actor : /\ Standing(b)' <=> Standing(b) /\ b[1] # g
                       /\ Stops(b)' => Stops(b)
                       /\ At(b, "kill")' => At(b, "kill") /\ b # a
  BY <1>2, <1>3, <1>4 DEF Standing, Stops, At, IsMember
<1>6. \A c \in Cmd : c # g /\ Killer(c) => Killer(c)'
  <2>1. ASSUME NEW c \in Cmd, NEW x \in Actor, At(x, "kill"), got[x] = c, c # g
        PROVE  Killer(c)'
    <3>1. x # a
      BY <2>1, Actors
    <3>2. IsMember(x) => x[1] = c
      BY <2>1, Actors DEF PacedInv, HasRead, At
    <3>3. At(x, "kill")' /\ got'[x] = c
      BY <1>4, <2>1, <3>1, <3>2 DEF At
    <3> QED BY <3>3 DEF Killer
  <2> QED BY <2>1 DEF Killer
<1>61. Empty => Empty'
  <2>1. \A b \in Actor : Standing(b)' => Standing(b) /\ (pc[b] = "test" => pc'[b] = "test")
    BY <1>2, <1>5
  <2> QED BY <1>1, <2>1, EmptyKept
<1>7. Born'
  BY <1>3, BornKept
<1>8. Forked'
  BY <1>3, ForkedKept
<1>9. Written'
  <2>1. \A b \in Actor : /\ pc'[b] = "create" => pc[b] = "create"
                         /\ pc'[b] = "write" => pc[b] = "write" /\ fd'[b] = fd[b]
                         /\ pc[b] = "write" => pc'[b] = "write"
    BY <1>2
  <2> QED BY <1>61, <2>1, WrittenKept
<1>10. HasRead'
  <2>1. \A b \in Actor : pc'[b] \in {"read", "unlink", "kill"} =>
            pc'[b] = pc[b] /\ fd'[b] = fd[b] /\ got'[b] = got[b]
    OBVIOUS
  <2> QED BY <1>1, <1>61, <2>1, ReadKept
<1>11. Names'
  <2>1. ASSUME NEW b \in Actor, IsCommand(b)
        PROVE  /\ pc'[b] \in {"read", "unlink"} => path \in {Nobody, fd'[b]}
               /\ pc'[b] \in {"kill", "nap"} => path = Nobody
    <3>1. CASE b = a
      BY <1>2, <2>1, <3>1 DEF PacedInv, Names
    <3>2. CASE b # a
      BY <2>1, <3>2 DEF PacedInv, Names
    <3> QED BY <3>1, <3>2
  <2>2. \A b \in Actor : IsMember(b) /\ Stops(b)' => path \in {Nobody, b[1]}
    BY <1>5 DEF PacedInv, Names
  <2>3. \A b, d \in Actor : pc'[d] \in {"test", "create"} /\ Stops(b)' => path = b[1]
    BY <1>3, <1>5 DEF PacedInv, Names
  <2>4. \A b \in Actor : IsMember(b) /\ At(b, "kill")' => path \in {Nobody, Newest} /\ path # b[1]
    BY <1>5 DEF PacedInv, Names
  <2> QED BY <1>1, <2>1, <2>2, <2>3, <2>4 DEF Names, IsMember, IsCommand
<1>12. FaultsInTurn'
  BY <1>3, <1>5, FaultsKept
<1>13. Signals'
  <2>1. signalled' \subseteq Actor
    BY DEF PortInv, TypeOK
  <2>2. ASSUME NEW b \in signalled'
        PROVE  /\ IsMember(b) /\ Live(b)' /\ content[b[1]] = b[1]
               /\ \A d \in Actor : d[1] = b[1] => ~Standing(d)'
    <3>1. CASE b \in signalled
      BY <1>3, <1>5, <2>1, <3>1 DEF PacedInv, Signals
    <3>2. CASE b \notin signalled
      <4>1. b \in Actor /\ b[1] = g /\ Standing(b)
        BY <1>4, <2>1, <3>2 DEF Standing
      <4> QED BY <1>2, <1>3, <1>4, <1>5, <3>2, <4>1
    <3> QED BY <3>1, <3>2
  <2>3. ASSUME NEW b \in Actor, IsMember(b), pc'[b] = "nap"
        PROVE  b \in signalled'
    <3>1. CASE b = a
      BY <1>2, <1>4, <2>3, <3>1
    <3>2. CASE b # a
      BY <2>3, <3>2 DEF PacedInv, Signals
    <3> QED BY <3>1, <3>2
  <2> QED BY <1>1, <2>2, <2>3 DEF Signals, IsMember
<1>14. Accounted'
  <2>1. ASSUME NEW b \in Actor, Standing(b)'
        PROVE  path = b[1] \/ Killer(b[1])' \/ pc'[b] \in {"test", "create"}
    <3>1. path = b[1] \/ Killer(b[1]) \/ pc[b] \in {"test", "create"}
      BY <1>5, <2>1 DEF PacedInv, Accounted
    <3> QED BY <1>3, <1>5, <1>6, <2>1, <3>1, Actors
  <2> QED BY <1>1, <2>1 DEF Accounted
<1>15. Departed'
  <2>1. ASSUME NEW b \in Actor, NEW d \in Actor, b[1] = d[1], IsMember(b),
               pc'[b] = "gone", fault[b] # "cut", Standing(d)'
        PROVE  Killer(d[1])'
    <3>1. pc[b] = "gone" /\ Standing(d) /\ d[1] # g
      BY <1>3, <1>5, <2>1
    <3>2. Killer(d[1])
      BY <2>1, <3>1 DEF PacedInv, Departed
    <3> QED BY <1>6, <3>1, <3>2, Actors
  <2> QED BY <1>1, <2>1 DEF Departed, IsMember
<1>16. Told'
  BY <1>1 DEF PacedInv, Told
<1> QED
  BY <1>7, <1>8, <1>9, <1>10, <1>11, <1>12, <1>13, <1>14, <1>15, <1>16 DEF PacedInv

\* The core server goes on to create the file it has not found.
LEMMA TestPaced ==
    ASSUME NEW a \in Actor, PacedInv, PortInv', At(a, "test"), path = Nobody,
           pc'[a] = "create", \A b \in Actor : b # a => pc'[b] = pc[b],
           UNCHANGED <<path, content, fd, got, signalled, typed, said, fault, struck>>
    PROVE  PacedInv'
<1>1. /\ path' = path /\ content' = content /\ signalled' = signalled /\ typed' = typed /\ fd' = fd
      /\ got' = got /\ said' = said /\ fault' = fault /\ struck' = struck /\ Newest' = Newest
  BY DEF Newest
<1>2. pc[a] = "test" /\ a \notin signalled
  BY DEF At
<1>3. \A b \in Actor : /\ pc[b] = "new" <=> pc'[b] = "new"
                       /\ pc[b] \in Starting \cup {"bind"} <=> pc'[b] \in Starting \cup {"bind"}
                       /\ pc'[b] # "create" => pc'[b] = pc[b]
                       /\ pc[b] \notin {"test", "create"} => pc'[b] = pc[b]
                       /\ pc'[b] \in Stopping \cup {"gone"} <=> pc[b] \in Stopping \cup {"gone"}
                       /\ pc'[b] \in Stopping <=> pc[b] \in Stopping
                       /\ pc'[b] \in {"test", "create"} <=> pc[b] \in {"test", "create"}
  BY <1>2, Places
<1>4. \A b \in Actor : /\ Standing(b)' <=> Standing(b)
                       /\ Stops(b)' <=> Stops(b)
                       /\ At(b, "kill")' <=> At(b, "kill")
                       /\ Live(b)' <=> Live(b)
  BY <1>1, <1>2, Places DEF Standing, Stops, At, Live, IsMember
<1>5. \A c \in Cmd : Killer(c) => Killer(c)'
  BY <1>1, <1>4, KillersKept
<1>51. \A b \in Actor : IsCommand(b) => ~Live(b)
  <2>1. a[1] = Newest /\ a[2] = "core" /\ pc[a] # "new"
    BY <1>2, Places DEF PacedInv, Born, PortInv, PlacesOK
  <2> QED BY <2>1, Actors DEF PacedInv, Born
<1>6. Born'
  BY <1>3, <1>4, BornKept
<1>7. Forked'
  BY <1>3, ForkedKept
<1>8. Written'
  <2>1. \A b \in Actor : pc'[b] = "write" <=> pc[b] = "write"
    BY <1>2
  <2>2. \A b \in Actor : pc'[b] = "write" => fd[b] = b[1]
    BY <2>1 DEF PacedInv, Written
  <2>3. \A i \in Cmd : content[i] \in {Nobody, i}
    BY DEF PacedInv, Written
  <2> QED BY <1>1, <2>2, <2>3 DEF Written
<1>9. HasRead'
  <2>1. \A b \in Actor : pc'[b] \in {"read", "unlink", "kill"} =>
            pc'[b] = pc[b] /\ fd'[b] = fd[b] /\ got'[b] = got[b]
    BY <1>1, <1>2
  <2> QED BY <1>1, <1>51, <2>1, ReadKept
<1>10. Names'
  <2>1. \A b \in Actor : IsCommand(b) => pc'[b] \notin {"read", "unlink", "kill", "nap"}
    BY <1>4, <1>51, Places DEF Live
  <2>2. \A b, d \in Actor : pc'[d] \in {"test", "create"} /\ Stops(b)' => path = b[1]
    BY <1>3, <1>4 DEF PacedInv, Names
  <2>3. \A b \in Actor : IsMember(b) /\ Stops(b)' => path \in {Nobody, b[1]}
    BY <1>4 DEF PacedInv, Names
  <2>4. \A b \in Actor : IsMember(b) /\ At(b, "kill")' => path \in {Nobody, Newest} /\ path # b[1]
    BY <1>4 DEF PacedInv, Names
  <2> QED BY <1>1, <2>1, <2>2, <2>3, <2>4 DEF Names, IsMember, IsCommand
<1>11. FaultsInTurn'
  BY <1>3, <1>4, FaultsKept
<1>12. Signals'
  BY <1>4, SignalsKept
<1>13. Accounted' /\ Departed'
  <2>1. \A b \in Actor : pc'[b] = "gone" => pc[b] = "gone"
    BY <1>2
  <2> QED BY <1>1, <1>3, <1>4, <1>5, <2>1, DepartKept
<1>15. Told'
  BY <1>1 DEF PacedInv, Told
<1> QED
  BY <1>6, <1>7, <1>8, <1>9, <1>10, <1>11, <1>12, <1>13, <1>15 DEF PacedInv

\* While a core server starts no command is under way, and it is the only one.
LEMMA OneStarts ==
    ASSUME NEW a \in Actor, PacedInv, pc[a] \in Starting
    PROVE  /\ a[1] = Newest /\ a[2] = "core" /\ IsMember(a) /\ Live(a)
           /\ typed[Newest] # "stop"
           /\ \A b \in Actor : /\ IsCommand(b) => ~Live(b)
                               /\ pc[b] \in Starting => b = a
<1>1. a[1] = Newest /\ a[2] = "core" /\ IsMember(a) /\ Live(a) /\ pc[a] # "new"
  <2>1. a[1] = Newest
    BY DEF PacedInv, Born
  <2>2. a[2] = "core"
    BY DEF PacedInv, PortInv, PlacesOK
  <2> QED BY <2>1, <2>2, Places, Actors DEF Live
<1>2. typed[Newest] # "stop"
  BY <1>1 DEF PacedInv, Born
<1>3. \A b \in Actor : IsCommand(b) => ~Live(b)
  BY <1>1 DEF PacedInv, Born
<1>4. \A b \in Actor : pc[b] \in Starting => b = a
  <2>1. \A b \in Actor : pc[b] \in Starting => b[1] = a[1] /\ b[2] = a[2]
    BY <1>1 DEF PacedInv, Born, PortInv, PlacesOK
  <2> QED BY <2>1, Actors
<1> QED BY <1>1, <1>2, <1>3, <1>4

\* The file it creates is its own.
LEMMA CreatePaced ==
    ASSUME NEW a \in Actor, PacedInv, PortInv', At(a, "create"),
           path' = a[1], fd'[a] = a[1], pc'[a] = "write",
           \A b \in Actor : b # a => pc'[b] = pc[b] /\ fd'[b] = fd[b],
           UNCHANGED <<content, got, signalled, typed, said, fault, struck>>
    PROVE  PacedInv'
<1>1. /\ content' = content /\ signalled' = signalled /\ typed' = typed
      /\ got' = got /\ said' = said /\ fault' = fault /\ struck' = struck /\ Newest' = Newest
  BY DEF Newest
<1>2. pc[a] = "create" /\ a \notin signalled /\ pc[a] \in Starting
  BY Places DEF At
<1>3. /\ a[1] = Newest /\ a[2] = "core" /\ IsMember(a) /\ Live(a)
      /\ typed[Newest] # "stop"
      /\ \A b \in Actor : (IsCommand(b) => ~Live(b)) /\ (pc[b] \in Starting => b = a)
  BY <1>2, OneStarts
<1>4. path = Nobody /\ \A b \in Actor : ~Stops(b)
  BY <1>2, Actors DEF PacedInv, Written, Names
<1>5. \A b \in Actor : /\ pc[b] = "new" <=> pc'[b] = "new"
                       /\ pc[b] \in Starting \cup {"bind"} <=> pc'[b] \in Starting \cup {"bind"}
                       /\ pc'[b] # "write" => pc'[b] = pc[b]
                       /\ pc[b] \notin {"create", "write"} => pc'[b] = pc[b]
                       /\ pc'[b] \in Stopping \cup {"gone"} <=> pc[b] \in Stopping \cup {"gone"}
                       /\ pc'[b] \in Stopping <=> pc[b] \in Stopping
  BY <1>2, Places
<1>6. \A b \in Actor : /\ Standing(b)' <=> Standing(b)
                       /\ ~Stops(b)'
                       /\ At(b, "kill")' <=> At(b, "kill")
                       /\ Live(b)' <=> Live(b)
  BY <1>1, <1>2, <1>4, Places DEF Standing, Stops, At, Live, IsMember
<1>7. \A c \in Cmd : Killer(c) => Killer(c)'
  BY <1>1, <1>6, KillersKept
<1>71. ~Empty
  BY <1>2, <1>3, NotEmpty DEF Standing
<1>8. Born'
  BY <1>5, <1>6, BornKept
<1>9. Forked'
  BY <1>5, ForkedKept
<1>10. Written'
  <2>1. \A b \in Actor : pc'[b] # "create"
    BY <1>2, <1>3, Places
  <2>2. \A b \in Actor : pc'[b] = "write" => b = a
    BY <1>3, Places
  <2>3. \A i \in Cmd : content[i] \in {Nobody, i}
    BY DEF PacedInv, Written
  <2> QED BY <1>1, <2>1, <2>2, <2>3 DEF Written
<1>11. HasRead'
  <2>1. \A b \in Actor : pc'[b] \in {"read", "unlink", "kill"} =>
            pc'[b] = pc[b] /\ fd'[b] = fd[b] /\ got'[b] = got[b]
    BY <1>1, <1>2
  <2> QED BY <1>1, <1>71, <2>1, ReadKept
<1>12. Names'
  <2>1. \A b \in Actor : IsCommand(b) => pc'[b] \notin {"read", "unlink", "kill", "nap"}
    <3>1. \A b \in Actor : pc'[b] \in {"read", "unlink", "kill", "nap"} => pc'[b] = pc[b]
      BY <1>2
    <3>2. \A b \in Actor : pc[b] \in {"read", "unlink", "kill", "nap"} => Live(b)
      BY Places DEF Live
    <3> QED BY <1>3, <3>1, <3>2
  <2>2. ASSUME NEW b \in Actor, At(b, "kill")
        PROVE  b[1] # Newest /\ IsMember(b)
    <3>1. Live(b) /\ b # a /\ pc[b] # "new"
      BY <1>2, <2>2, Places DEF At, Live
    <3>2. IsMember(b)
      BY <1>3, <3>1, Actors
    <3>4. b[1] # a[1]
      <4>1. b[1] = a[1] => b[2] # a[2]
        BY <3>1, Actors
      <4>2. b[2] # "core" => b[2] \in Front
        BY <3>2, Actors
      <4>3. b[1] = a[1] /\ b[2] \in Front => pc[b] = "new"
        BY <1>2, <1>3 DEF PacedInv, Forked
      <4> QED BY <1>3, <3>1, <4>1, <4>2, <4>3
    <3> QED BY <1>3, <3>2, <3>4
  <2> QED BY <1>1, <1>3, <1>6, <2>1, <2>2 DEF Names, IsMember, IsCommand
<1>13. FaultsInTurn'
  BY <1>5, <1>6, FaultsKept
<1>14. Signals'
  BY <1>6, SignalsKept
<1>15. Accounted'
  <2>1. ASSUME NEW b \in Actor, Standing(b)'
        PROVE  a[1] = b[1] \/ Killer(b[1])'
    <3>1. Killer(b[1]) \/ pc[b] \in {"test", "create"}
      BY <1>4, <1>6, <2>1, Actors DEF PacedInv, Accounted
    <3>2. pc[b] \in {"test", "create"} => b = a
      BY <1>3, Places
    <3> QED BY <1>7, <3>1, <3>2, Actors
  <2> QED BY <2>1 DEF Accounted
<1>16. Departed'
  <2>1. ASSUME NEW b \in Actor, NEW d \in Actor, b[1] = d[1], IsMember(b),
               pc'[b] = "gone", fault[b] # "cut", Standing(d)'
        PROVE  Killer(d[1])'
    <3>1. Killer(d[1])
      BY <1>2, <1>6, <2>1 DEF PacedInv, Departed
    <3> QED BY <1>7, <3>1, Actors
  <2> QED BY <1>1, <2>1 DEF Departed, IsMember
<1>17. Told'
  BY <1>1, <1>3 DEF Told
<1> QED
  BY <1>8, <1>9, <1>10, <1>11, <1>12, <1>13, <1>14, <1>15, <1>16, <1>17 DEF PacedInv

\* The number it writes into it is its own, too.
LEMMA WritePaced ==
    ASSUME NEW a \in Actor, PacedInv, PortInv', At(a, "write"),
           \A i \in Cmd : content'[i] = IF i = a[1] THEN a[1] ELSE content[i],
           pc'[a] = "fork http",
           \A b \in Actor : b # a => pc'[b] = pc[b] /\ fd'[b] = fd[b] /\ got'[b] = got[b],
           UNCHANGED <<path, signalled, typed, said, fault, struck>>
    PROVE  PacedInv'
<1>1. /\ path' = path /\ signalled' = signalled /\ typed' = typed
      /\ said' = said /\ fault' = fault /\ struck' = struck /\ Newest' = Newest
  BY DEF Newest
<1>2. pc[a] = "write" /\ a \notin signalled
  BY DEF At
<1>3. \A b \in Actor : /\ pc[b] = "new" <=> pc'[b] = "new"
                       /\ pc[b] \in Starting \cup {"bind"} <=> pc'[b] \in Starting \cup {"bind"}
                       /\ pc'[b] # "fork http" => pc'[b] = pc[b]
                       /\ pc[b] \notin {"write", "fork http"} => pc'[b] = pc[b]
                       /\ pc'[b] \in Stopping \cup {"gone"} <=> pc[b] \in Stopping \cup {"gone"}
                       /\ pc'[b] \in Stopping <=> pc[b] \in Stopping
  BY <1>2, Places
<1>4. \A b \in Actor : /\ Standing(b)' <=> Standing(b)
                       /\ Stops(b)' <=> Stops(b)
                       /\ At(b, "kill")' <=> At(b, "kill")
                       /\ At(b, "kill") => got'[b] = got[b]
                       /\ Live(b)' <=> Live(b)
  BY <1>1, <1>2, Places DEF Standing, Stops, At, Live, IsMember
<1>5. \A c \in Cmd : Killer(c) => Killer(c)'
  BY <1>4, KillersKept
<1>6. \A i \in Cmd : content[i] = i => content'[i] = i
  OBVIOUS
<1>61. ~Empty
  <2>1. Standing(a)
    BY <1>2, OneStarts, Places DEF Standing
  <2> QED BY <1>2, <2>1, NotEmpty
<1>7. Born'
  BY <1>3, <1>4, BornKept
<1>8. Forked'
  BY <1>3, ForkedKept
<1>9. Written'
  <2>1. \A i \in Cmd : content'[i] \in {Nobody, i}
    BY DEF PacedInv, Written
  <2>2. \A b \in Actor : /\ pc'[b] = "create" => pc[b] = "create"
                         /\ pc'[b] = "write" => pc[b] = "write" /\ fd'[b] = fd[b]
                         /\ pc[b] = "write" /\ b # a => pc'[b] = "write"
    BY <1>2
  <2>3. ASSUME path # Nobody, content'[path] = Nobody
        PROVE  (\E b \in Actor : b[1] = path /\ pc'[b] = "write") \/ Empty'
    <3>1. path \in Cmd
      BY <2>3 DEF PacedInv, PortInv, TypeOK
    <3>2. path # a[1] /\ content[path] = Nobody
      BY <2>3, <3>1, Actors
    <3>3. PICK b \in Actor : b[1] = path /\ pc[b] = "write"
      BY <1>61, <2>3, <3>2 DEF PacedInv, Written
    <3> QED BY <2>2, <3>2, <3>3
  <2>4. \A b \in Actor : pc'[b] = "create" => path = Nobody
    BY <2>2 DEF PacedInv, Written
  <2>5. \A b \in Actor : pc'[b] = "write" => fd'[b] = b[1]
    BY <2>2 DEF PacedInv, Written
  <2> QED BY <1>1, <2>1, <2>3, <2>4, <2>5 DEF Written
<1>10. HasRead'
  <2>1. \A b \in Actor : pc'[b] \in {"read", "unlink", "kill"} =>
            pc'[b] = pc[b] /\ fd'[b] = fd[b] /\ got'[b] = got[b]
    BY <1>2
  <2>2. \A i \in Cmd : content'[i] = content[i] \/ content'[i] = i
    OBVIOUS
  <2> QED BY <1>6, <1>61, <2>1, <2>2, ReadKept
<1>11. Names'
  <2>1. \A b \in Actor : pc'[b] \in {"read", "unlink", "kill", "nap", "test", "create"} =>
            pc'[b] = pc[b] /\ fd'[b] = fd[b] /\ got'[b] = got[b]
    BY <1>2
  <2>2. ASSUME NEW b \in Actor, IsCommand(b)
        PROVE  /\ pc'[b] \in {"read", "unlink"} => path \in {Nobody, fd'[b]}
               /\ pc'[b] \in {"kill", "nap"} => path = Nobody
    BY <2>1, <2>2 DEF PacedInv, Names
  <2>3. \A b \in Actor : IsMember(b) /\ Stops(b)' => path \in {Nobody, b[1]}
    BY <1>4 DEF PacedInv, Names
  <2>4. \A b, d \in Actor : pc'[d] \in {"test", "create"} /\ Stops(b)' => path = b[1]
    BY <1>4, <2>1 DEF PacedInv, Names
  <2>5. \A b \in Actor : IsMember(b) /\ At(b, "kill")' => path \in {Nobody, Newest} /\ path # b[1]
    BY <1>4 DEF PacedInv, Names
  <2> QED BY <1>1, <2>2, <2>3, <2>4, <2>5 DEF Names, IsMember, IsCommand
<1>12. FaultsInTurn'
  BY <1>3, <1>4, FaultsKept
<1>13. Signals'
  <2>1. \A b \in Actor : pc'[b] = "nap" => pc[b] = "nap"
    BY <1>3
  <2>2. ASSUME NEW b \in signalled
        PROVE  /\ IsMember(b) /\ Live(b)' /\ content'[b[1]] = b[1]
               /\ \A d \in Actor : d[1] = b[1] => ~Standing(d)'
    <3>1. b \in Actor
      BY DEF PacedInv, PortInv, TypeOK
    <3> QED BY <1>4, <1>6, <3>1, Actors DEF PacedInv, Signals
  <2>3. \A b \in Actor : IsMember(b) /\ pc'[b] = "nap" => b \in signalled
    BY <2>1 DEF PacedInv, Signals
  <2> QED BY <1>1, <2>2, <2>3 DEF Signals, IsMember
<1>14. Accounted' /\ Departed'
  <2>1. \A b \in Actor : /\ pc[b] \in {"test", "create"} => pc'[b] \in {"test", "create"}
                         /\ pc'[b] = "gone" => pc[b] = "gone"
    BY <1>2
  <2> QED BY <1>1, <1>4, <1>5, <2>1, DepartKept
<1>16. Told'
  BY <1>1 DEF PacedInv, Told
<1> QED
  BY <1>7, <1>8, <1>9, <1>10, <1>11, <1>12, <1>13, <1>14, <1>16 DEF PacedInv

\* A front end is born into a daemon that stands.
LEMMA ForkPaced ==
    ASSUME NEW a \in Actor, NEW b \in Actor, PacedInv, PortInv', a[1] = b[1], a[2] = "core",
           \/ At(a, "fork http") /\ pc'[a] = "fork midnet" /\ b[2] = "http"
           \/ At(a, "fork midnet") /\ pc'[a] = "serving" /\ b[2] = "midnet",
           pc'[b] = "bind", \A d \in Actor : d # a /\ d # b => pc'[d] = pc[d],
           UNCHANGED <<path, content, fd, got, signalled, typed, said, fault, struck>>
    PROVE  PacedInv'
<1>1. /\ path' = path /\ content' = content /\ signalled' = signalled /\ typed' = typed /\ fd' = fd
      /\ got' = got /\ said' = said /\ fault' = fault /\ struck' = struck /\ Newest' = Newest
  BY DEF Newest
<1>2. pc[a] \in {"fork http", "fork midnet"} /\ a \notin signalled /\ pc[a] \in Starting
  BY Places DEF At
<1>3. /\ a[1] = Newest /\ IsMember(a) /\ Live(a) /\ typed[Newest] # "stop"
      /\ \A d \in Actor : (IsCommand(d) => ~Live(d)) /\ (pc[d] \in Starting => d = a)
  BY <1>2, OneStarts
<1>4. pc[b] = "new" /\ b[2] \in Front /\ IsMember(b) /\ b # a /\ pc'[a] \in {"fork midnet", "serving"}
  <2>1. b[2] \in Front /\ IsMember(b) /\ b # a /\ pc'[a] \in {"fork midnet", "serving"}
    BY Actors
  <2>2. pc[b] = "new"
    BY <1>2, <2>1 DEF PacedInv, Forked, At
  <2> QED BY <2>1, <2>2
<1>5. b \notin signalled /\ fault[b] = "none"
  BY <1>4, Places DEF PacedInv, Signals, FaultsInTurn, Live
<1>6. Standing(a)
  BY <1>2, <1>3 DEF Standing
<1>7. \A d \in Actor : /\ d # b => (Standing(d)' <=> Standing(d)) /\ (Live(d)' <=> Live(d))
                       /\ Stops(d)' <=> Stops(d)
                       /\ At(d, "kill")' <=> At(d, "kill")
                       /\ pc'[d] \in Stopping \cup {"gone"} <=> pc[d] \in Stopping \cup {"gone"}
                       /\ pc'[d] \in Stopping <=> pc[d] \in Stopping
                       /\ pc'[d] = "gone" <=> pc[d] = "gone"
  BY <1>1, <1>2, <1>4, Places DEF Standing, Stops, At, Live, IsMember
<1>8. \A d \in Actor :
          /\ pc'[d] \in Stopping \cup {"test", "create", "write"} => pc'[d] = pc[d]
          /\ pc[d] \in Stopping \cup {"test", "create", "write"} => pc'[d] = pc[d]
  BY <1>2, <1>4, Places
<1>9. \A c \in Cmd : Killer(c) => Killer(c)'
  BY <1>1, <1>7, KillersKept
<1>91. ~Empty
  BY <1>2, <1>6, NotEmpty
<1>10. Born'
  <2>1. \A d \in Actor : d[1] > Newest => pc'[d] = "new"
    <3>1. Newest \in Nat
      BY Numerals DEF PacedInv
    <3>2. \A d \in Actor : d[1] \in Nat
      BY Numerals, Actors
    <3>3. \A d \in Actor : d[1] > Newest => d[1] # Newest
      BY ONLY <3>1, <3>2
    <3>4. \A d \in Actor : d[1] > Newest => d # a /\ d # b
      BY <1>3, <3>3
    <3> QED BY <3>4 DEF PacedInv, Born
  <2>3. \A d \in Actor : IsCommand(d) => ~Live(d)'
    BY <1>3, <1>4, <1>7, Actors
  <2>4. \A d \in Actor : pc'[d] \in Starting \cup {"bind"} => d[1] = Newest
    <3>1. \A d \in Actor : pc[d] \in Starting \cup {"bind"} => d[1] = Newest
      BY DEF PacedInv, Born
    <3> QED BY <1>3, <3>1
  <2> QED BY <1>1, <1>3, <2>1, <2>3, <2>4 DEF Born, IsMember, IsCommand, Starting
<1>11. Forked'
  <2>1. ASSUME NEW x \in Actor, NEW d \in Actor, x[1] = d[1], x[2] = "core", d[2] \in Front
        PROVE  /\ pc'[x] \in {"new", "test", "create", "write", "fork http"} => pc'[d] = "new"
               /\ pc'[x] = "fork midnet" => (pc'[d] = "new" <=> d[2] = "midnet")
               /\ pc'[x] = "serving" => pc'[d] # "new"
    <3>1. /\ pc[x] \in {"new", "test", "create", "write", "fork http"} => pc[d] = "new"
          /\ pc[x] = "fork midnet" => (pc[d] = "new" <=> d[2] = "midnet")
          /\ pc[x] = "serving" => pc[d] # "new"
      BY <2>1 DEF PacedInv, Forked
    <3>2. d # a /\ x # b
      BY <1>4, <2>1, Actors
    <3>3. CASE x = a
      <4>1. CASE d = b
        BY <1>2, <3>3, <4>1 DEF At
      <4>2. CASE d # b
        <5>1. d[2] # b[2]
          <6>1. d[1] = b[1]
            BY <2>1, <3>3
          <6> QED BY <4>2, <6>1, Actors
        <5>2. pc'[d] = pc[d] /\ d[2] \in {"http", "midnet"}
          BY <2>1, <3>2, <4>2, Actors
        <5> QED BY <1>2, <3>1, <3>3, <5>1, <5>2 DEF At
      <4> QED BY <4>1, <4>2
    <3>4. CASE x # a
      <4>1. x[1] # a[1]
        <5>1. x[2] = a[2]
          BY <2>1
        <5> QED BY <3>4, <5>1, Actors
      <4>2. d # b
        BY <2>1, <4>1
      <4> QED BY <3>1, <3>2, <3>4, <4>2
    <3> QED BY <3>3, <3>4
  <2> QED BY ONLY <2>1 DEF Forked
<1>12. Written'
  <2>1. \A d \in Actor : /\ pc'[d] = "create" => pc[d] = "create"
                         /\ pc'[d] = "write" <=> pc[d] = "write"
    BY <1>8
  <2> QED BY <1>1, <1>91, <2>1, WrittenKept
<1>13. HasRead'
  <2>1. \A d \in Actor : pc'[d] \in {"read", "unlink", "kill"} =>
            pc'[d] = pc[d] /\ fd'[d] = fd[d] /\ got'[d] = got[d]
    BY <1>1, <1>8, Places
  <2> QED BY <1>1, <1>91, <2>1, ReadKept
<1>14. Names'
  <2>1. \A d \in Actor : pc'[d] \in {"read", "unlink", "kill", "nap", "test", "create"} =>
            pc'[d] = pc[d]
    BY <1>8, Places
  <2> QED BY <1>1, <1>7, <2>1, NamesKept
<1>15. FaultsInTurn'
  <2>1. \A d \in Actor : Live(d)' => Live(d) \/ fault[d] = "none"
    BY <1>5, <1>7
  <2>2. pc'[b] \notin Stopping
    BY Places
  <2>3. \A d \in Actor : Standing(d)' /\ pc'[d] \in Stopping => Standing(d) /\ pc[d] \in Stopping
    BY <1>7, <2>2
  <2> QED BY <1>7, <2>1, <2>3, FaultsKept
<1>16. Signals'
  <2>1. \A d \in Actor : pc'[d] = "nap" => pc[d] = "nap"
    BY <1>8, Places
  <2>2. ASSUME NEW x \in signalled
        PROVE  /\ IsMember(x) /\ Live(x)' /\ content[x[1]] = x[1]
               /\ \A d \in Actor : d[1] = x[1] => ~Standing(d)'
    <3>1. x \in Actor /\ x # b
      BY <1>5 DEF PacedInv, PortInv, TypeOK
    <3>2. /\ IsMember(x) /\ Live(x) /\ content[x[1]] = x[1]
          /\ \A d \in Actor : d[1] = x[1] => ~Standing(d)
      BY DEF PacedInv, Signals
    <3>3. x[1] # b[1]
      BY <1>6, <3>2
    <3> QED BY <1>7, <3>1, <3>2, <3>3
  <2>3. \A d \in Actor : IsMember(d) /\ pc'[d] = "nap" => d \in signalled
    BY <2>1 DEF PacedInv, Signals
  <2> QED BY <1>1, <2>2, <2>3 DEF Signals, IsMember
<1>17. Accounted'
  <2>1. ASSUME NEW d \in Actor, Standing(d)'
        PROVE  path = d[1] \/ Killer(d[1])' \/ pc'[d] \in {"test", "create"}
    <3>1. path = a[1] \/ Killer(a[1])
      BY <1>2, <1>6 DEF PacedInv, Accounted
    <3>2. CASE d = b
      BY <1>9, <3>1, <3>2, Actors
    <3>3. CASE d # b
      <4>1. path = d[1] \/ Killer(d[1]) \/ pc[d] \in {"test", "create"}
        BY <1>7, <2>1, <3>3 DEF PacedInv, Accounted
      <4> QED BY <1>8, <1>9, <4>1, Actors
    <3> QED BY <3>2, <3>3
  <2> QED BY <1>1, <2>1 DEF Accounted
<1>18. Departed'
  <2>1. ASSUME NEW x \in Actor, NEW d \in Actor, x[1] = d[1], IsMember(x),
               pc'[x] = "gone", fault[x] # "cut", Standing(d)'
        PROVE  Killer(d[1])'
    <3>1. \E y \in Actor : y[1] = d[1] /\ Standing(y)
      BY <1>6, <1>7, <2>1
    <3>2. PICK y \in Actor : y[1] = d[1] /\ Standing(y)
      BY <3>1
    <3>3. x[1] = y[1] /\ pc[x] = "gone"
      BY <1>7, <2>1, <3>2
    <3>4. Killer(y[1])
      BY <2>1, <3>2, <3>3 DEF PacedInv, Departed
    <3> QED BY <1>9, <3>2, <3>4, Actors
  <2>2. path' = path /\ fault' = fault
    BY <1>1
  <2> QED BY ONLY <2>1, <2>2 DEF Departed, IsMember
<1>19. Told'
  BY <1>1 DEF PacedInv, Told
<1> QED
  BY <1>10, <1>11, <1>12, <1>13, <1>14, <1>15, <1>16, <1>17, <1>18, <1>19 DEF PacedInv

\* A front end that has bound its port serves.
LEMMA ServePaced ==
    ASSUME NEW a \in Actor, PacedInv, PortInv', At(a, "bind"), pc'[a] = "serving",
           \A b \in Actor : b # a => pc'[b] = pc[b],
           UNCHANGED <<path, content, fd, got, signalled, typed, said, fault, struck>>
    PROVE  PacedInv'
<1>1. /\ path' = path /\ content' = content /\ signalled' = signalled /\ typed' = typed /\ fd' = fd
      /\ got' = got /\ said' = said /\ fault' = fault /\ struck' = struck /\ Newest' = Newest
  BY DEF Newest
<1>2. pc[a] = "bind" /\ a \notin signalled /\ a[2] \in Front /\ a[2] # "core"
  BY Actors DEF At, PacedInv, PortInv, PlacesOK
<1>3. \A d \in Actor : /\ Standing(d)' <=> Standing(d)
                       /\ Live(d)' <=> Live(d)
                       /\ Stops(d)' <=> Stops(d)
                       /\ At(d, "kill")' <=> At(d, "kill")
                       /\ pc'[d] \in Stopping \cup {"gone"} <=> pc[d] \in Stopping \cup {"gone"}
                       /\ pc'[d] \in Stopping <=> pc[d] \in Stopping
                       /\ pc'[d] = "gone" <=> pc[d] = "gone"
                       /\ pc'[d] = "new" <=> pc[d] = "new"
                       /\ pc'[d] \in Starting \cup {"bind"} => pc[d] \in Starting \cup {"bind"}
  BY <1>1, <1>2, Places DEF Standing, Stops, At, Live, IsMember
<1>4. \A d \in Actor :
          /\ pc'[d] \in Stopping \cup {"test", "create", "write"} => pc'[d] = pc[d]
          /\ pc[d] \in Stopping \cup {"test", "create", "write"} => pc'[d] = pc[d]
  BY <1>2, Places
<1>5. \A c \in Cmd : Killer(c) => Killer(c)'
  BY <1>1, <1>3, KillersKept
<1>51. ~Empty
  BY <1>2, Actors, NotEmpty, Places DEF Standing, Live
<1>6. Born'
  BY <1>3, BornKept
<1>7. Forked'
  BY <1>2, ForkedKept
<1>8. Written'
  <2>1. \A d \in Actor : /\ pc'[d] = "create" => pc[d] = "create"
                         /\ pc'[d] = "write" <=> pc[d] = "write"
    BY <1>4
  <2> QED BY <1>1, <1>51, <2>1, WrittenKept
<1>9. HasRead'
  <2>1. \A d \in Actor : pc'[d] \in {"read", "unlink", "kill"} =>
            pc'[d] = pc[d] /\ fd'[d] = fd[d] /\ got'[d] = got[d]
    BY <1>1, <1>4, Places
  <2> QED BY <1>1, <1>51, <2>1, ReadKept
<1>10. Names'
  <2>1. \A d \in Actor : pc'[d] \in {"read", "unlink", "kill", "nap", "test", "create"} =>
            pc'[d] = pc[d]
    BY <1>4, Places
  <2> QED BY <1>1, <1>3, <2>1, NamesKept
<1>11. FaultsInTurn'
  BY <1>3, FaultsKept
<1>12. Signals'
  BY <1>3, SignalsKept
<1>13. Accounted' /\ Departed'
  BY <1>3, <1>4, <1>5, DepartKept
<1>14. Told'
  BY <1>1 DEF PacedInv, Told
<1> QED
  BY <1>6, <1>7, <1>8, <1>9, <1>10, <1>11, <1>12, <1>13, <1>14 DEF PacedInv

\* A process of a daemon that gives up goes to stop it.  It is named, if it has
\* created the file: nobody else of an older daemon does so at that time.
LEMMA TurnPaced ==
    ASSUME NEW a \in Actor, PacedInv, PortInv', IsMember(a), a \notin signalled,
           pc[a] \in {"fork http", "fork midnet", "bind", "serving"}, pc'[a] = "open",
           \A b \in Actor : b # a => pc'[b] = pc[b] /\ fault'[b] = fault[b],
           \/ pc[a] = "bind" /\ fault'[a] = fault[a]
           \/ fault'[a] = "failed" /\ \A b \in Actor : fault[b] # "none" => ~Live(b),
           UNCHANGED <<path, content, fd, got, signalled, typed, said, struck>>
    PROVE  PacedInv'
<1>1. /\ path' = path /\ content' = content /\ signalled' = signalled /\ typed' = typed /\ fd' = fd
      /\ got' = got /\ said' = said /\ struck' = struck /\ Newest' = Newest
  BY DEF Newest
<1>2. Standing(a) /\ Stops(a)' /\ pc'[a] \in Stopping /\ pc'[a] # "gone" /\ ~Stops(a) /\ pc[a] # "new"
  BY <1>1, Places DEF Standing, Stops, Live
<1>3. \A d \in Actor : /\ Standing(d)' <=> Standing(d)
                       /\ Live(d)' <=> Live(d)
                       /\ d # a => (Stops(d)' <=> Stops(d))
                       /\ At(d, "kill")' <=> At(d, "kill")
                       /\ pc'[d] = "gone" <=> pc[d] = "gone"
                       /\ pc'[d] = "new" <=> pc[d] = "new"
                       /\ pc'[d] \in Starting \cup {"bind"} => pc[d] \in Starting \cup {"bind"}
                       /\ d # a => (pc'[d] \in Stopping <=> pc[d] \in Stopping)
  BY <1>1, Places DEF Standing, Stops, At, Live, IsMember
<1>4. \A d \in Actor :
          /\ pc'[d] \in {"read", "unlink", "kill", "nap", "test", "create", "write"} => pc'[d] = pc[d]
          /\ pc[d] \in {"test", "create", "write"} => pc'[d] = pc[d]
  OBVIOUS
<1>5. \A c \in Cmd : Killer(c) => Killer(c)'
  BY <1>1, <1>3, KillersKept
<1>51. ~Empty
  BY <1>2, NotEmpty
<1>6. \A b \in Actor : pc[b] \in {"test", "create"} => b[1] # a[1]
  <2>1. ASSUME NEW b \in Actor, pc[b] \in {"test", "create"}, b[1] = a[1]
        PROVE  FALSE
    <3>1. b[2] = "core" /\ b # a
      BY <2>1, Places DEF PacedInv, PortInv, PlacesOK
    <3>2. a[2] # b[2]
      BY <2>1, <3>1, Actors
    <3>3. a[2] \in Front
      BY <3>1, <3>2, Actors
    <3> QED BY <1>2, <2>1, <3>1, <3>3 DEF PacedInv, Forked
  <2> QED BY <2>1
<1>7. a[1] # Newest => \A x \in Actor : At(x, "kill") /\ IsMember(x) => got[x] # a[1]
  <2>1. ASSUME a[1] # Newest, NEW x \in Actor, At(x, "kill"), IsMember(x), got[x] = a[1]
        PROVE  FALSE
    <3>1. pc[a] # "bind"
      BY <2>1 DEF PacedInv, Born
    <3>2. pc[x] = "kill" /\ pc[x] \in Stopping /\ Live(x) /\ Standing(x)
      BY <2>1, Places DEF At, Live, Standing
    <3>3. x[1] = a[1]
      BY <2>1, <3>2, Actors DEF PacedInv, HasRead
    <3>4. fault[x] # "none"
      BY <2>1, <3>2, <3>3 DEF PacedInv, FaultsInTurn
    <3> QED BY <3>1, <3>2, <3>4
  <2> QED BY <2>1
<1>8. path # a[1] => \E x \in Actor : At(x, "kill") /\ got[x] = a[1]
  BY <1>2 DEF PacedInv, Accounted, Killer
<1>9. path \in {Nobody, a[1]}
  <2>1. ASSUME path # a[1], path # Nobody
        PROVE  FALSE
    <3>1. PICK x \in Actor : At(x, "kill") /\ got[x] = a[1]
      BY <1>8, <2>1
    <3>2. IsMember(x) => path = Newest
      BY <2>1, <3>1 DEF PacedInv, Names
    <3>3. ~IsMember(x)
      <4>1. ASSUME IsMember(x)
            PROVE  FALSE
        <5>1. a[1] # Newest
          BY <2>1, <3>2, <4>1
        <5> QED BY <1>7, <3>1, <4>1, <5>1
      <4> QED BY <4>1
    <3>4. path = Nobody
      BY <3>1, <3>3, Actors DEF PacedInv, Names, At
    <3> QED BY <2>1, <3>4
  <2> QED BY <2>1
<1>10. \A b \in Actor : pc[b] \in {"test", "create"} => path = a[1]
  <2>1. ASSUME NEW b \in Actor, pc[b] \in {"test", "create"}, path # a[1]
        PROVE  FALSE
    <3>1. PICK x \in Actor : At(x, "kill") /\ got[x] = a[1]
      BY <1>8, <2>1
    <3>2. b[1] = Newest /\ \A d \in Actor : IsCommand(d) => ~Live(d)
      BY <2>1, OneStarts, Places
    <3>3. IsMember(x)
      BY <3>1, <3>2, Actors, Places DEF At, Live
    <3> QED BY <1>6, <1>7, <2>1, <3>1, <3>2, <3>3
  <2> QED BY <2>1
<1>11. Born'
  BY <1>3, BornKept
<1>12. Forked'
  BY ForkedKept
<1>13. Written'
  <2>1. \A d \in Actor : /\ pc'[d] = "create" => pc[d] = "create"
                         /\ pc'[d] = "write" <=> pc[d] = "write"
    BY <1>4
  <2> QED BY <1>1, <1>51, <2>1, WrittenKept
<1>14. HasRead'
  <2>1. \A d \in Actor : pc'[d] \in {"read", "unlink", "kill"} =>
            pc'[d] = pc[d] /\ fd'[d] = fd[d] /\ got'[d] = got[d]
    BY <1>1, <1>4
  <2> QED BY <1>1, <1>51, <2>1, ReadKept
<1>15. Names'
  <2>1. \A d \in Actor : pc'[d] \in {"read", "unlink", "kill", "nap", "test", "create"} =>
            pc'[d] = pc[d]
    BY <1>4
  <2>2. ASSUME NEW b \in Actor, IsCommand(b)
        PROVE  /\ pc'[b] \in {"read", "unlink"} => path \in {Nobody, fd[b]}
               /\ pc'[b] \in {"kill", "nap"} => path = Nobody
    BY <2>1, <2>2 DEF PacedInv, Names
  <2>3. \A b \in Actor : IsMember(b) /\ Stops(b)' => path \in {Nobody, b[1]}
    BY <1>3, <1>9 DEF PacedInv, Names
  <2>4. \A b, d \in Actor : pc'[d] \in {"test", "create"} /\ Stops(b)' => path = b[1]
    BY <1>3, <1>10, <2>1 DEF PacedInv, Names
  <2>5. \A b \in Actor : IsMember(b) /\ At(b, "kill")' => path \in {Nobody, Newest} /\ path # b[1]
    BY <1>3 DEF PacedInv, Names
  <2> QED BY <1>1, <2>2, <2>3, <2>4, <2>5 DEF Names, IsMember, IsCommand
<1>16. FaultsInTurn'
  <2>1. fault[a] # "cut" /\ fault'[a] # "cut"
    BY <1>2, Places DEF PacedInv, FaultsInTurn, Standing, Live
  <2>2. \A b \in Actor : /\ fault'[b] # "none" => pc'[b] \in Stopping \cup {"gone"}
                         /\ fault'[b] = "cut" => pc'[b] = "gone"
    BY <1>2, <1>3, <2>1 DEF PacedInv, FaultsInTurn
  <2>3. \A b, d \in Actor : fault'[b] # "none" /\ fault'[d] # "none" /\ Live(b)' /\ Live(d)' => b = d
    <3>1. \A b, d \in Actor : fault[b] # "none" /\ fault[d] # "none" /\ Live(b) /\ Live(d) => b = d
      BY DEF PacedInv, FaultsInTurn
    <3>2. CASE fault'[a] = fault[a]
      <4>1. \A b \in Actor : fault'[b] = fault[b] /\ (Live(b)' => Live(b))
        BY <1>3, <3>2
      <4> QED BY <3>1, <4>1
    <3>3. CASE \A b \in Actor : fault[b] # "none" => ~Live(b)
      <4>1. \A b \in Actor : b # a /\ Live(b)' => fault'[b] = "none"
        BY <1>3, <3>3
      <4> QED BY <4>1
    <3> QED BY <3>2, <3>3
  <2>4. ASSUME NEW b \in Actor, Standing(b)', pc'[b] \in Stopping, b[1] # Newest
        PROVE  fault'[b] # "none"
    <3>1. CASE b = a
      <4>1. pc[a] # "bind"
        BY <2>4, <3>1 DEF PacedInv, Born
      <4> QED BY <3>1, <4>1
    <3>2. CASE b # a
      BY <1>3, <2>4, <3>2 DEF PacedInv, FaultsInTurn
    <3> QED BY <3>1, <3>2
  <2> QED BY <1>1, <2>2, <2>3, <2>4 DEF FaultsInTurn, Stopping
<1>17. Signals'
  BY <1>3, SignalsKept
<1>18. Accounted'
  <2>1. ASSUME NEW b \in Actor, Standing(b)'
        PROVE  path = b[1] \/ Killer(b[1])' \/ pc'[b] \in {"test", "create"}
    <3>1. path = b[1] \/ Killer(b[1]) \/ pc[b] \in {"test", "create"}
      BY <1>3, <2>1 DEF PacedInv, Accounted
    <3> QED BY <1>4, <1>5, <3>1, Actors
  <2> QED BY <1>1, <2>1 DEF Accounted
<1>19. Departed'
  <2>1. ASSUME NEW x \in Actor, NEW d \in Actor, x[1] = d[1], IsMember(x),
               pc'[x] = "gone", fault'[x] # "cut", Standing(d)'
        PROVE  Killer(d[1])'
    <3>1. Standing(d) /\ x # a
      BY <1>3, <2>1
    <3>2. pc[x] = "gone" /\ fault[x] # "cut"
      BY <2>1, <3>1
    <3>3. Killer(d[1])
      BY <2>1, <3>1, <3>2 DEF PacedInv, Departed
    <3> QED BY <1>5, <3>3, Actors
  <2> QED BY ONLY <2>1 DEF Departed, IsMember
<1>20. Told'
  BY <1>1 DEF PacedInv, Told
<1> QED
  BY <1>11, <1>12, <1>13, <1>14, <1>15, <1>16, <1>17, <1>18, <1>19, <1>20 DEF PacedInv

\* Once everything has settled, a command is typed.
LEMMA TypePaced ==
    ASSUME NEW z \in Actor, PacedInv, PortInv', Settled, Newest' = Newest + 1, z[1] = Newest',
           said' = "nothing",
           \/ IsCommand(z) /\ pc'[z] = "open"
           \/ z[2] = "core" /\ pc'[z] = "test" /\ typed'[Newest'] = "start",
           \A b \in Actor : b # z => pc'[b] = pc[b],
           UNCHANGED <<path, content, fd, got, signalled, fault, struck>>
    PROVE  PacedInv'
<1>1. /\ path' = path /\ content' = content /\ signalled' = signalled /\ fd' = fd
      /\ got' = got /\ fault' = fault /\ struck' = struck
  OBVIOUS
<1>2. /\ Newest \in Nat /\ Newest' \in Nat /\ Newest' # Newest
      /\ \A d \in Actor : d[1] \in Nat
      /\ \A n \in Nat : (n > Newest' => n > Newest) /\ (n <= Newest \/ n >= Newest')
      /\ Newest' > Newest
  <2>1. Newest \in Nat /\ \A d \in Actor : d[1] \in Nat
    BY Numerals, Actors DEF PacedInv
  <2> QED BY <2>1
<1>3. \A d \in Actor : d[1] = Newest' \/ d[1] > Newest' => pc[d] = "new"
  <2>1. \A d \in Actor : d[1] = Newest' \/ d[1] > Newest' => d[1] > Newest
    BY <1>2
  <2> QED BY <2>1 DEF PacedInv, Born
<1>4. pc[z] = "new" /\ z \notin signalled /\ fault[z] = "none"
  <2>1. pc[z] = "new"
    BY <1>3
  <2> QED BY <2>1, Places DEF PacedInv, Signals, FaultsInTurn, Live
<1>5. signalled = {} /\ \A d \in Actor : pc[d] \in {"new", "serving", "gone"}
  <2>1. \A d \in Actor : Live(d) => pc[d] = "serving" /\ d \notin signalled
    BY DEF Settled, At
  <2>2. signalled = {}
    BY <2>1 DEF PacedInv, Signals, PortInv, TypeOK
  <2>3. pc \in [Actor -> Place]
    BY DEF PacedInv, PortInv, TypeOK
  <2> QED BY <2>1, <2>2, <2>3 DEF Place, Live
<1>6. \A d \in Actor : ~Stops(d) /\ ~At(d, "kill")
  BY <1>5 DEF Stops, At
<1>7. \A d \in Actor : d # z => /\ pc'[d] \in {"new", "serving", "gone"}
                                /\ Standing(d)' <=> Standing(d)
                                /\ Live(d)' <=> Live(d)
                                /\ ~Stops(d)'
  BY <1>1, <1>5, <1>6 DEF Standing, Stops, Live, IsMember
<1>8. \A d \in Actor : ~At(d, "kill")'
  <2>1. \A d \in Actor : pc'[d] # "kill"
    BY <1>7
  <2> QED BY <2>1 DEF At
<1>81. Empty => Empty'
  <2>1. Standing(z)' => pc'[z] = "test"
    BY Actors DEF Standing, IsMember, IsCommand
  <2>2. \A b \in Actor : Standing(b)' => pc'[b] = "test" \/ (Standing(b) /\ pc'[b] = pc[b])
    BY <1>7, <2>1
  <2> QED BY <1>1, <2>2, EmptyKept
<1>9. Born'
  <2>1. \A b \in Actor : b[1] > Newest' => pc'[b] = "new"
    <3>1. \A b \in Actor : b[1] > Newest' => b # z
      BY <1>2
    <3> QED BY <1>3, <3>1
  <2>3. \A b, d \in Actor : IsCommand(b) /\ Live(b)' /\ IsMember(d) =>
            b[1] = Newest' /\ (d[1] = Newest' => pc'[d] = "new")
    <3>1. ASSUME NEW b \in Actor, NEW d \in Actor, IsCommand(b), Live(b)', IsMember(d)
          PROVE  b[1] = Newest' /\ (d[1] = Newest' => pc'[d] = "new")
      <4>1. CASE b = z
        <5>1. d # z
          BY <3>1, <4>1, Actors
        <5> QED BY <1>3, <4>1, <5>1
      <4>2. CASE b # z
        <5>1. Live(b) /\ pc[b] = "serving"
          BY <1>5, <1>7, <3>1, <4>2, Places DEF Live
        <5>2. b[2] \in Member
          BY <5>1 DEF PacedInv, PortInv, PlacesOK
        <5>3. ~IsCommand(b)
          BY <5>2, Actors DEF IsMember
        <5> QED BY <3>1, <5>3
      <4> QED BY <4>1, <4>2
    <3> QED BY <3>1
  <2>4. \A b \in Actor : pc'[b] \in Starting \cup {"bind"} => b[1] = Newest'
    BY <1>7, Places
  <2>5. \A b \in Actor : b[1] = Newest' /\ IsMember(b) /\ typed'[Newest'] = "stop" => pc'[b] = "new"
    BY <1>3, Actors
  <2> QED BY <1>1, <2>1, <2>3, <2>4, <2>5 DEF Born, IsMember, IsCommand, Starting
<1>10. Forked'
  <2>1. ASSUME NEW b \in Actor, NEW d \in Actor, b[1] = d[1], b[2] = "core", d[2] \in Front
        PROVE  /\ pc'[b] \in {"new", "test", "create", "write", "fork http"} => pc'[d] = "new"
               /\ pc'[b] = "fork midnet" => (pc'[d] = "new" <=> d[2] = "midnet")
               /\ pc'[b] = "serving" => pc'[d] # "new"
    <3>1. d # z
      BY <2>1, Actors DEF IsCommand
    <3>2. CASE b = z
      BY <1>3, <2>1, <3>1, <3>2
    <3>3. CASE b # z
      <4>1. /\ pc[b] \in {"new", "test", "create", "write", "fork http"} => pc[d] = "new"
            /\ pc[b] = "fork midnet" => (pc[d] = "new" <=> d[2] = "midnet")
            /\ pc[b] = "serving" => pc[d] # "new"
        BY <2>1 DEF PacedInv, Forked
      <4>2. pc'[b] = pc[b] /\ pc'[d] = pc[d]
        BY <3>1, <3>3
      <4> QED BY <4>1, <4>2
    <3> QED BY <3>2, <3>3
  <2> QED BY ONLY <2>1 DEF Forked
<1>11. Written'
  <2>1. \A d \in Actor : pc[d] # "write" /\ pc'[d] # "write" /\ pc'[d] # "create"
    BY <1>5, <1>7
  <2>2. \A d \in Actor : pc'[d] = "write" => pc[d] = "write" /\ fd'[d] = fd[d]
    BY <2>1
  <2> QED BY <1>1, <1>81, <2>1, <2>2, WrittenKept
<1>12. HasRead'
  <2>1. \A d \in Actor : pc'[d] \notin {"read", "unlink", "kill"}
    BY <1>7
  <2> QED BY <2>1 DEF HasRead
<1>13. Names'
  <2>1. \A d \in Actor : pc'[d] \notin {"read", "unlink", "kill", "nap", "create"}
    BY <1>7
  <2>2. \A d \in Actor : Stops(d)' => d = z /\ IsCommand(z)
    <3>1. Stops(z)' => pc'[z] # "test"
      BY DEF Stops
    <3> QED BY <1>7, <3>1
  <2>3. \A d \in Actor : pc'[d] = "test" => ~IsCommand(z)
    <3>1. \A d \in Actor : pc'[d] = "test" => d = z
      BY <1>7
    <3> QED BY <3>1 DEF IsCommand
  <2> QED BY <1>8, <2>1, <2>2, <2>3, Actors DEF Names, IsMember, IsCommand
<1>14. FaultsInTurn'
  <2>1. \A b \in Actor : /\ fault[b] # "none" => pc'[b] \in Stopping \cup {"gone"}
                         /\ fault[b] = "cut" => pc'[b] = "gone"
    BY <1>4 DEF PacedInv, FaultsInTurn
  <2>2. \A b, d \in Actor : fault[b] # "none" /\ fault[d] # "none" /\ Live(b)' /\ Live(d)' => b = d
    BY <1>4, <1>7 DEF PacedInv, FaultsInTurn
  <2>3. \A b \in Actor : Standing(b)' => pc'[b] \notin Stopping
    <3>1. Standing(z)' => pc'[z] = "test"
      BY Actors DEF Standing, IsMember, IsCommand
    <3> QED BY <1>7, <3>1, Places
  <2> QED BY <1>1, <2>1, <2>2, <2>3 DEF FaultsInTurn, Stopping
<1>15. Signals'
  <2>1. \A d \in Actor : pc'[d] # "nap"
    BY <1>7
  <2> QED BY <1>1, <1>5, <2>1 DEF Signals
<1>16. Accounted'
  <2>1. ASSUME NEW b \in Actor, Standing(b)'
        PROVE  path = b[1] \/ pc'[b] \in {"test", "create"}
    <3>1. CASE b = z
      BY <2>1, <3>1, Actors DEF Standing, IsMember, IsCommand
    <3>2. CASE b # z
      BY <1>5, <1>6, <1>7, <2>1, <3>2 DEF PacedInv, Accounted, Killer
    <3> QED BY <3>1, <3>2
  <2> QED BY <1>1, <2>1 DEF Accounted
<1>17. Departed'
  <2>1. ASSUME NEW x \in Actor, NEW d \in Actor, x[1] = d[1], IsMember(x),
               pc'[x] = "gone", fault[x] # "cut", Standing(d)'
        PROVE  FALSE
    <3>1. x # z
      BY <2>1, Places, Actors
    <3>2. d # z
      <4>1. ASSUME d = z
            PROVE  FALSE
        <5>1. pc[x] = "new" /\ pc'[x] = pc[x]
          BY <1>3, <2>1, <3>1, <4>1
        <5> QED BY <2>1, <5>1, Places
      <4> QED BY <4>1
    <3>3. Standing(d) /\ pc[x] = "gone"
      BY <1>7, <2>1, <3>1, <3>2
    <3> QED BY <1>6, <2>1, <3>3 DEF PacedInv, Departed, Killer
  <2>2. fault' = fault
    BY <1>1
  <2> QED BY ONLY <2>1, <2>2 DEF Departed, IsMember
<1>18. Told'
  BY DEF Told
<1> QED
  BY <1>9, <1>10, <1>11, <1>12, <1>13, <1>14, <1>15, <1>16, <1>17, <1>18 DEF PacedInv

LEMMA InitPaced == Init => PacedInv
<1> SUFFICES ASSUME Init
             PROVE  PacedInv
  OBVIOUS
<1>1. PortInv
  BY InitPort
<1>2. /\ path = Nobody /\ signalled = {} /\ Newest = 0
      /\ \A a \in Actor : pc[a] = "new" /\ fault[a] = "none"
      /\ \A c \in Cmd : content[c] = Nobody
  BY DEF Init, Newest
<1>3. \A a \in Actor : ~Live(a) /\ ~Standing(a) /\ ~Stops(a) /\ ~At(a, "kill")
  BY <1>2, Places DEF Live, Standing, Stops, At
<1>4. Born
  BY <1>2, <1>3, Places DEF Born
<1>5. Forked /\ Written /\ HasRead
  BY <1>2 DEF Forked, Written, HasRead
<1>6. Names
  BY <1>2, <1>3 DEF Names
<1>7. FaultsInTurn /\ Signals /\ Accounted /\ Departed
  BY <1>2, <1>3 DEF FaultsInTurn, Signals, Accounted, Departed
<1>8. Told
  BY <1>2 DEF Told
<1> QED BY <1>1, <1>4, <1>5, <1>6, <1>7, <1>8 DEF PacedInv
-----------------------------------------------------------------------------
LEMMA CommandIsNewest ==
    ASSUME NEW a \in Actor, PacedInv, IsCommand(a), Live(a)
    PROVE  a[1] = Newest
<1>1. PICK b \in Actor : b = <<a[1], "core">>
  BY Actors DEF Member
<1>2. IsMember(b)
  BY <1>1, Actors DEF Member, IsMember
<1> QED BY <1>2 DEF PacedInv, Born

\* stop_daemon() returns, the file gone: a restart goes on to start a daemon.
LEMMA ReturnPaced ==
    ASSUME NEW a \in Actor, NEW what \in {"stopped", "not running"}, PacedInv, PortInv',
           StopReturns(a, what), Forget(a) \/ UNCHANGED opened, Live(a), pc[a] # "write",
           path = Nobody, a \notin signalled, UNCHANGED <<path, content, signalled>>,
           \A b \in Actor : At(a, "kill") /\ Standing(b) => b[1] # got[a]
    PROVE  PacedInv'
<1>1. typed' = typed /\ fault' = fault /\ UNCHANGED <<path, content, signalled, typed, fault, struck>>
  BY DEF StopReturns
<1>2. \A b \in Actor : b # a => fd'[b] = fd[b] /\ got'[b] = got[b]
  BY DEF Forget, opened, PacedInv, PortInv, TypeOK
<1>3. IsCommand(a) => a[1] = Newest
  BY CommandIsNewest
<1>5. CASE IsCommand(a) /\ typed[a[1]] = "restart"
  <2>1. PICK k \in Actor : k = <<a[1], "core">>
    BY Actors DEF Member
  <2>2. k[1] = a[1] /\ k[2] = "core"
    BY <2>1, Actors DEF Member
  <2>3. pc' = [pc EXCEPT ![a] = "gone", ![k] = "test"] /\ pc \in [Actor -> Place]
    BY <1>5, <2>1 DEF StopReturns, IsCommand, PacedInv, PortInv, TypeOK
  <2>4. a # k
    BY <1>5, <2>2 DEF IsCommand
  <2>5. /\ pc'[a] = "gone" /\ pc'[k] = "test"
        /\ \A b \in Actor : b # a /\ b # k => pc'[b] = pc[b]
    BY <2>3, <2>4
  <2>7. typed[Newest] # "stop"
    BY <1>3, <1>5
  <2> QED BY <1>1, <1>2, <1>5, <2>2, <2>5, <2>7, RestartPaced
<1>6. CASE ~(IsCommand(a) /\ typed[a[1]] = "restart")
  <2>1. Goto(a, "gone")
    BY <1>6 DEF StopReturns, IsCommand
  <2>2. signalled' = signalled \ {a} /\ UNCHANGED <<path, content, typed>>
    BY <1>1
  <2>3. Leaves(a)
    BY <1>1, <2>1, <2>2, LeaveEffect
  <2> QED BY <2>3, LeavePaced
<1> QED BY <1>5, <1>6

LEMMA StopOpenPaced == ASSUME NEW a \in Actor, PacedInv, PortInv', StopOpen(a) PROVE PacedInv'
<1>1. /\ pc[a] = "open" /\ a \notin signalled /\ Stops(a) /\ Live(a)
      /\ UNCHANGED <<path, content, signalled>>
  BY Places DEF StopOpen, At, Stops, Live, files
<1>2. CASE path = Nobody
  <2>1. StopReturns(a, "not running") /\ Forget(a)
    BY <1>2 DEF StopOpen
  <2>2. ~At(a, "kill") /\ pc[a] # "write"
    BY <1>1 DEF At
  <2> QED BY <1>1, <1>2, <2>1, <2>2, ReturnPaced
<1>3. CASE path # Nobody
  <2>1. /\ fd' = [fd EXCEPT ![a] = path] /\ Goto(a, "read")
        /\ UNCHANGED <<got, typed, said, fault, struck>>
    BY <1>3 DEF StopOpen, history
  <2>2. pc'[a] = "read" /\ \A b \in Actor : b # a => pc'[b] = pc[b]
    BY <2>1 DEF Goto, PacedInv, PortInv, TypeOK
  <2>3. fd'[a] = path /\ \A b \in Actor : b # a => fd'[b] = fd[b] /\ got'[b] = got[b]
    BY <2>1 DEF PacedInv, PortInv, TypeOK
  <2>4. IsMember(a) => path = a[1]
    BY <1>1, <1>3 DEF PacedInv, Names
  <2>5. content[path] = path \/ (IsCommand(a) /\ Empty)
    <3>1. content[path] \in {Nobody, path}
      BY <1>3 DEF PacedInv, Written, PortInv, TypeOK
    <3>2. ASSUME content[path] = Nobody, ~Empty
          PROVE  FALSE
      <4>1. PICK b \in Actor : b[1] = path /\ pc[b] = "write"
        BY <1>3, <3>2 DEF PacedInv, Written
      <4>2. b[2] = "core" /\ IsMember(a) /\ b # a
        BY <1>1, <4>1, OneStarts, Places, Actors
      <4>3. a[1] = b[1]
        BY <2>4, <4>1, <4>2
      <4>4. a[2] # "core"
        BY <4>2, <4>3, Actors
      <4>5. a[2] \in Front
        BY <4>2, <4>4, Actors
      <4> QED BY <1>1, <4>1, <4>2, <4>3, <4>5 DEF PacedInv, Forked
    <3>3. ASSUME Empty
          PROVE  IsCommand(a)
      <4>1. ~Standing(a)
        BY <1>1, <3>3, NotEmpty
      <4> QED BY <1>1, <4>1, Actors DEF Standing
    <3> QED BY <3>1, <3>2, <3>3
  <2>6. UNCHANGED <<path, content, signalled, typed, said, fault, struck>>
    BY <1>1, <2>1
  <2> QED BY <1>1, <2>2, <2>3, <2>4, <2>5, <2>6, ApproachPaced
<1> QED BY <1>2, <1>3

LEMMA StopReadPaced == ASSUME NEW a \in Actor, PacedInv, PortInv', StopRead(a) PROVE PacedInv'
<1>1. /\ pc[a] = "read" /\ Stops(a) /\ got' = [got EXCEPT ![a] = content[fd[a]]] /\ Goto(a, "unlink")
      /\ UNCHANGED <<path, content, fd, signalled, typed, said, fault, struck>>
  BY DEF StopRead, At, Stops, files, history
<1>2. /\ content[fd[a]] = fd[a] \/ (IsCommand(a) /\ Empty)
      /\ (IsMember(a) => fd[a] = a[1]) /\ fd[a] \in Cmd
  BY <1>1 DEF PacedInv, HasRead, PortInv, PlacesOK
<1>21. content[fd[a]] \in {Nobody, fd[a]}
  BY <1>2 DEF PacedInv, Written
<1>3. pc'[a] = "unlink" /\ \A b \in Actor : b # a => pc'[b] = pc[b]
  BY <1>1 DEF Goto, PacedInv, PortInv, TypeOK
<1>4. got'[a] = content[fd[a]] /\ fd'[a] = fd[a]
      /\ \A b \in Actor : b # a => fd'[b] = fd[b] /\ got'[b] = got[b]
  BY <1>1, <1>2 DEF PacedInv, PortInv, TypeOK
<1>5. IsCommand(a) => path \in {Nobody, fd[a]}
  BY <1>1 DEF PacedInv, Names
<1>6. UNCHANGED <<path, content, signalled, typed, said, fault, struck>>
  BY <1>1
<1> QED BY <1>1, <1>2, <1>21, <1>3, <1>4, <1>5, <1>6, ApproachPaced

LEMMA StopUnlinkPaced == ASSUME NEW a \in Actor, PacedInv, PortInv', StopUnlink(a) PROVE PacedInv'
<1>1. /\ At(a, "unlink") /\ pc[a] = "unlink" /\ a \notin signalled /\ Live(a)
      /\ UNCHANGED <<content, signalled>>
  BY Places DEF StopUnlink, At, Live
<1>2. CASE path = Nobody
  <2>1. StopFails(a) /\ Forget(a) /\ UNCHANGED <<path, content, typed, fault, struck>>
    BY <1>1, <1>2 DEF StopUnlink, StopFails
  <2>2. signalled' = signalled \ {a}
    BY <1>1
  <2>3. Leaves(a)
    BY <1>1, <2>1, <2>2, LeaveEffect DEF StopFails
  <2>6. ~At(a, "kill") /\ pc[a] # "write"
    BY <1>1 DEF At
  <2> QED BY <1>2, <2>3, <2>6, LeavePaced
<1>3. CASE path # Nobody
  <2>1. path' = Nobody /\ Goto(a, "kill") /\ UNCHANGED <<content, fd, got, signalled, typed, said, fault, struck>>
    BY <1>1, <1>3 DEF StopUnlink, opened, history
  <2>2. pc'[a] = "kill" /\ \A b \in Actor : b # a => pc'[b] = pc[b]
    BY <2>1 DEF Goto, PacedInv, PortInv, TypeOK
  <2> QED BY <1>1, <1>3, <2>1, <2>2, UnlinkPaced
<1> QED BY <1>2, <1>3

LEMMA StopKillPaced == ASSUME NEW a \in Actor, PacedInv, PortInv', StopKill(a) PROVE PacedInv'
<1>1. /\ At(a, "kill") /\ pc[a] = "kill" /\ a \notin signalled /\ Live(a) /\ pc[a] # "write"
      /\ Forget(a) /\ UNCHANGED <<path, content>>
  BY Places DEF StopKill, At, Live, files
<1>2. got[a] \in Cmd \cup {Nobody} /\ (IsMember(a) => got[a] = a[1])
  <2>1. got[a] \in Cmd \cup {Nobody}
    BY DEF PacedInv, PortInv, TypeOK
  <2>2. IsMember(a) => got[a] = a[1]
    BY <1>1, Actors DEF PacedInv, HasRead
  <2> QED BY <2>1, <2>2
<1>3. PICK g \in Cmd :
          /\ g = got[a] \/ got[a] = Nobody
          /\ IF Group(g) = {}
             THEN StopReturns(a, "not running") /\ UNCHANGED signalled
             ELSE /\ signalled' = signalled \cup Group(g) /\ Goto(a, "nap")
                  /\ UNCHANGED history
  BY <1>2 DEF StopKill, Target, Receivers
<1>4. CASE Group(g) = {}
  <2>1. \A b \in Actor : Standing(b) => b[1] # got[a]
    BY <1>3, <1>4, Groups, Actors DEF Standing
  <2>2. IsCommand(a)
    BY <1>1, <1>2, <2>1, Actors DEF Standing
  <2>3. path = Nobody
    BY <1>1, <2>2 DEF PacedInv, Names
  <2> QED BY <1>1, <1>3, <1>4, <2>1, <2>3, ReturnPaced
<1>5. CASE Group(g) # {}
  <2>1. signalled' = signalled \cup Group(g) /\ Goto(a, "nap") /\ UNCHANGED history
    BY <1>3, <1>5
  <2>2. pc'[a] = "nap" /\ \A b \in Actor : b # a => pc'[b] = pc[b]
    BY <2>1 DEF Goto, PacedInv, PortInv, TypeOK
  <2>3. \A b \in Actor : b # a => fd'[b] = fd[b] /\ got'[b] = got[b]
    BY <1>1 DEF Forget, PacedInv, PortInv, TypeOK
  <2>4. \A b \in Actor : b # a => pc'[b] = pc[b] /\ fd'[b] = fd[b] /\ got'[b] = got[b]
    BY <2>2, <2>3
  <2>5. UNCHANGED <<path, content, typed, said, fault, struck>>
    BY <1>1, <2>1 DEF history
  <2> QED BY <1>1, <1>3, <2>1, <2>2, <2>4, <2>5, SignalPaced
<1> QED BY <1>4, <1>5

LEMMA StopNapOverPaced == ASSUME NEW a \in Actor, PacedInv, PortInv', StopNapOver(a) PROVE PacedInv'
<1>1. /\ pc[a] = "nap" /\ a \notin signalled /\ Live(a) /\ pc[a] # "write" /\ ~At(a, "kill")
      /\ StopReturns(a, "stopped") /\ UNCHANGED opened /\ UNCHANGED <<path, content, signalled>>
  BY Places DEF StopNapOver, At, Live, files
<1>2. IsCommand(a)
  BY <1>1, Actors DEF PacedInv, Signals
<1>3. path = Nobody
  BY <1>1, <1>2 DEF PacedInv, Names
<1> QED BY <1>1, <1>3, ReturnPaced

LEMMA StartTestPaced == ASSUME NEW a \in Actor, PacedInv, PortInv', StartTest(a) PROVE PacedInv'
<1>1. /\ At(a, "test") /\ pc[a] = "test" /\ a \notin signalled /\ Live(a)
      /\ ~At(a, "kill") /\ ~Stops(a) /\ pc[a] # "write"
      /\ UNCHANGED <<path, content, fd, got, signalled, typed, fault, struck>>
  BY Places DEF StartTest, At, Live, Stops, files, opened
<1>2. CASE path = Nobody
  <2>1. Goto(a, "create") /\ UNCHANGED said
    BY <1>2 DEF StartTest
  <2>2. pc'[a] = "create" /\ \A b \in Actor : b # a => pc'[b] = pc[b]
    BY <2>1 DEF Goto, PacedInv, PortInv, TypeOK
  <2> QED BY <1>1, <1>2, <2>1, <2>2, TestPaced
<1>3. CASE path # Nobody
  <2>1. Goto(a, "gone") /\ said' = "already running"
    BY <1>3 DEF StartTest
  <2>2. signalled' = signalled \ {a} /\ UNCHANGED opened /\ fault' = fault
        /\ UNCHANGED <<path, content, typed>>
    BY <1>1 DEF opened
  <2>3. Leaves(a)
    BY <1>1, <2>1, <2>2, LeaveEffect
  <2> QED BY <1>1, <2>1, <2>3, LeavePaced
<1> QED BY <1>2, <1>3

LEMMA StartCreatePaced == ASSUME NEW a \in Actor, PacedInv, PortInv', StartCreate(a) PROVE PacedInv'
<1>1. path = Nobody /\ a[1] \in Cmd
  BY Actors DEF StartCreate, At, PacedInv, Written
<1>2. /\ At(a, "create") /\ path' = a[1] /\ fd' = [fd EXCEPT ![a] = a[1]] /\ Goto(a, "write")
      /\ UNCHANGED <<content, got, signalled, typed, said, fault, struck>>
  BY <1>1 DEF StartCreate, history
<1>3. pc'[a] = "write" /\ \A b \in Actor : b # a => pc'[b] = pc[b]
  BY <1>2 DEF Goto, PacedInv, PortInv, TypeOK
<1>4. fd'[a] = a[1] /\ \A b \in Actor : b # a => fd'[b] = fd[b]
  BY <1>2 DEF PacedInv, PortInv, TypeOK
<1> QED BY <1>2, <1>3, <1>4, CreatePaced

LEMMA StartWritePaced == ASSUME NEW a \in Actor, PacedInv, PortInv', StartWrite(a) PROVE PacedInv'
<1>1. fd[a] = a[1] /\ a[1] \in Cmd
  BY Actors DEF StartWrite, At, PacedInv, Written
<1>2. /\ At(a, "write") /\ content' = [content EXCEPT ![a[1]] = a[1]]
      /\ Forget(a) /\ Goto(a, "fork http")
      /\ UNCHANGED <<path, signalled, typed, said, fault, struck>>
  BY <1>1 DEF StartWrite, history
<1>3. pc'[a] = "fork http" /\ \A b \in Actor : b # a => pc'[b] = pc[b]
  BY <1>2 DEF Goto, PacedInv, PortInv, TypeOK
<1>4. \A b \in Actor : b # a => fd'[b] = fd[b] /\ got'[b] = got[b]
  BY <1>2 DEF Forget, PacedInv, PortInv, TypeOK
<1>5. \A i \in Cmd : content'[i] = IF i = a[1] THEN a[1] ELSE content[i]
  BY <1>1, <1>2 DEF PacedInv, PortInv, TypeOK
<1>6. \A b \in Actor : b # a => pc'[b] = pc[b] /\ fd'[b] = fd[b] /\ got'[b] = got[b]
  BY <1>3, <1>4
<1> QED BY <1>2, <1>3, <1>5, <1>6, WritePaced

LEMMA ForksPaced == ASSUME NEW a \in Actor, PacedInv, PortInv', Fork(a) PROVE PacedInv'
<1>1. /\ pc[a] \in {"fork http", "fork midnet"}
      /\ UNCHANGED <<path, content, fd, got, signalled, typed, said, fault, struck>>
  BY DEF Fork, At, files, opened, history
<1>2. a[2] = "core" /\ a[1] \in Cmd /\ pc \in [Actor -> Place]
  BY <1>1, OneStarts, Places, Actors DEF PacedInv, PortInv, TypeOK
<1>3. CASE At(a, "fork http") /\ pc' = [pc EXCEPT ![a] = "fork midnet", ![<<a[1], "http">>] = "bind"]
  <2>1. PICK b \in Actor : b = <<a[1], "http">>
    BY <1>2, Actors DEF Member, Front
  <2>2. b[1] = a[1] /\ b[2] = "http" /\ a # b
    BY <1>2, <2>1, Actors DEF Member, Front
  <2>3. /\ pc'[a] = "fork midnet" /\ pc'[b] = "bind"
        /\ \A d \in Actor : d # a /\ d # b => pc'[d] = pc[d]
    BY <1>2, <1>3, <2>1, <2>2
  <2> QED BY <1>1, <1>2, <1>3, <2>2, <2>3, ForkPaced
<1>4. CASE At(a, "fork midnet") /\ pc' = [pc EXCEPT ![a] = "serving", ![<<a[1], "midnet">>] = "bind"]
  <2>1. PICK b \in Actor : b = <<a[1], "midnet">>
    BY <1>2, Actors DEF Member, Front
  <2>2. b[1] = a[1] /\ b[2] = "midnet" /\ a # b
    BY <1>2, <2>1, Actors DEF Member, Front
  <2>3. /\ pc'[a] = "serving" /\ pc'[b] = "bind"
        /\ \A d \in Actor : d # a /\ d # b => pc'[d] = pc[d]
    BY <1>2, <1>4, <2>1, <2>2
  <2> QED BY <1>1, <1>2, <1>4, <2>2, <2>3, ForkPaced
<1> QED BY <1>3, <1>4 DEF Fork

LEMMA BindPaced == ASSUME NEW a \in Actor, PacedInv, PortInv', Bind(a) PROVE PacedInv'
<1>1. /\ At(a, "bind") /\ pc[a] = "bind" /\ a \notin signalled
      /\ UNCHANGED <<path, content, fd, got, signalled, typed, said, fault, struck>>
  BY DEF Bind, At, files, opened
<1>2. IsMember(a)
  BY <1>1, Actors DEF PacedInv, PortInv, PlacesOK
<1>3. CASE Goto(a, "serving")
  <2>1. pc'[a] = "serving" /\ \A b \in Actor : b # a => pc'[b] = pc[b]
    BY <1>3 DEF Goto, PacedInv, PortInv, TypeOK
  <2> QED BY <1>1, <2>1, ServePaced
<1>4. CASE Goto(a, "open")
  <2>1. pc'[a] = "open" /\ \A b \in Actor : b # a => pc'[b] = pc[b] /\ fault'[b] = fault[b]
    BY <1>1, <1>4 DEF Goto, PacedInv, PortInv, TypeOK
  <2>2. fault'[a] = fault[a]
    BY <1>1
  <2> QED BY <1>1, <1>2, <2>1, <2>2, TurnPaced
<1> QED BY <1>3, <1>4 DEF Bind

LEMMA DiePaced == ASSUME NEW a \in Actor, PacedInv, PortInv', Die(a) PROVE PacedInv'
<1>1. /\ a \in signalled /\ signalled' = signalled \ {a} /\ Goto(a, "gone") /\ Forget(a)
      /\ UNCHANGED <<path, content, typed, struck>> /\ said' = said /\ fault' = fault
  BY DEF Die, files, history
<1>2. Live(a)
  BY <1>1 DEF PacedInv, Signals
<1>3. ~Stops(a) /\ ~At(a, "kill")
  BY <1>1 DEF Stops, At
<1>4. Leaves(a)
  BY <1>1, <1>2, LeaveEffect
<1> QED BY <1>1, <1>3, <1>4, LeavePaced

\* A process that fails, or is killed, where it is: unless it is about to signal,
\* what the others rely on stays.
LEMMA CutPaced ==
    ASSUME NEW a \in Actor, Paced, PacedInv, PortInv', FailExits(a) \/ Kill9(a)
    PROVE  PacedInv' \/ Lost'
<1>1. /\ a \notin signalled /\ Live(a) /\ Fault(a, "cut") /\ Goto(a, "gone") /\ Forget(a)
      /\ UNCHANGED <<path, signalled, typed>>
      /\ said' = said \/ said' = "failed"
      /\ content' = content \/ (pc[a] = "write" /\ content' = [content EXCEPT ![fd[a]] = a[1]])
  <2>1. CASE FailExits(a)
    <3>1. \A place \in (Starting \cup Stopping) \ {"nap"} : place \in Alive
      BY Places
    <3> QED BY <2>1, <3>1 DEF FailExits, At, Live
  <2>2. CASE Kill9(a)
    BY <2>2 DEF Kill9, files
  <2> QED BY <2>1, <2>2
<1>2. /\ fault' = [fault EXCEPT ![a] = "cut"] /\ struck' = struck \cup ({pc[a]} \cap Window)
      /\ \A b \in Actor : fault[b] # "none" => ~Live(b)
  BY <1>1 DEF Fault
<1>3. fault'[a] = "cut" /\ struck \subseteq struck'
  BY <1>2 DEF PacedInv, PortInv, TypeOK
<1>4. pc[a] = "write" => fd[a] = a[1] /\ "write" \in struck'
  BY <1>2 DEF PacedInv, Written, Window
<1>5. Leaves(a)
  <2>1. content' = content \/ content' = [content EXCEPT ![fd[a]] = fd[a]]
    BY <1>1, <1>4
  <2>2. signalled' = signalled \ {a}
    BY <1>1
  <2> QED BY <1>1, <1>2, <1>3, <2>1, <2>2, LeaveEffect
<1>6. CASE pc[a] = "kill"
  BY <1>2, <1>6 DEF Lost, Window
<1>7. CASE pc[a] # "kill"
  BY <1>1, <1>2, <1>3, <1>4, <1>5, <1>7, LeavePaced DEF At
<1> QED BY <1>6, <1>7

LEMMA FailPaced == ASSUME NEW a \in Actor, Paced, PacedInv, PortInv', FailStops(a) PROVE PacedInv'
<1>1. /\ pc[a] \in {"fork http", "fork midnet", "bind", "serving"} /\ a \notin signalled
      /\ Goto(a, "open") /\ fault' = [fault EXCEPT ![a] = "failed"]
      /\ \A b \in Actor : fault[b] # "none" => ~Live(b)
      /\ UNCHANGED <<path, content, fd, got, signalled, typed, said, struck>>
  BY DEF FailStops, At, Fault, files, opened
<1>2. IsMember(a)
  <2>1. pc[a] \in Starting \cup {"bind", "serving"}
    BY <1>1, Places
  <2>2. a[2] \in Member
    BY <2>1 DEF PacedInv, PortInv, PlacesOK, Member
  <2> QED BY <2>2 DEF IsMember
<1>3. pc'[a] = "open" /\ \A b \in Actor : b # a => pc'[b] = pc[b]
  BY <1>1 DEF Goto, PacedInv, PortInv, TypeOK
<1>4. fault'[a] = "failed" /\ \A b \in Actor : b # a => fault'[b] = fault[b]
  BY <1>1 DEF PacedInv, PortInv, TypeOK
<1>5. \A b \in Actor : b # a => pc'[b] = pc[b] /\ fault'[b] = fault[b]
  BY <1>3, <1>4
<1> QED BY <1>1, <1>2, <1>3, <1>4, <1>5, TurnPaced

LEMMA TypesPaced ==
    ASSUME NEW what \in {"start", "stop", "restart"}, Paced, PacedInv, PortInv', Type(what)
    PROVE  PacedInv'
<1>1. PICK c \in Cmd : c = Newest + 1
  BY DEF Type, Newest
<1>2. /\ typed' = Append(typed, what) /\ Settled
      /\ UNCHANGED <<path, content, fd, got, signalled, fault, struck>> /\ said' = "nothing"
      /\ IF what = "start" THEN Goto(<<c, "core">>, "test")
                           ELSE Goto(<<c, "command">>, "open")
  BY <1>1 DEF Type, files, opened, Newest
<1>3. /\ Newest' = Newest + 1 /\ typed'[Newest'] = what
  <2>1. typed \in Seq({"start", "stop", "restart"})
    BY DEF PacedInv, PortInv, TypeOK
  <2>2. Newest' = Newest + 1 /\ typed'[Newest'] = what
    BY <1>2, <2>1 DEF Newest
  <2> QED BY <2>2
<1>4. CASE what = "start"
  <2>1. PICK z \in Actor : z = <<c, "core">>
    BY Actors DEF Member
  <2>2. z[1] = c /\ z[2] = "core"
    BY <2>1, Actors DEF Member
  <2>3. pc'[z] = "test" /\ \A b \in Actor : b # z => pc'[b] = pc[b]
    BY <1>2, <1>4, <2>1 DEF Goto, PacedInv, PortInv, TypeOK
  <2>4. z[1] = Newest' /\ typed'[Newest'] = "start"
    BY <1>1, <1>3, <1>4, <2>2
  <2> QED BY <1>2, <1>3, <2>2, <2>3, <2>4, TypePaced
<1>5. CASE what # "start"
  <2>1. PICK z \in Actor : z = <<c, "command">>
    BY Actors
  <2>2. z[1] = c /\ IsCommand(z)
    BY <2>1, Actors DEF IsCommand
  <2>3. pc'[z] = "open" /\ \A b \in Actor : b # z => pc'[b] = pc[b]
    BY <1>2, <1>5, <2>1 DEF Goto, PacedInv, PortInv, TypeOK
  <2>4. z[1] = Newest'
    BY <1>1, <1>3, <2>2
  <2> QED BY <1>2, <1>3, <2>2, <2>3, <2>4, TypePaced
<1> QED BY <1>4, <1>5

\* A port that is free again, or nothing, happens.
LEMMA SamePaced ==
    ASSUME PacedInv, PortInv', UNCHANGED <<path, content, pc, fd, got, signalled, typed, said, fault, struck>>
    PROVE  PacedInv'
<1>1. /\ path' = path /\ content' = content /\ pc' = pc /\ fd' = fd /\ got' = got
      /\ signalled' = signalled /\ typed' = typed /\ said' = said /\ fault' = fault
      /\ struck' = struck /\ Newest' = Newest
  BY DEF Newest
<1>2. \A b \in Actor : /\ Live(b)' <=> Live(b)
                       /\ Standing(b)' <=> Standing(b)
                       /\ Stops(b)' <=> Stops(b)
                       /\ At(b, "kill")' <=> At(b, "kill")
  BY <1>1 DEF Live, Standing, Stops, At, IsMember
<1>3. \A c \in Cmd : Killer(c) => Killer(c)'
  BY <1>1, <1>2 DEF Killer
<1>4. Born'
  BY <1>1, <1>2, BornKept
<1>5. Forked'
  BY <1>1, ForkedKept
<1>6. Written' /\ HasRead' /\ Names'
  <2>0. Empty => Empty'
    BY <1>1, <1>2, EmptyKept
  <2>1. Written'
    BY <1>1, <2>0, WrittenKept
  <2>2. HasRead'
    BY <1>1, <2>0, ReadKept
  <2>3. Names'
    BY <1>1, <1>2, NamesKept
  <2> QED BY <2>1, <2>2, <2>3
<1>7. FaultsInTurn'
  BY <1>1, <1>2, FaultsKept
<1>8. Signals'
  <2>1. signalled \subseteq Actor
    BY DEF PacedInv, PortInv, TypeOK
  <2> QED BY <1>1, <1>2, <2>1 DEF PacedInv, Signals, IsMember
<1>9. Accounted' /\ Departed'
  BY <1>1, <1>2, <1>3, DepartKept
<1>10. Told'
  BY <1>1 DEF PacedInv, Told
<1> QED BY <1>4, <1>5, <1>6, <1>7, <1>8, <1>9, <1>10 DEF PacedInv

LEMMA NextPaced == ASSUME Paced PROVE PacedInv /\ [Next]_vars => PacedInv' \/ Lost'
<1> SUFFICES ASSUME PacedInv, [Next]_vars PROVE PacedInv' \/ Lost'
  OBVIOUS
<1>0. PortInv'
  BY NextPort DEF PacedInv
<1>1. ASSUME NEW a \in Actor, Step(a) PROVE PacedInv'
  BY <1>0, <1>1, StopOpenPaced, StopReadPaced, StopUnlinkPaced, StopKillPaced, StopNapOverPaced,
     StartTestPaced, StartCreatePaced, StartWritePaced, ForksPaced, BindPaced, DiePaced
     DEF Step, Stop, Start
<1>2. ASSUME NEW a \in Actor, FailStops(a) PROVE PacedInv'
  BY <1>0, <1>2, FailPaced
<1>3. ASSUME NEW a \in Actor, FailExits(a) \/ Kill9(a) PROVE PacedInv' \/ Lost'
  BY <1>0, <1>3, CutPaced
<1>4. ASSUME NEW what \in {"start", "stop", "restart"}, Type(what) PROVE PacedInv'
  BY <1>0, <1>4, TypesPaced
<1>5. ASSUME NEW f \in Front, Expire(f) PROVE PacedInv'
  BY <1>0, <1>5, SamePaced DEF Expire, files, opened, history
<1>6. ASSUME UNCHANGED vars PROVE PacedInv'
  BY <1>0, <1>6, SamePaced DEF vars, files, opened, history
<1> QED BY <1>1, <1>2, <1>3, <1>4, <1>5, <1>6 DEF Next

\* What is lost stays so.
LEMMA LostKept == Lost /\ [Next]_vars => Lost'
<1> SUFFICES ASSUME Lost, [Next]_vars PROVE struck \subseteq struck'
  BY DEF Lost
<1>1. ASSUME NEW a \in Actor, Stop(a) PROVE struck' = struck
  BY <1>1 DEF Stop, StopOpen, StopRead, StopUnlink, StopKill, StopNapOver, StopReturns, StopFails, history
<1>2. ASSUME NEW a \in Actor, Start(a) \/ Bind(a) \/ Die(a) PROVE struck' = struck
  BY <1>2 DEF Start, StartTest, StartCreate, StartWrite, Fork, Bind, Die, history
<1>3. ASSUME NEW a \in Actor, FailStops(a) \/ FailExits(a) \/ Kill9(a) PROVE struck \subseteq struck'
  BY <1>3 DEF FailStops, FailExits, Kill9, Fault
<1>4. ASSUME NEW what \in {"start", "stop", "restart"}, Type(what) PROVE struck' = struck
  BY <1>4 DEF Type
<1>5. ASSUME NEW f \in Front, Expire(f) PROVE struck' = struck
  BY <1>5 DEF Expire, history
<1>6. ASSUME UNCHANGED vars PROVE struck' = struck
  BY <1>6 DEF vars, history
<1> QED BY <1>1, <1>2, <1>3, <1>4, <1>5, <1>6 DEF Next, Step

LEMMA AlwaysPaced == ASSUME Paced PROVE Spec => [](PacedInv \/ Lost)
<1>1. PacedInv /\ [Next]_vars => PacedInv' \/ Lost'
  BY NextPaced
<1>2. (PacedInv \/ Lost) /\ [Next]_vars => (PacedInv \/ Lost)'
  BY <1>1, LostKept
<1> QED BY <1>2, InitPaced, PTL DEF Spec

\* Once everything has settled, what lives serves, and nobody is about to kill.
LEMMA SettledServe ==
    ASSUME PacedInv, Settled
    PROVE  /\ \A a \in Actor : Live(a) => pc[a] = "serving" /\ a \notin signalled
           /\ \A a \in Actor : ~Stops(a) /\ ~At(a, "kill") /\ pc[a] # "write"
           /\ \A a \in Actor : Standing(a) => path = a[1]
<1>1. \A a \in Actor : Live(a) => pc[a] = "serving" /\ a \notin signalled
  BY DEF Settled, At
<1>2. \A a \in Actor : ~Stops(a) /\ ~At(a, "kill") /\ pc[a] # "write"
  <2>1. \A a \in Actor : pc[a] \in {"open", "read", "unlink", "kill", "write"} => Live(a)
    BY Places DEF Live
  <2> QED BY <1>1, <2>1 DEF Stops, At
<1>3. \A a \in Actor : Standing(a) => path = a[1]
  BY <1>1, <1>2 DEF PacedInv, Accounted, Killer, Standing
<1> QED BY <1>1, <1>2, <1>3

LEMMA MembersStand ==
    ASSUME PacedInv, Settled, NEW c \in Cmd, Group(c) # {}
    PROVE  \E b \in Actor : b[1] = c /\ Standing(b)
<1>1. PICK b \in Actor : b[1] = c /\ IsMember(b) /\ Live(b)
  BY Groups
<1>2. Standing(b)
  BY <1>1, SettledServe DEF Standing
<1> QED BY <1>1, <1>2
-----------------------------------------------------------------------------
\* While commands and faults come one after the other, a process that calls kill()
\* knows whom: a process of a daemon that shuts down its own group, for the inode
\* it has open is the one its own daemon has written, a command the number it has
\* read, unless a core server was cut short before it wrote one (daemon.c:142-160).
THEOREM KillersKnowWhom == ASSUME Paced PROVE Spec => []KillsItsOwn
<1>1. PacedInv \/ Lost => KillsItsOwn
  <2> SUFFICES ASSUME PacedInv, NEW a \in Actor, At(a, "kill")
               PROVE  IF IsCommand(a) THEN got[a] # Nobody \/ "write" \in struck
                                      ELSE got[a] = a[1]
    BY DEF KillsItsOwn, IsCommand
  <2>1. \/ got[a] = fd[a] /\ got[a] \in Cmd
        \/ IsCommand(a) /\ "write" \in struck
    BY DEF PacedInv, HasRead, At, Empty
  <2>2. IsMember(a) => fd[a] = a[1]
    BY DEF PacedInv, HasRead, At
  <2> QED BY <2>1, <2>2, Actors
<1> QED BY <1>1, AlwaysPaced, PTL

\* Whenever all is done, what is left of a daemon, be it one orphaned front end, is
\* named by the PID file, so that the next stop or restart reaches it, unless a stop
\* was cut short between its unlink() and its kill() (daemon.c:47-61).
THEOREM LeftoversStayNamed == ASSUME Paced PROVE Spec => []LeftoversAreNamed
<1>1. PacedInv \/ Lost => LeftoversAreNamed
  <2> SUFFICES ASSUME PacedInv, Settled, NEW c \in Cmd, Group(c) # {}
               PROVE  path # Nobody /\ content[path] = c
    BY DEF LeftoversAreNamed
  <2>1. PICK b \in Actor : b[1] = c /\ Standing(b)
    BY MembersStand
  <2>2. path = c /\ path # Nobody /\ ~Empty
    BY <2>1, SettledServe, Numerals, NotEmpty DEF Standing
  <2>3. content[c] # Nobody
    BY <2>2, SettledServe DEF PacedInv, Written
  <2> QED BY <2>2, <2>3 DEF PacedInv, Written
<1> QED BY <1>1, AlwaysPaced, PTL

\* A stop that says that the daemon is stopped, or was not running, leaves nothing
\* of any daemon once the processes it signalled have exited, however long that
\* takes them: it has left no PID file, and without one nothing stands.
THEOREM StopIsBelieved == ASSUME Paced PROVE Spec => []StopTellsTheTruth
<1>1. PacedInv \/ Lost => StopTellsTheTruth
  <2> SUFFICES ASSUME PacedInv, Settled, Newest # 0, typed[Newest] = "stop",
                      said \in {"stopped", "not running"},
                      NEW d \in Cmd, Group(d) # {}
               PROVE  FALSE
    BY DEF StopTellsTheTruth, Newest
  <2>1. path = Nobody
    BY DEF PacedInv, Told
  <2>2. path = d
    BY MembersStand, SettledServe
  <2> QED BY <2>1, <2>2, Numerals
<1> QED BY <1>1, AlwaysPaced, PTL

\* Whenever all is done, a daemon serves with its three processes or has none, if
\* none of them was cut short, by a violent death or by an error after which it
\* just exits: one that gives up goes to stop_daemon() and takes the others along.
THEOREM DaemonsServeWhole == ASSUME Paced PROVE Spec => []AllOrNothing
<1>1. PacedInv \/ Lost => AllOrNothing
  <2> SUFFICES ASSUME PacedInv, Settled, NEW c \in Cmd, NEW m \in Member,
                      \A n \in Member : fault[<<c, n>>] # "cut", Group(c) # {}
               PROVE  At(<<c, m>>, "serving")
    BY DEF AllOrNothing, Complete
  <2>1. PICK b \in Actor : b[1] = c /\ Standing(b)
    BY MembersStand
  <2>2. \A n \in Member : /\ <<c, n>> \in Actor /\ <<c, n>>[1] = c /\ <<c, n>>[2] = n
                          /\ IsMember(<<c, n>>) /\ fault[<<c, n>>] # "cut"
    BY Actors DEF IsMember
  <2>3. ASSUME NEW x \in Actor, x[1] = c, IsMember(x), fault[x] # "cut"
        PROVE  pc[x] # "gone"
    BY <2>1, <2>3, SettledServe DEF PacedInv, Departed, Killer
  <2>4. \A n \in Member : pc[<<c, n>>] # "gone"
    BY <2>2, <2>3
  <2>5. \A x \in Actor : pc[x] \in {"new", "serving", "gone"}
    <3>1. pc \in [Actor -> Place]
      BY DEF PacedInv, PortInv, TypeOK
    <3> QED BY <3>1, SettledServe DEF Place, Live
  <2>6. PICK k \in Actor : k = <<c, "core">> /\ k[1] = c /\ k[2] = "core"
    <3>1. "core" \in Member
      BY DEF Member
    <3> QED BY <2>2, <3>1
  <2>7. pc[k] # "new"
    <3>1. CASE b[2] = "core"
      <4>1. b = k
        BY <2>1, <2>6, <3>1, Actors
      <4> QED BY <2>1, <4>1, Places DEF Standing, Live
    <3>2. CASE b[2] # "core"
      <4>1. b[2] \in Front /\ pc[b] # "new"
        BY <2>1, <3>2, Actors, Places DEF Standing, Live
      <4> QED BY <2>1, <2>6, <4>1 DEF PacedInv, Forked
    <3> QED BY <3>1, <3>2
  <2>8. pc[k] = "serving"
    BY <2>4, <2>5, <2>6, <2>7 DEF Member
  <2>9. pc[<<c, m>>] # "new"
    <3>1. CASE m = "core"
      BY <2>6, <2>7, <3>1
    <3>2. CASE m # "core"
      <4>1. m \in Front
        BY <3>2 DEF Member
      <4> QED BY <2>2, <2>6, <2>8, <4>1 DEF PacedInv, Forked
    <3> QED BY <3>1, <3>2
  <2>10. pc[<<c, m>>] = "serving"
    BY <2>2, <2>4, <2>5, <2>9
  <2>11. <<c, m>> \notin signalled
    <3>1. Live(<<c, m>>)
      BY <2>10, Places DEF Live
    <3> QED BY <2>2, <3>1, SettledServe
  <2> QED BY <2>10, <2>11 DEF At
<1> QED BY <1>1, AlwaysPaced, PTL
=============================================================================
