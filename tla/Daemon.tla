------------------------------- MODULE Daemon -------------------------------
(***************************************************************************)
(* The life of the daemon: start_daemon() and stop_daemon() of daemon.c,   *)
(* and what main() does around them (midas.c:269-284, 305-404, 496-499).   *)
(*                                                                         *)
(* Commands, daemons and front ends are processes that meet in the PID     *)
(* file and in the two ports; each of their steps is one system call.  The *)
(* daemon a command starts is a process group that bears the number of the *)
(* command.  A PID file is an inode, named after the daemon that created   *)
(* it: a process that has it open goes on using it after it is unlinked,   *)
(* whatever path then names.  A number is read back as it was written.     *)
(***************************************************************************)
EXTENDS Naturals, Sequences, FiniteSets

CONSTANTS MaxCmd,     \* bound of the model: commands typed
          MaxFaults,  \* bound of the model: processes that fail or are killed
          Paced,      \* whether commands, and faults, come one after the other
          Prompt,     \* whether 300 ms are enough for a process to exit
          MayLinger   \* whether a port may be taken by nobody's server

ASSUME DaemonAssumption ==
    /\ MaxCmd \in Nat \ {0}
    /\ MaxFaults \in Nat
    /\ Paced \in BOOLEAN
    /\ Prompt \in BOOLEAN
    /\ MayLinger \in BOOLEAN

Cmd == 1..MaxCmd
Nobody == 0
Lingering == MaxCmd + 1   \* a port in TIME_WAIT, or held by another program

Front == {"http", "midnet"}
Member == {"core"} \cup Front
Actor == Cmd \X ({"command"} \cup Member)

Stopping == {"open", "read", "unlink", "kill", "nap"}
Starting == {"test", "create", "write", "fork http", "fork midnet"}
Alive == Stopping \cup Starting \cup {"bind", "serving"}
Place == Alive \cup {"new", "gone"}

VARIABLES path,       \* the inode that PID_FILE names, Nobody when there is none
          content,    \* content[i]: the number in inode i, Nobody when it is empty
          port,       \* port[f]: the daemon whose front end f is bound to it
          pc,         \* pc[a]: where the process a is
          fd,         \* fd[a]: the inode a has opened
          got,        \* got[a]: the number a has read
          signalled,  \* the processes that were sent SIGTERM
          typed,      \* the commands typed so far
          said,       \* what the last command typed has reported
          fault,      \* history: fault[a] is how the process a went wrong
          struck,     \* history: the windows in which one was cut short
          spoiled     \* history: a fault, a taken port, or a process that
                      \* outlived its 300 ms, crossed that command

files == <<path, content>>
opened == <<fd, got>>
history == <<typed, said, fault, struck, spoiled>>
vars == <<files, port, pc, opened, signalled, history>>

Free == IF MayLinger THEN {Nobody, Lingering} ELSE {Nobody}

Init ==
    /\ path = Nobody
    /\ content = [c \in Cmd |-> Nobody]
    /\ port = [f \in Front |-> Nobody]
    /\ pc = [a \in Actor |-> "new"]
    /\ fd = [a \in Actor |-> Nobody]
    /\ got = [a \in Actor |-> Nobody]
    /\ signalled = {}
    /\ typed = <<>>
    /\ said = "nothing"
    /\ fault = [a \in Actor |-> "none"]
    /\ struck = {}
    /\ spoiled = FALSE

Live(a) == pc[a] \in Alive
Group(c) == {a \in {c} \X Member : Live(a)}

\* A process that was sent SIGTERM does nothing more than exit.
At(a, place) == pc[a] = place /\ a \notin signalled
Goto(a, place) == pc' = [pc EXCEPT ![a] = place]

\* A process that ends closes what it has opened.  Its port is free, or
\* lingers (SO_REUSEADDR is not set).
Forget(a) == /\ fd' = [fd EXCEPT ![a] = Nobody]
             /\ got' = [got EXCEPT ![a] = Nobody]
Release(a) ==
    \E next \in Free :
        port' = [f \in Front |-> IF a = <<port[f], f>> THEN next ELSE port[f]]
-----------------------------------------------------------------------------
(* stop_daemon(), in a command, or in a process of a daemon that fails.    *)

\* Mutant of StopReturns: a restart that finds nothing to stop exits.
StopExits(a, what) ==
    /\ IF a[2] = "command" /\ typed[a[1]] = "restart" /\ what = "stopped"
       THEN pc' = [pc EXCEPT ![a] = "gone", ![<<a[1], "core">>] = "test"]
       ELSE Goto(a, "gone")
    /\ said' = IF a[2] = "command" THEN what ELSE said
    /\ Release(a)
    /\ UNCHANGED <<typed, fault, struck>>

\* It returns: a restart goes on to start_daemon(), any other process exits.
StopReturns(a, what) ==
    /\ IF a[2] = "command" /\ typed[a[1]] = "restart"
       THEN pc' = [pc EXCEPT ![a] = "gone", ![<<a[1], "core">>] = "test"]
       ELSE Goto(a, "gone")
    /\ said' = IF a[2] = "command" THEN what ELSE said
    /\ Release(a)
    /\ UNCHANGED <<typed, fault, struck>>

StopOpen(a) ==
    /\ At(a, "open")
    /\ IF path = Nobody
       THEN StopReturns(a, "not running") /\ Forget(a) /\ UNCHANGED spoiled
       ELSE /\ fd' = [fd EXCEPT ![a] = path]
            /\ Goto(a, "read")
            /\ UNCHANGED <<port, got, history>>
    /\ UNCHANGED <<files, signalled>>

StopRead(a) ==
    /\ At(a, "read")
    /\ got' = [got EXCEPT ![a] = content[fd[a]]]
    /\ Goto(a, "unlink")
    /\ UNCHANGED <<files, port, fd, signalled, history>>

\* exit(EXIT_FAILURE): nothing is stopped, and a restart starts nothing.
StopFails(a) ==
    /\ Goto(a, "gone")
    /\ said' = IF a[2] = "command" THEN "failed" ELSE said
    /\ Release(a)
    /\ UNCHANGED <<typed, fault, struck, spoiled>>

\* It unlinks what path names by now, which may not be what it has read.
StopUnlink(a) ==
    /\ At(a, "unlink")
    /\ IF path = Nobody
       THEN StopFails(a) /\ Forget(a) /\ UNCHANGED path
       ELSE path' = Nobody /\ Goto(a, "kill") /\ UNCHANGED <<port, opened, history>>
    /\ UNCHANGED <<content, signalled>>

\* kill(-pid, 15).  After an empty file pid is not initialized: any group.
CoreOf(g) == Group(g) \cap {<<g, "core">>}   \* mutant of Receivers: kill(pid)
Receivers(g) == Group(g)
Target(a) == IF got[a] = Nobody THEN Cmd ELSE {got[a]}
StopKill(a) ==
    /\ At(a, "kill")
    /\ \E g \in Target(a) :
          IF Group(g) = {}
          THEN StopReturns(a, "not running") /\ UNCHANGED <<signalled, spoiled>>
          ELSE /\ signalled' = signalled \cup Receivers(g)
               /\ Goto(a, "nap")
               /\ UNCHANGED <<port, history>>
    /\ Forget(a)
    /\ UNCHANGED files

\* 300 ms have gone by: "Done!", whatever the signalled processes did in them.
StopNapOver(a) ==
    /\ At(a, "nap")
    /\ Prompt => signalled = {}
    /\ StopReturns(a, "stopped")
    /\ spoiled' = (spoiled \/ signalled # {})
    /\ UNCHANGED <<files, opened, signalled>>

Stop(a) == \/ StopOpen(a) \/ StopRead(a) \/ StopUnlink(a)
           \/ StopKill(a) \/ StopNapOver(a)
-----------------------------------------------------------------------------
(* start_daemon(), from the child on, and main() after it.                 *)

\* Mutant of StartTest: the file is not tested.
StartBlindly(a) ==
    /\ At(a, "test")
    /\ Goto(a, "create")
    /\ UNCHANGED <<files, port, opened, signalled, history>>

StartTest(a) ==
    /\ At(a, "test")
    /\ IF path = Nobody
       THEN Goto(a, "create") /\ UNCHANGED said
       ELSE Goto(a, "gone") /\ said' = "already running"
    /\ UNCHANGED <<files, port, opened, signalled, typed, fault, struck, spoiled>>

\* open() with O_CREAT and without O_EXCL: a file that is there by now is used.
StartCreate(a) ==
    /\ At(a, "create")
    /\ path' = IF path = Nobody THEN a[1] ELSE path
    /\ fd' = [fd EXCEPT ![a] = path']
    /\ Goto(a, "write")
    /\ UNCHANGED <<content, port, got, signalled, history>>

\* Mutants of StartWrite: nothing is written; the parent's number is.
StartWriteNothing(a) ==
    /\ At(a, "write")
    /\ Forget(a)
    /\ Goto(a, "fork http")
    /\ UNCHANGED <<files, port, signalled, history>>
StartWriteParent(a) ==
    /\ At(a, "write")
    /\ content' = [content EXCEPT ![fd[a]] = MaxCmd + a[1]]
    /\ Forget(a)
    /\ Goto(a, "fork http")
    /\ UNCHANGED <<path, port, signalled, history>>

StartWrite(a) ==
    /\ At(a, "write")
    /\ content' = [content EXCEPT ![fd[a]] = a[1]]
    /\ Forget(a)
    /\ Goto(a, "fork http")
    /\ UNCHANGED <<path, port, signalled, history>>

\* The core server forks the front ends one after the other.
Fork(a) ==
    /\ \/ /\ At(a, "fork http")
          /\ pc' = [pc EXCEPT ![a] = "fork midnet", ![<<a[1], "http">>] = "bind"]
       \/ /\ At(a, "fork midnet")
          /\ pc' = [pc EXCEPT ![a] = "serving", ![<<a[1], "midnet">>] = "bind"]
    /\ UNCHANGED <<files, port, opened, signalled, history>>

Start(a) == StartTest(a) \/ StartCreate(a) \/ StartWrite(a) \/ Fork(a)

\* Mutants of Bind: with SO_REUSEPORT; a front end without a port exits, quietly.
BindAlways(a) ==
    /\ At(a, "bind")
    /\ port' = [port EXCEPT ![a[2]] = a[1]]
    /\ Goto(a, "serving")
    /\ UNCHANGED <<files, opened, signalled, history>>

BindOrExit(a) ==
    /\ At(a, "bind")
    /\ IF port[a[2]] = Nobody
       THEN port' = [port EXCEPT ![a[2]] = a[1]] /\ Goto(a, "serving")
       ELSE Goto(a, "gone") /\ UNCHANGED port
    /\ UNCHANGED <<files, opened, signalled, history>>

\* launch_tcp_server() binds its port, or returns: the front end then stops
\* the daemon that the PID file names.
Bind(a) ==
    /\ At(a, "bind")
    /\ IF port[a[2]] = Nobody
       THEN /\ port' = [port EXCEPT ![a[2]] = a[1]]
            /\ Goto(a, "serving")
            /\ UNCHANGED spoiled
       ELSE /\ Goto(a, "open")
            /\ spoiled' = (spoiled \/ port[a[2]] = Lingering)
            /\ UNCHANGED port
    /\ UNCHANGED <<files, opened, signalled, typed, said, fault, struck>>

\* clean_exit_*(), or the default action of SIGTERM before they are set.
Die(a) ==
    /\ a \in signalled
    /\ signalled' = signalled \ {a}
    /\ Goto(a, "gone")
    /\ Release(a)
    /\ Forget(a)
    /\ UNCHANGED <<files, history>>
-----------------------------------------------------------------------------
(* What is not of the program's making.                                    *)

\* Every process has done what it had to do.
Settled == \A a \in Actor : Live(a) => At(a, "serving")

\* A command is typed: a start forks the daemon, the others stop one first.
Type(what) ==
    LET c == Len(typed) + 1
    IN  /\ c \in Cmd /\ (Paced => Settled)
        /\ typed' = Append(typed, what)
        /\ said' = "nothing" /\ spoiled' = FALSE
        /\ IF what = "start" THEN Goto(<<c, "core">>, "test")
                             ELSE Goto(<<c, "command">>, "open")
        /\ UNCHANGED <<files, port, opened, signalled, fault, struck>>

\* The PID file exists and is empty; it is gone and its daemon is not.
Window == {"write", "kill"}

\* A fault happens, during a command or not, once the last one is over.  The
\* process "failed" and goes on to stop_daemon(), or was "cut" short.
Fault(a, kind) ==
    /\ Cardinality({b \in Actor : fault[b] # "none"}) < MaxFaults
    /\ Paced => \A b \in Actor : fault[b] # "none" => ~Live(b)
    /\ fault' = [fault EXCEPT ![a] = kind]
    /\ struck' = IF kind = "cut" THEN struck \cup ({pc[a]} \cap Window) ELSE struck
    /\ spoiled' = (spoiled \/ ~Settled)

\* A system call of a process of the daemon fails (a pipe, a sigaction, a dup2,
\* a select) and the process calls stop_daemon().
FailStops(a) ==
    /\ \E place \in {"fork http", "fork midnet", "bind", "serving"} : At(a, place)
    /\ Fault(a, "failed")
    /\ Goto(a, "open")
    /\ UNCHANGED <<files, port, opened, signalled, typed, said>>

\* One of start_daemon(), of stop_daemon(), or a fork of main() fails and the
\* process exits where it is.  A write of the PID file that fails leaves it
\* empty, a close that fails does not.
FailExits(a) ==
    /\ \E place \in (Starting \cup Stopping) \ {"nap"} : At(a, place)
    /\ Fault(a, "cut")
    /\ \/ UNCHANGED content
       \/ At(a, "write") /\ content' = [content EXCEPT ![fd[a]] = a[1]]
    /\ Goto(a, "gone")
    /\ said' = IF a[2] = "command" \/ pc[a] \in Starting
               THEN "failed" ELSE said
    /\ Forget(a)
    /\ Release(a)
    /\ UNCHANGED <<path, signalled, typed>>

\* "If the program is killed violently": one of its processes is, or one of a
\* command, between any two of its steps.
Kill9(a) ==
    /\ Live(a) /\ a \notin signalled
    /\ Fault(a, "cut")
    /\ Goto(a, "gone")
    /\ Forget(a)
    /\ Release(a)
    /\ UNCHANGED <<files, signalled, typed, said>>

\* A port that lingers is free again a minute later.
Expire(f) ==
    /\ port[f] = Lingering /\ (Paced => Settled)
    /\ port' = [port EXCEPT ![f] = Nobody]
    /\ UNCHANGED <<files, pc, opened, signalled, history>>

Step(a) == Stop(a) \/ Start(a) \/ Bind(a) \/ Die(a)

Next == \/ \E a \in Actor : Step(a) \/ FailStops(a) \/ FailExits(a) \/ Kill9(a)
        \/ \E what \in {"start", "stop", "restart"} : Type(what)
        \/ \E f \in Front : Expire(f)

Spec == Init /\ [][Next]_vars

\* The system runs one process or another while one of them can go on: none
\* of them loops, so each has its turn.  Nobody has to type, no port expires.
FairSpec == Spec /\ WF_vars(\E a \in Actor : Step(a))
-----------------------------------------------------------------------------
TypeOK ==
    /\ path \in Cmd \cup {Nobody}
    /\ content \in [Cmd -> Cmd \cup {Nobody}]
    /\ port \in [Front -> Cmd \cup {Nobody, Lingering}]
    /\ pc \in [Actor -> Place]
    /\ fd \in [Actor -> Cmd \cup {Nobody}]
    /\ got \in [Actor -> Cmd \cup {Nobody}]
    /\ signalled \subseteq Actor
    /\ typed \in Seq({"start", "stop", "restart"}) /\ Len(typed) <= MaxCmd
    /\ said \in {"nothing", "stopped", "not running", "already running", "failed"}
    /\ fault \in [Actor -> {"none", "failed", "cut"}]
    /\ struck \subseteq Window
    /\ spoiled \in BOOLEAN

Complete(c) == \A m \in Member : At(<<c, m>>, "serving")

\* However commands overlap, and although the PID file is created without
\* O_EXCL (daemon.c:142), at most one daemon gets to serve: the others lose a
\* port to it and shut down.
OneServes == \A c, d \in Cmd : Complete(c) /\ Complete(d) => c = d

\* A stop was cut short between unlink() and kill() (daemon.c:47-61): what it
\* was to stop lives on, and no file names it.
Lost == "kill" \in struck

\* Whatever is left of a daemon, be it one orphaned front end, the PID file
\* names it: the next stop or restart reaches it (daemon.c:35-61).  Only a
\* stop that ends between unlink() and kill() leaves a daemon without a name.
LeftoversAreNamed ==
    Settled /\ ~Lost =>
        \A c \in Cmd : Group(c) # {} => path # Nobody /\ content[path] = c

\* When a stop has said that the daemon is stopped, or was not running
\* (daemon.c:22, 68, 78), nothing of any daemon is left once the processes it
\* signalled have exited, unless one stop was cut short before its kill().
StopTellsTheTruth ==
    LET c == Len(typed)
    IN  (/\ Settled /\ ~Lost /\ c # 0 /\ typed[c] = "stop"
         /\ said \in {"stopped", "not running"}) => \A d \in Cmd : Group(d) = {}

\* A process that calls kill() knows whom: a process of a daemon that shuts
\* down (midas.c:341, 402, 498) its own group, a command the number it has
\* read, unless a core was cut short before it wrote it (daemon.c:142-160).
KillsItsOwn ==
    \A a \in Actor : At(a, "kill") /\ ~Lost =>
        IF a[2] = "command" THEN got[a] # Nobody \/ "write" \in struck
                            ELSE got[a] = a[1]

\* A daemon serves with its three processes or not at all: one that cannot
\* bind its port, or fails, takes the others along.  One that is killed does
\* not, nor a core that cannot fork (midas.c:307-309, 368-370), nor a process
\* that fails in stop_daemon() itself: they are cut.
AllOrNothing ==
    Settled /\ ~Lost => \A c \in Cmd :
        (\A m \in Member : fault[<<c, m>>] # "cut") => Group(c) = {} \/ Complete(c)

Restarting(c) ==
    /\ typed[c] = "restart" /\ ~Complete(c)
    /\ ~spoiled /\ \A m \in Member : fault[<<c, m>>] = "none"
    /\ ~Lost

\* A restart ends with a daemon that serves, whatever was left of the last
\* one (midas.c:43-44), unless a fault, a taken port or a process that
\* outlives the 300 ms crosses it, or a daemon is left that no file names.
RestartServes == []<>~(Len(typed) # 0 /\ Restarting(Len(typed)))

\* midas.c:43-44: "it might appear as running the next time you want to start
\* it.  If so, please use the restart option": a restart leads to a daemon
\* that serves.
RestartIsTheRemedy ==
    \A c \in Cmd :
        (pc[<<c, "command">>] = "open" /\ typed[c] = "restart") ~> Complete(c)
=============================================================================
