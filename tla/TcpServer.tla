----------------------------- MODULE TcpServer ------------------------------
(***************************************************************************)
(* launch_tcp_server() (tcp_server.c:67-311) with shut_and_close() and     *)
(* initialize_tcp_request() (tcp.c:18-42): the loop each front end runs    *)
(* over its client sockets.                                                *)
(*                                                                         *)
(* A socket is the number the system gives it, the least that is free; 0   *)
(* is sockfd, the listening socket.  Of a request only its length in units *)
(* and its last unit matter, of a reply only its length.                   *)
(***************************************************************************)
EXTENDS Integers, FiniteSets, FiniteSetsExt

CONSTANTS MaxConnection,   \* MAX_CONNECTION
          BufferLength,    \* BUFFER_LENGTH, in units
          MaxClients       \* bound of the model: clients that ever connect

ASSUME ServerAssumption ==
    /\ MaxConnection \in Nat \ {0}
    /\ BufferLength \in Nat \ {0}
    /\ MaxClients \in Nat

Slot == 1..MaxConnection
Fd == 1..(MaxConnection + 1)   \* one for a client that finds no slot
NoSocket == -1

VARIABLES waiting,  \* clients in the backlog of sockfd
          clients,  \* clients that have connected so far
          open,     \* the client descriptors that are open
          peer,     \* peer[fd]: what the client at the other end has done
          slot,     \* client_request[]
          rfds, wfds, nfds,          \* globalrfds, globalwfds, nfds
          rready, wready, newcomer,  \* what the last select returned
          at, turn, \* the stage of the loop and the index i of its for loop
          asked,    \* history: the open sockets whose reader found a request
          calm      \* history: no client has reset, or was too slow to read

netVars == <<waiting, clients>>
setVars == <<rfds, wfds, nfds>>
fdVars == <<open, slot, setVars, asked>>
loopVars == <<rready, wready, newcomer, at, turn>>
vars == <<netVars, peer, fdVars, loopVars, calm>>

\* data: what of a request waits to be read; life: "fin" once the client has
\* closed, "rst" once it has reset, "dead" once the error of the reset has been
\* reported; room: whether the send buffer has room.
NewPeer == [data |-> "none", life |-> "up", room |-> TRUE]
Initialized == [socket |-> NoSocket, position |-> 0, limit |-> BufferLength,
                close |-> FALSE]

Init ==
    /\ waiting = 0 /\ clients = 0
    /\ open = {} /\ asked = {}
    /\ peer = [fd \in Fd |-> NewPeer]
    /\ slot = [i \in Slot |-> Initialized]
    /\ rfds = {} /\ wfds = {} /\ nfds = 0
    /\ rready = {} /\ wready = {} /\ newcomer = FALSE
    /\ at = "select" /\ turn = 1
    /\ calm = TRUE

Readable(fd) == peer[fd].data # "none" \/ peer[fd].life # "up"
Writable(fd) == peer[fd].room \/ peer[fd].life \in {"rst", "dead"}

KeptNfds(slots) == nfds  \* mutant of MaxNfds: set_max_nfds() is not called
MaxNfds(slots) == Max({0} \cup {slots[i].socket : i \in Slot})

\* close() and initialize_tcp_request(), the two halves of shut_and_close().
NotClosed(fds, fd) == fds   \* mutant of Closed: the socket is only shut down
Closed(fds, fd) == fds \ {fd}
Freed(i) == Initialized
-----------------------------------------------------------------------------
\* What clients do, at any time.
Connect ==
    /\ clients < MaxClients
    /\ clients' = clients + 1 /\ waiting' = waiting + 1
    /\ UNCHANGED <<peer, fdVars, loopVars, calm>>

PeerDoes(fd, p) ==
    /\ fd \in open
    /\ peer' = [peer EXCEPT ![fd] = p]
    /\ UNCHANGED <<netVars, fdVars, loopVars>>

ClientSends(fd, unit) ==
    /\ peer[fd].data = "none" /\ peer[fd].life = "up" /\ fd \notin asked
    /\ PeerDoes(fd, [peer[fd] EXCEPT !.data = unit])
    /\ UNCHANGED calm

ClientCloses(fd) ==
    /\ peer[fd].life = "up"
    /\ PeerDoes(fd, [peer[fd] EXCEPT !.life = "fin"])
    /\ UNCHANGED calm

ClientResets(fd) ==
    /\ peer[fd].life \in {"up", "fin"}
    /\ PeerDoes(fd, [peer[fd] EXCEPT !.life = "rst", !.data = "none"])
    /\ calm' = FALSE

ClientDrains(fd) ==
    /\ ~peer[fd].room
    /\ PeerDoes(fd, [peer[fd] EXCEPT !.room = TRUE])
    /\ UNCHANGED calm

ClientStep ==
    \/ Connect
    \/ \E fd \in Fd :
          \/ \E unit \in {"part", "last"} : ClientSends(fd, unit)
          \/ ClientCloses(fd) \/ ClientResets(fd) \/ ClientDrains(fd)
-----------------------------------------------------------------------------
Polled(fds) == {fd \in fds : fd <= nfds}
ReadyToRead == {fd \in Polled(rfds) : Readable(fd)}
ReadyToWrite == {fd \in Polled(wfds) : Writable(fd)}
BadDescriptor == \E fd \in Polled(rfds \cup wfds) : fd \notin open
NothingReady == waiting = 0 /\ ReadyToRead \cup ReadyToWrite = {}

SelectReady ==
    /\ at = "select" /\ ~BadDescriptor /\ ~NothingReady
    /\ rready' = ReadyToRead
    /\ wready' = ReadyToWrite
    /\ newcomer' = (waiting > 0)
    /\ at' = "accept"
    /\ UNCHANGED <<netVars, peer, fdVars, turn, calm>>

\* Three idle seconds: every client is closed.  Their descriptors stay in
\* globalrfds and globalwfds, out of the reach of select because of nfds.
SelectTimeout ==
    /\ at = "select" /\ ~BadDescriptor /\ NothingReady
    /\ slot' = [i \in Slot |-> IF slot[i].socket = NoSocket THEN slot[i] ELSE Freed(i)]
    /\ open' = {} /\ asked' = {}
    /\ nfds' = MaxNfds(slot')
    /\ UNCHANGED <<netVars, peer, rfds, wfds, loopVars, calm>>

\* A closed descriptor among those polled: select fails with EBADF, the
\* server returns and its process stops the whole daemon (midas.c:338-342).
SelectFails ==
    /\ at = "select" /\ BadDescriptor
    /\ at' = "stopped"
    /\ UNCHANGED <<netVars, peer, fdVars, rready, wready, newcomer, turn, calm>>
-----------------------------------------------------------------------------
FreeSlots == {i \in Slot : slot[i].socket = NoSocket}

\* The first free slot takes the client; it was initialized when its previous
\* client was closed, and is not initialized again here.
AcceptClient ==
    /\ newcomer /\ FreeSlots # {}
    /\ LET fd == Min(Fd \ open)
       IN  /\ slot' = [slot EXCEPT ![Min(FreeSlots)].socket = fd]
           /\ open' = open \cup {fd}
           /\ peer' = [peer EXCEPT ![fd] = NewPeer]
           /\ rfds' = rfds \cup {fd}
           /\ nfds' = Max({nfds, fd})
    /\ waiting' = waiting - 1
    /\ UNCHANGED <<clients, wfds, asked>>

\* No slot is left: the client is accepted and its descriptor closed at once.
AcceptRefuses ==
    /\ newcomer /\ FreeSlots = {}
    /\ LET fd == Min(Fd \ open)
       IN  open' = Closed(open \cup {fd}, fd)
    /\ waiting' = waiting - 1
    /\ UNCHANGED <<clients, peer, slot, setVars, asked>>

AcceptNone == ~newcomer /\ UNCHANGED <<netVars, peer, fdVars>>

Accept ==
    /\ at = "accept"
    /\ AcceptClient \/ AcceptRefuses \/ AcceptNone
    /\ at' = "read" /\ turn' = 1
    /\ UNCHANGED <<rready, wready, newcomer, calm>>
-----------------------------------------------------------------------------
AlwaysRoom(i) == TRUE  \* mutant of HasRoom: read_max is not checked
HasRoom(i) == slot[i].position < BufferLength

\* FD_CLR, shut_and_close() and set_max_nfds(): the client has left, or its
\* request overflows the buffer.
ReadCloses(i, fd) ==
    /\ HasRoom(i) => peer[fd].data = "none" /\ peer[fd].life \in {"fin", "dead"}
    /\ rfds' = rfds \ {fd}
    /\ slot' = [slot EXCEPT ![i] = Freed(i)]
    /\ open' = Closed(open, fd) /\ asked' = asked \ {fd}
    /\ nfds' = MaxNfds(slot')
    /\ UNCHANGED <<wfds, peer>>

\* read() fails on a connection that was reset: nothing is done about it.  The
\* error is consumed, the next read finds the end of the stream.
ReadFails(i, fd) ==
    /\ HasRoom(i) /\ peer[fd].life = "rst"
    /\ peer' = [peer EXCEPT ![fd].life = "dead"]
    /\ UNCHANGED fdVars

\* The reader finds no complete request yet.
ReadPart(i, fd) ==
    /\ HasRoom(i) /\ peer[fd].data = "part"
    /\ peer' = [peer EXCEPT ![fd].data = "none"]
    /\ slot' = [slot EXCEPT ![i].position = @ + 1]
    /\ UNCHANGED <<open, setVars, asked>>

ReadAndWrite(fd) == wfds' = wfds \cup {fd} /\ UNCHANGED rfds  \* mutant of NowWrite
NowWrite(fd) == wfds' = wfds \cup {fd} /\ rfds' = rfds \ {fd}

\* The reader finds a complete request: the client is to be written to.
ReadLast(i, fd) ==
    /\ HasRoom(i) /\ peer[fd].data = "last"
    /\ peer' = [peer EXCEPT ![fd].data = "none"]
    /\ slot' = [slot EXCEPT ![i].position = 0]
    /\ asked' = asked \cup {fd}
    /\ NowWrite(fd)
    /\ UNCHANGED <<open, nfds>>

\* The next index of the for loop, or the next stage.
Advance(next) ==
    /\ turn' = IF turn = MaxConnection THEN 1 ELSE turn + 1
    /\ at' = IF turn = MaxConnection THEN next ELSE at
    /\ UNCHANGED <<netVars, rready, wready, newcomer>>

Read ==
    /\ at = "read"
    /\ LET fd == slot[turn].socket
       IN  IF fd \in rready
           THEN ReadCloses(turn, fd) \/ ReadFails(turn, fd)
                \/ ReadPart(turn, fd) \/ ReadLast(turn, fd)
           ELSE UNCHANGED <<peer, fdVars>>
    /\ Advance("write")
    /\ UNCHANGED calm
-----------------------------------------------------------------------------
\* FD_CLR, shut_and_close() and set_max_nfds().
CloseWritten(i, fd, free) ==
    /\ wfds' = wfds \ {fd}
    /\ slot' = [slot EXCEPT ![i] = free]
    /\ open' = Closed(open, fd) /\ asked' = asked \ {fd}
    /\ nfds' = MaxNfds(slot')
    /\ UNCHANGED <<rfds, peer>>

\* Mutant of WriteAll: neither the descriptor nor the socket is dealt with.
WriteAllGoesOn(i, fd, close) == UNCHANGED <<peer, fdVars, calm>>

\* All that is left of the reply is written.  A slot whose writer never ran has
\* close_request = 0: its client is read again.
WriteAll(i, fd, close) ==
    /\ IF close
       THEN CloseWritten(i, fd, Freed(i))
       ELSE /\ wfds' = wfds \ {fd} /\ rfds' = rfds \cup {fd}
            /\ UNCHANGED <<open, peer, slot, nfds, asked>>
    /\ UNCHANGED calm

\* A slow client takes a part of the reply.
WritePart(i, fd, limit, close) ==
    /\ \E n \in 1..(limit - slot[i].position - 1) :
          slot' = [slot EXCEPT ![i].position = @ + n, ![i].limit = limit,
                               ![i].close = close]
    /\ peer' = [peer EXCEPT ![fd].room = FALSE]
    /\ calm' = FALSE
    /\ UNCHANGED <<open, setVars, asked>>

\* write() fails.  The client is closed, and the code goes on with ret = 1, the
\* result of closing: less than write_max, it is added to the position of the
\* slot that is free by now.  (With write_max = 1 it is FD_SET of -1 that
\* follows, which reaches no descriptor that select polls.)
WriteFails(i, fd, limit) ==
    /\ peer[fd].life # "dead"
    /\ CloseWritten(i, fd, IF 1 < limit - slot[i].position
                           THEN [Freed(i) EXCEPT !.position = @ + 1]
                           ELSE Freed(i))
    /\ calm' = FALSE

\* One write to the client of slot i.
WriteReply(i, fd, limit, close, room) ==
    IF limit <= slot[i].position
    THEN CloseWritten(i, fd, Freed(i)) /\ UNCHANGED calm
    ELSE IF room /\ peer[fd].life \notin {"rst", "dead"}
    THEN WriteAll(i, fd, close) \/ WritePart(i, fd, limit, close)
    ELSE WriteFails(i, fd, limit)

\* protocol_writer() has a reply ready.  If it is the end of a long page, full
\* buffers of it were flushed before, which a slow client may not have room for.
WriterReplies(i, fd) ==
    /\ slot[i].position = 0
    /\ \E limit \in 1..BufferLength, room \in {peer[fd].room, FALSE} :
          WriteReply(i, fd, limit, TRUE, room)

\* protocol_writer() has no reply: the client is closed.
WriterRefuses(i, fd) ==
    slot[i].position = 0 /\ CloseWritten(i, fd, Freed(i)) /\ UNCHANGED calm

\* The rest of a reply of which a part was written.
WriteGoesOn(i, fd) ==
    /\ slot[i].position # 0
    /\ WriteReply(i, fd, slot[i].limit, slot[i].close, peer[fd].room)

Write ==
    /\ at = "write"
    /\ LET fd == slot[turn].socket
       IN  IF fd \in wready
           THEN WriterReplies(turn, fd) \/ WriterRefuses(turn, fd)
                \/ WriteGoesOn(turn, fd)
           ELSE UNCHANGED <<peer, fdVars, calm>>
    /\ Advance("select")

\* The second write to a connection that was reset, or the first when its
\* client had closed before or a read has reported the reset, raises SIGPIPE,
\* which the process does not handle.  (The first may be a flush of the writer,
\* which ignores the error.)
Killed ==
    /\ at = "write" /\ slot[turn].socket \in wready
    /\ peer[slot[turn].socket].life \in {"rst", "dead"}
    /\ at' = "killed"
    /\ UNCHANGED <<netVars, peer, fdVars, rready, wready, newcomer, turn, calm>>

ServerStep ==
    SelectReady \/ SelectTimeout \/ SelectFails \/ Accept \/ Read \/ Write \/ Killed

Next == ServerStep \/ ClientStep

Spec == Init /\ [][Next]_vars

\* The system schedules the server; clients need not do anything.
FairSpec == Spec /\ WF_vars(ServerStep)
-----------------------------------------------------------------------------
TypeOK ==
    /\ waiting \in 0..MaxClients /\ clients \in 0..MaxClients
    /\ open \subseteq Fd /\ asked \subseteq open
    /\ peer \in [Fd -> [data : {"none", "part", "last"},
                        life : {"up", "fin", "rst", "dead"}, room : BOOLEAN]]
    /\ slot \in [Slot -> [socket : Fd \cup {NoSocket}, position : 0..BufferLength,
                          limit : 1..BufferLength, close : BOOLEAN]]
    /\ rfds \subseteq Fd /\ wfds \subseteq Fd /\ nfds \in {0} \cup Fd
    /\ rready \subseteq Fd /\ wready \subseteq Fd /\ newcomer \in BOOLEAN
    /\ at \in {"select", "accept", "read", "write", "stopped", "killed"}
    /\ turn \in Slot
    /\ calm \in BOOLEAN

\* No descriptor is leaked and none is shared: the open ones are those of the
\* slots, one each, however their clients behave.
SocketsOwned ==
    /\ open = {slot[i].socket : i \in Slot} \ {NoSocket}
    /\ \A i, j \in Slot :
          i # j /\ slot[i].socket = slot[j].socket => slot[i].socket = NoSocket

\* As long as clients read their replies and do not reset, select never fails,
\* which would stop the daemon: the closed descriptors that an idle timeout
\* leaves in the sets (tcp_server.c:139-145) stay above nfds, or are given again.
SelectSafe == calm => ~BadDescriptor /\ at # "stopped"

\* As long as they do, a connected client is waited for at the select, to read
\* its request or to write its reply, never for both and never forgotten.
EveryClientPolled ==
    calm /\ at = "select" => \A fd \in open : /\ fd <= nfds
                                              /\ (fd \in rfds) # (fd \in wfds)

\* A client that has sent a complete request is answered or closed, even one
\* that stops reading in the middle of its reply, if the server lives.
AskedIsServed ==
    \A fd \in Fd : fd \in asked ~> (fd \notin asked \/ at \in {"stopped", "killed"})
=============================================================================
