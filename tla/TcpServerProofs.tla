-------------------------- MODULE TcpServerProofs --------------------------
(***************************************************************************)
(* The bookkeeping of the TCP server, for any number of slots and clients. *)
(*                                                                         *)
(* However clients behave, sockets and slots belong together (SocketsOwned)*)
(* and everything keeps its type: that is ServerInv, which needs to know   *)
(* that the client the select has announced is still there to be accepted. *)
(*                                                                         *)
(* As long as clients read their replies and close in order (calm), CalmInv*)
(* adds what the descriptor sets, nfds and the results of the last select  *)
(* say of each other at each stage of the loop, whatever an idle timeout   *)
(* has left in the sets.                                                   *)
(***************************************************************************)
EXTENDS TcpServer, Extrema, FiniteSetTheorems

LastFd == MaxConnection + 1

SlotRecord == [socket : Fd \cup {NoSocket}, position : 0..BufferLength,
               limit : 1..BufferLength, close : BOOLEAN]
PeerRecord == [data : {"none", "part", "last"},
               life : {"up", "fin", "rst", "dead"}, room : BOOLEAN]

Typed ==
    /\ waiting \in 0..MaxClients /\ clients \in 0..MaxClients
    /\ open \subseteq Fd /\ asked \subseteq open
    /\ peer \in [Fd -> PeerRecord]
    /\ slot \in [Slot -> SlotRecord]
    /\ rfds \subseteq Fd /\ wfds \subseteq Fd /\ nfds \in 0..LastFd
    /\ rready \subseteq Fd /\ wready \subseteq Fd /\ newcomer \in BOOLEAN
    /\ at \in {"select", "accept", "read", "write", "stopped", "killed"}
    /\ turn \in Slot

Backlog ==
    /\ waiting <= clients
    /\ (at = "accept" /\ newcomer) => waiting > 0

ServerInv == Typed /\ SocketsOwned /\ Backlog

PeersAreCalm == \A fd \in Fd : peer[fd].life \in {"up", "fin"} /\ peer[fd].room

\* A descriptor that an idle timeout left in globalrfds is above nfds.
SetsAgree ==
    /\ wfds = asked
    /\ \A fd \in open : fd <= nfds /\ (fd \in rfds) # (fd \in wfds)
    /\ \A fd \in rfds \ open : nfds < fd

SlotsAreReady ==
    \A i \in Slot :
        /\ slot[i].socket = NoSocket => slot[i] = Initialized
        /\ slot[i].socket \in wfds => slot[i].position = 0

\* What the last select found is still so for the slots yet to come.
ResultsHold ==
    /\ at \in {"select", "accept", "read", "write"}
    /\ at \in {"select", "accept"} => turn = 1
    /\ at = "accept" => rready \subseteq rfds
    /\ at \in {"accept", "read"} => wready \subseteq wfds
    /\ at = "read" => \A i \in Slot :
            (turn <= i /\ slot[i].socket \in rready) => slot[i].socket \in rfds
    /\ at = "write" => \A i \in Slot :
            (turn <= i /\ slot[i].socket \in wready) => slot[i].socket \in wfds

CalmInv == ServerInv /\ PeersAreCalm /\ SetsAgree /\ SlotsAreReady /\ ResultsHold
-----------------------------------------------------------------------------
LEMMA Numbers ==
    /\ MaxConnection \in Nat /\ MaxConnection > 0
    /\ BufferLength \in Nat /\ BufferLength > 0
    /\ MaxClients \in Nat
    /\ LastFd \in Nat /\ LastFd = MaxConnection + 1
    /\ Slot = 1..MaxConnection /\ Fd = 1..LastFd
    /\ NoSocket = -1 /\ NoSocket \notin Fd
BY ServerAssumption DEF Slot, Fd, LastFd, NoSocket

LEMMA Records ==
    /\ Initialized \in SlotRecord
    /\ Initialized.socket = NoSocket
    /\ NewPeer \in PeerRecord
BY Numbers DEF Initialized, SlotRecord, NewPeer, PeerRecord

LEMMA Types ==
    Typed <=>
        /\ waiting \in 0..MaxClients /\ clients \in 0..MaxClients
        /\ open \subseteq Fd /\ asked \subseteq open
        /\ peer \in [Fd -> PeerRecord]
        /\ slot \in [Slot -> SlotRecord]
        /\ rfds \subseteq Fd /\ wfds \subseteq Fd /\ nfds \in 0..LastFd
        /\ rready \subseteq Fd /\ wready \subseteq Fd /\ newcomer \in BOOLEAN
        /\ at \in {"select", "accept", "read", "write", "stopped", "killed"}
        /\ turn \in Slot
BY DEF Typed

LEMMA TypesNext ==
    Typed' <=>
        /\ waiting' \in 0..MaxClients /\ clients' \in 0..MaxClients
        /\ open' \subseteq Fd /\ asked' \subseteq open'
        /\ peer' \in [Fd -> PeerRecord]
        /\ slot' \in [Slot -> SlotRecord]
        /\ rfds' \subseteq Fd /\ wfds' \subseteq Fd /\ nfds' \in 0..LastFd
        /\ rready' \subseteq Fd /\ wready' \subseteq Fd /\ newcomer' \in BOOLEAN
        /\ at' \in {"select", "accept", "read", "write", "stopped", "killed"}
        /\ turn' \in Slot
BY DEF Typed

\* set_max_nfds(): the largest socket of the slots, or sockfd.
LEMMA LargestSocket ==
    ASSUME NEW slots, \A i \in Slot : slots[i].socket \in Fd \cup {NoSocket}
    PROVE  /\ MaxNfds(slots) \in 0..LastFd
           /\ MaxNfds(slots) \in {0} \cup {slots[i].socket : i \in Slot}
           /\ \A i \in Slot : slots[i].socket <= MaxNfds(slots)
<1> DEFINE S == {0} \cup {slots[i].socket : i \in Slot}
           T == S \ {NoSocket}
<1>1. T \subseteq 0..LastFd /\ T # {}
  <2>1. 0 \in T
    BY Numbers
  <2>2. \A i \in Slot : slots[i].socket # NoSocket => slots[i].socket \in 0..LastFd
    BY Numbers
  <2>3. QED
    BY <2>1, <2>2, Numbers
<1>2. Max(T) \in T /\ \A y \in T : y <= Max(T)
  <2> HIDE DEF T
  <2> QED BY <1>1, Numbers, GreatestElement
<1>3. \A y \in S : Max(T) >= y
  <2>1. Max(T) \in 0..LastFd
    BY <1>1, <1>2
  <2>2. Max(T) >= NoSocket
    BY <2>1, Numbers
  <2>3. QED
    BY <1>2, <2>1, <2>2
<1>4. Max(S) \in S /\ \A y \in S : Max(S) >= y
  <2>1. Max(T) \in S
    BY <1>2
  <2> HIDE DEF S, T
  <2> QED BY <1>3, <2>1 DEF Max
<1>5. MaxNfds(slots) = Max(S)
  BY DEF MaxNfds
<1>6. MaxNfds(slots) \in T
  <2>1. 0 \in S /\ NoSocket = -1
    BY Numbers
  <2>2. Max(S) >= 0
    BY <1>4, <2>1
  <2>3. Max(S) # NoSocket
    BY <2>1, <2>2
  <2>4. QED
    BY <1>4, <1>5, <2>3
<1>7. \A i \in Slot : slots[i].socket <= MaxNfds(slots)
  <2> SUFFICES ASSUME NEW i \in Slot PROVE slots[i].socket <= MaxNfds(slots)
    OBVIOUS
  <2>1. MaxNfds(slots) >= slots[i].socket
    BY <1>4, <1>5
  <2>2. slots[i].socket \in Int /\ MaxNfds(slots) \in Int
    BY <1>1, <1>6, Numbers
  <2>3. QED
    BY <2>1, <2>2
<1>8. QED
  BY <1>1, <1>4, <1>5, <1>6, <1>7

\* A descriptor is free: each open one has a slot of its own.
LEMMA FreeDescriptor ==
    ASSUME Typed, SocketsOwned
    PROVE  /\ FreeSlots # {} => Min(FreeSlots) \in FreeSlots
           /\ Min(Fd \ open) \in Fd \ open
           /\ \A fd \in Fd \ open : Min(Fd \ open) <= fd
<1>1. FreeSlots \subseteq Nat
  BY Numbers DEF FreeSlots
<1>2. Fd \ open # {}
  <2> SUFFICES ASSUME Fd \subseteq open PROVE FALSE
    OBVIOUS
  <2> DEFINE owner == [fd \in Fd |-> CHOOSE i \in Slot : slot[i].socket = fd]
  <2>1. \A fd \in Fd : \E i \in Slot : slot[i].socket = fd
    BY DEF SocketsOwned
  <2>2. \A fd \in Fd : owner[fd] \in Slot /\ slot[owner[fd]].socket = fd
    BY <2>1
  <2>3. owner \in [Fd -> Slot]
    BY <2>2
  <2>4. /\ IsFiniteSet(Fd) /\ IsFiniteSet(Slot)
        /\ Cardinality(Fd) = LastFd /\ Cardinality(Slot) = MaxConnection
    BY Numbers, FS_Interval
  <2>5. Cardinality(Slot) < Cardinality(Fd)
    BY <2>4, Numbers
  <2>6. \E c, d \in Fd : c # d /\ owner[c] = owner[d]
    <3> HIDE DEF owner
    <3> QED BY <2>3, <2>4, <2>5, FS_PigeonHole
  <2>7. QED
    BY <2>2, <2>6
<1>3. Fd \ open \subseteq Nat
  BY Numbers
<1>4. QED
  BY <1>1, <1>2, <1>3, LeastElement
-----------------------------------------------------------------------------
(* ServerInv: any clients.                                                 *)

LEMMA InitServer == Init => ServerInv
<1> SUFFICES ASSUME Init PROVE ServerInv
  OBVIOUS
<1>1. peer \in [Fd -> PeerRecord] /\ slot \in [Slot -> SlotRecord]
  BY Records DEF Init
<1>2. Typed
  <2>1. /\ waiting = 0 /\ clients = 0 /\ open = {} /\ asked = {}
        /\ rfds = {} /\ wfds = {} /\ nfds = 0 /\ rready = {} /\ wready = {}
        /\ newcomer = FALSE /\ at = "select" /\ turn = 1
    BY DEF Init
  <2>2. 0 \in 0..MaxClients /\ 0 \in 0..LastFd /\ 1 \in Slot
    BY Numbers
  <2>3. QED
    BY <1>1, <2>1, <2>2, Types
<1>3. SocketsOwned
  BY Records DEF Init, SocketsOwned
<1>4. QED
  BY <1>2, <1>3, Numbers DEF Init, ServerInv, Backlog

\* A step that moves no socket keeps each with its slot.
LEMMA SameSockets ==
    ASSUME SocketsOwned, open' = open, \A i \in Slot : slot'[i].socket = slot[i].socket
    PROVE  SocketsOwned'
<1>1. {slot'[i].socket : i \in Slot} = {slot[i].socket : i \in Slot}
  OBVIOUS
<1>2. QED
  BY <1>1 DEF SocketsOwned

LEMMA ClientsKeepServer == ServerInv /\ ClientStep => ServerInv'
<1> SUFFICES ASSUME ServerInv, ClientStep PROVE ServerInv'
  OBVIOUS
<1>1. CASE Connect
  <2>1. UNCHANGED <<peer, open, slot, rfds, wfds, nfds, asked, rready, wready, newcomer, at, turn>>
    BY <1>1 DEF Connect, fdVars, setVars, loopVars
  <2>2. clients' \in 0..MaxClients /\ waiting' \in 0..MaxClients /\ waiting' <= clients'
        /\ waiting' > 0
    BY <1>1, Numbers, Types DEF Connect, ServerInv, Backlog
  <2>3. Typed'
    BY <2>1, <2>2, Types, TypesNext DEF ServerInv
  <2>4. SocketsOwned'
    BY <2>1, SameSockets DEF ServerInv
  <2>5. QED
    BY <2>2, <2>3, <2>4 DEF ServerInv, Backlog
<1>2. ASSUME NEW fd \in Fd,
             \/ \E unit \in {"part", "last"} : ClientSends(fd, unit)
             \/ ClientCloses(fd) \/ ClientResets(fd) \/ ClientDrains(fd)
      PROVE  ServerInv'
  <2>1. PICK p \in PeerRecord : PeerDoes(fd, p)
    <3>1. peer[fd] \in PeerRecord
      BY Types DEF ServerInv
    <3>2. /\ \A unit \in {"part", "last"} : [peer[fd] EXCEPT !.data = unit] \in PeerRecord
          /\ [peer[fd] EXCEPT !.life = "fin"] \in PeerRecord
          /\ [peer[fd] EXCEPT !.life = "rst", !.data = "none"] \in PeerRecord
          /\ [peer[fd] EXCEPT !.room = TRUE] \in PeerRecord
      BY <3>1 DEF PeerRecord
    <3>3. QED
      BY <1>2, <3>2 DEF ClientSends, ClientCloses, ClientResets, ClientDrains
  <2>2. /\ peer' = [peer EXCEPT ![fd] = p]
        /\ UNCHANGED <<waiting, clients, open, slot, rfds, wfds, nfds, asked,
                      rready, wready, newcomer, at, turn>>
    BY <2>1 DEF PeerDoes, netVars, fdVars, setVars, loopVars
  <2>3. peer' \in [Fd -> PeerRecord]
    BY <2>2, Types DEF ServerInv
  <2>4. Typed'
    BY <2>2, <2>3, Types, TypesNext DEF ServerInv
  <2>5. SocketsOwned'
    BY <2>2, SameSockets DEF ServerInv
  <2>6. QED
    BY <2>2, <2>4, <2>5 DEF ServerInv, Backlog
<1>3. QED
  BY <1>1, <1>2 DEF ClientStep

LEMMA SelectKeepsServer == ServerInv /\ (SelectReady \/ SelectFails) => ServerInv'
<1> SUFFICES ASSUME ServerInv, SelectReady \/ SelectFails PROVE ServerInv'
  OBVIOUS
<1>1. /\ UNCHANGED <<waiting, clients, peer, open, slot, rfds, wfds, nfds, asked, turn>>
      /\ at' = "accept" /\ newcomer' => waiting > 0
  BY DEF SelectReady, SelectFails, netVars, fdVars, setVars
<1>2. /\ at' \in {"accept", "stopped"} /\ newcomer' \in BOOLEAN
      /\ rready' \subseteq Fd /\ wready' \subseteq Fd
  <2>1. ReadyToRead \subseteq rfds /\ ReadyToWrite \subseteq wfds
    BY DEF ReadyToRead, ReadyToWrite, Polled
  <2>2. rready' \subseteq Fd /\ wready' \subseteq Fd
    BY <2>1, Types DEF SelectReady, SelectFails, ServerInv
  <2>3. newcomer \in BOOLEAN
    BY Types DEF ServerInv
  <2>4. newcomer' \in BOOLEAN
    <3>1. CASE SelectReady
      <4>1. newcomer' = (waiting > 0)
        BY <3>1, Zenon DEF SelectReady
      <4>2. (waiting > 0) \in BOOLEAN
        OBVIOUS
      <4>3. QED
        BY <4>1, <4>2, Zenon
    <3>2. CASE SelectFails
      <4>1. newcomer' = newcomer
        BY <3>2, Zenon DEF SelectFails
      <4>2. QED
        BY <2>3, <4>1, Zenon
    <3>3. QED
      BY <3>1, <3>2
  <2>5. at' \in {"accept", "stopped"}
    BY Zenon DEF SelectReady, SelectFails
  <2>6. QED
    BY <2>2, <2>4, <2>5
<1>3. Typed'
  BY <1>1, <1>2, Types, TypesNext DEF ServerInv
<1>4. SocketsOwned'
  BY <1>1, SameSockets DEF ServerInv
<1>5. QED
  BY <1>1, <1>3, <1>4 DEF ServerInv, Backlog

LEMMA TimeoutKeepsServer == ServerInv /\ SelectTimeout => ServerInv'
<1> SUFFICES ASSUME ServerInv, SelectTimeout PROVE ServerInv'
  OBVIOUS
<1>1. /\ UNCHANGED <<waiting, clients, peer, rfds, wfds, rready, wready, newcomer, at, turn>>
      /\ open' = {} /\ asked' = {} /\ nfds' = MaxNfds(slot')
      /\ slot' = [i \in Slot |-> IF slot[i].socket = NoSocket THEN slot[i] ELSE Freed(i)]
  BY DEF SelectTimeout, netVars, loopVars
<1>2. slot' \in [Slot -> SlotRecord] /\ \A i \in Slot : slot'[i].socket = NoSocket
  BY <1>1, Records, Types DEF ServerInv, Freed
<1>3. nfds' \in 0..LastFd
  BY <1>1, <1>2, LargestSocket
<1>4. Typed'
  BY <1>1, <1>2, <1>3, Types, TypesNext DEF ServerInv
<1>5. SocketsOwned'
  BY <1>1, <1>2 DEF SocketsOwned
<1>6. QED
  BY <1>1, <1>4, <1>5 DEF ServerInv, Backlog

\* The descriptor of a client that finds no slot is closed at once.
LEMMA RefusedIsClosed ==
    ASSUME Typed, SocketsOwned, AcceptRefuses
    PROVE  open' = open
<1> DEFINE fd == Min(Fd \ open)
<1>1. fd \notin open
  BY FreeDescriptor
<1>2. open' = (open \cup {fd}) \ {fd}
  BY DEF AcceptRefuses, Closed
<1> HIDE DEF fd
<1> QED BY <1>1, <1>2

LEMMA AcceptKeepsServer == ServerInv /\ Accept => ServerInv'
<1> SUFFICES ASSUME ServerInv, Accept PROVE ServerInv'
  OBVIOUS
<1>1. /\ at = "accept" /\ at' = "read" /\ turn' = 1
      /\ UNCHANGED <<rready, wready, newcomer>>
  BY DEF Accept
<1>2. 1 \in Slot
  BY Numbers
<1>3. CASE AcceptClient
  <2>1. newcomer /\ FreeSlots # {}
    BY <1>3 DEF AcceptClient
  <2>2. PICK fd \in Fd \ open, i \in FreeSlots :
            /\ fd = Min(Fd \ open) /\ i = Min(FreeSlots)
    BY <2>1, FreeDescriptor DEF ServerInv
  <2>3. /\ slot' = [slot EXCEPT ![i].socket = fd]
        /\ open' = open \cup {fd}
        /\ peer' = [peer EXCEPT ![fd] = NewPeer]
        /\ rfds' = rfds \cup {fd}
        /\ nfds' = Max({nfds, fd})
        /\ waiting' = waiting - 1
        /\ UNCHANGED <<clients, wfds, asked>>
    BY <1>3, <2>2 DEF AcceptClient
  <2>4. i \in Slot /\ slot[i].socket = NoSocket
    BY DEF FreeSlots
  <2>5. slot' \in [Slot -> SlotRecord] /\ peer' \in [Fd -> PeerRecord]
    <3>1. slot[i] \in SlotRecord
      BY <2>4, Types DEF ServerInv
    <3>2. [slot[i] EXCEPT !.socket = fd] \in SlotRecord
      BY <3>1 DEF SlotRecord
    <3>3. QED
      BY <2>3, <2>4, <3>2, Records, Types DEF ServerInv
  <2>6. nfds' \in 0..LastFd
    <3>1. {nfds, fd} \subseteq 0..LastFd
      BY Numbers, Types DEF ServerInv
    <3>2. QED
      BY <2>3, <3>1, Numbers, GreatestElement
  <2>7. waiting' \in 0..MaxClients /\ waiting' <= clients'
    BY <1>1, <2>1, <2>3, Numbers, Types DEF ServerInv, Backlog
  <2>8. Typed'
    BY <1>1, <1>2, <2>3, <2>5, <2>6, <2>7, Types, TypesNext DEF ServerInv
  <2>9. SocketsOwned'
    <3>1. /\ slot'[i].socket = fd
          /\ \A j \in Slot \ {i} : slot'[j].socket = slot[j].socket
      BY <2>3, <2>4, Types DEF ServerInv, SlotRecord
    <3>2. open = {slot[j].socket : j \in Slot} \ {NoSocket}
      BY DEF ServerInv, SocketsOwned
    <3>3. open' = {slot'[j].socket : j \in Slot} \ {NoSocket}
      <4>1. open' \subseteq {slot'[j].socket : j \in Slot} \ {NoSocket}
        BY <2>3, <2>4, <3>1, <3>2, Numbers
      <4>2. ASSUME NEW j \in Slot, slot'[j].socket # NoSocket
            PROVE  slot'[j].socket \in open'
        BY <2>3, <3>1, <3>2, <4>2
      <4>3. QED
        BY <4>1, <4>2
    <3>4. ASSUME NEW j \in Slot, NEW k \in Slot, j # k, slot'[j].socket = slot'[k].socket
          PROVE  slot'[j].socket = NoSocket
      <4>1. \A l \in Slot : slot[l].socket # fd
        BY <2>2, <3>2, Numbers
      <4>2. j # i /\ k # i
        BY <3>1, <3>4, <4>1
      <4>3. QED
        BY <3>1, <3>4, <4>2 DEF ServerInv, SocketsOwned
    <3>5. QED
      BY <3>3, <3>4 DEF SocketsOwned
  <2>10. QED
    BY <1>1, <2>7, <2>8, <2>9 DEF ServerInv, Backlog
<1>4. CASE AcceptRefuses \/ AcceptNone
  <2>1. UNCHANGED <<clients, peer, open, slot, rfds, wfds, nfds, asked>>
    BY <1>4, RefusedIsClosed
    DEF ServerInv, AcceptRefuses, AcceptNone, netVars, fdVars, setVars
  <2>2. waiting' \in 0..MaxClients /\ waiting' <= clients'
    BY <1>1, <1>4, <2>1, Numbers, Types
    DEF AcceptRefuses, AcceptNone, netVars, ServerInv, Backlog
  <2>3. Typed'
    BY <1>1, <1>2, <2>1, <2>2, Types, TypesNext DEF ServerInv
  <2>4. SocketsOwned'
    BY <2>1, SameSockets DEF ServerInv
  <2>5. QED
    BY <1>1, <2>2, <2>3, <2>4 DEF ServerInv, Backlog
<1>5. QED
  BY <1>3, <1>4 DEF Accept

\* shut_and_close() of slot i, with set_max_nfds(), leaves the others alone.
LEMMA SlotClosed ==
    ASSUME Typed, SocketsOwned, NEW i \in Slot, slot[i].socket \in Fd,
           NEW free \in SlotRecord, free.socket = NoSocket,
           slot' = [slot EXCEPT ![i] = free],
           open' = open \ {slot[i].socket}, asked' = asked \ {slot[i].socket},
           nfds' = MaxNfds(slot')
    PROVE  /\ SocketsOwned'
           /\ open' \subseteq Fd /\ asked' \subseteq open'
           /\ slot' \in [Slot -> SlotRecord]
           /\ nfds' \in 0..LastFd
<1>1. slot' \in [Slot -> SlotRecord]
  BY Types
<1>2. /\ slot'[i].socket = NoSocket
      /\ \A j \in Slot \ {i} : slot'[j].socket = slot[j].socket
  BY Types
<1>3. open = {slot[j].socket : j \in Slot} \ {NoSocket}
  BY DEF SocketsOwned
<1>4. \A j \in Slot \ {i} : slot[j].socket # slot[i].socket
  BY Numbers DEF SocketsOwned
<1>5. open' = {slot'[j].socket : j \in Slot} \ {NoSocket}
  <2>1. ASSUME NEW fd \in open' PROVE fd \in {slot'[j].socket : j \in Slot} \ {NoSocket}
    BY <1>2, <1>3
  <2>2. ASSUME NEW j \in Slot, slot'[j].socket # NoSocket PROVE slot'[j].socket \in open'
    BY <1>2, <1>3, <1>4, <2>2
  <2>3. QED
    BY <2>1, <2>2
<1>6. SocketsOwned'
  BY <1>2, <1>5 DEF SocketsOwned
<1>7. nfds' \in 0..LastFd
  BY <1>1, LargestSocket DEF SlotRecord
<1>8. QED
  BY <1>1, <1>6, <1>7, Types

\* One turn of the for loop that reads or of the one that writes.
LEMMA Turns ==
    ASSUME ServerInv, NEW next \in {"write", "select"}, at \in {"read", "write"},
           Advance(next)
    PROVE  /\ turn' \in Slot
           /\ turn < MaxConnection => at' = at /\ turn' = turn + 1
           /\ turn = MaxConnection => at' = next /\ turn' = 1
           /\ at' \in {"read", "write", "select"}
           /\ UNCHANGED <<waiting, clients, rready, wready, newcomer>>
<1>1. turn \in 1..MaxConnection
  BY Numbers, Types DEF ServerInv
<1>2. QED
  BY <1>1, Numbers DEF Advance, netVars

\* What a turn does to the slots, the sets and the peers, when it keeps the
\* invariant.
LEMMA TurnKeepsServer ==
    ASSUME ServerInv, NEW next \in {"write", "select"}, at \in {"read", "write"},
           Advance(next),
           SocketsOwned', open' \subseteq Fd, asked' \subseteq open',
           slot' \in [Slot -> SlotRecord], peer' \in [Fd -> PeerRecord],
           rfds' \subseteq Fd, wfds' \subseteq Fd, nfds' \in 0..LastFd
    PROVE  ServerInv'
<1>1. Typed'
  BY Turns, Types, TypesNext DEF ServerInv
<1>2. Backlog'
  BY Turns DEF ServerInv, Backlog
<1>3. QED
  BY <1>1, <1>2 DEF ServerInv

LEMMA ReadKeepsServer == ServerInv /\ Read => ServerInv'
<1> SUFFICES ASSUME ServerInv, Read PROVE ServerInv'
  OBVIOUS
<1> DEFINE fd == slot[turn].socket
<1>1. at = "read" /\ Advance("write")
  BY DEF Read
<1>2. turn \in Slot /\ slot[turn] \in SlotRecord
  BY Types DEF ServerInv
<1>3. CASE fd \notin rready
  <2>1. UNCHANGED <<peer, open, slot, rfds, wfds, nfds, asked>>
    BY <1>3 DEF Read, fdVars, setVars
  <2>2. SocketsOwned'
    BY <2>1, SameSockets DEF ServerInv
  <2>3. QED
    BY <1>1, <2>1, <2>2, Types, TurnKeepsServer DEF ServerInv
<1>4. CASE fd \in rready
  <2>1. fd \in Fd /\ fd \in open
    BY <1>2, <1>4, Numbers, Types DEF ServerInv, SocketsOwned
  <2>2. CASE ReadCloses(turn, fd)
    <3>1. /\ slot' = [slot EXCEPT ![turn] = Initialized]
          /\ open' = open \ {fd} /\ asked' = asked \ {fd} /\ nfds' = MaxNfds(slot')
          /\ rfds' = rfds \ {fd} /\ UNCHANGED <<wfds, peer>>
      BY <2>2 DEF ReadCloses, Freed, Closed
    <3>2. /\ SocketsOwned' /\ open' \subseteq Fd /\ asked' \subseteq open'
          /\ slot' \in [Slot -> SlotRecord] /\ nfds' \in 0..LastFd
      BY <1>2, <2>1, <3>1, Records, SlotClosed DEF ServerInv
    <3>3. QED
      BY <1>1, <3>1, <3>2, Types, TurnKeepsServer DEF ServerInv
  <2>3. CASE ReadFails(turn, fd)
    <3>1. /\ peer' = [peer EXCEPT ![fd].life = "dead"]
          /\ UNCHANGED <<open, slot, rfds, wfds, nfds, asked>>
      BY <2>3 DEF ReadFails, fdVars, setVars
    <3>2. peer' \in [Fd -> PeerRecord]
      BY <3>1, Types DEF ServerInv, PeerRecord
    <3>3. SocketsOwned'
      BY <3>1, SameSockets DEF ServerInv
    <3>4. QED
      BY <1>1, <3>1, <3>2, <3>3, Types, TurnKeepsServer DEF ServerInv
  <2>4. CASE ReadPart(turn, fd)
    <3>1. /\ peer' = [peer EXCEPT ![fd].data = "none"]
          /\ slot' = [slot EXCEPT ![turn].position = @ + 1]
          /\ slot[turn].position < BufferLength
          /\ UNCHANGED <<open, rfds, wfds, nfds, asked>>
      BY <2>4 DEF ReadPart, HasRoom, setVars
    <3>2. peer' \in [Fd -> PeerRecord]
      BY <3>1, Types DEF ServerInv, PeerRecord
    <3>3. slot' \in [Slot -> SlotRecord]
      <4>1. slot[turn].position + 1 \in 0..BufferLength
        BY <1>2, <3>1, Numbers DEF SlotRecord
      <4>2. [slot[turn] EXCEPT !.position = @ + 1] \in SlotRecord
        BY <1>2, <4>1 DEF SlotRecord
      <4>3. QED
        BY <1>2, <3>1, <4>2, Types DEF ServerInv
    <3>4. SocketsOwned'
      <4>1. \A i \in Slot : slot'[i].socket = slot[i].socket
        BY <1>2, <3>1, Types DEF ServerInv, SlotRecord
      <4>2. QED
        BY <3>1, <4>1, SameSockets DEF ServerInv
    <3>5. QED
      BY <1>1, <3>1, <3>2, <3>3, <3>4, Types, TurnKeepsServer DEF ServerInv
  <2>5. CASE ReadLast(turn, fd)
    <3>1. /\ peer' = [peer EXCEPT ![fd].data = "none"]
          /\ slot' = [slot EXCEPT ![turn].position = 0]
          /\ asked' = asked \cup {fd}
          /\ wfds' = wfds \cup {fd} /\ rfds' = rfds \ {fd}
          /\ UNCHANGED <<open, nfds>>
      BY <2>5 DEF ReadLast, NowWrite
    <3>2. peer' \in [Fd -> PeerRecord]
      BY <3>1, Types DEF ServerInv, PeerRecord
    <3>3. slot' \in [Slot -> SlotRecord]
      <4>1. [slot[turn] EXCEPT !.position = 0] \in SlotRecord
        BY <1>2, Numbers DEF SlotRecord
      <4>2. QED
        BY <1>2, <3>1, <4>1, Types DEF ServerInv
    <3>4. SocketsOwned'
      <4>1. \A i \in Slot : slot'[i].socket = slot[i].socket
        BY <1>2, <3>1, Types DEF ServerInv, SlotRecord
      <4>2. QED
        BY <3>1, <4>1, SameSockets DEF ServerInv
    <3>5. open' \subseteq Fd /\ asked' \subseteq open' /\ rfds' \subseteq Fd
          /\ wfds' \subseteq Fd /\ nfds' \in 0..LastFd
      BY <2>1, <3>1, Types DEF ServerInv
    <3>6. QED
      BY <1>1, <3>2, <3>3, <3>4, <3>5, TurnKeepsServer
  <2>6. QED
    BY <1>4, <2>2, <2>3, <2>4, <2>5 DEF Read
<1>5. QED
  BY <1>3, <1>4

\* CloseWritten() with whatever it leaves in the slot.
LEMMA CloseWrittenKeeps ==
    ASSUME ServerInv, NEW i \in Slot, slot[i].socket \in Fd,
           NEW free \in SlotRecord, free.socket = NoSocket,
           CloseWritten(i, slot[i].socket, free)
    PROVE  /\ SocketsOwned' /\ open' \subseteq Fd /\ asked' \subseteq open'
           /\ slot' \in [Slot -> SlotRecord] /\ peer' \in [Fd -> PeerRecord]
           /\ rfds' \subseteq Fd /\ wfds' \subseteq Fd /\ nfds' \in 0..LastFd
<1>1. /\ slot' = [slot EXCEPT ![i] = free]
      /\ open' = open \ {slot[i].socket} /\ asked' = asked \ {slot[i].socket}
      /\ nfds' = MaxNfds(slot')
      /\ wfds' = wfds \ {slot[i].socket} /\ UNCHANGED <<rfds, peer>>
  BY DEF CloseWritten, Closed
<1>2. /\ SocketsOwned' /\ open' \subseteq Fd /\ asked' \subseteq open'
      /\ slot' \in [Slot -> SlotRecord] /\ nfds' \in 0..LastFd
  BY <1>1, SlotClosed DEF ServerInv
<1>3. QED
  BY <1>1, <1>2, Types DEF ServerInv

LEMMA WriteReplyKeeps ==
    ASSUME ServerInv, NEW i \in Slot, slot[i].socket \in Fd,
           NEW limit \in 1..BufferLength, NEW close \in BOOLEAN, NEW room,
           WriteReply(i, slot[i].socket, limit, close, room)
    PROVE  /\ SocketsOwned' /\ open' \subseteq Fd /\ asked' \subseteq open'
           /\ slot' \in [Slot -> SlotRecord] /\ peer' \in [Fd -> PeerRecord]
           /\ rfds' \subseteq Fd /\ wfds' \subseteq Fd /\ nfds' \in 0..LastFd
<1> DEFINE fd == slot[i].socket
<1>1. slot[i] \in SlotRecord
  BY Types DEF ServerInv
<1>2. CASE CloseWritten(i, fd, Initialized)
  BY <1>2, Records, CloseWrittenKeeps
<1>3. CASE WriteFails(i, fd, limit)
  <2>1. PICK free \in {Initialized, [Initialized EXCEPT !.position = @ + 1]} :
            CloseWritten(i, fd, free)
    BY <1>3 DEF WriteFails, Freed
  <2>2. free \in SlotRecord /\ free.socket = NoSocket
    <3>1. 0 + 1 \in 0..BufferLength
      BY Numbers
    <3>2. CASE free = Initialized
      BY <3>2, Records
    <3>3. CASE free = [Initialized EXCEPT !.position = @ + 1]
      <4>1. free = [socket |-> NoSocket, position |-> 0 + 1, limit |-> BufferLength,
                    close |-> FALSE]
        BY <3>3 DEF Initialized
      <4>2. QED
        BY <3>1, <4>1, Numbers DEF SlotRecord
    <3>4. QED
      BY <2>1, <3>2, <3>3
  <2>3. QED
    BY <2>1, <2>2, CloseWrittenKeeps
<1>4. CASE WriteAll(i, fd, close) /\ ~close
  <2>1. /\ wfds' = wfds \ {fd} /\ rfds' = rfds \cup {fd}
        /\ UNCHANGED <<open, peer, slot, nfds, asked>>
    BY <1>4 DEF WriteAll
  <2>2. SocketsOwned'
    BY <2>1, SameSockets DEF ServerInv
  <2>3. QED
    BY <2>1, <2>2, Types DEF ServerInv
<1>5. CASE WritePart(i, fd, limit, close)
  <2>1. PICK n \in 1..(limit - slot[i].position - 1) :
            slot' = [slot EXCEPT ![i].position = @ + n, ![i].limit = limit, ![i].close = close]
    BY <1>5 DEF WritePart
  <2>2. /\ peer' = [peer EXCEPT ![fd].room = FALSE]
        /\ UNCHANGED <<open, rfds, wfds, nfds, asked>>
    BY <1>5 DEF WritePart, setVars
  <2>3. slot[i].position + n \in 0..BufferLength
    BY <1>1, <2>1, Numbers, SMTT(30) DEF SlotRecord
  <2>4. [slot[i] EXCEPT !.position = @ + n, !.limit = limit, !.close = close] \in SlotRecord
    BY <1>1, <2>3 DEF SlotRecord
  <2>5. slot' = [slot EXCEPT ![i] = [slot[i] EXCEPT !.position = @ + n, !.limit = limit,
                                                     !.close = close]]
    BY <2>1, Types DEF ServerInv
  <2>6. slot' \in [Slot -> SlotRecord]
    BY <2>4, <2>5, Types DEF ServerInv
  <2>7. \A j \in Slot : slot'[j].socket = slot[j].socket
    BY <1>1, <2>5, Types DEF ServerInv, SlotRecord
  <2>8. SocketsOwned'
    BY <2>2, <2>7, SameSockets DEF ServerInv
  <2>9. peer' \in [Fd -> PeerRecord]
    BY <2>2, Types DEF ServerInv, PeerRecord
  <2>10. QED
    BY <2>2, <2>6, <2>8, <2>9, Types DEF ServerInv
<1>6. QED
  BY <1>2, <1>3, <1>4, <1>5 DEF WriteReply, WriteAll, Freed

LEMMA WriteKeepsServer == ServerInv /\ Write => ServerInv'
<1> SUFFICES ASSUME ServerInv, Write PROVE ServerInv'
  OBVIOUS
<1> DEFINE fd == slot[turn].socket
<1>1. at = "write" /\ Advance("select")
  BY DEF Write
<1>2. turn \in Slot /\ slot[turn] \in SlotRecord
  BY Types DEF ServerInv
<1>3. CASE fd \notin wready
  <2>1. UNCHANGED <<peer, open, slot, rfds, wfds, nfds, asked>>
    BY <1>3 DEF Write, fdVars, setVars
  <2>2. SocketsOwned'
    BY <2>1, SameSockets DEF ServerInv
  <2>3. QED
    BY <1>1, <2>1, <2>2, Types, TurnKeepsServer DEF ServerInv
<1>4. CASE fd \in wready
  <2>1. fd \in Fd
    BY <1>4, Types DEF ServerInv
  <2>2. CASE WriterRefuses(turn, fd)
    <3>1. CloseWritten(turn, fd, Initialized)
      BY <2>2 DEF WriterRefuses, Freed
    <3>2. QED
      BY <1>1, <1>2, <2>1, <3>1, Records, CloseWrittenKeeps, TurnKeepsServer
  <2>3. CASE WriterReplies(turn, fd)
    <3>1. PICK limit \in 1..BufferLength,
               room \in {peer[fd].room, FALSE} :
               WriteReply(turn, fd, limit, TRUE, room)
      BY <2>3 DEF WriterReplies
    <3>2. QED
      BY <1>1, <1>2, <2>1, <3>1, WriteReplyKeeps, TurnKeepsServer
  <2>4. CASE WriteGoesOn(turn, fd)
    <3>1. WriteReply(turn, fd, slot[turn].limit, slot[turn].close, peer[fd].room)
      BY <2>4 DEF WriteGoesOn
    <3>2. slot[turn].limit \in 1..BufferLength /\ slot[turn].close \in BOOLEAN
      BY <1>2 DEF SlotRecord
    <3>3. QED
      BY <1>1, <1>2, <2>1, <3>1, <3>2, WriteReplyKeeps, TurnKeepsServer
  <2>5. QED
    BY <1>4, <2>2, <2>3, <2>4 DEF Write
<1>5. QED
  BY <1>3, <1>4

LEMMA KilledKeepsServer == ServerInv /\ Killed => ServerInv'
<1> SUFFICES ASSUME ServerInv, Killed PROVE ServerInv'
  OBVIOUS
<1>1. /\ at' = "killed"
      /\ UNCHANGED <<waiting, clients, peer, open, slot, rfds, wfds, nfds, asked,
                    rready, wready, newcomer, turn>>
  BY DEF Killed, netVars, fdVars, setVars
<1>2. Typed'
  BY <1>1, Types, TypesNext DEF ServerInv
<1>3. SocketsOwned'
  BY <1>1, SameSockets DEF ServerInv
<1>4. QED
  BY <1>1, <1>2, <1>3 DEF ServerInv, Backlog

LEMMA NextKeepsServer == ServerInv /\ [Next]_vars => ServerInv'
<1> SUFFICES ASSUME ServerInv, [Next]_vars PROVE ServerInv'
  OBVIOUS
<1>1. CASE Next
  BY <1>1, ClientsKeepServer, SelectKeepsServer, TimeoutKeepsServer, AcceptKeepsServer,
     ReadKeepsServer, WriteKeepsServer, KilledKeepsServer DEF Next, ServerStep
<1>2. CASE UNCHANGED vars
  <2>1. UNCHANGED <<waiting, clients, peer, open, slot, rfds, wfds, nfds, asked,
                    rready, wready, newcomer, at, turn>>
    BY <1>2 DEF vars, netVars, fdVars, setVars, loopVars
  <2>2. Typed' /\ SocketsOwned'
    BY <2>1, Types, TypesNext, SameSockets DEF ServerInv
  <2>3. QED
    BY <2>1, <2>2 DEF ServerInv, Backlog
<1>3. QED
  BY <1>1, <1>2

\* Once a client has reset or was too slow, it has.
LEMMA CalmFalls == [Next]_vars => calm' = calm \/ calm' = FALSE
<1> SUFFICES ASSUME [Next]_vars PROVE calm' = calm \/ calm' = FALSE
  OBVIOUS
<1>1. CASE ClientStep
  BY <1>1 DEF ClientStep, Connect, ClientSends, ClientCloses, ClientResets, ClientDrains
<1>2. CASE Write
  BY <1>2 DEF Write, WriterReplies, WriterRefuses, WriteGoesOn, WriteReply, WriteAll,
              WritePart, WriteFails
<1>3. CASE SelectReady \/ SelectTimeout \/ SelectFails \/ Accept \/ Read \/ Killed
  BY <1>3 DEF SelectReady, SelectTimeout, SelectFails, Accept, Read, Killed
<1>4. CASE UNCHANGED vars
  BY <1>4 DEF vars
<1>5. QED
  BY <1>1, <1>2, <1>3, <1>4 DEF Next, ServerStep

LEMMA AlwaysServer == Spec => []ServerInv
BY InitServer, NextKeepsServer, PTL DEF Spec

\* Every variable keeps its type: no position leaves its buffer, whatever its
\* client sends or takes (tcp_server.c:204, 224, 292).
THEOREM ServerTypeCorrect == Spec => []TypeOK
<1>1. ServerInv /\ calm \in BOOLEAN => TypeOK
  BY Numbers DEF ServerInv, Typed, TypeOK, SlotRecord, PeerRecord
<1>2. Init => calm \in BOOLEAN
  BY DEF Init
<1>3. calm \in BOOLEAN /\ [Next]_vars => (calm \in BOOLEAN)'
  BY CalmFalls
<1>4. QED
  BY <1>1, <1>2, <1>3, AlwaysServer, PTL DEF Spec

\* No socket is leaked and none is shared by two slots, for any number of slots
\* and clients and whatever they do, resets and full send buffers included.
THEOREM SocketsAreOwned == Spec => []SocketsOwned
<1>1. ServerInv => SocketsOwned
  BY DEF ServerInv
<1>2. QED
  BY <1>1, AlwaysServer, PTL
-----------------------------------------------------------------------------
(* CalmInv: while clients read their replies and close in order.           *)

LEMMA InitCalm == Init => CalmInv
<1> SUFFICES ASSUME Init PROVE CalmInv
  OBVIOUS
<1>1. ServerInv
  BY InitServer
<1>2. PeersAreCalm
  BY DEF Init, PeersAreCalm, NewPeer
<1>3. SetsAgree
  BY DEF Init, SetsAgree
<1>4. SlotsAreReady
  BY DEF Init, SlotsAreReady
<1>5. ResultsHold
  BY DEF Init, ResultsHold
<1>6. QED
  BY <1>1, <1>2, <1>3, <1>4, <1>5 DEF CalmInv

LEMMA SameBooks ==
    ASSUME CalmInv, UNCHANGED <<open, slot, rfds, wfds, nfds, asked>>
    PROVE  SetsAgree' /\ SlotsAreReady'
BY DEF CalmInv, SetsAgree, SlotsAreReady

LEMMA SameResults ==
    ASSUME CalmInv, UNCHANGED <<slot, rfds, wfds, rready, wready, at, turn>>
    PROVE  ResultsHold'
BY DEF CalmInv, ResultsHold

LEMMA NoBadDescriptor == CalmInv => ~BadDescriptor
<1> SUFFICES ASSUME CalmInv, NEW fd \in Polled(rfds \cup wfds), fd \notin open PROVE FALSE
  BY DEF BadDescriptor
<1>1. fd <= nfds /\ (fd \in rfds \/ fd \in wfds)
  BY DEF Polled
<1>2. fd \notin wfds
  BY Types DEF CalmInv, ServerInv, SetsAgree
<1>3. nfds < fd
  BY <1>1, <1>2 DEF CalmInv, SetsAgree
<1>4. fd \in Int /\ nfds \in Int
  BY <1>1, Numbers, Types DEF CalmInv, ServerInv
<1>5. QED
  BY <1>1, <1>3, <1>4

LEMMA ClientsKeepCalm == CalmInv /\ ClientStep /\ calm' => CalmInv'
<1> SUFFICES ASSUME CalmInv, ClientStep, calm' PROVE CalmInv'
  OBVIOUS
<1>1. ServerInv'
  BY ClientsKeepServer DEF CalmInv
<1>2. UNCHANGED <<open, slot, rfds, wfds, nfds, asked, rready, wready, at, turn>>
  BY DEF ClientStep, Connect, ClientSends, ClientCloses, ClientResets, ClientDrains,
         PeerDoes, fdVars, setVars, loopVars
<1>3. PeersAreCalm'
  <2>1. CASE Connect
    BY <2>1 DEF Connect, CalmInv, PeersAreCalm
  <2>2. ASSUME NEW fd \in Fd,
               \/ \E unit \in {"part", "last"} : ClientSends(fd, unit)
               \/ ClientCloses(fd) \/ ClientResets(fd) \/ ClientDrains(fd)
        PROVE  PeersAreCalm'
    <3>1. peer \in [Fd -> PeerRecord]
      BY Types DEF CalmInv, ServerInv
    <3>2. peer[fd] \in PeerRecord /\ peer[fd].life \in {"up", "fin"} /\ peer[fd].room
      BY <3>1 DEF CalmInv, PeersAreCalm
    <3>3. PICK p \in PeerRecord :
              /\ peer' = [peer EXCEPT ![fd] = p]
              /\ p.life \in {"up", "fin"} /\ p.room
      <4>1. ASSUME NEW unit \in {"part", "last"}, ClientSends(fd, unit)
            PROVE  \E p \in PeerRecord : /\ peer' = [peer EXCEPT ![fd] = p]
                                         /\ p.life \in {"up", "fin"} /\ p.room
        <5> DEFINE p == [peer[fd] EXCEPT !.data = unit]
        <5>1. p \in PeerRecord /\ p.life = peer[fd].life /\ p.room = peer[fd].room
          BY <3>2 DEF PeerRecord
        <5>2. peer' = [peer EXCEPT ![fd] = p]
          BY <4>1 DEF ClientSends, PeerDoes
        <5> HIDE DEF p
        <5>3. QED
          BY <3>2, <5>1, <5>2
      <4>2. CASE ClientCloses(fd)
        <5> DEFINE p == [peer[fd] EXCEPT !.life = "fin"]
        <5>1. p \in PeerRecord /\ p.life = "fin" /\ p.room = peer[fd].room
          BY <3>2 DEF PeerRecord
        <5>2. peer' = [peer EXCEPT ![fd] = p]
          BY <4>2 DEF ClientCloses, PeerDoes
        <5> HIDE DEF p
        <5>3. QED
          BY <3>2, <5>1, <5>2
      <4>3. CASE ClientDrains(fd)
        BY <3>2, <4>3 DEF ClientDrains
      <4>4. ~ClientResets(fd)
        BY DEF ClientResets
      <4>5. QED
        BY <2>2, <4>1, <4>2, <4>3, <4>4
    <3>4. QED
      BY <3>1, <3>3 DEF CalmInv, PeersAreCalm
  <2>3. QED
    BY <2>1, <2>2 DEF ClientStep
<1>4. QED
  BY <1>1, <1>2, <1>3, SameBooks, SameResults DEF CalmInv

LEMMA SelectKeepsCalm == CalmInv /\ (SelectReady \/ SelectFails) => CalmInv'
<1> SUFFICES ASSUME CalmInv, SelectReady \/ SelectFails PROVE CalmInv'
  OBVIOUS
<1>1. SelectReady
  BY NoBadDescriptor DEF SelectFails
<1>2. ServerInv'
  BY SelectKeepsServer DEF CalmInv
<1>3. /\ at = "select" /\ at' = "accept"
      /\ rready' = ReadyToRead /\ wready' = ReadyToWrite
      /\ UNCHANGED <<peer, open, slot, rfds, wfds, nfds, asked, turn>>
  BY <1>1 DEF SelectReady, fdVars, setVars
<1>4. PeersAreCalm'
  BY <1>3 DEF CalmInv, PeersAreCalm
<1>5. ResultsHold'
  BY <1>3 DEF CalmInv, ResultsHold, ReadyToRead, ReadyToWrite, Polled
<1>6. QED
  BY <1>2, <1>3, <1>4, <1>5, SameBooks DEF CalmInv

LEMMA TimeoutKeepsCalm == CalmInv /\ SelectTimeout => CalmInv'
<1> SUFFICES ASSUME CalmInv, SelectTimeout PROVE CalmInv'
  OBVIOUS
<1>1. ServerInv'
  BY TimeoutKeepsServer DEF CalmInv
<1>2. /\ at = "select" /\ NothingReady
      /\ UNCHANGED <<peer, rfds, wfds, rready, wready, at, turn>>
      /\ open' = {} /\ asked' = {} /\ nfds' = MaxNfds(slot')
      /\ slot' = [i \in Slot |-> IF slot[i].socket = NoSocket THEN slot[i] ELSE Freed(i)]
  BY DEF SelectTimeout, loopVars
<1>3. \A i \in Slot : slot'[i] = Initialized
  BY <1>2 DEF CalmInv, SlotsAreReady, Freed
<1>4. wfds = {}
  <2> SUFFICES ASSUME NEW fd \in wfds PROVE FALSE
    OBVIOUS
  <2>1. fd \in Fd /\ fd \in open /\ fd <= nfds
    BY Types DEF CalmInv, ServerInv, SetsAgree
  <2>2. Writable(fd)
    BY <2>1 DEF CalmInv, PeersAreCalm, Writable
  <2>3. fd \in ReadyToWrite
    BY <2>1, <2>2 DEF ReadyToWrite, Polled
  <2>4. QED
    BY <1>2, <2>3 DEF NothingReady
<1>5. nfds' = 0
  <2>1. \A i \in Slot : slot'[i].socket = NoSocket
    BY <1>3, Records
  <2>2. nfds' \in 0..LastFd /\ nfds' \in {0} \cup {slot'[i].socket : i \in Slot}
    BY <1>2, <2>1, LargestSocket
  <2>3. QED
    BY <2>1, <2>2, Numbers
<1>6. SetsAgree'
  <2>1. \A fd \in rfds' : 0 < fd
    BY <1>2, Numbers, Types DEF CalmInv, ServerInv
  <2>2. QED
    BY <1>2, <1>4, <1>5, <2>1 DEF SetsAgree
<1>7. SlotsAreReady'
  BY <1>2, <1>3, <1>4 DEF SlotsAreReady
<1>8. PeersAreCalm'
  BY <1>2 DEF CalmInv, PeersAreCalm
<1>9. ResultsHold'
  BY <1>2 DEF CalmInv, ResultsHold
<1>10. QED
  BY <1>1, <1>6, <1>7, <1>8, <1>9 DEF CalmInv

LEMMA GreatestOfTwo ==
    ASSUME NEW m \in Int, NEW n \in Int
    PROVE  LET M == Max({m, n}) IN M \in {m, n} /\ m <= M /\ n <= M
<1>1. CASE m >= n
  <2>1. \A y \in {m, n} : m >= y
    BY <1>1
  <2>2. Max({m, n}) \in {m, n} /\ \A y \in {m, n} : Max({m, n}) >= y
    BY <2>1 DEF Max
  <2>3. QED
    BY <2>2
<1>2. CASE ~(m >= n)
  <2>1. \A y \in {m, n} : n >= y
    BY <1>2
  <2>2. Max({m, n}) \in {m, n} /\ \A y \in {m, n} : Max({m, n}) >= y
    BY <2>1 DEF Max
  <2>3. QED
    BY <2>2
<1>3. QED
  BY <1>1, <1>2

LEMMA AcceptKeepsCalm == CalmInv /\ Accept => CalmInv'
<1> SUFFICES ASSUME CalmInv, Accept PROVE CalmInv'
  OBVIOUS
<1>1. ServerInv'
  BY AcceptKeepsServer DEF CalmInv
<1>2. /\ at = "accept" /\ at' = "read" /\ turn' = 1
      /\ UNCHANGED <<wfds, rready, wready, asked>>
  BY DEF Accept, AcceptClient, AcceptRefuses, AcceptNone, fdVars, setVars
<1>3. CASE AcceptRefuses \/ AcceptNone
  <2>0. UNCHANGED <<peer, open, slot, rfds, nfds>>
    BY <1>3, RefusedIsClosed
    DEF CalmInv, ServerInv, AcceptRefuses, AcceptNone, fdVars, setVars
  <2>1. PeersAreCalm'
    BY <2>0 DEF CalmInv, PeersAreCalm
  <2>2. ResultsHold'
    BY <1>2, <2>0, Types DEF CalmInv, ResultsHold, ServerInv
  <2>3. QED
    BY <1>1, <1>2, <2>0, <2>1, <2>2, SameBooks DEF CalmInv
<1>4. CASE AcceptClient
  <2> DEFINE fd == Min(Fd \ open)
             i == Min(FreeSlots)
  <2>1. /\ slot' = [slot EXCEPT ![i].socket = fd]
        /\ open' = open \cup {fd}
        /\ peer' = [peer EXCEPT ![fd] = NewPeer]
        /\ rfds' = rfds \cup {fd}
        /\ nfds' = Max({nfds, fd})
    BY <1>4 DEF AcceptClient
  <2>2. i \in Slot /\ slot[i].socket = NoSocket
    <3>1. i \in FreeSlots
      BY <1>4, FreeDescriptor DEF CalmInv, ServerInv, AcceptClient
    <3>2. QED
      BY <3>1 DEF FreeSlots
  <2>3. fd \in Fd /\ fd \notin open
    BY <1>4, FreeDescriptor DEF CalmInv, ServerInv, AcceptClient
  <2> HIDE DEF fd, i
  <2>4. fd \in Int /\ nfds \in Int
    BY <2>3, Numbers, Types DEF CalmInv, ServerInv
  <2>5. nfds' \in {nfds, fd} /\ nfds <= nfds' /\ fd <= nfds'
    BY <2>1, <2>4, GreatestOfTwo
  <2>6. wfds = asked /\ asked \subseteq open /\ fd \notin wfds
    BY <2>3, Types DEF CalmInv, ServerInv, SetsAgree
  <2>7. peer \in [Fd -> PeerRecord] /\ slot \in [Slot -> SlotRecord]
    BY Types DEF CalmInv, ServerInv
  <2>8. PeersAreCalm'
    BY <2>1, <2>3, <2>7 DEF CalmInv, PeersAreCalm, NewPeer
  <2>9. SetsAgree'
    <3>1. ASSUME NEW g \in open'
          PROVE  g <= nfds' /\ (g \in rfds') # (g \in wfds')
      <4>1. CASE g = fd
        BY <1>2, <2>1, <2>5, <2>6, <4>1
      <4>2. CASE g # fd
        <5>1. g \in open /\ g \in Int
          BY <2>1, <4>2, Numbers, Types DEF CalmInv, ServerInv
        <5>2. g <= nfds /\ (g \in rfds) # (g \in wfds)
          BY <5>1 DEF CalmInv, SetsAgree
        <5>3. g <= nfds'
          BY <2>4, <2>5, <5>1, <5>2
        <5>4. QED
          BY <1>2, <2>1, <4>2, <5>2, <5>3
      <4>3. QED
        BY <4>1, <4>2
    <3>2. ASSUME NEW g \in rfds' \ open' PROVE nfds' < g
      <4>1. g \in rfds \ open /\ g # fd
        BY <2>1, <3>2
      <4>2. g \in Fd /\ nfds < g
        BY <4>1, Types DEF CalmInv, ServerInv, SetsAgree
      <4>3. fd < g
        <5>1. g \in Fd \ open
          BY <4>1, <4>2
        <5>2. fd <= g
          BY <1>4, <5>1, FreeDescriptor DEF CalmInv, ServerInv, AcceptClient, fd
        <5>3. QED
          BY <2>4, <4>1, <4>2, <5>2, Numbers
      <4>4. QED
        BY <2>5, <4>2, <4>3
    <3>3. QED
      BY <1>2, <2>6, <3>1, <3>2 DEF SetsAgree
  <2>10. SlotsAreReady'
    <3> SUFFICES ASSUME NEW j \in Slot
                 PROVE  /\ slot'[j].socket = NoSocket => slot'[j] = Initialized
                        /\ slot'[j].socket \in wfds' => slot'[j].position = 0
      BY DEF SlotsAreReady
    <3>1. CASE j = i
      <4>1. slot'[i] = [slot[i] EXCEPT !.socket = fd] /\ slot[i] \in SlotRecord
        BY <2>1, <2>2, <2>7
      <4>2. slot'[i].socket = fd
        BY <4>1 DEF SlotRecord
      <4>3. QED
        BY <1>2, <2>3, <2>6, <3>1, <4>2, Numbers
    <3>2. CASE j # i
      BY <1>2, <2>1, <2>7, <3>2 DEF CalmInv, SlotsAreReady
    <3>3. QED
      BY <3>1, <3>2
  <2>11. ResultsHold'
    BY <1>2, <2>1 DEF CalmInv, ResultsHold
  <2>12. QED
    BY <1>1, <2>8, <2>9, <2>10, <2>11 DEF CalmInv
<1>5. QED
  BY <1>3, <1>4 DEF Accept

\* A client is closed and its slot initialized: set_max_nfds() keeps every
\* other client polled, and what was beyond nfds beyond it.
LEMMA CloseSets ==
    ASSUME CalmInv, NEW i \in Slot, slot[i].socket \in Fd,
           slot' = [slot EXCEPT ![i] = Initialized],
           open' = open \ {slot[i].socket}, asked' = asked \ {slot[i].socket},
           rfds' = rfds \ {slot[i].socket}, wfds' = wfds \ {slot[i].socket},
           nfds' = MaxNfds(slot')
    PROVE  SetsAgree' /\ SlotsAreReady'
<1> DEFINE fd == slot[i].socket
<1>1. slot \in [Slot -> SlotRecord]
  BY Types DEF CalmInv, ServerInv
<1>2. /\ slot'[i] = Initialized
      /\ \A j \in Slot : j # i => slot'[j] = slot[j]
  BY <1>1
<1>3. \A j \in Slot : slot'[j].socket \in Fd \cup {NoSocket}
  BY <1>1, <1>2, Records DEF SlotRecord
<1>4. /\ nfds' \in 0..LastFd
      /\ nfds' \in {0} \cup {slot'[j].socket : j \in Slot}
      /\ \A j \in Slot : slot'[j].socket <= nfds'
  BY <1>3, LargestSocket
<1>5. nfds \in 0..LastFd
  BY Types DEF CalmInv, ServerInv
<1>6. nfds' <= nfds
  <2>1. CASE nfds' = 0
    BY <1>5, <2>1
  <2>2. CASE nfds' # 0
    <3>1. PICK j \in Slot : nfds' = slot'[j].socket
      BY <1>4, <2>2
    <3>2. j # i /\ nfds' = slot[j].socket /\ nfds' # NoSocket
      BY <1>2, <1>4, <3>1, Records, Numbers
    <3>3. nfds' \in open
      BY <3>2 DEF CalmInv, ServerInv, SocketsOwned
    <3>4. QED
      BY <3>3 DEF CalmInv, SetsAgree
  <2>3. QED
    BY <2>1, <2>2
<1>7. \A g \in open' : g <= nfds'
  <2> SUFFICES ASSUME NEW g \in open' PROVE g <= nfds'
    OBVIOUS
  <2>1. PICK j \in Slot : g = slot[j].socket
    BY DEF CalmInv, ServerInv, SocketsOwned
  <2>2. j # i
    BY <2>1
  <2>3. QED
    BY <1>2, <1>4, <2>1, <2>2
<1>8. \A g \in rfds' \ open' : nfds' < g
  <2> SUFFICES ASSUME NEW g \in rfds' \ open' PROVE nfds' < g
    OBVIOUS
  <2>1. g \in rfds \ open
    OBVIOUS
  <2>2. nfds < g /\ g \in Int
    BY <2>1, Numbers, Types DEF CalmInv, ServerInv, SetsAgree
  <2>3. QED
    BY <1>4, <1>5, <1>6, <2>2
<1>9. SetsAgree'
  <2>1. wfds' = asked'
    BY DEF CalmInv, SetsAgree
  <2>2. \A g \in open' : (g \in rfds') # (g \in wfds')
    BY DEF CalmInv, SetsAgree
  <2>3. QED
    BY <1>7, <1>8, <2>1, <2>2 DEF SetsAgree
<1>10. SlotsAreReady'
  <2> SUFFICES ASSUME NEW j \in Slot
               PROVE  /\ slot'[j].socket = NoSocket => slot'[j] = Initialized
                      /\ slot'[j].socket \in wfds' => slot'[j].position = 0
    BY DEF SlotsAreReady
  <2>1. CASE j = i
    BY <1>2, <2>1 DEF Initialized
  <2>2. CASE j # i
    BY <1>2, <2>2 DEF CalmInv, SlotsAreReady
  <2>3. QED
    BY <2>1, <2>2
<1>11. QED
  BY <1>9, <1>10

\* The slots yet to come are not touched, nor is what was found about them.
LEMMA OtherSlots ==
    ASSUME ServerInv, NEW i \in Slot, NEW j \in Slot, i # j, slot[j].socket \in Fd
    PROVE  slot[j].socket # slot[i].socket
BY Numbers DEF ServerInv, SocketsOwned

LEMMA ReadTurnHolds ==
    ASSUME CalmInv, at = "read", Advance("write"),
           \A j \in Slot : j # turn => slot'[j] = slot[j],
           rfds \ {slot[turn].socket} \subseteq rfds', wfds \subseteq wfds'
    PROVE  ResultsHold'
<1>1. turn \in 1..MaxConnection /\ rready \subseteq Fd
  BY Numbers, Types DEF CalmInv, ServerInv
<1>2. /\ turn < MaxConnection => at' = at /\ turn' = turn + 1
      /\ turn = MaxConnection => at' = "write" /\ turn' = 1
      /\ rready' = rready /\ wready' = wready
  BY Turns DEF CalmInv
<1>3. wready' \subseteq wfds'
  BY <1>2 DEF CalmInv, ResultsHold
<1>4. CASE turn = MaxConnection
  BY <1>2, <1>3, <1>4 DEF ResultsHold
<1>5. CASE turn # MaxConnection
  <2>1. turn < MaxConnection
    BY <1>1, <1>5, Numbers
  <2>2. ASSUME NEW j \in Slot, turn' <= j, slot'[j].socket \in rready'
        PROVE  slot'[j].socket \in rfds'
    <3>1. turn <= j /\ j # turn
      BY <1>1, <1>2, <2>1, <2>2, Numbers
    <3>2. slot'[j] = slot[j] /\ slot[j].socket \in rready
      BY <1>2, <2>2, <3>1
    <3>3. slot[j].socket \in rfds
      BY <3>1, <3>2 DEF CalmInv, ResultsHold
    <3>4. slot[j].socket # slot[turn].socket
      BY <1>1, <3>1, <3>2, OtherSlots, Numbers DEF CalmInv
    <3>5. QED
      BY <3>2, <3>3, <3>4
  <2>3. QED
    BY <1>2, <1>3, <2>1, <2>2 DEF ResultsHold
<1>6. QED
  BY <1>4, <1>5

LEMMA WriteTurnHolds ==
    ASSUME CalmInv, at = "write", Advance("select"),
           \A j \in Slot : j # turn => slot'[j] = slot[j],
           wfds \ {slot[turn].socket} \subseteq wfds'
    PROVE  ResultsHold'
<1>1. turn \in 1..MaxConnection /\ wready \subseteq Fd
  BY Numbers, Types DEF CalmInv, ServerInv
<1>2. /\ turn < MaxConnection => at' = at /\ turn' = turn + 1
      /\ turn = MaxConnection => at' = "select" /\ turn' = 1
      /\ wready' = wready
  BY Turns DEF CalmInv
<1>3. CASE turn = MaxConnection
  BY <1>2, <1>3 DEF ResultsHold
<1>4. CASE turn # MaxConnection
  <2>1. turn < MaxConnection
    BY <1>1, <1>4, Numbers
  <2>2. ASSUME NEW j \in Slot, turn' <= j, slot'[j].socket \in wready'
        PROVE  slot'[j].socket \in wfds'
    <3>1. turn <= j /\ j # turn
      BY <1>1, <1>2, <2>1, <2>2, Numbers
    <3>2. slot'[j] = slot[j] /\ slot[j].socket \in wready
      BY <1>2, <2>2, <3>1
    <3>3. slot[j].socket \in wfds
      BY <3>1, <3>2 DEF CalmInv, ResultsHold
    <3>4. slot[j].socket # slot[turn].socket
      BY <1>1, <3>1, <3>2, OtherSlots, Numbers DEF CalmInv
    <3>5. QED
      BY <3>2, <3>3, <3>4
  <2>3. QED
    BY <1>2, <2>1, <2>2 DEF ResultsHold
<1>5. QED
  BY <1>3, <1>4

LEMMA ReadKeepsCalm == CalmInv /\ Read => CalmInv'
<1> SUFFICES ASSUME CalmInv, Read PROVE CalmInv'
  OBVIOUS
<1> DEFINE fd == slot[turn].socket
<1>1. at = "read" /\ Advance("write")
  BY DEF Read
<1>2. /\ turn \in Slot /\ slot \in [Slot -> SlotRecord] /\ slot[turn] \in SlotRecord
      /\ peer \in [Fd -> PeerRecord]
  BY Types DEF CalmInv, ServerInv
<1>3. ServerInv'
  BY ReadKeepsServer DEF CalmInv
<1>4. SUFFICES PeersAreCalm' /\ SetsAgree' /\ SlotsAreReady' /\ ResultsHold'
  BY <1>3 DEF CalmInv
<1>5. CASE fd \notin rready
  <2>1. UNCHANGED <<peer, open, slot, rfds, wfds, nfds, asked>>
    BY <1>5 DEF Read, fdVars, setVars
  <2>2. PeersAreCalm'
    BY <2>1 DEF CalmInv, PeersAreCalm
  <2>3. ResultsHold'
    BY <1>1, <2>1, ReadTurnHolds
  <2>4. QED
    BY <2>1, <2>2, <2>3, SameBooks
<1>6. CASE fd \in rready
  <2>1. fd \in Fd /\ fd \in open /\ fd \in rfds /\ fd \notin wfds
    <3>1. fd \in Fd /\ fd \in open
      BY <1>2, <1>6, Numbers, Types DEF CalmInv, ServerInv, SocketsOwned
    <3>2. turn <= turn
      BY <1>2, Numbers
    <3>3. fd \in rfds
      BY <1>1, <1>2, <1>6, <3>2 DEF CalmInv, ResultsHold
    <3>4. QED
      BY <3>1, <3>3 DEF CalmInv, SetsAgree
  <2>2. peer[fd] \in PeerRecord /\ peer[fd].life \in {"up", "fin"} /\ peer[fd].room
    BY <1>2, <2>1 DEF CalmInv, PeersAreCalm
  <2>3. ASSUME peer' = [peer EXCEPT ![fd].data = "none"] PROVE PeersAreCalm'
    <3> DEFINE p == [peer[fd] EXCEPT !.data = "none"]
    <3>1. p.life \in {"up", "fin"} /\ p.room
      BY <2>2 DEF PeerRecord
    <3>2. peer' = [peer EXCEPT ![fd] = p]
      BY <2>3
    <3> HIDE DEF p
    <3>3. QED
      BY <1>2, <3>1, <3>2 DEF CalmInv, PeersAreCalm
  <2>4. CASE ReadCloses(turn, fd)
    <3>1. /\ slot' = [slot EXCEPT ![turn] = Initialized]
          /\ open' = open \ {fd} /\ asked' = asked \ {fd} /\ nfds' = MaxNfds(slot')
          /\ rfds' = rfds \ {fd} /\ UNCHANGED <<wfds, peer>>
      BY <2>4 DEF ReadCloses, Freed, Closed
    <3>2. wfds' = wfds \ {fd}
      BY <2>1, <3>1
    <3>3. SetsAgree' /\ SlotsAreReady'
      BY <1>2, <2>1, <3>1, <3>2, CloseSets
    <3>4. PeersAreCalm'
      BY <3>1 DEF CalmInv, PeersAreCalm
    <3>5. ResultsHold'
      BY <1>1, <1>2, <3>1, ReadTurnHolds
    <3>6. QED
      BY <3>3, <3>4, <3>5
  <2>5. ~ReadFails(turn, fd)
    BY <2>2 DEF ReadFails
  <2>6. CASE ReadPart(turn, fd)
    <3>1. /\ peer' = [peer EXCEPT ![fd].data = "none"]
          /\ slot' = [slot EXCEPT ![turn].position = @ + 1]
          /\ UNCHANGED <<open, rfds, wfds, nfds, asked>>
      BY <2>6 DEF ReadPart, setVars
    <3>2. /\ slot'[turn].socket = fd
          /\ \A j \in Slot : j # turn => slot'[j] = slot[j]
      BY <1>2, <3>1 DEF SlotRecord
    <3>3. SetsAgree'
      BY <3>1 DEF CalmInv, SetsAgree
    <3>4. SlotsAreReady'
      <4> SUFFICES ASSUME NEW j \in Slot
                   PROVE  /\ slot'[j].socket = NoSocket => slot'[j] = Initialized
                          /\ slot'[j].socket \in wfds' => slot'[j].position = 0
        BY DEF SlotsAreReady
      <4>1. CASE j = turn
        BY <2>1, <3>1, <3>2, <4>1, Numbers
      <4>2. CASE j # turn
        BY <3>1, <3>2, <4>2 DEF CalmInv, SlotsAreReady
      <4>3. QED
        BY <4>1, <4>2
    <3>5. ResultsHold'
      BY <1>1, <3>1, <3>2, ReadTurnHolds
    <3>6. QED
      BY <2>3, <3>1, <3>3, <3>4, <3>5
  <2>7. CASE ReadLast(turn, fd)
    <3>1. /\ peer' = [peer EXCEPT ![fd].data = "none"]
          /\ slot' = [slot EXCEPT ![turn].position = 0]
          /\ asked' = asked \cup {fd}
          /\ wfds' = wfds \cup {fd} /\ rfds' = rfds \ {fd}
          /\ UNCHANGED <<open, nfds>>
      BY <2>7 DEF ReadLast, NowWrite
    <3>2. /\ slot'[turn].socket = fd /\ slot'[turn].position = 0
          /\ \A j \in Slot : j # turn => slot'[j] = slot[j]
      BY <1>2, <3>1 DEF SlotRecord
    <3>3. SetsAgree'
      BY <2>1, <3>1 DEF CalmInv, SetsAgree
    <3>4. SlotsAreReady'
      <4> SUFFICES ASSUME NEW j \in Slot
                   PROVE  /\ slot'[j].socket = NoSocket => slot'[j] = Initialized
                          /\ slot'[j].socket \in wfds' => slot'[j].position = 0
        BY DEF SlotsAreReady
      <4>1. CASE j = turn
        BY <2>1, <3>2, <4>1, Numbers
      <4>2. CASE j # turn
        <5>1. slot[j].socket # fd \/ slot[j].socket \notin Fd
          BY <1>2, <4>2, OtherSlots DEF CalmInv
        <5>2. slot[j].socket # fd
          BY <2>1, <5>1
        <5>3. QED
          BY <3>1, <3>2, <4>2, <5>2 DEF CalmInv, SlotsAreReady
      <4>3. QED
        BY <4>1, <4>2
    <3>5. ResultsHold'
      BY <1>1, <3>1, <3>2, ReadTurnHolds
    <3>6. QED
      BY <2>3, <3>1, <3>3, <3>4, <3>5
  <2>8. QED
    BY <1>6, <2>4, <2>5, <2>6, <2>7 DEF Read
<1>7. QED
  BY <1>5, <1>6

LEMMA WriteKeepsCalm == CalmInv /\ Write /\ calm' => CalmInv'
<1> SUFFICES ASSUME CalmInv, Write, calm' PROVE CalmInv'
  OBVIOUS
<1> DEFINE fd == slot[turn].socket
<1>1. at = "write" /\ Advance("select")
  BY DEF Write
<1>2. /\ turn \in Slot /\ slot \in [Slot -> SlotRecord] /\ slot[turn] \in SlotRecord
      /\ peer \in [Fd -> PeerRecord]
  BY Types DEF CalmInv, ServerInv
<1>3. ServerInv'
  BY WriteKeepsServer DEF CalmInv
<1>4. SUFFICES PeersAreCalm' /\ SetsAgree' /\ SlotsAreReady' /\ ResultsHold'
  BY <1>3 DEF CalmInv
<1>5. CASE fd \notin wready
  <2>1. UNCHANGED <<peer, open, slot, rfds, wfds, nfds, asked>>
    BY <1>5 DEF Write, fdVars, setVars
  <2>2. PeersAreCalm'
    BY <2>1 DEF CalmInv, PeersAreCalm
  <2>3. ResultsHold'
    BY <1>1, <2>1, WriteTurnHolds
  <2>4. QED
    BY <2>1, <2>2, <2>3, SameBooks
<1>6. CASE fd \in wready
  <2>1. fd \in Fd /\ fd \in open /\ fd \in wfds /\ fd \notin rfds
    <3>1. fd \in Fd /\ fd \in open
      BY <1>2, <1>6, Numbers, Types DEF CalmInv, ServerInv, SocketsOwned
    <3>2. turn <= turn
      BY <1>2, Numbers
    <3>3. fd \in wfds
      BY <1>1, <1>2, <1>6, <3>2 DEF CalmInv, ResultsHold
    <3>4. QED
      BY <3>1, <3>3 DEF CalmInv, SetsAgree
  <2>2. peer[fd].life \in {"up", "fin"} /\ peer[fd].room = TRUE
    <3>1. peer[fd].room \in BOOLEAN
      BY <1>2, <2>1 DEF PeerRecord
    <3>2. QED
      BY <2>1, <3>1 DEF CalmInv, PeersAreCalm
  <2>3. slot[turn].position = 0
    BY <1>2, <2>1 DEF CalmInv, SlotsAreReady
  <2>4. CloseWritten(turn, fd, Initialized)
    <3>1. CASE WriterRefuses(turn, fd)
      BY <3>1 DEF WriterRefuses, Freed
    <3>2. CASE WriterReplies(turn, fd)
      <4>1. PICK limit \in 1..BufferLength,
                 room \in {peer[fd].room, FALSE} :
                 WriteReply(turn, fd, limit, TRUE, room)
        BY <3>2 DEF WriterReplies
      <4>2. ~WriteFails(turn, fd, limit)
        BY DEF WriteFails
      <4>3. CASE limit <= slot[turn].position
        BY <4>1, <4>3 DEF WriteReply, Freed
      <4>4. CASE ~(limit <= slot[turn].position)
        <5>1. WriteAll(turn, fd, TRUE) \/ WritePart(turn, fd, limit, TRUE)
          BY <4>1, <4>2, <4>4 DEF WriteReply
        <5>2. WriteAll(turn, fd, TRUE)
          BY <5>1 DEF WritePart
        <5>3. QED
          BY <5>2 DEF WriteAll, Freed
      <4>5. QED
        BY <4>3, <4>4
    <3>3. ~WriteGoesOn(turn, fd)
      BY <2>3 DEF WriteGoesOn
    <3>4. QED
      BY <1>6, <3>1, <3>2, <3>3 DEF Write
  <2>5. /\ slot' = [slot EXCEPT ![turn] = Initialized]
        /\ open' = open \ {fd} /\ asked' = asked \ {fd} /\ nfds' = MaxNfds(slot')
        /\ wfds' = wfds \ {fd} /\ UNCHANGED <<rfds, peer>>
    BY <2>4 DEF CloseWritten, Closed
  <2>6. rfds' = rfds \ {fd}
    BY <2>1, <2>5
  <2>7. SetsAgree' /\ SlotsAreReady'
    BY <1>2, <2>1, <2>5, <2>6, CloseSets
  <2>8. PeersAreCalm'
    BY <2>5 DEF CalmInv, PeersAreCalm
  <2>9. ResultsHold'
    BY <1>1, <1>2, <2>5, WriteTurnHolds
  <2>10. QED
    BY <2>7, <2>8, <2>9
<1>7. QED
  BY <1>5, <1>6

LEMMA NobodyIsKilled == CalmInv => ~Killed
<1> SUFFICES ASSUME CalmInv, Killed PROVE FALSE
  OBVIOUS
<1>1. slot[turn].socket \in Fd /\ peer[slot[turn].socket].life \in {"rst", "dead"}
  BY Types DEF Killed, CalmInv, ServerInv
<1>2. QED
  BY <1>1 DEF CalmInv, PeersAreCalm

LEMMA NextKeepsCalm == CalmInv /\ [Next]_vars /\ calm' => CalmInv'
<1> SUFFICES ASSUME CalmInv, [Next]_vars, calm' PROVE CalmInv'
  OBVIOUS
<1>1. CASE Next
  BY <1>1, ClientsKeepCalm, SelectKeepsCalm, TimeoutKeepsCalm, AcceptKeepsCalm,
     ReadKeepsCalm, WriteKeepsCalm, NobodyIsKilled DEF Next, ServerStep
<1>2. CASE UNCHANGED vars
  <2>1. UNCHANGED <<peer, open, slot, rfds, wfds, nfds, asked, rready, wready, at, turn>>
    BY <1>2 DEF vars, fdVars, setVars, loopVars
  <2>2. ServerInv'
    BY NextKeepsServer DEF CalmInv
  <2>3. PeersAreCalm'
    BY <2>1 DEF CalmInv, PeersAreCalm
  <2>4. QED
    BY <2>1, <2>2, <2>3, SameBooks, SameResults DEF CalmInv
<1>3. QED
  BY <1>1, <1>2

LEMMA AlwaysCalm == Spec => [](calm => CalmInv)
<1>1. Init => (calm => CalmInv)
  BY InitCalm
<1>2. (calm => CalmInv) /\ [Next]_vars => (calm => CalmInv)'
  <2>1. ASSUME calm => CalmInv, [Next]_vars, calm' PROVE CalmInv'
    BY <2>1, CalmFalls, NextKeepsCalm
  <2>2. QED
    BY <2>1
<1>3. QED
  BY <1>1, <1>2, PTL DEF Spec

\* An idle timeout leaves closed descriptors in globalrfds (tcp_server.c:139-145)
\* and, as long as no client is slow or resets, never makes a later select fail,
\* which would stop the daemon (midas.c:338-342): they stay above nfds until
\* their number is given again.
THEOREM SelectNeverFails == Spec => []SelectSafe
<1>1. (calm => CalmInv) => SelectSafe
  BY NoBadDescriptor DEF SelectSafe, CalmInv, ResultsHold
<1>2. QED
  BY <1>1, AlwaysCalm, PTL

\* Back at the select, and as long as no client is slow or resets, every
\* connected client is waited for, either to read or to write
\* (tcp_server.c:189-192, 238-240, 304).
THEOREM ClientsArePolled == Spec => []EveryClientPolled
<1>1. (calm => CalmInv) => EveryClientPolled
  BY DEF EveryClientPolled, CalmInv, SetsAgree
<1>2. QED
  BY <1>1, AlwaysCalm, PTL
=============================================================================
