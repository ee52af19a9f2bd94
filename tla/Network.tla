------------------------------ MODULE Network ------------------------------
(***************************************************************************)
(* The connections between nodes (raft/network.rs).  Each node runs an     *)
(* acceptor, a reconnect loop, a task for peer changes and, for every      *)
(* connection, a reader and a writer task.  They share two maps: the peer  *)
(* registry and active_senders, which has the channel to the writer of one *)
(* connection per peer.  A step is what a task does between two awaits.    *)
(*                                                                         *)
(* What is sent over a connection is left out: Raft has the messages, and  *)
(* assumes nothing of their delivery.  Here a connection may break, be     *)
(* refused, or carry a message its reader rejects, MaxFailures times.      *)
(***************************************************************************)
EXTENDS Naturals, Sequences, SequencesExt

CONSTANTS Node,         \* node ids, the higher of two dials the lower
          Conn,         \* names of TCP connections, reused once closed
          None,
          MaxFailures,  \* bound on failures of the network
          MaxChanges    \* bound on PeerChange commands

ASSUME NodeAssumption == Node \subseteq Nat

VARIABLES
    peers,          \* the registry: peers[n] is the set of peers n knows
    active_senders, \* active_senders[n][p]: the connection n sends to p on
    todo,           \* peers the reconnect loop of n has still to look at
    dialed,         \* dialed[n][t]: connection task t of n made, not yet registered
    looked,         \* pairs <<n, t>>: task t of n has looked and found no sender
    backlog,        \* connections the acceptor of n has still to take
    link,           \* link[c]: the nodes that dialed and accepted c
    greeted,        \* connections over which the dialer's id was sent
    broken,         \* connections that failed
    readers,        \* pairs <<n, c>>: n runs a reader of c
    writers,        \* pairs <<n, c>>: n runs a writer of c
    failures, changes

vars == <<peers, active_senders, todo, dialed, looked, backlog, link, greeted, broken,
          readers, writers, failures, changes>>
tasks == <<readers, writers>>
bounds == <<failures, changes>>

\* The two tasks of a node that dial.
Dialer == {"reconnect", "changes"}

\* Types; and of two nodes only the one with the higher id dials, so that they do not
\* connect to each other at the same time, whatever the reconnect loop and a peer
\* change do together.
TypeOK ==
    /\ peers \in [Node -> SUBSET Node]
    /\ active_senders \in [Node -> [Node -> Conn \cup {None}]]
    /\ todo \in [Node -> SUBSET Node]
    /\ dialed \in [Node -> [Dialer -> Conn \cup {None}]]
    /\ looked \subseteq Node \X Dialer
    /\ \A n \in Node : Range(backlog[n]) \subseteq Conn
    /\ link \in [Conn -> {l \in Node \X Node : l[1] > l[2]}]
    /\ greeted \subseteq Conn /\ broken \subseteq Conn
    /\ readers \subseteq Node \X Conn /\ writers \subseteq Node \X Conn
    /\ failures \in 0..MaxFailures /\ changes \in 0..MaxChanges

Init ==
    /\ peers = [n \in Node |-> Node \ {n}]
    /\ active_senders = [n \in Node |-> [p \in Node |-> None]]
    /\ todo = [n \in Node |-> {}]
    /\ dialed = [n \in Node |-> [t \in Dialer |-> None]]
    /\ backlog = [n \in Node |-> << >>]
    /\ link \in [Conn -> {CHOOSE l \in Node \X Node : l[1] > l[2]}]
    /\ looked = {} /\ greeted = {} /\ broken = {}
    /\ readers = {} /\ writers = {}
    /\ failures = 0 /\ changes = 0

-----------------------------------------------------------------------------
\* The node at the other end of c.
Peer(n, c) == IF link[c][1] = n THEN link[c][2] ELSE link[c][1]

\* n has the stream of c, not yet split between a reader and a writer.
Unsplit(n, c) == c \in Range(backlog[n]) \/ \E t \in Dialer : dialed[n][t] = c

\* n can still write to c; when it cannot, the other end reads an end of file.
WriteOpen(n, c) == <<n, c>> \in writers \/ Unsplit(n, c)

InUse(c) == \E n \in Node : WriteOpen(n, c) \/ <<n, c>> \in readers

\* Mutants: closed only when the sender is removed; never closed.
ClosedByRemoval(n, c) == active_senders[n][Peer(n, c)] = None
ClosedNever(n, c) == n # n /\ c = None

\* The receiver of a writer's channel ends once its sender is gone: removed from
\* the map, or replaced there.
ChannelClosed(n, c) == active_senders[n][Peer(n, c)] # c

\* Mutant: either node dials.
MayDialEither(n, p) == n # p
\* The higher id dials, in the reconnect loop and for a new peer.
MayDial(n, p) == n > p

Failure == failures < MaxFailures /\ failures' = failures + 1
Change == changes < MaxChanges /\ changes' = changes + 1

-----------------------------------------------------------------------------
(* A connection's tasks. *)

\* spawn_connection_tasks: the new sender replaces the one the peer may have.
SpawnConnectionTasks(n, p, c) ==
    /\ active_senders' = [active_senders EXCEPT ![n][p] = c]
    /\ readers' = readers \cup {<<n, c>>}
    /\ writers' = writers \cup {<<n, c>>}

\* A writer's channel is empty and closed.
WriterDone(n, c) == <<n, c>> \in writers /\ ChannelClosed(n, c)

\* A reader's read_exact fails: the other end shut its half down, or the connection broke.
ReaderDone(n, c) == <<n, c>> \in readers /\ (c \in broken \/ ~WriteOpen(Peer(n, c), c))

\* The writer returns and shuts its half down.
WriterEnds(n, c) ==
    /\ WriterDone(n, c)
    /\ writers' = writers \ {<<n, c>>}
    /\ UNCHANGED <<peers, active_senders, todo, dialed, backlog, link, greeted, broken, looked,
                   readers, bounds>>

\* write_all fails: the writer returns and leaves its sender in the map.
WriterFails(n, c) ==
    /\ <<n, c>> \in writers
    /\ c \in broken \/ ~(WriteOpen(Peer(n, c), c) \/ <<Peer(n, c), c>> \in readers)
    /\ writers' = writers \ {<<n, c>>}
    /\ UNCHANGED <<peers, active_senders, todo, dialed, backlog, link, greeted, broken, looked,
                   readers, bounds>>

\* Mutant: a reader that returns without the clean-up.
RemoveNothing(n, c) == <<n, c>> \in readers /\ UNCHANGED active_senders

\* After its loop the reader removes the peer's sender, whatever connection it is of.
RemoveSender(n, c) == active_senders' = [active_senders EXCEPT ![n][Peer(n, c)] = None]

StopReader(n, c) ==
    /\ readers' = readers \ {<<n, c>>}
    /\ RemoveSender(n, c)
    /\ UNCHANGED <<peers, todo, dialed, backlog, link, greeted, broken, looked, writers>>

ReaderEnds(n, c) == ReaderDone(n, c) /\ StopReader(n, c) /\ UNCHANGED bounds

\* A message longer than MAX_MESSAGE_SIZE, or one that cannot be deserialized.
ReaderRejects(n, c) == <<n, c>> \in readers /\ Failure /\ StopReader(n, c) /\ UNCHANGED changes

-----------------------------------------------------------------------------
(* The acceptor takes one connection at a time and waits for its handshake. *)

AcceptorVars == <<peers, todo, dialed, link, greeted, broken, looked, bounds>>

HandleIncomingConnection(n) ==
    /\ backlog[n] # << >>
    /\ Head(backlog[n]) \in greeted
    /\ backlog' = [backlog EXCEPT ![n] = Tail(@)]
    /\ SpawnConnectionTasks(n, Peer(n, Head(backlog[n])), Head(backlog[n]))
    /\ UNCHANGED AcceptorVars

\* The handshake cannot be read.
HandshakeFails(n) ==
    /\ backlog[n] # << >>
    /\ LET c == Head(backlog[n])
       IN c \in broken \/ (c \notin greeted /\ ~Unsplit(Peer(n, c), c))
    /\ backlog' = [backlog EXCEPT ![n] = Tail(@)]
    /\ UNCHANGED <<active_senders, tasks, AcceptorVars>>

-----------------------------------------------------------------------------
(* Dialing. *)

\* TcpStream::connect succeeds: the connection waits in the other node's backlog.
Connect(n, t, p) ==
    \E c \in {d \in Conn : ~InUse(d)} :
        /\ link' = [link EXCEPT ![c] = <<n, p>>]
        /\ dialed' = [dialed EXCEPT ![n][t] = c]
        /\ backlog' = [backlog EXCEPT ![p] = Append(@, c)]
        /\ greeted' = greeted \ {c}
        /\ broken' = broken \ {c}

\* Every 500 ms the reconnect loop copies the registry; it dials lower ids only.
TakeSnapshot(n) ==
    /\ todo[n] = {} /\ dialed[n]["reconnect"] = None
    /\ todo' = [todo EXCEPT ![n] = {p \in peers[n] : MayDial(n, p)}]
    /\ UNCHANGED <<peers, active_senders, dialed, backlog, link, greeted, broken, looked,
                   tasks, bounds>>

IsConnected(n, p) == active_senders[n][p] # None

Reconnect(n, p) ==
    /\ p \in todo[n] /\ dialed[n]["reconnect"] = None
    /\ todo' = [todo EXCEPT ![n] = @ \ {p}]
    /\ UNCHANGED <<peers, active_senders, looked, tasks, changes>>
    /\ \/ IsConnected(n, p) /\ UNCHANGED <<dialed, backlog, link, greeted, broken, failures>>
       \/ ~IsConnected(n, p) /\ Connect(n, "reconnect", p) /\ UNCHANGED failures
       \/ ~IsConnected(n, p) /\ Failure /\ UNCHANGED <<dialed, backlog, link, greeted, broken>>

\* handle_outgoing_connection writes the id, or fails to.
HandleOutgoingConnection(n, t) ==
    LET c == dialed[n][t]
    IN /\ c \notin greeted \cup {None}
       /\ \/ greeted' = greeted \cup {c} /\ UNCHANGED dialed
          \/ /\ c \in broken
             /\ dialed' = [dialed EXCEPT ![n][t] = None]
             /\ UNCHANGED greeted
       /\ UNCHANGED <<peers, active_senders, todo, looked, backlog, link, broken, tasks, bounds>>

\* It looks at the map again, under the read lock: the stream is dropped if the peer got a
\* sender meanwhile.
LookAgain(n, t) ==
    LET c == dialed[n][t]
    IN /\ c \in greeted /\ <<n, t>> \notin looked
       /\ IF IsConnected(n, Peer(n, c))
          THEN dialed' = [dialed EXCEPT ![n][t] = None] /\ UNCHANGED looked
          ELSE looked' = looked \cup {<<n, t>>} /\ UNCHANGED dialed
       /\ UNCHANGED <<peers, active_senders, todo, backlog, link, greeted, broken, tasks, bounds>>

\* The sender is inserted under the write lock, whatever was inserted since the look.
Register(n, t) ==
    LET c == dialed[n][t]
    IN /\ <<n, t>> \in looked
       /\ SpawnConnectionTasks(n, Peer(n, c), c)
       /\ dialed' = [dialed EXCEPT ![n][t] = None]
       /\ looked' = looked \ {<<n, t>>}
       /\ UNCHANGED <<peers, todo, backlog, link, greeted, broken, bounds>>

OutgoingStep(n, t) == HandleOutgoingConnection(n, t) \/ LookAgain(n, t) \/ Register(n, t)

-----------------------------------------------------------------------------
(* handle_peer_changes, one command at a time. *)

AddPeer(n, p) ==
    /\ dialed[n]["changes"] = None
    /\ Change
    /\ peers' = [peers EXCEPT ![n] = @ \cup {p}]
    /\ \/ MayDial(n, p) /\ Connect(n, "changes", p) /\ UNCHANGED failures
       \/ MayDial(n, p) /\ Failure /\ UNCHANGED <<dialed, backlog, link, greeted, broken>>
       \/ ~MayDial(n, p) /\ UNCHANGED <<dialed, backlog, link, greeted, broken, failures>>
    /\ UNCHANGED <<active_senders, todo, looked, tasks>>

RemovePeer(n, p) ==
    /\ dialed[n]["changes"] = None
    /\ Change
    /\ peers' = [peers EXCEPT ![n] = @ \ {p}]
    /\ active_senders' = [active_senders EXCEPT ![n][p] = None]
    /\ UNCHANGED <<todo, dialed, backlog, link, greeted, broken, looked, tasks, failures>>

-----------------------------------------------------------------------------
\* A TCP connection fails; its ends find out in their own time.
Break(c) ==
    /\ InUse(c) /\ c \notin broken
    /\ Failure
    /\ broken' = broken \cup {c}
    /\ UNCHANGED <<peers, active_senders, todo, dialed, looked, backlog, link, greeted, tasks,
                   changes>>

Acceptor(n) == HandleIncomingConnection(n) \/ HandshakeFails(n)
Reconnector(n) ==
    \/ TakeSnapshot(n)
    \/ \E p \in Node : Reconnect(n, p)
    \/ OutgoingStep(n, "reconnect")

Next ==
    \/ \E n \in Node : Acceptor(n) \/ Reconnector(n) \/ OutgoingStep(n, "changes")
    \/ \E n \in Node, c \in Conn : \/ WriterEnds(n, c) \/ WriterFails(n, c)
                                   \/ ReaderEnds(n, c) \/ ReaderRejects(n, c)
    \/ \E n \in Node : \E p \in Node \ {n} : AddPeer(n, p) \/ RemovePeer(n, p)
    \/ \E c \in Conn : Break(c)

\* The executor runs every task that can go on, timers fire, and both ends of a
\* broken or closed connection find out.
Fairness ==
    /\ \A n \in Node : /\ WF_vars(Acceptor(n)) /\ WF_vars(Reconnector(n))
                       /\ WF_vars(OutgoingStep(n, "changes"))
    /\ \A n \in Node, c \in Conn : WF_vars(WriterEnds(n, c)) /\ WF_vars(ReaderEnds(n, c))

Spec == Init /\ [][Next]_vars /\ Fairness

-----------------------------------------------------------------------------
(* Every sender in the map is of a connection whose reader runs, so that the   *)
(* map is cleaned up when the connection ends and the peer is dialed again.    *)
SenderHasReader ==
    \A n \in Node, p \in Node :
        active_senders[n][p] # None => <<n, active_senders[n][p]>> \in readers

Linked(n, p) ==
    /\ active_senders[n][p] # None
    /\ active_senders[n][p] = active_senders[p][n]
    /\ active_senders[n][p] \notin broken

(* Once failures and peer changes are over, a node and a lower peer of its     *)
(* registry each have a sender for the other again and again: whatever order   *)
(* the tasks of both ends notice a broken or replaced connection in, and       *)
(* although the reader of an old connection may remove the sender of a new     *)
(* one, neither end stays without one.                                         *)
Reconnects ==
    \A n \in Node, p \in Node :
        n > p => (<>[](p \in peers[n]) => []<>IsConnected(n, p) /\ []<>IsConnected(p, n))

\* The acceptors have taken what was dialed, and the readers and writers that can end
\* have done so.
Settled ==
    /\ \A n \in Node : backlog[n] = << >>
    /\ \A n \in Node, c \in Conn : ~WriterDone(n, c) /\ ~ReaderDone(n, c)

(* If moreover the other tasks settle within the 500 ms before the reconnect   *)
(* loop looks again, the two stay connected, to each other and by the same     *)
(* connection.                                                                 *)
StaysConnected ==
    \A n \in Node, p \in Node :
        n > p => (<>[](p \in peers[n]) /\ <>[][TakeSnapshot(n) => Settled]_vars
                      => <>[]Linked(n, p))

(* A connection that no map has a sender for is registered or closed: replaced *)
(* and abandoned connections do not stay open.                                 *)
NoLeak ==
    \A c \in Conn :
        LET registered == \E n \in Node, p \in Node : active_senders[n][p] = c
        IN (InUse(c) /\ ~registered) ~> (registered \/ ~InUse(c))
=============================================================================
