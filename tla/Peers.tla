------------------------------- MODULE Peers -------------------------------
(***************************************************************************)
(* The peers of a node: the list of connected peers and the stored         *)
(* peerlist (daemon/src/p2p/peer_list/), and the life of a connection in   *)
(* the server (daemon/src/p2p/mod.rs): accepted or dialled, verified,      *)
(* queued for the server task, listed, served by a write and a read task   *)
(* until one of them ends, and removed.                                    *)
(*                                                                         *)
(* Tasks run on several threads.  What the code does under one lock is a   *)
(* step, and so is one operation on the stored peerlist (it has no lock:   *)
(* two of them that overlap are not modelled).  remove_peer is two steps:  *)
(* take the peer from the list and signal it; then notify the others,      *)
(* decrement and update the stored entry.  The read task may drop it in    *)
(* between, because it is polled inside a select.                          *)
(***************************************************************************)
EXTENDS Integers, FiniteSets

CONSTANTS
    Conns,          \* bound: the connections of a behaviour, each used once
    Ips, Ids,       \* addresses of remote nodes, the peer ids they announce
    Announced,      \* bound: the ids a connection may announce
    MaxPeers, MaxOutgoing,
    MaxCommands,    \* bound: commands of the operator
    None

ASSUME PeersAssumption ==
    /\ MaxPeers \in Nat /\ MaxOutgoing \in Nat
    /\ Announced \in [Conns -> SUBSET Ids]
    /\ None \notin Conns

VARIABLES
    running,    \* P2pServer::is_running
    conn,       \* connection -> [phase, ip, id, out, priority]
    peers,      \* id -> listed connection, or None
    outgoing,   \* PeerList::outgoing_peers
    write,      \* connection -> state of its write task
    read,       \* connection -> state of its read task
    exits,      \* <<c, "w">>, <<c, "r">>: an exit message waits for that task
    taken,      \* task -> connection it took from the list and has not settled
    stored,     \* ip -> PeerListEntry, or None
    commands,   \* commands so far
    lost        \* outgoing peers removed without a decrement

vars == <<running, conn, peers, outgoing, write, read, exits, taken, stored,
          commands, lost>>

Tasks == Conns \X {"w", "r"}
NoConn == [phase |-> "free", ip |-> None, id |-> None, out |-> FALSE, priority |-> FALSE]

Closed == [NoConn EXCEPT !.phase = "closed"]

Listed == {c \in Conns : \E d \in Ids : peers[d] = c}
ConnectedTo(ip) == \E c \in Listed : conn[c].ip = ip

-----------------------------------------------------------------------------
(* The stored peerlist.                                                    *)

\* PeerListEntry::new.  The port, the fail count, the time of the last attempt and
\* whether an attempt ever succeeded are left out: what depends on them is a choice.
Entry(s) == [state |-> s, banned |-> FALSE]

Entries == [state : {"White", "Gray", "Black"}, banned : BOOLEAN]

is_allowed(ip) ==
    stored[ip] # None => (stored[ip].state # "Black" /\ ~stored[ip].banned)

\* update_peer: what it writes for the entry e it read.
Updated(e) == IF e = None THEN Entry("Gray") ELSE e

\* increase_fail_count_for_peerlist_entry: counted; counted and banned, every
\* PEER_FAIL_TO_CONNECT_LIMIT failures; or removed, when the count is at its maximum.
Failed(e, temp_ban) ==
    LET f == IF e = None THEN Entry("Gray") ELSE e
    IN  IF f.state = "White" THEN {e}
        ELSE {f, IF temp_ban THEN [f EXCEPT !.banned = TRUE] ELSE f, None}

\* temp_ban_address
TempBanned(e) == IF e = None THEN Entry("Gray") ELSE [e EXCEPT !.banned = TRUE]

\* set_state_to_address
WithState(e, s) == IF e = None THEN Entry(s) ELSE [e EXCEPT !.state = s]

\* store_dh_key_for_peer, the key itself left out.
WithKey(e) == IF e = None THEN Entry("Gray") ELSE e

\* set_graylist_for_peer: an entry without a port is removed and written back.
Graylisted(e) == IF e = None THEN {None} ELSE {e, [e EXCEPT !.state = "Gray"]}

\* find_peer_to_connect: a whitelisted address before a graylisted one, among the
\* ones S that have a port, may be tried again now and, if there are any, were
\* reached before.
find_peer_to_connect(S) ==
    LET found == {ip \in S : stored[ip] # None /\ is_allowed(ip) /\ ~ConnectedTo(ip)}
        white == {ip \in found : stored[ip].state = "White"}
    IN  IF white # {} THEN white ELSE found

-----------------------------------------------------------------------------
Init ==
    /\ running = TRUE
    /\ conn = [c \in Conns |-> NoConn]
    /\ peers = [d \in Ids |-> None]
    /\ outgoing = 0 /\ lost = 0 /\ commands = 0
    /\ write = [c \in Conns |-> "none"]
    /\ read = [c \in Conns |-> "none"]
    /\ exits = {}
    /\ taken = [t \in Tasks |-> None]
    /\ stored = [ip \in Ips |-> None]

tasks == <<write, read, exits, taken>>
list == <<peers, outgoing, lost>>

-----------------------------------------------------------------------------
(* A connection before it is listed.                                       *)

Start(c, ip, out, priority) ==
    /\ conn[c].phase = "free"
    /\ conn' = [conn EXCEPT ![c] = [phase |-> "verifying", ip |-> ip, id |-> None,
                                    out |-> out, priority |-> priority]]

\* handle_incoming_connection.  The address has a port of its own, so the check
\* is_connected_to_addr never finds it in the list.
Accept(c, ip) ==
    /\ running
    /\ Cardinality(Listed) < MaxPeers
    /\ is_allowed(ip)
    /\ Start(c, ip, FALSE, FALSE)
    /\ UNCHANGED <<running, list, tasks, stored, commands>>

\* peerlist_loop
Dial(c, ip) ==
    /\ running
    /\ Cardinality(Listed) < MaxPeers /\ outgoing < MaxOutgoing
    /\ \E S \in SUBSET Ips : ip \in find_peer_to_connect(S)
    /\ Start(c, ip, TRUE, FALSE)
    /\ UNCHANGED <<running, list, tasks, stored, commands>>

\* try_to_connect_to_peer for a seed, a priority or an exclusive node, or by command:
\* neither the number of peers nor the number of outgoing ones is looked at.
DialPriority(c, ip) ==
    /\ running
    /\ ~ConnectedTo(ip) /\ is_allowed(ip)
    /\ Start(c, ip, TRUE, TRUE)
    /\ UNCHANGED <<running, list, tasks, stored, commands>>

\* create_verified_peer succeeds: the key of the peer is stored, the handshake checked
\* against the listed ids, and the peer sent to the server task.
Verified(c, id) ==
    /\ conn[c].phase = "verifying"
    /\ peers[id] = None
    /\ conn' = [conn EXCEPT ![c].phase = "queued", ![c].id = id]
    /\ stored' = [stored EXCEPT ![conn[c].ip] = WithKey(@)]
    /\ UNCHANGED <<running, list, tasks, commands>>

\* The connection fails, or the handshake is refused.
NotVerified(c) ==
    /\ conn[c].phase = "verifying"
    /\ \E e \in IF conn[c].priority THEN {stored[conn[c].ip]}
                 ELSE Failed(stored[conn[c].ip], ~conn[c].out) :
          stored' = [stored EXCEPT ![conn[c].ip] = e]
    /\ conn' = [conn EXCEPT ![c] = Closed]
    /\ UNCHANGED <<running, list, tasks, commands>>

\* add_peer, under the lock of the list.
CanList(c) == Cardinality(Listed) < MaxPeers /\ peers[conn[c].id] = None

\* The server task takes one peer at a time.
ServerIdle == \A c \in Conns : conn[c].phase # "adding"

\* add_peer: the insertion.
AddPeer(c) ==
    /\ running /\ ServerIdle
    /\ conn[c].phase = "queued"
    /\ CanList(c)
    /\ peers' = [peers EXCEPT ![conn[c].id] = c]
    /\ conn' = [conn EXCEPT ![c].phase = "adding"]
    /\ UNCHANGED <<running, outgoing, lost, tasks, stored, commands>>

\* handle_new_peer fails: the connection is closed.  A peer received once the server
\* is stopped is dropped with its socket.
Refuse(c) ==
    /\ ServerIdle \/ ~running
    /\ conn[c].phase = "queued"
    /\ ~running \/ ~CanList(c)
    /\ conn' = [conn EXCEPT ![c] = Closed]
    /\ UNCHANGED <<running, list, tasks, stored, commands>>

\* The rest of add_peer (the count, the stored entry) and handle_connection.
Serve(c) ==
    /\ conn[c].phase = "adding"
    /\ outgoing' = IF conn[c].out THEN outgoing + 1 ELSE outgoing
    /\ stored' = [stored EXCEPT ![conn[c].ip] = Updated(@)]
    /\ conn' = [conn EXCEPT ![c].phase = "serving"]
    /\ write' = [write EXCEPT ![c] = "spawned"]
    /\ read' = [read EXCEPT ![c] = "spawned"]
    /\ UNCHANGED <<running, peers, lost, exits, taken, commands>>

-----------------------------------------------------------------------------
(* The tasks of a connection.                                              *)

\* signal_exit reaches the tasks that have subscribed, no other.
Subscribed(c) == {t \in {c} \X {"w", "r"} :
                    IF t[2] = "w" THEN write[c] = "active" ELSE read[c] \in {"active", "banning"}}

StartWrite(c) ==
    /\ write[c] = "spawned"
    /\ write' = [write EXCEPT ![c] = "active"]
    /\ UNCHANGED <<running, conn, list, read, exits, taken, stored, commands>>

StartRead(c) ==
    /\ read[c] = "spawned"
    /\ read' = [read EXCEPT ![c] = "active"]
    /\ UNCHANGED <<running, conn, list, write, exits, taken, stored, commands>>

\* Mutant of WriteTold: the read task keeps its end of the channel.
WriteToldBySignal(c) ==
    /\ write[c] = "active"
    /\ <<c, "w">> \in exits
    /\ write' = [write EXCEPT ![c] = "exiting"]
    /\ exits' = exits \ {<<c, "w">>}
    /\ UNCHANGED <<running, conn, list, read, taken, stored, commands>>

\* handle_connection_write_side returns: an exit message, or the end of the read task.
WriteTold(c) ==
    /\ write[c] = "active"
    /\ <<c, "w">> \in exits \/ read[c] = "finished"
    /\ write' = [write EXCEPT ![c] = "exiting"]
    /\ exits' = exits \ {<<c, "w">>}
    /\ UNCHANGED <<running, conn, list, read, taken, stored, commands>>

\* ... or the heartbeat finds no recent ping, or sending fails.
WriteFails(c) ==
    /\ write[c] = "active"
    /\ write' = [write EXCEPT ![c] = "exiting"]
    /\ exits' = exits \ {<<c, "w">>}
    /\ UNCHANGED <<running, conn, list, read, taken, stored, commands>>

\* handle_connection_read_side returns on an exit message or when the write task
\* has ended.  A removal under way in listen_connection is dropped with it.
ReadTold(c) ==
    /\ read[c] \in {"active", "banning"}
    /\ <<c, "r">> \in exits \/ write[c] = "finished"
    /\ read' = [read EXCEPT ![c] = "finished"]
    /\ exits' = exits \ {<<c, "r">>}
    /\ taken' = [taken EXCEPT ![<<c, "r">>] = None]
    /\ lost' = lost + Cardinality({k \in {taken[<<c, "r">>]} \ {None} : conn[k].out})
    /\ UNCHANGED <<running, conn, peers, outgoing, write, stored, commands>>

\* The remote node hangs up, or sends what cannot be read.
ReadFails(c) ==
    /\ read[c] = "active"
    /\ read' = [read EXCEPT ![c] = "finished"]
    /\ exits' = exits \ {<<c, "r">>}
    /\ UNCHANGED <<running, conn, list, write, taken, stored, commands>>

\* listen_connection: too many failures, close_and_temp_ban.
Ban(c) ==
    /\ read[c] = "active" /\ ~conn[c].priority
    /\ stored' = [stored EXCEPT ![conn[c].ip] = TempBanned(@)]
    /\ read' = [read EXCEPT ![c] = "banning"]
    /\ UNCHANGED <<running, conn, list, write, exits, taken, commands>>

\* The HashMap::remove of remove_peer.
TakeFrom(p, d) == [p EXCEPT ![d] = None]

Removing(t) ==
    /\ taken[t] = None
    /\ \/ t[2] = "w" /\ write[t[1]] = "exiting"
       \/ t[2] = "r" /\ read[t[1]] = "banning"

\* The task goes on: the write task closes the stream and ends, listen_connection breaks.
After(t) ==
    IF t[2] = "w"
    THEN write' = [write EXCEPT ![t[1]] = "finished"] /\ UNCHANGED read
    ELSE read' = [read EXCEPT ![t[1]] = "finished"] /\ UNCHANGED write

\* remove_peer of the id of the task's own connection: take whatever connection is
\* listed under it, and signal that connection.
Remove(t) ==
    /\ Removing(t)
    /\ LET d == conn[t[1]].id
       IN  /\ peers[d] # None
           /\ taken' = [taken EXCEPT ![t] = peers[d]]
           /\ exits' = exits \cup Subscribed(peers[d])
           /\ peers' = TakeFrom(peers, d)
    /\ UNCHANGED <<running, conn, outgoing, lost, write, read, stored, commands>>

\* Mutant of RemoveNothing: the removal may give up.
RemoveNothingListed(t) ==
    /\ Removing(t)
    /\ After(t)
    /\ UNCHANGED <<running, conn, list, exits, taken, stored, commands>>

\* PeerNotFoundById
RemoveNothing(t) ==
    /\ Removing(t)
    /\ peers[conn[t[1]].id] = None
    /\ After(t)
    /\ UNCHANGED <<running, conn, list, exits, taken, stored, commands>>

\* Mutant of Decremented: every removed peer counts as outgoing.
DecrementedAlways(n, c) == n - 1

Decremented(n, c) == IF conn[c].out THEN n - 1 ELSE n

\* remove_peer, after the other peers are notified: decrement, update_peer, and the
\* disconnection is announced.
Settle(t) ==
    /\ taken[t] # None
    /\ outgoing' = Decremented(outgoing, taken[t])
    /\ stored' = [stored EXCEPT ![conn[taken[t]].ip] = Updated(@)]
    /\ taken' = [taken EXCEPT ![t] = None]
    /\ After(t)
    /\ UNCHANGED <<running, conn, peers, lost, exits, commands>>

-----------------------------------------------------------------------------
(* Commands of the operator, and time.                                     *)

Command == running /\ commands < MaxCommands /\ commands' = commands + 1

SignalAll(S) == exits' = exits \cup UNION {Subscribed(c) : c \in S}

\* close_all: the list is drained, every peer signalled, every entry updated.
Drained ==
    /\ peers' = [d \in Ids |-> None]
    /\ stored' = [ip \in Ips |-> IF ConnectedTo(ip) THEN Updated(stored[ip]) ELSE stored[ip]]
    /\ lost' = lost + Cardinality({c \in Listed : conn[c].out})

\* The command clear_connections.
CloseAll ==
    /\ Command
    /\ Drained
    /\ SignalAll(Listed)
    /\ UNCHANGED <<running, conn, outgoing, write, read, taken>>

\* P2pServer::stop: close all, then the exit message of the server.
Stop ==
    /\ running /\ running' = FALSE
    /\ Drained
    /\ SignalAll({c \in Conns : conn[c].phase = "serving"})
    /\ UNCHANGED <<conn, outgoing, write, read, taken, commands>>

\* blacklist_address: one of the peers with this address is signalled.
Blacklist(ip) ==
    /\ Command
    /\ stored' = [stored EXCEPT ![ip] = WithState(@, "Black")]
    /\ \/ ~ConnectedTo(ip) /\ UNCHANGED exits
       \/ \E c \in Listed : conn[c].ip = ip /\ SignalAll({c})
    /\ UNCHANGED <<running, conn, list, write, read, taken>>

Whitelist(ip) ==
    /\ Command
    /\ stored' = [stored EXCEPT ![ip] = WithState(@, "White")]
    /\ UNCHANGED <<running, conn, list, tasks>>

Graylist(ip) ==
    /\ Command
    /\ \E e \in Graylisted(stored[ip]) : stored' = [stored EXCEPT ![ip] = e]
    /\ UNCHANGED <<running, conn, list, tasks>>

\* temp_ban_address with close_peer: the loop over the peers stops at the first one
\* that nobody listens to.
TempBan(ip) ==
    /\ Command
    /\ stored' = [stored EXCEPT ![ip] = TempBanned(@)]
    /\ LET S == {c \in Listed : conn[c].ip = ip}
           heard == {c \in S : Subscribed(c) # {}}
       IN  IF heard = S THEN SignalAll(S) ELSE \E T \in SUBSET heard : SignalAll(T)
    /\ UNCHANGED <<running, conn, list, write, read, taken>>

\* kick_peer
Kick(c) ==
    /\ Command
    /\ c \in Listed
    /\ SignalAll({c})
    /\ UNCHANGED <<running, conn, list, write, read, taken, stored>>

\* clear_local_peerlist
ClearPeerlist ==
    /\ Command
    /\ stored' = [ip \in Ips |-> None]
    /\ UNCHANGED <<running, conn, list, tasks>>

\* store_peer_address: an address received in a ping.
StorePeerAddress(ip) ==
    /\ running /\ stored[ip] = None
    /\ stored' = [stored EXCEPT ![ip] = Entry("Gray")]
    /\ UNCHANGED <<running, conn, list, tasks, commands>>

\* A temporary ban expires.
BanExpires(ip) ==
    /\ stored[ip] # None /\ stored[ip].banned
    /\ stored' = [stored EXCEPT ![ip].banned = FALSE]
    /\ UNCHANGED <<running, conn, list, tasks, commands>>

-----------------------------------------------------------------------------
RemoveStep(t) == Remove(t) \/ RemoveNothing(t) \/ Settle(t)
WriteTask(c) == StartWrite(c) \/ WriteTold(c) \/ RemoveStep(<<c, "w">>)
ReadTask(c) == StartRead(c) \/ ReadTold(c) \/ RemoveStep(<<c, "r">>)

Next ==
    \/ \E c \in Conns :
          \/ \E ip \in Ips : Accept(c, ip) \/ Dial(c, ip) \/ DialPriority(c, ip)
          \/ \E d \in Announced[c] : Verified(c, d)
          \/ NotVerified(c) \/ AddPeer(c) \/ Refuse(c) \/ Serve(c)
          \/ WriteTask(c) \/ ReadTask(c) \/ WriteFails(c) \/ ReadFails(c) \/ Ban(c)
          \/ Kick(c)
    \/ \E ip \in Ips : Blacklist(ip) \/ Whitelist(ip) \/ Graylist(ip) \/ TempBan(ip)
                       \/ StorePeerAddress(ip) \/ BanExpires(ip)
    \/ CloseAll \/ ClearPeerlist \/ Stop

\* The runtime polls every task that can make progress.
Fairness ==
    \A c \in Conns : WF_vars(WriteTask(c)) /\ WF_vars(ReadTask(c))

Spec == Init /\ [][Next]_vars /\ Fairness

-----------------------------------------------------------------------------
\* The outgoing counter is the number of listed outgoing peers, less the one add_peer
\* has listed and not counted, plus the ones remove_peer has taken and not settled,
\* plus the ones close_all drained or whose removal was dropped by the read task.
OutgoingCounts ==
    outgoing = Cardinality({c \in Listed : conn[c].out})
             - Cardinality({c \in Conns : conn[c].out /\ conn[c].phase = "adding"})
             + Cardinality({t \in Tasks : taken[t] # None /\ conn[taken[t]].out})
             + lost

\* A peer whose write task has gone past its removal is no longer listed: no packet is
\* sent to a queue that nobody drains.
ListedIsServed == \A c \in Listed : write[c] # "finished"

\* A connection whose read task ends, or whose write task is told to exit, is taken
\* from the list and closed, and both its tasks end.
Closes ==
    \A c \in Conns :
        (read[c] = "finished" \/ <<c, "w">> \in exits)
            ~> (c \notin Listed /\ write[c] = "finished" /\ read[c] = "finished")

=============================================================================
