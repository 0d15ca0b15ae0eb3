---------------------------- MODULE PeersProofs ----------------------------
(***************************************************************************)
(* Proofs about the peers of a node, for any number of connections, even   *)
(* infinitely many: the counter of outgoing peers is off by exactly the    *)
(* removals under way or dropped, no peer stays listed once its write task *)
(* has ended, and an id never lists two connections.                       *)
(*                                                                         *)
(* The life of a connection only goes forward, and it is listed in one     *)
(* step of it only.  The invariant says what may be true of a connection   *)
(* in each phase; the counting rests on that, because it tells that a      *)
(* connection taken from the list is never listed again.                   *)
(***************************************************************************)
EXTENDS Peers, FiniteSetTheorems, TLAPS

Phases == {"free", "verifying", "queued", "adding", "serving", "closed"}
ConnStates == [phase : Phases, ip : Ips \cup {None}, id : Ids \cup {None},
               out : BOOLEAN, priority : BOOLEAN]

TypeOK ==
    /\ running \in BOOLEAN
    /\ conn \in [Conns -> ConnStates]
    /\ peers \in [Ids -> Conns \cup {None}]
    /\ outgoing \in Int /\ lost \in Nat /\ commands \in Nat
    /\ write \in [Conns -> {"none", "spawned", "active", "exiting", "finished"}]
    /\ read \in [Conns -> {"none", "spawned", "active", "banning", "finished"}]
    /\ exits \subseteq Tasks
    /\ taken \in [Tasks -> Conns \cup {None}]
    /\ stored \in [Ips -> Entries \cup {None}]

\* A connection is listed at most once, under the id it announced, and only from
\* add_peer on.
ListedOnce ==
    \A d \in Ids : peers[d] # None =>
        conn[peers[d]].id = d /\ conn[peers[d]].phase \in {"adding", "serving"}

\* The tasks of a connection exist once it is served, and its id is known.
TasksWhenServing ==
    \A c \in Conns :
        /\ conn[c].phase # "serving" =>
              /\ write[c] = "none" /\ read[c] = "none"
              /\ taken[<<c, "w">>] = None /\ taken[<<c, "r">>] = None
        /\ conn[c].phase \in {"queued", "adding", "serving"} => conn[c].id \in Ids
        /\ conn[c].phase \in {"verifying", "queued", "adding", "serving"} => conn[c].ip \in Ips

\* What remove_peer takes was listed.
TakenWasListed ==
    \A t \in Tasks : taken[t] # None => conn[taken[t]].phase \in {"adding", "serving"}

\* From the moment the write task has taken a peer from the list, under the id of its
\* own connection, that connection is not listed any more.
GoneWithWriter ==
    \A c \in Conns :
        write[c] = "finished" \/ taken[<<c, "w">>] # None => c \notin Listed

\* Only finitely many connections were opened so far.
Opened == {c \in Conns : conn[c].phase # "free"}

Shape ==
    /\ TypeOK
    /\ ListedOnce
    /\ TasksWhenServing
    /\ TakenWasListed
    /\ GoneWithWriter

\* The inductive invariant.
Inv ==
    /\ Shape
    /\ IsFiniteSet(Opened)
    /\ OutgoingCounts

-----------------------------------------------------------------------------
(* Types                                                                   *)

\* What signal_exit sends goes to tasks of connections.
LEMMA SubscribedType == \A c \in Conns : Subscribed(c) \subseteq Tasks
BY Zenon DEF Subscribed, Tasks

LEMMA SignalType ==
    ASSUME NEW S \in SUBSET Conns, exits \subseteq Tasks, SignalAll(S)
    PROVE  exits' \subseteq Tasks
<1>1. UNION {Subscribed(c) : c \in S} \subseteq Tasks
  BY SubscribedType, Zenon
<1> QED BY <1>1, Zenon DEF SignalAll

\* Every operation on the stored peerlist writes an entry, or removes it.
LEMMA EntryTypes ==
    ASSUME NEW e \in Entries \cup {None}
    PROVE  /\ Updated(e) \in Entries
           /\ TempBanned(e) \in Entries
           /\ WithKey(e) \in Entries
           /\ \A s \in {"White", "Gray", "Black"} : WithState(e, s) \in Entries
           /\ Graylisted(e) \subseteq Entries \cup {None}
           /\ \A b \in BOOLEAN : Failed(e, b) \subseteq Entries \cup {None}
<1>1. \A s \in {"White", "Gray", "Black"} : Entry(s) \in Entries
  BY Zenon DEF Entry, Entries
<1>2. CASE e = None
  <2>1. /\ Updated(e) = Entry("Gray") /\ TempBanned(e) = Entry("Gray")
        /\ WithKey(e) = Entry("Gray") /\ \A s : WithState(e, s) = Entry(s)
        /\ Graylisted(e) = {None}
    BY <1>2, Zenon DEF Updated, TempBanned, WithKey, WithState, Graylisted
  <2>2. \A b \in BOOLEAN : Failed(e, b) \subseteq
           {Entry("Gray"), [Entry("Gray") EXCEPT !.banned = TRUE], None}
    BY <1>2, Zenon DEF Failed, Entry
  <2>3. [Entry("Gray") EXCEPT !.banned = TRUE] \in Entries
    BY Zenon DEF Entry, Entries
  <2> QED BY <1>1, <2>1, <2>2, <2>3, Zenon
<1>3. CASE e # None
  <2>1. e \in Entries BY <1>3, Zenon
  <2>2. /\ [e EXCEPT !.banned = TRUE] \in Entries
        /\ \A s \in {"White", "Gray", "Black"} : [e EXCEPT !.state = s] \in Entries
    BY <2>1, Zenon DEF Entries
  <2>3. /\ Updated(e) = e /\ TempBanned(e) = [e EXCEPT !.banned = TRUE]
        /\ WithKey(e) = e /\ \A s : WithState(e, s) = [e EXCEPT !.state = s]
        /\ Graylisted(e) = {e, [e EXCEPT !.state = "Gray"]}
    BY <1>3, Zenon DEF Updated, TempBanned, WithKey, WithState, Graylisted
  <2>4. \A b \in BOOLEAN : Failed(e, b) \subseteq {e, [e EXCEPT !.banned = TRUE], None}
    BY <1>3, Zenon DEF Failed
  <2> QED BY <2>1, <2>2, <2>3, <2>4, Zenon
<1> QED BY <1>2, <1>3, Zenon

\* So the peerlist is well typed after the entry of an address is replaced.
LEMMA StoredType ==
    ASSUME stored \in [Ips -> Entries \cup {None}], NEW ip, NEW e \in Entries \cup {None}
    PROVE  [stored EXCEPT ![ip] = e] \in [Ips -> Entries \cup {None}]
BY Zenon

\* A number of elements is a natural number.
LEMMA CardNat == \A S : IsFiniteSet(S) => Cardinality(S) \in Nat
BY FS_CardinalityType, Zenon

\* Nothing of a connection but its phase and its id changes once it has begun, and
\* the record that closes it is well formed.
LEMMA ConnTypes ==
    ASSUME NEW r \in ConnStates
    PROVE  /\ \A p \in Phases : [r EXCEPT !.phase = p] \in ConnStates
           /\ \A d \in Ids : [r EXCEPT !.phase = "queued", !.id = d] \in ConnStates
           /\ Closed \in ConnStates
BY Zenon DEF ConnStates, Phases, Closed, NoConn

\* Every variable keeps its type.
LEMMA TypeInit == Init => TypeOK
<1> SUFFICES ASSUME Init PROVE TypeOK BY Zenon
<1>1. NoConn \in ConnStates BY Zenon DEF NoConn, ConnStates, Phases
<1> QED BY <1>1, SMTT(60) DEF Init, TypeOK, Tasks

LEMMA StartType ==
    ASSUME TypeOK, NEW c \in Conns, NEW ip \in Ips, NEW out \in BOOLEAN,
           NEW priority \in BOOLEAN, Start(c, ip, out, priority),
           UNCHANGED <<running, list, tasks, stored, commands>>
    PROVE  TypeOK'
<1>1. [phase |-> "verifying", ip |-> ip, id |-> None, out |-> out, priority |-> priority]
        \in ConnStates
  BY Zenon DEF ConnStates, Phases
<1> QED BY <1>1, Zenon DEF TypeOK, Start, list, tasks

-----------------------------------------------------------------------------
(* The shape of a state                                                    *)

LEMMA TaskOf == \A c \in Conns : <<c, "w">> \in Tasks /\ <<c, "r">> \in Tasks
BY Zenon DEF Tasks

LEMMA TaskShape ==
    \A t \in Tasks : t[1] \in Conns /\ (t = <<t[1], "w">> \/ t = <<t[1], "r">>)
BY SMTT(60) DEF Tasks

\* A connection is opened: it was free, so nothing refers to it.
LEMMA StartShape ==
    ASSUME Shape, NEW c \in Conns, NEW ip \in Ips, NEW out \in BOOLEAN,
           NEW priority \in BOOLEAN, Start(c, ip, out, priority),
           UNCHANGED <<running, list, tasks, stored, commands>>
    PROVE  Shape'
<1>1. TypeOK' BY StartType, Zenon DEF Shape
<1>2. \A k \in Conns : k # c => conn'[k] = conn[k]
  BY Zenon DEF Start, Shape, TypeOK
<1>3. conn[c].phase = "free" /\ conn'[c].phase = "verifying" /\ conn'[c].ip = ip
  BY Zenon DEF Start, Shape, TypeOK
<1>4. Listed' = Listed BY Zenon DEF Listed, list
<1>5. ListedOnce'
  BY <1>2, <1>3, SMTT(60) DEF Shape, ListedOnce, TypeOK, list
<1>6. TasksWhenServing'
  BY <1>2, <1>3, Zenon DEF Shape, TasksWhenServing, tasks
<1>7. TakenWasListed'
  BY <1>2, <1>3, Zenon DEF Shape, TakenWasListed, TypeOK, tasks
<1>8. GoneWithWriter'
  BY <1>4, Zenon DEF Shape, GoneWithWriter, tasks
<1> QED BY <1>1, <1>5, <1>6, <1>7, <1>8, Zenon DEF Shape

\* Before it is listed, a connection may get its id or be closed.
LEMMA EarlyShape ==
    ASSUME Shape, NEW c \in Conns, conn[c].phase \in {"verifying", "queued"},
           NEW r \in ConnStates, conn' = [conn EXCEPT ![c] = r],
           \/ r.phase = "closed"
           \/ r.phase = "queued" /\ r.id \in Ids /\ r.ip \in Ips,
           stored' \in [Ips -> Entries \cup {None}],
           UNCHANGED <<running, list, tasks, commands>>
    PROVE  Shape'
<1>1. TypeOK' BY Zenon DEF Shape, TypeOK, list, tasks
<1>2. \A k \in Conns : k # c => conn'[k] = conn[k]
  BY Zenon DEF Shape, TypeOK
<1>3. conn'[c] = r
  BY Zenon DEF Shape, TypeOK
<1>4. Listed' = Listed BY Zenon DEF Listed, list
<1>5. ListedOnce'
  BY <1>2, <1>3, SMTT(60) DEF Shape, ListedOnce, TypeOK, list
<1>6. TasksWhenServing'
  BY <1>2, <1>3, Zenon DEF Shape, TasksWhenServing, tasks
<1>7. TakenWasListed'
  BY <1>2, <1>3, Zenon DEF Shape, TakenWasListed, TypeOK, tasks
<1>8. GoneWithWriter'
  BY <1>4, Zenon DEF Shape, GoneWithWriter, tasks
<1> QED BY <1>1, <1>5, <1>6, <1>7, <1>8, Zenon DEF Shape

LEMMA VerifiedShape ==
    ASSUME Shape, NEW c \in Conns, NEW d \in Announced[c], Verified(c, d)
    PROVE  Shape'
<1> DEFINE r == [conn[c] EXCEPT !.phase = "queued", !.id = d]
<1>1. d \in Ids BY PeersAssumption, Zenon
<1>2. conn[c] \in ConnStates /\ conn[c].phase = "verifying" /\ conn[c].ip \in Ips
  BY Zenon DEF Shape, TypeOK, TasksWhenServing, Verified
<1>3. r \in ConnStates BY <1>1, <1>2, ConnTypes, Zenon
<1>4. r.phase = "queued" /\ r.id = d /\ r.ip = conn[c].ip
  BY <1>2, Zenon DEF ConnStates
<1>5. conn' = [conn EXCEPT ![c] = r] BY <1>2, Zenon DEF Verified, Shape, TypeOK
<1>6. WithKey(stored[conn[c].ip]) \in Entries
  BY <1>2, EntryTypes, Zenon DEF Shape, TypeOK
<1>7. stored' \in [Ips -> Entries \cup {None}]
  BY <1>6, Zenon DEF Verified, Shape, TypeOK
<1> HIDE DEF r
<1> QED BY <1>1, <1>2, <1>3, <1>4, <1>5, <1>7, EarlyShape, Zenon DEF Verified

LEMMA ClosedShape == Closed \in ConnStates /\ Closed.phase = "closed" /\ Closed.out = FALSE
BY Zenon DEF Closed, NoConn, ConnStates, Phases

LEMMA NotVerifiedShape ==
    ASSUME Shape, NEW c \in Conns, NotVerified(c)
    PROVE  Shape'
<1>1. conn[c] \in ConnStates /\ conn[c].phase = "verifying" /\ conn[c].ip \in Ips
  BY Zenon DEF Shape, TypeOK, TasksWhenServing, NotVerified
<1>2. stored[conn[c].ip] \in Entries \cup {None} /\ (~conn[c].out) \in BOOLEAN
  BY <1>1, Zenon DEF Shape, TypeOK, ConnStates
<1>3. PICK e \in IF conn[c].priority THEN {stored[conn[c].ip]}
                 ELSE Failed(stored[conn[c].ip], ~conn[c].out) :
         stored' = [stored EXCEPT ![conn[c].ip] = e]
  BY Zenon DEF NotVerified
<1>4. e \in Entries \cup {None}
  BY <1>2, <1>3, EntryTypes, Zenon
<1>5. stored' \in [Ips -> Entries \cup {None}]
  BY <1>3, <1>4, Zenon DEF Shape, TypeOK
<1> QED BY <1>1, <1>5, ClosedShape, EarlyShape, Zenon DEF NotVerified

LEMMA RefuseShape ==
    ASSUME Shape, NEW c \in Conns, Refuse(c)
    PROVE  Shape'
<1>1. stored' \in [Ips -> Entries \cup {None}]
  BY Zenon DEF Refuse, Shape, TypeOK
<1> QED BY <1>1, ClosedShape, EarlyShape, Zenon DEF Refuse

\* add_peer: the connection was queued, so it has no task and was never listed.
LEMMA AddPeerShape ==
    ASSUME Shape, NEW c \in Conns, AddPeer(c)
    PROVE  Shape'
<1> DEFINE d == conn[c].id
<1>1. /\ conn[c] \in ConnStates /\ conn[c].phase = "queued" /\ d \in Ids /\ conn[c].ip \in Ips
      /\ peers[d] = None
  BY Zenon DEF Shape, TypeOK, TasksWhenServing, AddPeer, CanList
<1>2. /\ conn'[c].phase = "adding" /\ conn'[c].id = d /\ conn'[c].ip = conn[c].ip
      /\ conn'[c] \in ConnStates
  <2>1. conn'[c] = [conn[c] EXCEPT !.phase = "adding"] BY Zenon DEF AddPeer, Shape, TypeOK
  <2> QED BY <1>1, <2>1, Zenon DEF ConnStates, Phases
<1>3. \A k \in Conns : k # c => conn'[k] = conn[k]
  BY Zenon DEF AddPeer, Shape, TypeOK
<1>4. peers'[d] = c /\ \A x \in Ids : x # d => peers'[x] = peers[x]
  BY <1>1, Zenon DEF AddPeer, Shape, TypeOK
<1>5. TypeOK'
  BY <1>2, <1>3, Zenon DEF AddPeer, Shape, TypeOK, tasks
<1>6. ListedOnce'
  BY <1>1, <1>2, <1>3, <1>4, SMTT(60) DEF Shape, ListedOnce, TypeOK
<1>7. TasksWhenServing'
  BY <1>1, <1>2, <1>3, ZenonT(60) DEF AddPeer, Shape, TasksWhenServing, tasks
<1>8. TakenWasListed'
  BY <1>1, <1>2, <1>3, Zenon DEF AddPeer, Shape, TakenWasListed, TypeOK, tasks
<1>9. GoneWithWriter'
  <2>1. write[c] = "none" /\ taken[<<c, "w">>] = None
    BY <1>1, Zenon DEF Shape, TasksWhenServing
  <2>2. \A k \in Conns : k # c /\ k \in Listed' => k \in Listed
    BY <1>4, Zenon DEF Listed
  <2> QED BY <2>1, <2>2, Zenon DEF AddPeer, Shape, GoneWithWriter, tasks
<1> QED BY <1>5, <1>6, <1>7, <1>8, <1>9, Zenon DEF Shape

\* The rest of add_peer, and the tasks are spawned.
LEMMA ServeShape ==
    ASSUME Shape, NEW c \in Conns, Serve(c)
    PROVE  Shape'
<1>1. /\ conn[c] \in ConnStates /\ conn[c].phase = "adding" /\ conn[c].id \in Ids
      /\ conn[c].ip \in Ips /\ conn[c].out \in BOOLEAN
  BY Zenon DEF Shape, TypeOK, TasksWhenServing, Serve, ConnStates
<1>2. /\ conn'[c].phase = "serving" /\ conn'[c].id = conn[c].id /\ conn'[c].ip = conn[c].ip
      /\ conn'[c] \in ConnStates
  <2>1. conn'[c] = [conn[c] EXCEPT !.phase = "serving"] BY Zenon DEF Serve, Shape, TypeOK
  <2> QED BY <1>1, <2>1, Zenon DEF ConnStates, Phases
<1>3. \A k \in Conns : k # c => conn'[k] = conn[k] /\ write'[k] = write[k] /\ read'[k] = read[k]
  BY Zenon DEF Serve, Shape, TypeOK
<1>4. write'[c] = "spawned" /\ read'[c] = "spawned"
  BY Zenon DEF Serve, Shape, TypeOK
<1>5. TypeOK'
  <2>1. Updated(stored[conn[c].ip]) \in Entries BY <1>1, EntryTypes, Zenon DEF Shape, TypeOK
  <2>2. stored' \in [Ips -> Entries \cup {None}] BY <2>1, Zenon DEF Serve, Shape, TypeOK
  <2>3. conn' \in [Conns -> ConnStates] BY <1>2, <1>3, Zenon DEF Serve, Shape, TypeOK
  <2>4. outgoing' \in Int BY SMTT(60) DEF Serve, Shape, TypeOK
  <2> QED BY <2>2, <2>3, <2>4, Zenon DEF Serve, Shape, TypeOK
<1>6. Listed' = Listed BY Zenon DEF Listed, Serve
<1>7. ListedOnce'
  BY <1>1, <1>2, <1>3, SMTT(60) DEF Serve, Shape, ListedOnce, TypeOK
<1>8. TasksWhenServing'
  BY <1>1, <1>2, <1>3, ZenonT(60) DEF Serve, Shape, TasksWhenServing
<1>9. TakenWasListed'
  BY <1>1, <1>2, <1>3, ZenonT(60) DEF Serve, Shape, TakenWasListed, TypeOK
<1>10. GoneWithWriter'
  BY <1>1, <1>3, <1>4, <1>6, Zenon DEF Serve, Shape, GoneWithWriter, TasksWhenServing
<1> QED BY <1>5, <1>7, <1>8, <1>9, <1>10, Zenon DEF Shape

\* What a step of a task or of the operator may do to the shape: no connection changes
\* its phase, the list only loses entries, a task takes only what is listed, and when
\* the write task of a connection takes or ends, the id of that connection is free.
LEMMA ServedShape ==
    ASSUME Shape, TypeOK', conn' = conn,
           \A d \in Ids : peers'[d] \in {peers[d], None},
           \A t \in Tasks : taken'[t] \in {taken[t], None} \cup Listed,
           \A c \in Conns : conn[c].phase # "serving" =>
               /\ write'[c] = write[c] /\ read'[c] = read[c]
               /\ taken'[<<c, "w">>] = taken[<<c, "w">>]
               /\ taken'[<<c, "r">>] = taken[<<c, "r">>],
           \A c \in Conns : write'[c] = "finished" \/ taken'[<<c, "w">>] # None =>
               write[c] = "finished" \/ taken[<<c, "w">>] # None \/ peers'[conn[c].id] = None
    PROVE  Shape'
<1>1. \A c \in Listed' : c \in Listed
  <2>1. \A c \in Conns : c # None BY PeersAssumption, Zenon
  <2> QED BY <2>1, Zenon DEF Listed
<1>2. ListedOnce'
  BY Zenon DEF Shape, ListedOnce
<1>3. TasksWhenServing'
  BY Zenon DEF Shape, TasksWhenServing
<1>4. TakenWasListed'
  <2>1. \A c \in Listed : conn[c].phase \in {"adding", "serving"}
    BY PeersAssumption, SMTT(60) DEF Listed, Shape, ListedOnce
  <2> QED BY <2>1, Zenon DEF Shape, TakenWasListed
<1>5. GoneWithWriter'
  <2> SUFFICES ASSUME NEW c \in Conns, write'[c] = "finished" \/ taken'[<<c, "w">>] # None,
                      c \in Listed'
               PROVE  FALSE
    BY Zenon DEF GoneWithWriter
  <2>1. c \in Listed BY <1>1, Zenon
  <2>2. peers'[conn[c].id] = None
    BY <2>1, Zenon DEF Shape, GoneWithWriter
  <2>3. PICK d \in Ids : peers'[d] = c BY Zenon DEF Listed
  <2>4. c # None BY PeersAssumption, Zenon
  <2>5. conn[c].id = d BY <2>3, <2>4, SMTT(60) DEF Shape, ListedOnce
  <2> QED BY <2>2, <2>3, <2>4, <2>5, Zenon
<1> QED BY <1>2, <1>3, <1>4, <1>5, Zenon DEF Shape

\* Steps of the write and of the read task that take nothing from the list.
LEMMA TaskStepShape ==
    ASSUME Shape, NEW c \in Conns,
           StartWrite(c) \/ StartRead(c) \/ WriteTold(c) \/ WriteFails(c)
             \/ ReadTold(c) \/ ReadFails(c) \/ Ban(c)
    PROVE  Shape'
<1>0. conn[c].phase = "serving" /\ conn[c].ip \in Ips
  BY Zenon DEF Shape, TasksWhenServing, StartWrite, StartRead, WriteTold, WriteFails, ReadTold,
         ReadFails, Ban
<1>1. CASE StartWrite(c) \/ WriteTold(c) \/ WriteFails(c)
  <2>1. TypeOK'
    BY <1>1, Zenon DEF Shape, TypeOK, StartWrite, WriteTold, WriteFails, list
  <2> QED BY <1>0, <1>1, <2>1, ServedShape, Zenon
          DEF Shape, TypeOK, StartWrite, WriteTold, WriteFails, list
<1>2. CASE StartRead(c) \/ ReadFails(c)
  <2>1. TypeOK'
    BY <1>2, Zenon DEF Shape, TypeOK, StartRead, ReadFails, list
  <2> QED BY <1>0, <1>2, <2>1, ServedShape, Zenon DEF Shape, TypeOK, StartRead, ReadFails, list
<1>3. CASE Ban(c)
  <2>1. TempBanned(stored[conn[c].ip]) \in Entries BY <1>0, EntryTypes, Zenon DEF Shape, TypeOK
  <2>2. stored' \in [Ips -> Entries \cup {None}] BY <1>3, <2>1, Zenon DEF Ban, Shape, TypeOK
  <2>3. TypeOK'
    BY <1>3, <2>2, Zenon DEF Shape, TypeOK, Ban, list
  <2> QED BY <1>0, <1>3, <2>3, ServedShape, Zenon DEF Shape, TypeOK, Ban, list
<1>4. CASE ReadTold(c)
  <2> DEFINE S == {k \in {taken[<<c, "r">>]} \ {None} : conn[k].out}
  <2>1. Cardinality(S) \in Nat
    <3>1. IsFiniteSet({taken[<<c, "r">>]}) BY FS_Singleton, Zenon
    <3>2. S \in SUBSET {taken[<<c, "r">>]} BY Zenon
    <3>3. IsFiniteSet(S) BY <3>1, <3>2, FS_Subset, Zenon
    <3> QED BY <3>3, CardNat, Zenon
  <2>2. TypeOK'
    <3>1. lost' = lost + Cardinality(S) BY <1>4, Zenon DEF ReadTold
    <3>2. lost' \in Nat BY <2>1, <3>1, SMTT(60) DEF Shape, TypeOK
    <3> QED BY <1>4, <3>2, Zenon DEF Shape, TypeOK, ReadTold
  <2>3. <<c, "r">> \in Tasks BY TaskOf, Zenon
  <2> QED BY <1>0, <1>4, <2>2, <2>3, ServedShape, SMTT(60) DEF Shape, TypeOK, ReadTold
<1> QED BY <1>1, <1>2, <1>3, <1>4, Zenon

\* The tasks of a connection that is not served have nothing to remove.
LEMMA RemovingServed ==
    ASSUME Shape, NEW t \in Tasks, Removing(t) \/ taken[t] # None
    PROVE  conn[t[1]].phase = "serving" /\ conn[t[1]].id \in Ids
BY TaskShape, Zenon DEF Shape, TasksWhenServing, Removing

\* After a removal the task has ended.
LEMMA AfterType ==
    ASSUME TypeOK, NEW t \in Tasks, After(t)
    PROVE  /\ write' \in [Conns -> {"none", "spawned", "active", "exiting", "finished"}]
           /\ read' \in [Conns -> {"none", "spawned", "active", "banning", "finished"}]
           /\ \A c \in Conns : c # t[1] => write'[c] = write[c] /\ read'[c] = read[c]
           /\ t[2] # "w" => write' = write
BY Zenon DEF TypeOK, After

\* remove_peer, in its three outcomes.
LEMMA RemoveStepShape ==
    ASSUME Shape, NEW t \in Tasks, RemoveStep(t)
    PROVE  Shape'
<1>0. t[1] \in Conns /\ (t = <<t[1], "w">> \/ t = <<t[1], "r">>) BY TaskShape, Zenon
<1>1. CASE Remove(t)
  <2> DEFINE d == conn[t[1]].id
  <2>1. conn[t[1]].phase = "serving" /\ d \in Ids
    BY <1>1, RemovingServed, Zenon DEF Remove
  <2>2. /\ peers[d] # None
        /\ taken' = [taken EXCEPT ![t] = peers[d]]
        /\ exits' = exits \cup Subscribed(peers[d])
        /\ peers' = [peers EXCEPT ![d] = None]
    BY <1>1, Zenon DEF Remove, TakeFrom
  <2>3. peers[d] \in Conns /\ peers[d] \in Listed BY <2>1, <2>2, Zenon DEF Shape, TypeOK, Listed
  <2>4. TypeOK'
    BY <1>1, <2>2, <2>3, SubscribedType, Zenon DEF Shape, TypeOK, Remove
  <2>5. peers'[d] = None /\ \A x \in Ids : peers'[x] \in {peers[x], None}
    BY <2>1, <2>2, Zenon DEF Shape, TypeOK
  <2>6. \A u \in Tasks : u # t => taken'[u] = taken[u]
    BY <2>2, Zenon DEF Shape, TypeOK
  <2>7. taken'[t] = peers[d] BY <2>2, Zenon DEF Shape, TypeOK
  <2> HIDE DEF d
  <2>8. \A u \in Tasks : taken'[u] \in {taken[u], None} \cup Listed
    BY <2>3, <2>6, <2>7, Zenon
  <2>9. \A c \in Conns : c # t[1] => /\ taken'[<<c, "w">>] = taken[<<c, "w">>]
                                     /\ taken'[<<c, "r">>] = taken[<<c, "r">>]
    BY <1>0, <2>6, TaskOf, SMTT(60)
  <2>10. write' = write /\ read' = read /\ conn' = conn BY <1>1, Zenon DEF Remove
  <2> QED BY <1>0, <2>1, <2>4, <2>5, <2>8, <2>9, <2>10, ServedShape, Zenon DEF d
<1>2. CASE RemoveNothing(t)
  <2>1. conn[t[1]].phase = "serving" /\ conn[t[1]].id \in Ids
    BY <1>2, RemovingServed, Zenon DEF RemoveNothing
  <2>2. After(t) /\ peers' = peers /\ conn' = conn /\ taken' = taken
        /\ peers[conn[t[1]].id] = None
    BY <1>2, Zenon DEF RemoveNothing, list
  <2>3. TypeOK'
    BY <1>2, <2>2, AfterType, Zenon DEF Shape, TypeOK, RemoveNothing, list
  <2> QED BY <1>0, <2>1, <2>2, <2>3, AfterType, ServedShape, Zenon DEF Shape
<1>3. CASE Settle(t)
  <2>1. conn[t[1]].phase = "serving" /\ conn[t[1]].id \in Ids
    BY <1>3, RemovingServed, Zenon DEF Settle
  <2>2. /\ After(t) /\ peers' = peers /\ conn' = conn
        /\ taken[t] # None /\ taken' = [taken EXCEPT ![t] = None]
    BY <1>3, Zenon DEF Settle
  <2>3. taken[t] \in Conns /\ conn[taken[t]].ip \in Ips /\ conn[taken[t]].out \in BOOLEAN
    BY <2>2, Zenon DEF Shape, TypeOK, TakenWasListed, TasksWhenServing, ConnStates
  <2>4. stored' \in [Ips -> Entries \cup {None}]
    <3>1. Updated(stored[conn[taken[t]].ip]) \in Entries
      BY <2>3, EntryTypes, Zenon DEF Shape, TypeOK
    <3> QED BY <1>3, <3>1, Zenon DEF Settle, Shape, TypeOK
  <2>5. TypeOK'
    BY <1>3, <2>2, <2>4, AfterType, SMTT(60) DEF Shape, TypeOK, Settle, Decremented
  <2>6. \A u \in Tasks : taken'[u] \in {taken[u], None} /\ (u # t => taken'[u] = taken[u])
    BY <2>2, Zenon DEF Shape, TypeOK
  <2>7. \A c \in Conns : c # t[1] => /\ taken'[<<c, "w">>] = taken[<<c, "w">>]
                                     /\ taken'[<<c, "r">>] = taken[<<c, "r">>]
                                     /\ write'[c] = write[c] /\ read'[c] = read[c]
    BY <1>0, <2>2, <2>6, TaskOf, AfterType, SMTT(60) DEF Shape
  <2>8. \A c \in Conns : write'[c] = "finished" \/ taken'[<<c, "w">>] # None =>
               write[c] = "finished" \/ taken[<<c, "w">>] # None
    BY <1>0, <2>2, <2>6, <2>7, TaskOf, AfterType, ZenonT(60) DEF Shape
  <2> QED BY <2>1, <2>2, <2>5, <2>6, <2>7, <2>8, ServedShape, Zenon
<1> QED BY <1>1, <1>2, <1>3, Zenon DEF RemoveStep

\* Commands, addresses received and time: the list and the tasks stay, and the only
\* effect on them is an exit message.
LEMMA CommandShape ==
    ASSUME Shape,
           \/ \E c \in Conns : Kick(c)
           \/ \E ip \in Ips : Blacklist(ip) \/ Whitelist(ip) \/ Graylist(ip) \/ TempBan(ip)
                              \/ StorePeerAddress(ip) \/ BanExpires(ip)
           \/ ClearPeerlist
    PROVE  Shape' /\ UNCHANGED <<conn, peers, outgoing, lost, write, read, taken>>
<1>0. Listed \subseteq Conns BY Zenon DEF Listed
<1> DEFINE Quiet == /\ UNCHANGED <<running, conn, peers, outgoing, lost, write, read, taken>>
                    /\ exits' \subseteq Tasks /\ commands' \in Nat
                    /\ stored' \in [Ips -> Entries \cup {None}]
<1>1. ASSUME Quiet PROVE Shape' /\ UNCHANGED <<conn, peers, outgoing, lost, write, read, taken>>
  <2>1. TypeOK' BY <1>1, Zenon DEF Shape, TypeOK
  <2> QED BY <1>1, <2>1, ServedShape, Zenon DEF Shape
<1>2. Command => commands' \in Nat BY SMTT(60) DEF Command, Shape, TypeOK
<1>3. ASSUME NEW c \in Conns, Kick(c) PROVE Quiet
  <2>1. {c} \in SUBSET Conns BY Zenon
  <2>2. exits' \subseteq Tasks BY <1>3, <2>1, SignalType, Zenon DEF Kick, Shape, TypeOK
  <2> QED BY <1>2, <1>3, <2>2, Zenon DEF Kick, Shape, TypeOK, list, Command
<1>4. ASSUME NEW ip \in Ips, Blacklist(ip) PROVE Quiet
  <2>1. WithState(stored[ip], "Black") \in Entries BY EntryTypes, Zenon DEF Shape, TypeOK
  <2>2. exits' \subseteq Tasks
    <3>1. CASE UNCHANGED exits BY <3>1, Zenon DEF Shape, TypeOK
    <3>2. CASE \E c \in Listed : conn[c].ip = ip /\ SignalAll({c})
      <4>1. PICK c \in Listed : SignalAll({c}) BY <3>2, Zenon
      <4>2. {c} \in SUBSET Conns BY <1>0, Zenon
      <4> QED BY <4>1, <4>2, SignalType, Zenon DEF Shape, TypeOK
    <3> QED BY <1>4, <3>1, <3>2, Zenon DEF Blacklist
  <2> QED BY <1>2, <1>4, <2>1, <2>2, Zenon DEF Blacklist, Shape, TypeOK, list, Command
<1>5. ASSUME NEW ip \in Ips, Whitelist(ip) PROVE Quiet
  <2>1. WithState(stored[ip], "White") \in Entries BY EntryTypes, Zenon DEF Shape, TypeOK
  <2> QED BY <1>2, <1>5, <2>1, Zenon DEF Whitelist, Shape, TypeOK, list, tasks, Command
<1>6. ASSUME NEW ip \in Ips, Graylist(ip) PROVE Quiet
  <2>1. Graylisted(stored[ip]) \subseteq Entries \cup {None} BY EntryTypes, Zenon DEF Shape, TypeOK
  <2>2. PICK e \in Graylisted(stored[ip]) : stored' = [stored EXCEPT ![ip] = e]
    BY <1>6, Zenon DEF Graylist
  <2> QED BY <1>2, <1>6, <2>1, <2>2, Zenon DEF Graylist, Shape, TypeOK, list, tasks, Command
<1>7. ASSUME NEW ip \in Ips, TempBan(ip) PROVE Quiet
  <2>1. TempBanned(stored[ip]) \in Entries BY EntryTypes, Zenon DEF Shape, TypeOK
  <2>2. PICK S \in SUBSET Listed : SignalAll(S) BY <1>7, Zenon DEF TempBan
  <2>3. exits' \subseteq Tasks BY <1>0, <2>2, SignalType, Zenon DEF Shape, TypeOK
  <2> QED BY <1>2, <1>7, <2>1, <2>3, Zenon DEF TempBan, Shape, TypeOK, list, Command
<1>8. ASSUME NEW ip \in Ips, StorePeerAddress(ip) PROVE Quiet
  <2>1. Entry("Gray") \in Entries BY Zenon DEF Entry, Entries
  <2> QED BY <1>8, <2>1, Zenon DEF StorePeerAddress, Shape, TypeOK, list, tasks
<1>9. ASSUME NEW ip \in Ips, BanExpires(ip) PROVE Quiet
  <2>1. stored[ip] \in Entries BY <1>9, Zenon DEF BanExpires, Shape, TypeOK
  <2>2. [stored[ip] EXCEPT !.banned = FALSE] \in Entries BY <2>1, Zenon DEF Entries
  <2>3. stored' = [stored EXCEPT ![ip] = [stored[ip] EXCEPT !.banned = FALSE]]
    BY <1>9, Zenon DEF BanExpires
  <2> QED BY <1>9, <2>2, <2>3, Zenon DEF BanExpires, Shape, TypeOK, list, tasks
<1>10. ASSUME ClearPeerlist PROVE Quiet
  BY <1>2, <1>10, Zenon DEF ClearPeerlist, Shape, TypeOK, list, tasks, Command
<1> HIDE DEF Quiet
<1> QED BY <1>1, <1>3, <1>4, <1>5, <1>6, <1>7, <1>8, <1>9, <1>10, Zenon

-----------------------------------------------------------------------------
(* Counting                                                                *)

OutListed == {c \in Listed : conn[c].out}
OutAdding == {c \in Conns : conn[c].out /\ conn[c].phase = "adding"}
OutTaken == {t \in Tasks : taken[t] # None /\ conn[taken[t]].out}

\* The three sets of OutgoingCounts are finite: they are made of opened connections.
LEMMA CountedFinite ==
    ASSUME Shape, IsFiniteSet(Opened)
    PROVE  /\ IsFiniteSet(OutListed) /\ Cardinality(OutListed) \in Nat
           /\ IsFiniteSet(OutAdding) /\ Cardinality(OutAdding) \in Nat
           /\ IsFiniteSet(OutTaken) /\ Cardinality(OutTaken) \in Nat
<1>1. OutListed \subseteq Opened
  BY PeersAssumption, SMTT(60) DEF OutListed, Opened, Listed, Shape, ListedOnce
<1>2. OutAdding \subseteq Opened
  BY Zenon DEF OutAdding, Opened
<1>3. OutTaken \subseteq Opened \X {"w", "r"}
  <2>1. \A t \in Tasks : taken[t] # None => conn[t[1]].phase = "serving"
    BY RemovingServed, Zenon
  <2> QED BY <2>1, Zenon DEF OutTaken, Opened, Tasks
<1>4. IsFiniteSet({"w", "r"})
  <2>1. IsFiniteSet({"w"}) BY FS_Singleton, Zenon
  <2>2. IsFiniteSet({"w"} \cup {"r"}) BY <2>1, FS_AddElement, Zenon
  <2>3. {"w", "r"} = {"w"} \cup {"r"} BY Zenon
  <2> QED BY <2>2, <2>3, Zenon
<1>5. IsFiniteSet(Opened \X {"w", "r"}) BY <1>4, FS_Product, Zenon
<1> QED BY <1>1, <1>2, <1>3, <1>5, FS_Subset, CardNat, Zenon

LEMMA CountIs ==
    OutgoingCounts <=>
        outgoing = Cardinality(OutListed) - Cardinality(OutAdding) + Cardinality(OutTaken) + lost
BY Zenon DEF OutgoingCounts, OutListed, OutAdding, OutTaken

LEMMA CountIsNext ==
    OutgoingCounts' <=>
        outgoing' = Cardinality(OutListed') - Cardinality(OutAdding') + Cardinality(OutTaken')
                    + lost'
BY Zenon DEF OutgoingCounts, OutListed, OutAdding, OutTaken

\* Only connections that are listed or were taken are counted.
LEMMA QuietCount ==
    ASSUME Shape, OutgoingCounts, UNCHANGED <<peers, taken, outgoing, lost>>,
           \A c \in Conns : conn[c].phase \in {"adding", "serving"} => conn'[c] = conn[c],
           \A c \in Conns : conn'[c].phase = "adding" => conn[c].phase = "adding"
    PROVE  OutgoingCounts'
<1>1. \A c \in Listed : conn[c].phase \in {"adding", "serving"} /\ c \in Conns
  BY PeersAssumption, SMTT(60) DEF Listed, Shape, ListedOnce
<1>2. OutListed' = OutListed
  BY <1>1, Zenon DEF OutListed, Listed
<1>3. OutAdding' = OutAdding
  BY Zenon DEF OutAdding
<1>4. OutTaken' = OutTaken
  BY SMTT(60) DEF OutTaken, Shape, TakenWasListed, TypeOK
<1> QED BY <1>2, <1>3, <1>4, CountIs, CountIsNext, Zenon

\* add_peer lists a connection and counts it in two steps.
LEMMA AddPeerCount ==
    ASSUME Shape, IsFiniteSet(Opened), OutgoingCounts, NEW c \in Conns, AddPeer(c)
    PROVE  OutgoingCounts'
<1> DEFINE d == conn[c].id
<1>1. /\ conn[c] \in ConnStates /\ conn[c].phase = "queued" /\ d \in Ids /\ peers[d] = None
  BY Zenon DEF Shape, TypeOK, TasksWhenServing, AddPeer, CanList
<1>2. conn'[c].phase = "adding" /\ conn'[c].out = conn[c].out
  BY <1>1, Zenon DEF AddPeer, Shape, TypeOK, ConnStates
<1>3. \A k \in Conns : k # c => conn'[k] = conn[k]
  BY Zenon DEF AddPeer, Shape, TypeOK
<1>4. peers'[d] = c /\ \A x \in Ids : x # d => peers'[x] = peers[x]
  BY <1>1, Zenon DEF AddPeer, Shape, TypeOK
<1>5. c \notin Listed
  BY <1>1, PeersAssumption, ZenonT(60) DEF Listed, Shape, ListedOnce
<1>6. Listed' = Listed \cup {c}
  BY <1>1, <1>4, PeersAssumption, Zenon DEF Listed
<1>7. OutTaken' = OutTaken
  BY <1>1, <1>2, <1>3, Zenon DEF OutTaken, AddPeer, tasks, Shape, TypeOK, TakenWasListed
<1>8. CASE conn[c].out
  <2>1. OutListed' = OutListed \cup {c} /\ c \notin OutListed
    BY <1>2, <1>3, <1>5, <1>6, <1>8, Zenon DEF OutListed, Listed
  <2>2. OutAdding' = OutAdding \cup {c} /\ c \notin OutAdding
    BY <1>1, <1>2, <1>3, <1>8, Zenon DEF OutAdding
  <2>3. /\ Cardinality(OutListed') = Cardinality(OutListed) + 1
        /\ Cardinality(OutAdding') = Cardinality(OutAdding) + 1
    BY <2>1, <2>2, CountedFinite, FS_AddElement, Zenon
  <2> QED BY <1>7, <2>3, CountIs, CountIsNext, CountedFinite, SMTT(60) DEF AddPeer, Shape, TypeOK
<1>9. CASE ~conn[c].out
  <2>1. OutListed' = OutListed
    BY <1>2, <1>3, <1>6, <1>9, Zenon DEF OutListed, Listed
  <2>2. OutAdding' = OutAdding
    BY <1>1, <1>2, <1>3, <1>9, Zenon DEF OutAdding
  <2> QED BY <1>7, <2>1, <2>2, CountIs, CountIsNext, Zenon DEF AddPeer
<1> QED BY <1>8, <1>9, Zenon

LEMMA ServeCount ==
    ASSUME Shape, IsFiniteSet(Opened), OutgoingCounts, NEW c \in Conns, Serve(c)
    PROVE  OutgoingCounts'
<1>1. conn[c] \in ConnStates /\ conn[c].phase = "adding"
  BY Zenon DEF Shape, TypeOK, Serve
<1>2. conn'[c].phase = "serving" /\ conn'[c].out = conn[c].out
  BY <1>1, Zenon DEF Serve, Shape, TypeOK, ConnStates
<1>3. \A k \in Conns : k # c => conn'[k] = conn[k]
  BY Zenon DEF Serve, Shape, TypeOK
<1>4. OutListed' = OutListed
  BY <1>2, <1>3, Zenon DEF OutListed, Listed, Serve
<1>5. OutTaken' = OutTaken
  BY <1>2, <1>3, Zenon DEF OutTaken, Serve, Shape, TypeOK
<1>6. CASE conn[c].out
  <2>1. OutAdding' = OutAdding \ {c} /\ c \in OutAdding
    BY <1>1, <1>2, <1>3, <1>6, Zenon DEF OutAdding
  <2>2. Cardinality(OutAdding') = Cardinality(OutAdding) - 1
    BY <2>1, CountedFinite, FS_RemoveElement, Zenon
  <2> QED BY <1>4, <1>5, <1>6, <2>2, CountIs, CountIsNext, CountedFinite, SMTT(60)
          DEF Serve, Shape, TypeOK
<1>7. CASE ~conn[c].out
  <2>1. OutAdding' = OutAdding
    BY <1>2, <1>3, <1>7, Zenon DEF OutAdding
  <2> QED BY <1>4, <1>5, <1>7, <2>1, CountIs, CountIsNext, Zenon DEF Serve
<1> QED BY <1>6, <1>7, Zenon

\* remove_peer moves a connection from the list to the task that took it.
LEMMA RemoveCount ==
    ASSUME Shape, IsFiniteSet(Opened), OutgoingCounts, NEW t \in Tasks, Remove(t)
    PROVE  OutgoingCounts'
<1> DEFINE d == conn[t[1]].id
           k == peers[d]
<1>1. d \in Ids BY RemovingServed, Zenon DEF Remove
<1>2. /\ k # None /\ taken[t] = None /\ conn' = conn
      /\ taken' = [taken EXCEPT ![t] = k]
      /\ peers' = [peers EXCEPT ![d] = None]
      /\ outgoing' = outgoing /\ lost' = lost
  BY Zenon DEF Remove, TakeFrom, Removing
<1>3. k \in Conns /\ conn[k].id = d
  BY <1>1, <1>2, SMTT(60) DEF Shape, TypeOK, ListedOnce
<1>4. \A x \in Ids : peers[x] = k => x = d
  BY <1>2, <1>3, Zenon DEF Shape, ListedOnce
<1>5. peers'[d] = None /\ \A x \in Ids : x # d => peers'[x] = peers[x]
  BY <1>1, <1>2, Zenon DEF Shape, TypeOK
<1>6. taken'[t] = k /\ \A u \in Tasks : u # t => taken'[u] = taken[u]
  BY <1>2, Zenon DEF Shape, TypeOK
<1> HIDE DEF d
<1>7. k \in Listed /\ Listed' = Listed \ {k}
  BY <1>1, <1>3, <1>4, <1>5, PeersAssumption, Zenon DEF Listed
<1>8. OutAdding' = OutAdding BY <1>2, Zenon DEF OutAdding
<1> HIDE DEF k
<1>9. CASE conn[k].out
  <2>1. OutListed' = OutListed \ {k} /\ k \in OutListed
    BY <1>2, <1>7, <1>9, Zenon DEF OutListed
  <2>2. OutTaken' = OutTaken \cup {t} /\ t \notin OutTaken
    BY <1>2, <1>6, <1>9, Zenon DEF OutTaken
  <2>3. /\ Cardinality(OutListed') = Cardinality(OutListed) - 1
        /\ Cardinality(OutTaken') = Cardinality(OutTaken) + 1
    BY <2>1, <2>2, CountedFinite, FS_AddElement, FS_RemoveElement, Zenon
  <2> QED BY <1>2, <1>8, <2>3, CountIs, CountIsNext, CountedFinite, SMTT(60) DEF Shape, TypeOK
<1>10. CASE ~conn[k].out
  <2>1. OutListed' = OutListed
    BY <1>2, <1>7, <1>10, Zenon DEF OutListed
  <2>2. OutTaken' = OutTaken
    BY <1>2, <1>6, <1>10, Zenon DEF OutTaken
  <2> QED BY <1>2, <1>8, <2>1, <2>2, CountIs, CountIsNext, Zenon
<1> QED BY <1>9, <1>10, Zenon

\* A task lets go of the connection it took: the set of taken ones loses the task.
LEMMA ReleaseCount ==
    ASSUME Shape, IsFiniteSet(Opened), NEW t \in Tasks, taken[t] # None,
           taken' = [taken EXCEPT ![t] = None], conn' = conn
    PROVE  Cardinality(OutTaken') =
               IF conn[taken[t]].out THEN Cardinality(OutTaken) - 1 ELSE Cardinality(OutTaken)
<1>1. taken'[t] = None /\ \A u \in Tasks : u # t => taken'[u] = taken[u]
  BY Zenon DEF Shape, TypeOK
<1>2. OutTaken' = OutTaken \ {t}
  BY <1>1, Zenon DEF OutTaken
<1>3. t \in OutTaken <=> conn[taken[t]].out
  BY Zenon DEF OutTaken
<1> QED BY <1>2, <1>3, CountedFinite, FS_RemoveElement, Zenon

LEMMA SettleCount ==
    ASSUME Shape, IsFiniteSet(Opened), OutgoingCounts, NEW t \in Tasks, Settle(t)
    PROVE  OutgoingCounts'
<1>1. /\ taken[t] # None /\ taken' = [taken EXCEPT ![t] = None]
      /\ conn' = conn /\ peers' = peers /\ lost' = lost
      /\ outgoing' = IF conn[taken[t]].out THEN outgoing - 1 ELSE outgoing
  BY Zenon DEF Settle, Decremented
<1>2. OutListed' = OutListed /\ OutAdding' = OutAdding
  BY <1>1, Zenon DEF OutListed, OutAdding, Listed
<1>3. Cardinality(OutTaken') =
          IF conn[taken[t]].out THEN Cardinality(OutTaken) - 1 ELSE Cardinality(OutTaken)
  BY <1>1, ReleaseCount, Zenon
<1>4. /\ Cardinality(OutListed) \in Nat /\ Cardinality(OutAdding) \in Nat
      /\ Cardinality(OutTaken) \in Nat /\ outgoing \in Int /\ lost \in Nat
  BY CountedFinite, Zenon DEF Shape, TypeOK
<1>5. outgoing = Cardinality(OutListed) - Cardinality(OutAdding) + Cardinality(OutTaken) + lost
  BY CountIs, Zenon
<1>6. outgoing' = Cardinality(OutListed') - Cardinality(OutAdding') + Cardinality(OutTaken') + lost'
  BY <1>1, <1>2, <1>3, <1>4, <1>5, SMTT(60)
<1> QED BY <1>6, CountIsNext, Zenon

\* The read task drops a removal under way: the decrement is lost.
LEMMA ReadToldCount ==
    ASSUME Shape, IsFiniteSet(Opened), OutgoingCounts, NEW c \in Conns, ReadTold(c)
    PROVE  OutgoingCounts'
<1> DEFINE t == <<c, "r">>
           S == {k \in {taken[t]} \ {None} : conn[k].out}
<1>1. /\ taken' = [taken EXCEPT ![t] = None] /\ conn' = conn /\ peers' = peers
      /\ outgoing' = outgoing /\ lost' = lost + Cardinality(S)
  BY Zenon DEF ReadTold
<1>2. t \in Tasks BY TaskOf, Zenon
<1>3. OutListed' = OutListed /\ OutAdding' = OutAdding
  BY <1>1, Zenon DEF OutListed, OutAdding, Listed
<1>4. CASE taken[t] = None
  <2>1. Cardinality(S) = 0
    <3>1. S = {} BY <1>4, Zenon
    <3> QED BY <3>1, FS_EmptySet, Zenon
  <2>2. OutTaken' = OutTaken
    <3>1. taken' = taken BY <1>1, <1>4, Zenon DEF Shape, TypeOK
    <3> QED BY <1>1, <3>1, Zenon DEF OutTaken
  <2>3. lost' = lost BY <1>1, <2>1, SMTT(60) DEF Shape, TypeOK
  <2> QED BY <1>1, <1>3, <2>2, <2>3, CountIs, CountIsNext, Zenon
<1>5. CASE taken[t] # None
  <2>1. Cardinality(S) = IF conn[taken[t]].out THEN 1 ELSE 0
    <3>1. CASE conn[taken[t]].out
      <4>1. S = {taken[t]} BY <1>5, <3>1, Zenon
      <4> QED BY <3>1, <4>1, FS_Singleton, Zenon
    <3>2. CASE ~conn[taken[t]].out
      <4>1. S = {} BY <3>2, Zenon
      <4> QED BY <3>2, <4>1, FS_EmptySet, Zenon
    <3> QED BY <3>1, <3>2, Zenon
  <2> HIDE DEF t, S
  <2>2. Cardinality(OutTaken') =
            IF conn[taken[t]].out THEN Cardinality(OutTaken) - 1 ELSE Cardinality(OutTaken)
    BY <1>1, <1>2, <1>5, ReleaseCount, Zenon
  <2>3. /\ Cardinality(OutListed) \in Nat /\ Cardinality(OutAdding) \in Nat
        /\ Cardinality(OutTaken) \in Nat /\ outgoing \in Int /\ lost \in Nat
    BY CountedFinite, Zenon DEF Shape, TypeOK
  <2>4. outgoing = Cardinality(OutListed) - Cardinality(OutAdding) + Cardinality(OutTaken) + lost
    BY CountIs, Zenon
  <2>5. outgoing' =
            Cardinality(OutListed') - Cardinality(OutAdding') + Cardinality(OutTaken') + lost'
    BY <1>1, <1>3, <2>1, <2>2, <2>3, <2>4, SMTT(60)
  <2> QED BY <2>5, CountIsNext, Zenon
<1> QED BY <1>4, <1>5, Zenon

\* close_all drains the list without a decrement; the tasks are only told.
LEMMA DrainedStep ==
    ASSUME Shape, IsFiniteSet(Opened), OutgoingCounts, Drained, running' \in BOOLEAN,
           exits' \subseteq Tasks, commands' \in Nat,
           UNCHANGED <<conn, outgoing, write, read, taken>>
    PROVE  Shape' /\ OutgoingCounts'
<1>1. stored' \in [Ips -> Entries \cup {None}]
  <2>1. \A ip \in Ips : Updated(stored[ip]) \in Entries BY EntryTypes, Zenon DEF Shape, TypeOK
  <2> QED BY <2>1, Zenon DEF Drained, Shape, TypeOK
<1>2. /\ Cardinality(OutListed) \in Nat /\ Cardinality(OutAdding) \in Nat
      /\ Cardinality(OutTaken) \in Nat /\ outgoing \in Int /\ lost \in Nat
  BY CountedFinite, Zenon DEF Shape, TypeOK
<1>3. lost' = lost + Cardinality(OutListed) BY Zenon DEF Drained, OutListed
<1>4. TypeOK' BY <1>1, <1>2, <1>3, SMTT(60) DEF Drained, Shape, TypeOK
<1>5. \A d \in Ids : peers'[d] = None BY Zenon DEF Drained
<1>6. Shape'
  BY <1>4, <1>5, ServedShape, Zenon DEF Shape
<1>7. Listed' = {} BY <1>5, PeersAssumption, Zenon DEF Listed
<1>8. Cardinality(OutListed') = 0
  <2>1. OutListed' = {} BY <1>7, Zenon DEF OutListed
  <2> QED BY <2>1, FS_EmptySet, Zenon
<1>9. OutAdding' = OutAdding /\ OutTaken' = OutTaken BY Zenon DEF OutAdding, OutTaken
<1>10. outgoing = Cardinality(OutListed) - Cardinality(OutAdding) + Cardinality(OutTaken) + lost
  BY CountIs, Zenon
<1>11. outgoing' = Cardinality(OutListed') - Cardinality(OutAdding') + Cardinality(OutTaken')
                   + lost'
  BY <1>2, <1>3, <1>8, <1>9, <1>10, SMTT(60)
<1> QED BY <1>6, <1>11, CountIsNext, Zenon

LEMMA CloseStep ==
    ASSUME Shape, IsFiniteSet(Opened), OutgoingCounts, CloseAll \/ Stop
    PROVE  Shape' /\ OutgoingCounts'
<1>1. CASE CloseAll
  <2>1. Listed \in SUBSET Conns BY Zenon DEF Listed
  <2>2. exits' \subseteq Tasks BY <1>1, <2>1, SignalType, Zenon DEF CloseAll, Shape, TypeOK
  <2>3. running' \in BOOLEAN /\ commands' \in Nat
    BY <1>1, SMTT(60) DEF CloseAll, Command, Shape, TypeOK
  <2> QED BY <1>1, <2>2, <2>3, DrainedStep, Zenon DEF CloseAll
<1>2. CASE Stop
  <2> DEFINE S == {c \in Conns : conn[c].phase = "serving"}
  <2>1. S \in SUBSET Conns BY Zenon
  <2>2. exits' \subseteq Tasks BY <1>2, <2>1, SignalType, Zenon DEF Stop, Shape, TypeOK
  <2>3. running' \in BOOLEAN /\ commands' \in Nat BY <1>2, Zenon DEF Stop, Shape, TypeOK
  <2> QED BY <1>2, <2>2, <2>3, DrainedStep, Zenon DEF Stop
<1> QED BY <1>1, <1>2, Zenon

-----------------------------------------------------------------------------
(* The invariant                                                           *)

\* A step opens at most one connection.
LEMMA OpenedStep ==
    ASSUME IsFiniteSet(Opened), NEW c, \A k \in Conns : k # c => conn'[k] = conn[k]
    PROVE  IsFiniteSet(Opened')
<1>1. Opened' \in SUBSET (Opened \cup {c}) BY Zenon DEF Opened
<1>2. IsFiniteSet(Opened \cup {c}) BY FS_AddElement, Zenon
<1> QED BY <1>1, <1>2, FS_Subset, Zenon

LEMMA InvInit == Init => Inv
<1> SUFFICES ASSUME Init PROVE Inv BY Zenon
<1>1. TypeOK BY TypeInit, Zenon
<1>2. Listed = {} BY PeersAssumption, Zenon DEF Listed, Init
<1>3. Shape
  BY <1>1, <1>2, Zenon
     DEF Shape, ListedOnce, TasksWhenServing, TakenWasListed, GoneWithWriter, Init,
                    NoConn, Tasks
<1>4. Opened = {} /\ OutListed = {} /\ OutAdding = {} /\ OutTaken = {}
  BY <1>2, Zenon DEF Opened, OutListed, OutAdding, OutTaken, Init, NoConn
<1>5. IsFiniteSet(Opened) BY <1>4, FS_EmptySet, Zenon
<1>6. OutgoingCounts BY <1>4, FS_EmptySet, CountIs, SMTT(60) DEF Init
<1> QED BY <1>3, <1>5, <1>6, Zenon DEF Inv

\* One step per action.
LEMMA InvNext == Inv /\ [Next]_vars => Inv'
<1> SUFFICES ASSUME Inv, [Next]_vars PROVE Inv' BY Zenon
<1>0. Shape /\ IsFiniteSet(Opened) /\ OutgoingCounts /\ conn \in [Conns -> ConnStates]
  BY Zenon DEF Inv, Shape, TypeOK
<1>1. CASE UNCHANGED vars
  <2>1. Shape'
    BY <1>0, <1>1, Zenon DEF vars, Shape, TypeOK, ListedOnce, TasksWhenServing, TakenWasListed,
                      GoneWithWriter, Listed
  <2>2. IsFiniteSet(Opened)' BY <1>0, <1>1, Zenon DEF vars, Opened
  <2>3. OutgoingCounts' BY <1>0, <1>1, QuietCount, Zenon DEF vars
  <2> QED BY <2>1, <2>2, <2>3, Zenon DEF Inv
<1>2. ASSUME NEW c \in Conns, NEW ip \in Ips, Accept(c, ip) \/ Dial(c, ip) \/ DialPriority(c, ip)
      PROVE  Inv'
  <2>1. PICK out \in BOOLEAN, priority \in BOOLEAN :
           Start(c, ip, out, priority) /\ UNCHANGED <<running, list, tasks, stored, commands>>
    BY <1>2, Zenon DEF Accept, Dial, DialPriority
  <2>2. Shape' BY <1>0, <2>1, StartShape, Zenon
  <2>3. conn[c].phase = "free" /\ conn'[c].phase = "verifying"
        /\ \A k \in Conns : k # c => conn'[k] = conn[k]
    BY <1>0, <2>1, Zenon DEF Start
  <2>4. IsFiniteSet(Opened') BY <1>0, <2>3, OpenedStep, Zenon
  <2>5. OutgoingCounts' BY <1>0, <2>1, <2>3, QuietCount, Zenon DEF list, tasks
  <2> QED BY <2>2, <2>4, <2>5, Zenon DEF Inv
<1>3. ASSUME NEW c \in Conns, (\E d \in Announced[c] : Verified(c, d)) \/ NotVerified(c) \/ Refuse(c)
      PROVE  Inv'
  <2>1. Shape' BY <1>0, <1>3, VerifiedShape, NotVerifiedShape, RefuseShape, Zenon
  <2>2. /\ conn[c].phase \in {"verifying", "queued"} /\ conn'[c].phase \in {"queued", "closed"}
        /\ \A k \in Conns : k # c => conn'[k] = conn[k]
        /\ UNCHANGED <<peers, taken, outgoing, lost>>
    BY <1>0, <1>3, ClosedShape, SMTT(60) DEF Verified, NotVerified, Refuse, list, tasks, ConnStates
  <2>3. IsFiniteSet(Opened') BY <1>0, <2>2, OpenedStep, Zenon
  <2>4. OutgoingCounts' BY <1>0, <2>2, QuietCount, Zenon
  <2> QED BY <2>1, <2>3, <2>4, Zenon DEF Inv
<1>4. ASSUME NEW c \in Conns, AddPeer(c) PROVE Inv'
  <2>1. \A k \in Conns : k # c => conn'[k] = conn[k] BY <1>0, <1>4, Zenon DEF AddPeer
  <2> QED BY <1>0, <1>4, <2>1, AddPeerShape, AddPeerCount, OpenedStep, Zenon DEF Inv
<1>5. ASSUME NEW c \in Conns, Serve(c) PROVE Inv'
  <2>1. \A k \in Conns : k # c => conn'[k] = conn[k] BY <1>0, <1>5, Zenon DEF Serve
  <2> QED BY <1>0, <1>5, <2>1, ServeShape, ServeCount, OpenedStep, Zenon DEF Inv
<1>6. ASSUME NEW c \in Conns,
             StartWrite(c) \/ StartRead(c) \/ WriteTold(c) \/ WriteFails(c) \/ ReadFails(c) \/ Ban(c)
      PROVE  Inv'
  <2>1. Shape' BY <1>0, <1>6, TaskStepShape, Zenon
  <2>2. UNCHANGED <<conn, peers, taken, outgoing, lost>>
    BY <1>6, Zenon DEF StartWrite, StartRead, WriteTold, WriteFails, ReadFails, Ban, list
  <2>3. OutgoingCounts' BY <1>0, <2>2, QuietCount, Zenon
  <2>4. IsFiniteSet(Opened') BY <1>0, <2>2, Zenon DEF Opened
  <2> QED BY <2>1, <2>3, <2>4, Zenon DEF Inv
<1>7. ASSUME NEW c \in Conns, ReadTold(c) PROVE Inv'
  <2>1. IsFiniteSet(Opened') BY <1>0, <1>7, Zenon DEF ReadTold, Opened
  <2> QED BY <1>0, <1>7, <2>1, TaskStepShape, ReadToldCount, Zenon DEF Inv
<1>8. ASSUME NEW t \in Tasks, RemoveStep(t) PROVE Inv'
  <2>1. Shape' BY <1>0, <1>8, RemoveStepShape, Zenon
  <2>2. IsFiniteSet(Opened')
    BY <1>0, <1>8, Zenon DEF RemoveStep, Remove, RemoveNothing, Settle, Opened
  <2>3. OutgoingCounts'
    <3>1. CASE RemoveNothing(t) BY <1>0, <3>1, QuietCount, Zenon DEF RemoveNothing, list
    <3> QED BY <1>0, <1>8, <3>1, RemoveCount, SettleCount, Zenon DEF RemoveStep
  <2> QED BY <2>1, <2>2, <2>3, Zenon DEF Inv
<1>9. ASSUME \/ \E c \in Conns : Kick(c)
             \/ \E ip \in Ips : Blacklist(ip) \/ Whitelist(ip) \/ Graylist(ip) \/ TempBan(ip)
                                \/ StorePeerAddress(ip) \/ BanExpires(ip)
             \/ ClearPeerlist
      PROVE  Inv'
  <2>1. Shape' /\ UNCHANGED <<conn, peers, outgoing, lost, write, read, taken>>
    BY <1>0, <1>9, CommandShape, Zenon
  <2>2. IsFiniteSet(Opened') BY <1>0, <2>1, Zenon DEF Opened
  <2>3. OutgoingCounts' BY <1>0, <2>1, QuietCount, Zenon
  <2> QED BY <2>1, <2>2, <2>3, Zenon DEF Inv
<1>10. ASSUME CloseAll \/ Stop PROVE Inv'
  <2>1. IsFiniteSet(Opened') BY <1>0, <1>10, Zenon DEF CloseAll, Stop, Opened
  <2> QED BY <1>0, <1>10, <2>1, CloseStep, Zenon DEF Inv
<1> QED
  <2>1. ASSUME NEW c \in Conns, WriteTask(c) \/ ReadTask(c) PROVE Inv'
    BY <1>6, <1>7, <1>8, <2>1, TaskOf, Zenon DEF WriteTask, ReadTask
  <2> QED BY <1>1, <1>2, <1>3, <1>4, <1>5, <1>6, <1>9, <1>10, <2>1, Zenon DEF Next

LEMMA Invariance == Spec => []Inv
BY InvInit, InvNext, PTL DEF Spec

\* The peer list, its tasks and the stored peerlist are well formed in every state.
THEOREM TypeCorrect == Spec => []TypeOK
<1>1. Inv => TypeOK BY Zenon DEF Inv, Shape
<1> QED BY <1>1, Invariance, PTL

\* Whatever interleaving of connections, removals, dropped removals, commands and a
\* stop: outgoing_peers of PeerList is off the number of listed outgoing peers by the
\* steps under way and by the removals close_all and the read task lost, exactly.
THEOREM OutgoingExact == Spec => []OutgoingCounts
<1>1. Inv => OutgoingCounts BY Zenon DEF Inv
<1> QED BY <1>1, Invariance, PTL

\* No peer is left in the list once its write task has ended, even when the removal
\* by id met another connection with the same id.
THEOREM NoDeadPeerListed == Spec => []ListedIsServed
<1>1. Inv => ListedIsServed
  BY Zenon DEF Inv, Shape, GoneWithWriter, ListedIsServed, Listed
<1> QED BY <1>1, Invariance, PTL
=============================================================================
