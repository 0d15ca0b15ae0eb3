----------------------------- MODULE Connection -----------------------------
(***************************************************************************)
(* One TCP connection between two nodes (daemon/src/p2p/connection.rs,     *)
(* encryption.rs, and the tasks of p2p/mod.rs that drive it): the          *)
(* Diffie-Hellman exchange, the handshake, then packets encrypted under a  *)
(* symmetric key per direction, with an implicit nonce, that the sender    *)
(* replaces every ROTATE_EVERY_N_BYTES.                                    *)
(*                                                                         *)
(* Both ends run the same code; "out" opened the connection, "in" accepted *)
(* it.  TCP neither loses nor reorders, so each direction is a sequence.   *)
(* After the handshake an end runs three concurrent activities: the write  *)
(* task, read_peer_packet_task (reads and decrypts, then pushes into a     *)
(* bounded channel) and listen_connection (pops and handles).              *)
(***************************************************************************)
EXTENDS Naturals, Sequences, FiniteSetsExt

CONSTANTS
    RotateEvery,    \* ROTATE_EVERY_N_BYTES, counted in packets
    ChannelSize,    \* capacity of the channel between reader and handler (8)
    MaxData         \* bound: data packets an end sends

ASSUME ConnectionAssumption ==
    /\ RotateEvery \in Nat \ {0}
    /\ ChannelSize \in Nat \ {0}
    /\ MaxData \in Nat

Ends == {"out", "in"}
Other(e) == IF e = "out" THEN "in" ELSE "out"

VARIABLES
    state,      \* end -> State of the connection, with the waits of exchange_keys
    dh,         \* end -> [expected, action]: stored DH key and KeyVerificationAction
    accepts,    \* end -> does verify_handshake accept the other end's handshake
    our,        \* end -> our_cipher, NoCipher or [key, nonce]
    peer,       \* end -> peer_cipher
    ready,      \* end -> Encryption::ready
    wire,       \* end -> packets sent by the end and not yet read by the other
    encrypted,  \* end -> bytes_encrypted, in packets
    sent,       \* end -> number of data packets sent
    channel,    \* end -> packets read, waiting for listen_connection
    delivered,  \* end -> data packets handled, in order
    closed,     \* end -> the closed flag of its Connection
    failure     \* end -> why decryption failed: "none", "rotating", "other"

connVars == <<state, dh, accepts, our, peer, ready, wire, encrypted, sent,
              channel, delivered, closed, failure>>

NoCipher == [key |-> <<"none", 0>>, nonce |-> 0]
\* The shared secret: both ends derive it from their own and the peer's DH key.
Secret == <<"secret", 0>>
Keys == {Secret} \cup (Ends \X (1..(MaxData + 1)))

\* kind: "dh" (a raw DH key), "key" (a new encryption key), "handshake", "data".
\* value: what it carries; seal: the cipher state it was encrypted with.
Packet(kind, value, seal) == [kind |-> kind, value |-> value, seal |-> seal]

ConnInit ==
    /\ state = [e \in Ends |-> "Pending"]
    /\ dh \in [Ends -> [expected : {"none", "same", "other"},
                        action : {"Reject", "Ignore"}]]
    /\ accepts \in [Ends -> BOOLEAN]
    /\ our = [e \in Ends |-> NoCipher]
    /\ peer = [e \in Ends |-> NoCipher]
    /\ ready = [e \in Ends |-> FALSE]
    /\ wire = [e \in Ends |-> <<>>]
    /\ encrypted = [e \in Ends |-> 0]
    /\ sent = [e \in Ends |-> 0]
    /\ channel = [e \in Ends |-> <<>>]
    /\ delivered = [e \in Ends |-> <<>>]
    /\ closed = [e \in Ends |-> FALSE]
    /\ failure = [e \in Ends |-> "none"]

-----------------------------------------------------------------------------
(* Encryption.                                                             *)

\* Encryption::rotate_key for one side: a new cipher starts at nonce 0.
rotate_key(k) == [key |-> k, nonce |-> 0]

\* Encryption::encrypt_packet and decrypt_packet both step the nonce.
Stepped(c) == [c EXCEPT !.nonce = @ + 1]

\* Mutant of Decrypts: the nonce of the peer's cipher is not used.
DecryptsFirst(e, p) == p.seal = rotate_key(peer[e].key)

\* decrypt_packet succeeds exactly on the packet sealed with this cipher state.
Decrypts(e, p) == p.seal = peer[e]

\* rotate_key_packet: the number of the key the end generates next.
NextKey(e) == <<e, IF our[e].key \in Ends \X Nat THEN our[e].key[2] + 1 ELSE 1>>

-----------------------------------------------------------------------------
(* Key exchange and handshake: exchange_keys and verify_connection.        *)

\* exchange_keys sends our DH key, raw, before it waits for the peer's.
SendDhKey(e) ==
    /\ state[e] = "Pending" /\ ~closed[e]
    /\ wire' = [wire EXCEPT ![e] = Append(@, Packet("dh", e, NoCipher))]
    /\ state' = [state EXCEPT ![e] = "WaitDhKey"]
    /\ UNCHANGED <<dh, accepts, our, peer, ready, encrypted, sent, channel,
                   delivered, closed, failure>>

KeyRefused(e) == dh[e].expected = "other" /\ dh[e].action = "Reject"

\* The peer's DH key arrived: verify it, derive the secret, seal our new key with
\* the secret, switch to the new key and send it; from now on we encrypt.
ReceiveDhKey(e) ==
    /\ state[e] = "WaitDhKey" /\ ~closed[e]
    /\ wire[Other(e)] # <<>> /\ Head(wire[Other(e)]).kind = "dh"
    /\ ~KeyRefused(e)
    /\ LET k == NextKey(e)
       IN  /\ our' = [our EXCEPT ![e] = rotate_key(k)]
           /\ wire' = [wire EXCEPT ![e] = Append(@, Packet("key", k, rotate_key(Secret))),
                                   ![Other(e)] = Tail(@)]
    /\ peer' = [peer EXCEPT ![e] = rotate_key(Secret)]
    /\ ready' = [ready EXCEPT ![e] = TRUE]
    /\ encrypted' = [encrypted EXCEPT ![e] = 0]
    /\ state' = [state EXCEPT ![e] = "WaitKey"]
    /\ UNCHANGED <<dh, accepts, sent, channel, delivered, closed, failure>>

\* Mutant of KeySeal: the new key is sealed with itself.
KeySealNew(e) == rotate_key(NextKey(e))

\* generate_rotate_key_packet: the new key travels under the old one, behind the packet.
KeySeal(e) == Stepped(our[e])

\* Connection::send_bytes_internal with encryption ready: seal the packet, count
\* it, and once the count reaches the limit send the next key behind it, sealed
\* with the old one (rotate_key_packet), and switch to it.
SendSealed(e, kind, value) ==
    LET p == Packet(kind, value, our[e])
        k == NextKey(e)
    IN  IF encrypted[e] + 1 >= RotateEvery
        THEN /\ wire' = [wire EXCEPT ![e] = @ \o <<p, Packet("key", k, KeySeal(e))>>]
             /\ our' = [our EXCEPT ![e] = rotate_key(k)]
             /\ encrypted' = [encrypted EXCEPT ![e] = 0]
        ELSE /\ wire' = [wire EXCEPT ![e] = Append(@, p)]
             /\ our' = [our EXCEPT ![e] = Stepped(@)]
             /\ encrypted' = [encrypted EXCEPT ![e] = @ + 1]

\* The peer's encryption key arrived, sealed with the secret.  The exchange is
\* over: only now does the end that opened the connection send its handshake.
ReceiveKey(e) ==
    /\ state[e] = "WaitKey" /\ ~closed[e]
    /\ wire[Other(e)] # <<>> /\ Head(wire[Other(e)]).kind = "key"
    /\ Decrypts(e, Head(wire[Other(e)]))
    /\ peer' = [peer EXCEPT ![e] = rotate_key(Head(wire[Other(e)]).value)]
    /\ wire' = [wire EXCEPT ![Other(e)] = Tail(@)]
    /\ state' = [state EXCEPT ![e] = IF e = "out" THEN "SendHandshake" ELSE "Handshake"]
    /\ UNCHANGED <<dh, accepts, our, ready, encrypted, sent, channel, delivered,
                   closed, failure>>

\* send_handshake: "out" before it waits, "in" after it has verified the other's.
SendHandshake(e) ==
    /\ state[e] \in {"SendHandshake", "ReplyHandshake"} /\ ~closed[e]
    /\ SendSealed(e, "handshake", e)
    /\ state' = [state EXCEPT ![e] = IF @ = "SendHandshake" THEN "Handshake" ELSE "Success"]
    /\ UNCHANGED <<dh, accepts, peer, ready, sent, channel, delivered, closed, failure>>

\* Wait for the handshake packet and verify_handshake it.
ReceiveHandshake(e) ==
    /\ state[e] = "Handshake" /\ ~closed[e]
    /\ wire[Other(e)] # <<>> /\ Head(wire[Other(e)]).kind = "handshake"
    /\ Decrypts(e, Head(wire[Other(e)]))
    /\ accepts[e]
    /\ peer' = [peer EXCEPT ![e] = Stepped(@)]
    /\ wire' = [wire EXCEPT ![Other(e)] = Tail(@)]
    /\ state' = [state EXCEPT ![e] = IF e = "out" THEN "Success" ELSE "ReplyHandshake"]
    /\ UNCHANGED <<dh, accepts, our, ready, encrypted, sent, channel, delivered,
                   closed, failure>>

\* Mutant of VerificationFails: a wait has no timeout.
VerificationFailsNoTimeout(e) ==
    /\ state[e] \in {"WaitDhKey", "Handshake"} /\ ~closed[e]
    /\ wire[Other(e)] # <<>>
    /\ IF state[e] = "WaitDhKey" THEN KeyRefused(e) ELSE ~accepts[e]
    /\ closed' = [closed EXCEPT ![e] = TRUE]
    /\ UNCHANGED <<state, dh, accepts, our, peer, ready, wire, encrypted, sent,
                   channel, delivered, failure>>

\* create_verified_peer: an unexpected packet, a refused key or handshake, or the
\* timeout of a wait ends the attempt and closes the connection.
VerificationFails(e) ==
    /\ state[e] # "Success" /\ ~closed[e]
    /\ \/ state[e] = "WaitDhKey" /\ wire[Other(e)] # <<>> /\ KeyRefused(e)
       \/ state[e] = "Handshake" /\ wire[Other(e)] # <<>> /\ ~accepts[e]
       \/ /\ state[e] \in {"WaitDhKey", "WaitKey", "Handshake"}
          /\ wire[Other(e)] # <<>>
          /\ Head(wire[Other(e)]).kind # CASE state[e] = "WaitDhKey" -> "dh"
                                           [] state[e] = "WaitKey" -> "key"
                                           [] OTHER -> "handshake"
       \* PEER_TIMEOUT_INIT_CONNECTION, or the other end hung up
       \/ state[e] \in {"WaitDhKey", "WaitKey", "Handshake"} /\ wire[Other(e)] = <<>>
    /\ closed' = [closed EXCEPT ![e] = TRUE]
    /\ UNCHANGED <<state, dh, accepts, our, peer, ready, wire, encrypted, sent,
                   channel, delivered, failure>>

-----------------------------------------------------------------------------
(* The established connection.                                             *)

\* handle_connection_write_side: a packet of the peer's queue goes out.
WriteTask(e) ==
    /\ state[e] = "Success" /\ ~closed[e]
    /\ sent[e] < MaxData
    /\ SendSealed(e, "data", sent[e] + 1)
    /\ sent' = [sent EXCEPT ![e] = @ + 1]
    /\ UNCHANGED <<state, dh, accepts, peer, ready, channel, delivered, closed, failure>>

\* The channel between the reader and the handler is bounded.
Room(e) == Len(channel[e]) < ChannelSize

\* read_peer_packet_task: read, decrypt with the current peer cipher, hand over.
ReadTask(e) ==
    /\ state[e] = "Success" /\ ~closed[e]
    /\ wire[Other(e)] # <<>>
    /\ Room(e)
    /\ LET p == Head(wire[Other(e)])
       IN  IF Decrypts(e, p)
           THEN /\ peer' = [peer EXCEPT ![e] = Stepped(@)]
                /\ channel' = [channel EXCEPT ![e] = Append(@, p)]
                /\ UNCHANGED <<closed, failure>>
           ELSE /\ closed' = [closed EXCEPT ![e] = TRUE]
                /\ failure' = [failure EXCEPT ![e] =
                       IF \E i \in DOMAIN channel[e] : channel[e][i].kind = "key"
                       THEN "rotating" ELSE "other"]
                /\ UNCHANGED <<peer, channel>>
    /\ wire' = [wire EXCEPT ![Other(e)] = Tail(@)]
    /\ UNCHANGED <<state, dh, accepts, our, ready, encrypted, sent, delivered>>

\* Mutant of Handled: a packet behind another one of its kind is dropped.
HandledOnce(d, p) == IF p.kind = "data" /\ d = <<>> THEN Append(d, p.value) ELSE d

\* What has been handled, once the packet is.
Handled(d, p) == IF p.kind = "data" THEN Append(d, p.value) ELSE d

\* listen_connection and handle_incoming_packet: Packet::KeyExchange calls
\* rotate_peer_key; a second handshake closes the connection.
HandlePacket(e) ==
    /\ state[e] = "Success" /\ ~closed[e]
    /\ channel[e] # <<>>
    /\ LET p == Head(channel[e])
       IN  /\ peer' = IF p.kind = "key"
                      THEN [peer EXCEPT ![e] = rotate_key(p.value)] ELSE peer
           /\ delivered' = [delivered EXCEPT ![e] = Handled(@, p)]
           /\ closed' = IF p.kind = "handshake"
                        THEN [closed EXCEPT ![e] = TRUE] ELSE closed
    /\ channel' = [channel EXCEPT ![e] = Tail(@)]
    /\ UNCHANGED <<state, dh, accepts, our, ready, wire, encrypted, sent, failure>>

\* Connection::close by the write task (heartbeat, exit message, send timeout), or
\* reading from a stream the other end has shut down.
Close(e) ==
    /\ state[e] = "Success" /\ ~closed[e]
    /\ closed' = [closed EXCEPT ![e] = TRUE]
    /\ UNCHANGED <<state, dh, accepts, our, peer, ready, wire, encrypted, sent,
                   channel, delivered, failure>>

ConnNext ==
    \E e \in Ends :
        \/ SendDhKey(e) \/ ReceiveDhKey(e) \/ ReceiveKey(e) \/ SendHandshake(e)
        \/ ReceiveHandshake(e) \/ VerificationFails(e)
        \/ WriteTask(e) \/ ReadTask(e) \/ HandlePacket(e) \/ Close(e)

\* The waits of the exchange end by themselves (each has a timeout), and the
\* spawned tasks keep running; nobody has to close a connection or to send data.
ConnFairness ==
    \A e \in Ends :
        /\ WF_connVars(SendDhKey(e) \/ ReceiveDhKey(e) \/ ReceiveKey(e)
                       \/ SendHandshake(e) \/ ReceiveHandshake(e) \/ VerificationFails(e))
        /\ WF_connVars(ReadTask(e))
        /\ WF_connVars(HandlePacket(e))

ConnSpec == ConnInit /\ [][ConnNext]_connVars /\ ConnFairness
-----------------------------------------------------------------------------
(* Properties.                                                             *)

\* What the end has still to handle of the other's packets: first those already
\* decrypted and waiting in the channel, then those on the wire.
Backlog(e) == channel[e] \o wire[Other(e)]
KeysBefore(e, i) == {j \in 1..(i - 1) : Backlog(e)[j].kind = "key"}

\* The cipher state the end would have for the i-th packet of its backlog if it
\* handled every key before it read the packet behind it.
CipherFor(e, i) ==
    IF KeysBefore(e, i) = {}
    THEN [peer[e] EXCEPT !.nonce = @ + i - Len(channel[e]) - 1]
    ELSE LET j == Max(KeysBefore(e, i))
         IN  [key |-> Backlog(e)[j].value, nonce |-> i - j - 1]

\* The rotation protocol needs no acknowledgement: whatever rotations are in
\* flight, a reader that applies each new key before it reads on holds exactly the
\* key and the nonce of every packet under way, and after them the sender's own.
\* (generate_rotate_key_packet, rotate_peer_key, and the nonces that neither end
\* transmits.)
RotationInStep ==
    \A e \in Ends :
        ready[Other(e)] /\ ~closed[e] /\ state[e] \notin {"Pending", "WaitDhKey"} =>
            /\ \A i \in (Len(channel[e]) + 1)..Len(Backlog(e)) :
                   Backlog(e)[i].seal = CipherFor(e, i)
            /\ our[Other(e)] = CipherFor(e, Len(Backlog(e)) + 1)

\* A packet fails to decrypt only while a key the reader task has read still waits
\* for listen_connection to apply it: no other interleaving of the two write paths,
\* the exchange and the handshake brings the ciphers apart.
FailsOnlyInRotation == \A e \in Ends : failure[e] # "other"

\* Neither end is left in the exchange: though both send before they read, every
\* attempt ends in an established or a closed connection.
HandshakeEnds == \A e \in Ends : <>(state[e] = "Success" \/ closed[e])

\* A packet sent on an established connection is handled, or one of the ends closes.
EventuallyHandled ==
    \A e \in Ends : \A n \in 1..MaxData :
        sent[e] = n ~> \/ Len(delivered[Other(e)]) >= n
                      \/ closed["out"] \/ closed["in"]
=============================================================================
