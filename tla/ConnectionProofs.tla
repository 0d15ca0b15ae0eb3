-------------------------- MODULE ConnectionProofs --------------------------
(***************************************************************************)
(* Proofs about the encrypted connection of two nodes, for any rotation    *)
(* interval, channel size and number of packets: a reader that applies     *)
(* each new key before it reads on is in step with the sender, and no      *)
(* packet fails to decrypt but behind a key that waits to be applied.      *)
(*                                                                         *)
(* The runs state the first with the last key before a packet.  Here each  *)
(* packet is related to the one before it instead, which the steps of the  *)
(* two ends preserve one at a time, and the other form is derived.         *)
(***************************************************************************)
EXTENDS Connection, WellFoundedInduction, TLAPS

KeyNames == {Secret, NoCipher.key} \cup (Ends \X Nat)
Ciphers == [key : KeyNames, nonce : Nat]
Packets ==
    [kind : {"dh", "key", "handshake", "data"}, value : Ends \cup KeyNames \cup Nat, seal : Ciphers]

TypeOK ==
    /\ state \in [Ends -> {"Pending", "WaitDhKey", "WaitKey", "SendHandshake", "ReplyHandshake",
                           "Handshake", "Success"}]
    /\ our \in [Ends -> Ciphers] /\ peer \in [Ends -> Ciphers]
    /\ ready \in [Ends -> BOOLEAN] /\ closed \in [Ends -> BOOLEAN]
    /\ wire \in [Ends -> Seq(Packets)] /\ channel \in [Ends -> Seq(Packets)]
    /\ encrypted \in [Ends -> Nat] /\ sent \in [Ends -> Nat]
    /\ failure \in [Ends -> {"none", "rotating", "other"}]

\* The end has not received the other's DH key yet.
Before(e) == state[e] \in {"Pending", "WaitDhKey"}

\* The cipher the end has, or will have, for the first sealed packet of the other, and
\* what is on the wire from that packet on.
Receiving(e) == IF Before(e) THEN rotate_key(Secret) ELSE peer[e]
Sealed(e) ==
    IF Before(e) /\ wire[Other(e)] # <<>> THEN Tail(wire[Other(e)]) ELSE wire[Other(e)]

\* The cipher of the packet that follows p.
After(p) == IF p.kind = "key" THEN rotate_key(p.value) ELSE Stepped(p.seal)

\* The cipher of the first packet behind the channel ch, with c in use: a key that
\* waits in the channel is the last packet of it.
Current(ch, c) ==
    IF ch # <<>> /\ ch[Len(ch)].kind = "key" THEN rotate_key(ch[Len(ch)].value) ELSE c

KeyIsNew(p, k) == p.kind = "key" => p.value \in KeyNames /\ p.value # k

\* Each packet of w is sealed with the cipher that the one before it leaves, and s is
\* the one the last leaves.
Chained(ch, w, c, s) ==
    /\ \A j \in DOMAIN ch : j # Len(ch) => ch[j].kind # "key"
    /\ \A j \in DOMAIN ch : KeyIsNew(ch[j], c.key)
    /\ \A j \in DOMAIN w : KeyIsNew(w[j], w[j].seal.key)
    /\ w = <<>> => s = Current(ch, c)
    /\ w # <<>> => w[1].seal = Current(ch, c) /\ s = After(w[Len(w)])
    /\ \A j \in DOMAIN w : j + 1 \in DOMAIN w => w[j + 1].seal = After(w[j])

\* How far the two ends are in the exchange.
Exchange(e) ==
    /\ ready[e] <=> ~Before(e)
    /\ state[e] = "Pending" => wire[e] = <<>>
    /\ Before(e) /\ state[Other(e)] # "Pending" =>
          wire[Other(e)] # <<>> /\ wire[Other(e)][1].kind = "dh"
    /\ ~Before(e) => state[Other(e)] # "Pending"
    /\ Before(Other(e)) =>
          /\ state[e] \in {"Pending", "WaitDhKey", "WaitKey"}
          /\ Sealed(e) = <<>> /\ (~Before(e) => peer[e] = rotate_key(Secret))
    /\ state[e] # "Success" => channel[e] = <<>>

InStep(e) ==
    ready[Other(e)] /\ ~closed[e] => Chained(channel[e], Sealed(e), Receiving(e), our[Other(e)])

\* The inductive invariant.
Inv == TypeOK /\ FailsOnlyInRotation /\ \A e \in Ends : Exchange(e) /\ InStep(e)

-----------------------------------------------------------------------------
(* Sequences and chains of packets                                         *)

LEMMA TailIs ==
    ASSUME NEW S, NEW s \in Seq(S), s # <<>>
    PROVE  /\ Tail(s) \in Seq(S) /\ Len(s) \in Nat /\ Len(s) = Len(Tail(s)) + 1 /\ Len(Tail(s)) \in Nat
           /\ DOMAIN s = 1..Len(s) /\ DOMAIN Tail(s) = 1..(Len(s) - 1)
           /\ Head(s) = s[1] /\ Head(s) \in S
           /\ \A j \in DOMAIN Tail(s) : Tail(s)[j] = s[j + 1]
           /\ Tail(s) = <<>> <=> Len(s) = 1
<1>1. Len(s) \in Nat /\ Len(s) > 0 BY SMTT(60)
<1>2. Tail(s) \in Seq(S) /\ Len(Tail(s)) = Len(s) - 1 BY <1>1, SMTT(60)
<1>3. DOMAIN Tail(s) = 1..(Len(s) - 1) /\ DOMAIN s = 1..Len(s) BY <1>1, <1>2, SMTT(60)
<1>4. \A j \in 1..(Len(s) - 1) : Tail(s)[j] = s[j + 1] BY <1>1, SMTT(60)
<1>5. Head(s) = s[1] /\ Head(s) \in S BY <1>1, <1>3, SMTT(60)
<1>6. Tail(s) = <<>> <=> Len(s) = 1
  <2>1. \A t \in Seq(S) : t = <<>> <=> Len(t) = 0 BY SMTT(60)
  <2>2. Tail(s) = <<>> <=> Len(Tail(s)) = 0 BY <1>2, <2>1, Zenon
  <2>3. Len(s) - 1 = 0 <=> Len(s) = 1 BY <1>1, SMTT(60)
  <2> QED BY <1>2, <2>2, <2>3, Zenon
<1> QED BY <1>1, <1>2, <1>3, <1>4, <1>5, <1>6, SMTT(60)

LEMMA AppendIs ==
    ASSUME NEW S, NEW s \in Seq(S), NEW e \in S
    PROVE  /\ Append(s, e) \in Seq(S) /\ Len(Append(s, e)) = Len(s) + 1 /\ Len(s) \in Nat
           /\ DOMAIN Append(s, e) = 1..(Len(s) + 1) /\ DOMAIN s = 1..Len(s)
           /\ Append(s, e)[Len(s) + 1] = e
           /\ \A j \in DOMAIN s : Append(s, e)[j] = s[j]
           /\ Append(s, e) # <<>>
<1>1. Append(s, e) \in Seq(S) /\ Len(Append(s, e)) = Len(s) + 1 /\ Len(s) \in Nat BY SMTT(60)
<1>2. DOMAIN Append(s, e) = 1..(Len(s) + 1) /\ DOMAIN s = 1..Len(s) BY <1>1, SMTT(60)
<1>3. \A j \in 1..Len(s) : Append(s, e)[j] = s[j] BY SMTT(60)
<1>4. Append(s, e)[Len(s) + 1] = e BY SMTT(60)
<1> QED BY <1>1, <1>2, <1>3, <1>4, SMTT(60)

LEMMA SteppedIs ==
    ASSUME NEW c \in Ciphers
    PROVE  /\ Stepped(c) \in Ciphers /\ Stepped(c).key = c.key /\ Stepped(c).nonce = c.nonce + 1
           /\ c.key \in KeyNames /\ c.nonce \in Nat
  BY SMTT(60) DEF Stepped, Ciphers

LEMMA RotatedIs ==
    ASSUME NEW k \in KeyNames
    PROVE  rotate_key(k) \in Ciphers /\ rotate_key(k).key = k /\ rotate_key(k).nonce = 0
  BY Zenon DEF rotate_key, Ciphers

LEMMA PacketIs ==
    ASSUME NEW p \in Packets
    PROVE  p.seal \in Ciphers /\ p.kind \in {"dh", "key", "handshake", "data"}
  BY Zenon DEF Packets

LEMMA AfterIs ==
    ASSUME NEW p \in Packets, NEW k, KeyIsNew(p, k)
    PROVE  /\ After(p) \in Ciphers
           /\ p.kind = "key" => After(p) = rotate_key(p.value)
           /\ p.kind # "key" => After(p) = Stepped(p.seal)
<1>1. p.seal \in Ciphers BY PacketIs, Zenon
<1>2. CASE p.kind = "key" BY <1>2, RotatedIs, Zenon DEF After, KeyIsNew
<1>3. CASE p.kind # "key" BY <1>1, <1>3, SteppedIs, Zenon DEF After
<1> QED BY <1>2, <1>3, Zenon

\* A packet is sent.
LEMMA ChainSend ==
    ASSUME NEW ch \in Seq(Packets), NEW w \in Seq(Packets), NEW c \in Ciphers, NEW s \in Ciphers,
           NEW p \in Packets, Chained(ch, w, c, s), p.seal = s, KeyIsNew(p, s.key)
    PROVE  Chained(ch, Append(w, p), c, After(p))
<1> DEFINE v == Append(w, p)
<1>1. /\ v \in Seq(Packets) /\ Len(v) = Len(w) + 1 /\ Len(w) \in Nat /\ v # <<>>
      /\ DOMAIN v = 1..(Len(w) + 1) /\ DOMAIN w = 1..Len(w) /\ v[Len(w) + 1] = p
      /\ \A j \in DOMAIN w : v[j] = w[j]
  BY AppendIs, SMTT(60)
<1> HIDE DEF v
<1>2. \A j \in DOMAIN v : KeyIsNew(v[j], v[j].seal.key) BY <1>1, SMTT(60) DEF Chained
<1>3. v[1].seal = Current(ch, c)
  <2>1. CASE w = <<>>
    <3>1. Len(w) = 0 BY <2>1, Zenon
    <3> QED BY <1>1, <2>1, <3>1, SMTT(60) DEF Chained
  <2>2. CASE w # <<>>
    <3>1. 1 \in DOMAIN w BY <1>1, <2>2, SMTT(60)
    <3> QED BY <1>1, <2>2, <3>1, Zenon DEF Chained
  <2> QED BY <2>1, <2>2, Zenon
<1>4. ASSUME NEW j \in DOMAIN v, j + 1 \in DOMAIN v PROVE v[j + 1].seal = After(v[j])
  <2>1. j \in DOMAIN w BY <1>1, <1>4, SMTT(60)
  <2>2. CASE j + 1 \in DOMAIN w BY <1>1, <2>1, <2>2, Zenon DEF Chained
  <2>3. CASE j + 1 \notin DOMAIN w
    <3>1. j = Len(w) /\ w # <<>> BY <1>1, <2>1, <2>3, SMTT(60)
    <3> QED BY <1>1, <2>1, <3>1, Zenon DEF Chained
  <2> QED BY <2>2, <2>3, Zenon
<1>5. After(p) = After(v[Len(v)]) BY <1>1, Zenon
<1>6. Chained(ch, v, c, After(p)) BY <1>1, <1>2, <1>3, <1>4, <1>5, Zenon DEF Chained
<1> QED BY <1>6, Zenon DEF v

\* A packet is read and decrypted, into the channel.
LEMMA ChainRead ==
    ASSUME NEW ch \in Seq(Packets), NEW w \in Seq(Packets), NEW c \in Ciphers, NEW s \in Ciphers,
           Chained(ch, w, c, s), w # <<>>, Head(w).seal = c
    PROVE  Chained(Append(ch, Head(w)), Tail(w), Stepped(c), s)
<1> DEFINE p == Head(w)
           d == Append(ch, p)
           v == Tail(w)
<1>1. /\ v \in Seq(Packets) /\ Len(w) \in Nat /\ Len(w) = Len(v) + 1 /\ Len(v) \in Nat
      /\ DOMAIN w = 1..Len(w) /\ DOMAIN v = 1..(Len(w) - 1) /\ p = w[1] /\ p \in Packets
      /\ \A j \in DOMAIN v : v[j] = w[j + 1]
      /\ v = <<>> <=> Len(w) = 1
  BY TailIs, Zenon
<1>2. /\ d \in Seq(Packets) /\ Len(d) = Len(ch) + 1 /\ Len(ch) \in Nat /\ d # <<>>
      /\ DOMAIN d = 1..(Len(ch) + 1) /\ DOMAIN ch = 1..Len(ch) /\ d[Len(ch) + 1] = p
      /\ \A j \in DOMAIN ch : d[j] = ch[j]
  BY <1>1, AppendIs, SMTT(60)
<1>3. p.seal = c /\ KeyIsNew(p, c.key) /\ w[1].seal = Current(ch, c)
  BY <1>1, SMTT(60) DEF Chained
<1>4. ch # <<>> => ch[Len(ch)].kind # "key"
  <2> SUFFICES ASSUME ch # <<>>, ch[Len(ch)].kind = "key" PROVE FALSE BY Zenon
  <2>1. c = rotate_key(ch[Len(ch)].value) BY <1>1, <1>3, Zenon DEF Current
  <2>2. Len(ch) \in DOMAIN ch BY <1>2, SMTT(60)
  <2>3. ch[Len(ch)].value # c.key BY <2>2, Zenon DEF Chained, KeyIsNew
  <2> QED BY <2>1, <2>3, SMTT(60) DEF rotate_key
<1> HIDE DEF p, d, v
<1>5. \A j \in DOMAIN d : j # Len(d) => d[j].kind # "key"
  BY <1>2, <1>4, SMTT(60) DEF Chained
<1>6. \A j \in DOMAIN d : KeyIsNew(d[j], Stepped(c).key)
  <2>1. Stepped(c).key = c.key BY SteppedIs, Zenon
  <2> QED BY <1>2, <1>3, <2>1, SMTT(60) DEF Chained
<1>7. \A j \in DOMAIN v : KeyIsNew(v[j], v[j].seal.key) BY <1>1, SMTT(60) DEF Chained
<1>8. Current(d, Stepped(c)) = After(p)
  BY <1>2, <1>3, Zenon DEF Current, After
<1>9. v = <<>> => s = After(p) BY <1>1, Zenon DEF Chained
<1>10. v # <<>> => v[1].seal = After(p) /\ s = After(v[Len(v)])
  <2> SUFFICES ASSUME v # <<>> PROVE v[1].seal = After(p) /\ s = After(v[Len(v)]) BY Zenon
  <2>1. 1 \in DOMAIN v /\ Len(v) \in DOMAIN v /\ 1 \in DOMAIN w /\ 1 + 1 \in DOMAIN w BY <1>1, SMTT(60)
  <2>2. v[1] = w[1 + 1] /\ v[Len(v)] = w[Len(w)] BY <1>1, <2>1, Zenon
  <2> QED BY <1>1, <2>1, <2>2, Zenon DEF Chained
<1>11. \A j \in DOMAIN v : j + 1 \in DOMAIN v => v[j + 1].seal = After(v[j])
  BY <1>1, SMTT(60) DEF Chained
<1>12. Chained(d, v, Stepped(c), s)
  BY <1>5, <1>6, <1>7, <1>8, <1>9, <1>10, <1>11, Zenon DEF Chained
<1> QED BY <1>12, Zenon DEF d, v, p

\* A packet of the channel is handled, and a key among them applied.
LEMMA ChainHandle ==
    ASSUME NEW ch \in Seq(Packets), NEW w \in Seq(Packets), NEW c \in Ciphers, NEW s \in Ciphers,
           Chained(ch, w, c, s), ch # <<>>
    PROVE  LET p == Head(ch)
           IN  Chained(Tail(ch), w, IF p.kind = "key" THEN rotate_key(p.value) ELSE c, s)
<1> DEFINE p == Head(ch)
           d == Tail(ch)
           k == IF p.kind = "key" THEN rotate_key(p.value) ELSE c
<1>1. /\ d \in Seq(Packets) /\ Len(ch) \in Nat /\ Len(ch) = Len(d) + 1 /\ Len(d) \in Nat
      /\ DOMAIN ch = 1..Len(ch) /\ DOMAIN d = 1..(Len(ch) - 1) /\ p = ch[1] /\ p \in Packets
      /\ \A j \in DOMAIN d : d[j] = ch[j + 1]
      /\ d = <<>> <=> Len(ch) = 1
  BY TailIs, Zenon
<1> HIDE DEF p, d
<1>2. p.kind = "key" => d = <<>> BY <1>1, SMTT(60) DEF Chained
<1>3. \A j \in DOMAIN d : j # Len(d) => d[j].kind # "key" BY <1>1, SMTT(60) DEF Chained
<1>4. \A j \in DOMAIN d : KeyIsNew(d[j], k.key)
  <2>1. CASE p.kind = "key"
    <3>1. DOMAIN d = {} BY <1>1, <1>2, <2>1, SMTT(60)
    <3> QED BY <3>1, Zenon
  <2>2. CASE p.kind # "key" BY <1>1, <2>2, SMTT(60) DEF Chained
  <2> QED BY <2>1, <2>2, Zenon
<1>5. Current(d, k) = Current(ch, c)
  <2>1. CASE d = <<>> BY <1>1, <2>1, Zenon DEF Current
  <2>2. CASE d # <<>>
    <3>1. Len(d) \in DOMAIN d BY <1>1, <2>2, SMTT(60)
    <3>2. d[Len(d)] = ch[Len(ch)] BY <1>1, <3>1, Zenon
    <3> QED BY <1>2, <2>2, <3>2, Zenon DEF Current
  <2> QED BY <2>1, <2>2, Zenon
<1> HIDE DEF k
<1>6. Chained(d, w, k, s) BY <1>3, <1>4, <1>5, Zenon DEF Chained
<1> QED BY <1>6, Zenon DEF d, k, p

\* Both at once, for the packets that the exchange waits for.
LEMMA ChainTake ==
    ASSUME NEW w \in Seq(Packets), NEW c \in Ciphers, NEW s \in Ciphers,
           Chained(<<>>, w, c, s), w # <<>>, Head(w).seal = c
    PROVE  LET p == Head(w)
           IN  Chained(<<>>, Tail(w), IF p.kind = "key" THEN rotate_key(p.value) ELSE Stepped(c), s)
<1> DEFINE p == Head(w)
           ch == Append(<<>>, p)
<1>1. <<>> \in Seq(Packets) BY SMTT(60)
<1>2. Tail(w) \in Seq(Packets) /\ p \in Packets BY TailIs, Zenon
<1>3. Chained(ch, Tail(w), Stepped(c), s) BY <1>1, ChainRead, Zenon
<1>4. Stepped(c) \in Ciphers BY SteppedIs, Zenon
<1>5. ch \in Seq(Packets) /\ ch # <<>> /\ Head(ch) = p /\ Tail(ch) = <<>> BY <1>2, SMTT(60)
<1> HIDE DEF p, ch
<1>6. Chained(Tail(ch), Tail(w), IF Head(ch).kind = "key" THEN rotate_key(Head(ch).value)
                                 ELSE Stepped(c), s)
  BY <1>2, <1>3, <1>4, <1>5, ChainHandle, Zenon
<1> QED BY <1>5, <1>6, Zenon DEF p

-----------------------------------------------------------------------------
(* The steps                                                               *)

LEMMA OtherIs ==
    ASSUME NEW e \in Ends
    PROVE  /\ Other(e) \in Ends /\ Other(e) # e /\ Other(Other(e)) = e
           /\ \A x \in Ends : x = e \/ x = Other(e)
  BY Zenon DEF Ends, Other

LEMMA NamesAre == NoCipher \in Ciphers /\ Secret \in KeyNames
  BY Zenon DEF NoCipher, Ciphers, KeyNames

\* The key an end generates is neither the one in use nor the shared secret.
LEMMA NextKeyIs ==
    ASSUME TypeOK, NEW e \in Ends
    PROVE  NextKey(e) \in KeyNames /\ NextKey(e) # our[e].key /\ NextKey(e) # Secret
<1>1. our[e].key \in KeyNames BY SteppedIs, Zenon DEF TypeOK
<1>2. CASE our[e].key \in Ends \X Nat
  <2>1. PICK x \in Ends, n \in Nat : our[e].key = <<x, n>> BY <1>2, SMTT(60)
  <2>2. NextKey(e) = <<e, n + 1>> BY <1>2, <2>1, SMTT(60) DEF NextKey
  <2> QED BY <2>1, <2>2, SMTT(60) DEF KeyNames, Secret, Ends
<1>3. CASE our[e].key \notin Ends \X Nat
  <2>1. NextKey(e) = <<e, 1>> BY <1>3, Zenon DEF NextKey
  <2> QED BY <1>3, <2>1, SMTT(60) DEF KeyNames, Secret, Ends
<1> QED BY <1>2, <1>3, Zenon

LEMMA InitInv == ConnInit => Inv
<1> SUFFICES ASSUME ConnInit PROVE Inv BY Zenon
<1> USE DEF ConnInit
<1>1. TypeOK BY NamesAre, SMTT(60) DEF TypeOK
<1>2. FailsOnlyInRotation BY Zenon DEF FailsOnlyInRotation
<1>3. ASSUME NEW e \in Ends PROVE Exchange(e) /\ InStep(e)
  BY <1>3, OtherIs, Zenon DEF Exchange, InStep, Before, Sealed
<1> QED BY <1>1, <1>2, <1>3, Zenon DEF Inv

\* An end closes, and nothing else happens.
LEMMA CloseStep ==
    ASSUME Inv, UNCHANGED <<state, our, peer, ready, wire, encrypted, sent, channel, failure>>,
           closed' \in [Ends -> BOOLEAN], \A x \in Ends : closed[x] => closed'[x]
    PROVE  Inv'
<1>1. TypeOK' BY Zenon DEF Inv, TypeOK
<1>2. FailsOnlyInRotation' BY Zenon DEF Inv, FailsOnlyInRotation
<1>3. ASSUME NEW e \in Ends PROVE Exchange(e)' /\ InStep(e)'
  <2>1. Exchange(e) /\ InStep(e) BY Zenon DEF Inv
  <2> QED BY <1>3, <2>1, OtherIs, Zenon DEF Exchange, InStep, Before, Sealed, Receiving
<1> QED BY <1>1, <1>2, <1>3, Zenon DEF Inv

LEMMA SendDhKeyInv ==
    ASSUME Inv, NEW e \in Ends, SendDhKey(e)
    PROVE  Inv'
<1> DEFINE o == Other(e)
           p == Packet("dh", e, NoCipher)
<1>1. o \in Ends /\ o # e /\ Other(o) = e /\ \A x \in Ends : x = e \/ x = o BY OtherIs, Zenon
<1>2. TypeOK /\ Exchange(e) /\ Exchange(o) /\ InStep(e) BY <1>1, Zenon DEF Inv
<1>3. p \in Packets /\ p.kind = "dh" BY NamesAre, Zenon DEF Packet, Packets
<1> HIDE DEF o, p
<1>4. state[e] = "Pending" /\ wire[e] = <<>> /\ Before(e) /\ ~ready[e] /\ Before(o)
  BY <1>1, <1>2, Zenon DEF SendDhKey, Exchange, Before
<1>5. /\ wire'[e] = Append(<<>>, p) /\ wire'[o] = wire[o] /\ wire' \in [Ends -> Seq(Packets)]
      /\ state'[e] = "WaitDhKey" /\ state'[o] = state[o]
      /\ UNCHANGED <<our, peer, ready, encrypted, sent, channel, closed, failure>>
  BY <1>1, <1>2, <1>3, <1>4, SMTT(60) DEF SendDhKey, TypeOK, p
<1>6. wire'[e] # <<>> /\ wire'[e][1] = p /\ Tail(wire'[e]) = <<>> BY <1>3, <1>5, SMTT(60)
<1>7. TypeOK'
  <2>1. state' \in [Ends -> {"Pending", "WaitDhKey", "WaitKey", "SendHandshake", "ReplyHandshake",
                             "Handshake", "Success"}]
    BY <1>2, Zenon DEF TypeOK, SendDhKey
  <2> QED BY <1>2, <1>5, <2>1, Zenon DEF TypeOK
<1>8. FailsOnlyInRotation' BY <1>5, Zenon DEF Inv, FailsOnlyInRotation
<1>9. Exchange(e)' /\ InStep(e)'
  <2>1. Other(e) = o BY Zenon DEF o
  <2>2. Before(e)' /\ (Before(o)' <=> Before(o)) BY <1>5, Zenon DEF Before
  <2>3. Sealed(e)' = Sealed(e) /\ Receiving(e)' = Receiving(e)
    BY <1>4, <1>5, <2>1, <2>2, Zenon DEF Sealed, Receiving
  <2>4. Exchange(e)' BY <1>2, <1>4, <1>5, <2>1, <2>2, <2>3, Zenon DEF Exchange
  <2> QED BY <1>2, <1>5, <2>1, <2>3, <2>4, Zenon DEF InStep
<1>10. Exchange(o)' /\ InStep(o)'
  <2>1. Before(e)' /\ Before(o)' BY <1>4, <1>5, Zenon DEF Before
  <2>2. Sealed(o)' = <<>> BY <1>1, <1>6, <2>1, Zenon DEF Sealed
  <2>3. Exchange(o)' BY <1>1, <1>2, <1>3, <1>4, <1>5, <1>6, <2>1, <2>2, Zenon DEF Exchange, Before
  <2> QED BY <1>1, <1>4, <1>5, <2>3, Zenon DEF InStep
<1> QED BY <1>1, <1>7, <1>8, <1>9, <1>10, Zenon DEF Inv

\* The second packet of an end, behind a DH key that has not been read or in front of
\* nothing.
LEMMA BehindDhKey ==
    ASSUME NEW w \in Seq(Packets), NEW p \in Packets
    PROVE  /\ w = <<>> => Append(w, p) = Append(<<>>, p)
           /\ w # <<>> /\ Tail(w) = <<>> =>
                 Append(w, p)[1] = w[1] /\ Tail(Append(w, p)) = Append(<<>>, p)
<1>1. CASE w = <<>> BY <1>1, Zenon
<1>2. CASE w # <<>> /\ Tail(w) = <<>>
  <2>1. Len(w) = 1 BY <1>2, TailIs, Zenon
  <2> DEFINE s == Append(w, p)
             t == Tail(s)
  <2>2. /\ s \in Seq(Packets) /\ s # <<>> /\ Len(s) = 2 /\ s[1] = w[1] /\ s[2] = p
    BY <2>1, AppendIs, SMTT(60)
  <2> HIDE DEF s
  <2>3. t \in Seq(Packets) /\ Len(t) = 1 /\ t[1] = p
    <3>1. t \in Seq(Packets) /\ 2 = Len(t) + 1 /\ Len(t) \in Nat /\ DOMAIN t = 1..(2 - 1)
          /\ \A j \in DOMAIN t : t[j] = s[j + 1]
      BY <2>2, TailIs, Zenon
    <3> HIDE DEF t
    <3>2. Len(t) = 1 /\ 1 \in DOMAIN t BY <3>1, SMTT(60)
    <3>3. t[1] = s[1 + 1] BY <3>1, <3>2, Zenon
    <3> QED BY <2>2, <3>1, <3>2, <3>3, Zenon
  <2> HIDE DEF t
  <2>4. t = <<p>> BY <2>3, SMTT(60)
  <2> QED BY <1>2, <2>2, <2>4, SMTT(60) DEF s, t
<1> QED BY <1>1, <1>2, Zenon

LEMMA ReceiveDhKeyInv ==
    ASSUME Inv, NEW e \in Ends, ReceiveDhKey(e)
    PROVE  Inv'
<1> DEFINE o == Other(e)
           k == NextKey(e)
           p == Packet("key", k, rotate_key(Secret))
<1>1. o \in Ends /\ o # e /\ Other(o) = e /\ \A x \in Ends : x = e \/ x = o BY OtherIs, Zenon
<1>2. TypeOK /\ Exchange(e) /\ Exchange(o) /\ InStep(e) BY <1>1, Zenon DEF Inv
<1>3. k \in KeyNames /\ k # our[e].key /\ k # Secret BY <1>2, NextKeyIs, Zenon
<1>4. rotate_key(k) \in Ciphers /\ rotate_key(Secret) \in Ciphers /\ rotate_key(Secret).key = Secret
  BY <1>3, RotatedIs, NamesAre, Zenon
<1>5. /\ p \in Packets /\ p.seal = rotate_key(Secret) /\ KeyIsNew(p, Secret) /\ p.kind = "key"
      /\ After(p) = rotate_key(k)
  BY <1>3, <1>4, Zenon DEF Packet, Packets, KeyIsNew, After
<1>6. state[e] = "WaitDhKey" /\ Before(e) /\ wire[o] # <<>> BY Zenon DEF ReceiveDhKey, Before, o
<1>7. /\ our'[e] = rotate_key(k) /\ our'[o] = our[o] /\ peer'[e] = rotate_key(Secret) /\ peer'[o] = peer[o]
      /\ wire'[e] = Append(wire[e], p) /\ wire'[o] = Tail(wire[o])
      /\ ready'[e] /\ ready'[o] = ready[o] /\ state'[e] = "WaitKey" /\ state'[o] = state[o]
      /\ UNCHANGED <<sent, channel, closed, failure>>
  BY <1>1, <1>2, Zenon DEF ReceiveDhKey, TypeOK
<1>8. TypeOK'
  <2>1. Append(wire[e], p) \in Seq(Packets) /\ Tail(wire[o]) \in Seq(Packets)
    BY <1>1, <1>2, <1>5, <1>6, AppendIs, TailIs, Zenon DEF TypeOK
  <2>2. wire' \in [Ends -> Seq(Packets)] BY <1>1, <1>2, <2>1, Zenon DEF ReceiveDhKey, TypeOK
  <2>3. our' \in [Ends -> Ciphers] /\ peer' \in [Ends -> Ciphers]
    BY <1>2, <1>4, Zenon DEF ReceiveDhKey, TypeOK
  <2>4. /\ state' \in [Ends -> {"Pending", "WaitDhKey", "WaitKey", "SendHandshake",
                                "ReplyHandshake", "Handshake", "Success"}]
        /\ ready' \in [Ends -> BOOLEAN] /\ encrypted' \in [Ends -> Nat]
    BY <1>2, Zenon DEF ReceiveDhKey, TypeOK
  <2> QED BY <1>2, <1>7, <2>2, <2>3, <2>4, Zenon DEF TypeOK
<1>9. FailsOnlyInRotation' BY <1>7, Zenon DEF Inv, FailsOnlyInRotation
<1> HIDE DEF o, k, p
<1>10. state[o] # "Pending" BY <1>2, <1>6, <1>1, Zenon DEF Exchange
<1>11. ~Before(e)' /\ (Before(o)' <=> Before(o)) BY <1>7, Zenon DEF Before
<1>12. Exchange(e)' /\ InStep(e)'
  <2>1. Other(e) = o BY Zenon DEF o
  <2>2. Sealed(e)' = Sealed(e) /\ Receiving(e)' = Receiving(e)
    BY <1>6, <1>7, <1>11, <2>1, Zenon DEF Sealed, Receiving
  <2>3. Exchange(e)' BY <1>2, <1>6, <1>7, <1>10, <1>11, <2>1, <2>2, Zenon DEF Exchange
  <2> QED BY <1>2, <1>7, <2>1, <2>2, <2>3, Zenon DEF InStep
<1>13. Exchange(o)'
  <2>1. Before(o) => wire[e] # <<>> /\ wire[e][1].kind = "dh" /\ Tail(wire[e]) = <<>>
    BY <1>1, <1>2, <1>6, Zenon DEF Exchange, Sealed
  <2>2. Before(o) => wire'[e] # <<>> /\ wire'[e][1].kind = "dh"
    <3>1. wire[e] \in Seq(Packets) BY <1>2, Zenon DEF TypeOK
    <3>2. Append(wire[e], p) # <<>> BY <1>5, <3>1, AppendIs, SMTT(60)
    <3> QED BY <1>5, <1>7, <2>1, <3>1, <3>2, BehindDhKey, Zenon
  <2> QED BY <1>1, <1>2, <1>7, <1>10, <1>11, <2>2, Zenon DEF Exchange
<1>14. InStep(o)'
  <2>1. channel[o] = <<>> /\ Sealed(o) = <<>> BY <1>1, <1>2, <1>6, Zenon DEF Exchange
  <2>2. Receiving(o)' = rotate_key(Secret)
    BY <1>1, <1>2, <1>6, <1>7, <1>11, Zenon DEF Exchange, Receiving
  <2>3. wire[e] \in Seq(Packets) BY <1>2, Zenon DEF TypeOK
  <2>4. Sealed(o)' = Append(<<>>, p)
    <3>1. CASE Before(o)
      <4>1. wire[e] # <<>> /\ Tail(wire[e]) = <<>>
        BY <1>1, <1>2, <1>6, <2>1, <3>1, Zenon DEF Exchange, Sealed
      <4>2. wire'[e] # <<>> BY <1>5, <1>7, <2>3, AppendIs, SMTT(60)
      <4> QED BY <1>1, <1>5, <1>7, <1>11, <2>3, <3>1, <4>1, <4>2, BehindDhKey, Zenon DEF Sealed
    <3>2. CASE ~Before(o)
      <4>1. wire[e] = <<>> BY <1>1, <2>1, <3>2, Zenon DEF Sealed
      <4> QED BY <1>1, <1>7, <1>11, <3>2, <4>1, Zenon DEF Sealed
    <3> QED BY <3>1, <3>2, Zenon
  <2>5. Chained(<<>>, <<>>, rotate_key(Secret), rotate_key(Secret)) BY SMTT(60) DEF Chained, Current
  <2>6. <<>> \in Seq(Packets) BY SMTT(60)
  <2>7. Chained(<<>>, Append(<<>>, p), rotate_key(Secret), After(p))
    BY <1>4, <1>5, <2>5, <2>6, ChainSend, Zenon
  <2> QED BY <1>1, <1>5, <1>7, <2>1, <2>2, <2>4, <2>7, Zenon DEF InStep
<1> QED BY <1>1, <1>8, <1>9, <1>12, <1>13, <1>14, Zenon DEF Inv

\* An end in the exchange or behind it takes a packet off the wire.  The other end is
\* not disturbed.
LEMMA TakePacket ==
    ASSUME Inv, NEW e \in Ends, ~Before(e), wire[Other(e)] # <<>>,
           wire' = [wire EXCEPT ![Other(e)] = Tail(@)],
           UNCHANGED <<our, ready>>, ~Before(e)', state'[Other(e)] = state[Other(e)],
           peer'[Other(e)] = peer[Other(e)], channel'[Other(e)] = channel[Other(e)],
           closed'[Other(e)] = closed[Other(e)],
           state'[e] # "Success" => channel'[e] = <<>>
    PROVE  /\ Exchange(e)' /\ Exchange(Other(e))' /\ InStep(Other(e))'
           /\ wire' \in [Ends -> Seq(Packets)] /\ Head(wire[Other(e)]) \in Packets
           /\ Sealed(e)' = Tail(wire[Other(e)]) /\ Receiving(e)' = peer'[e] /\ our'[Other(e)] = our[Other(e)]
           /\ ready[Other(e)]
           /\ ~closed[e] => Chained(channel[e], wire[Other(e)], peer[e], our[Other(e)])
<1> DEFINE o == Other(e)
<1>1. o \in Ends /\ o # e /\ Other(o) = e /\ \A x \in Ends : x = e \/ x = o BY OtherIs, Zenon
<1>2. TypeOK /\ Exchange(e) /\ Exchange(o) /\ InStep(e) /\ InStep(o) BY <1>1, Zenon DEF Inv
<1>3. Other(e) = o BY Zenon
<1> HIDE DEF o
<1>4. Tail(wire[o]) \in Seq(Packets) /\ Head(wire[o]) \in Packets BY <1>1, <1>2, <1>3, TailIs, Zenon DEF TypeOK
<1>5. wire'[o] = Tail(wire[o]) /\ wire'[e] = wire[e] /\ wire' \in [Ends -> Seq(Packets)]
  BY <1>1, <1>2, <1>3, <1>4, Zenon DEF TypeOK
<1>6. Sealed(e) = wire[o] /\ Receiving(e) = peer[e] BY <1>3, Zenon DEF Sealed, Receiving
<1>7. ~Before(o) /\ ~Before(o)' /\ ready[o]
  BY <1>1, <1>2, <1>3, <1>6, Zenon DEF Exchange, Before
<1>8. Sealed(e)' = Tail(wire[o]) /\ Receiving(e)' = peer'[e] BY <1>3, <1>5, Zenon DEF Sealed, Receiving
<1>9. Sealed(o)' = Sealed(o) /\ Receiving(o)' = Receiving(o)
  BY <1>1, <1>3, <1>5, <1>7, Zenon DEF Sealed, Receiving
<1>10. Exchange(e)' BY <1>2, <1>3, <1>7, Zenon DEF Exchange, Before
<1>11. Exchange(o)' BY <1>1, <1>2, <1>3, <1>7, Zenon DEF Exchange, Before
<1>12. InStep(o)' BY <1>1, <1>2, <1>3, <1>9, Zenon DEF InStep
<1>13. ~closed[e] => Chained(channel[e], wire[o], peer[e], our[o])
  BY <1>2, <1>3, <1>6, <1>7, Zenon DEF InStep
<1> QED BY <1>3, <1>4, <1>5, <1>7, <1>8, <1>10, <1>11, <1>12, <1>13, Zenon

\* What send_bytes_internal appends, with the cipher it leaves: one packet, or one and
\* a key behind it.
LEMMA SealedAppends ==
    ASSUME Inv, NEW e \in Ends, NEW kind \in {"handshake", "data"}, NEW value \in Ends \cup Nat,
           SendSealed(e, kind, value), NEW ch \in Seq(Packets), NEW c \in Ciphers
    PROVE  /\ wire' \in [Ends -> Seq(Packets)] /\ wire'[Other(e)] = wire[Other(e)]
           /\ our' \in [Ends -> Ciphers] /\ our'[Other(e)] = our[Other(e)]
           /\ encrypted' \in [Ends -> Nat]
           /\ Chained(ch, wire[e], c, our[e]) => Chained(ch, wire'[e], c, our'[e])
<1> DEFINE o == Other(e)
           p == Packet(kind, value, our[e])
           k == NextKey(e)
           q == Packet("key", k, KeySeal(e))
           v == Append(wire[e], p)
<1>1. o \in Ends /\ o # e BY OtherIs, Zenon
<1>2. /\ TypeOK /\ our[e] \in Ciphers /\ wire[e] \in Seq(Packets)
      /\ our \in [Ends -> Ciphers] /\ wire \in [Ends -> Seq(Packets)] /\ encrypted \in [Ends -> Nat]
  BY Zenon DEF Inv, TypeOK
<1>3. k \in KeyNames /\ k # our[e].key BY <1>2, NextKeyIs, Zenon
<1>4. Stepped(our[e]) \in Ciphers /\ Stepped(our[e]).key = our[e].key BY <1>2, SteppedIs, Zenon
<1>5. rotate_key(k) \in Ciphers BY <1>3, RotatedIs, Zenon
<1>6. /\ p \in Packets /\ p.seal = our[e] /\ p.kind = kind /\ After(p) = Stepped(our[e])
      /\ KeyIsNew(p, our[e].key)
  BY <1>2, Zenon DEF Packet, Packets, KeyIsNew, After
<1>7. /\ q \in Packets /\ q.seal = Stepped(our[e]) /\ q.kind = "key" /\ After(q) = rotate_key(k)
      /\ KeyIsNew(q, Stepped(our[e]).key)
  BY <1>3, <1>4, Zenon DEF Packet, Packets, KeyIsNew, After, KeySeal
<1>8. v \in Seq(Packets) /\ Append(v, q) \in Seq(Packets) BY <1>2, <1>6, <1>7, AppendIs, Zenon
<1>9. Chained(ch, wire[e], c, our[e]) => Chained(ch, v, c, Stepped(our[e]))
  BY <1>2, <1>6, ChainSend, Zenon
<1>10. CASE encrypted[e] + 1 >= RotateEvery
  <2>1. wire[e] \o <<p, q>> = Append(v, q) BY <1>2, <1>6, <1>7, SMTT(60)
  <2>2. /\ wire' = [wire EXCEPT ![e] = wire[e] \o <<p, q>>]
        /\ our' = [our EXCEPT ![e] = rotate_key(k)]
        /\ encrypted' = [encrypted EXCEPT ![e] = 0]
    BY <1>10, Zenon DEF SendSealed
  <2>3. wire' = [wire EXCEPT ![e] = Append(v, q)] BY <2>1, <2>2, Zenon
  <2> HIDE DEF o, p, k, q, v
  <2>4. /\ wire' \in [Ends -> Seq(Packets)] /\ wire'[o] = wire[o] /\ wire'[e] = Append(v, q)
        /\ our' \in [Ends -> Ciphers] /\ our'[o] = our[o] /\ our'[e] = rotate_key(k)
        /\ encrypted' \in [Ends -> Nat]
    BY <1>1, <1>2, <1>5, <1>8, <2>2, <2>3, Zenon
  <2>5. Chained(ch, v, c, Stepped(our[e])) => Chained(ch, Append(v, q), c, rotate_key(k))
    BY <1>4, <1>7, <1>8, ChainSend, Zenon
  <2> QED BY <1>9, <2>4, <2>5, Zenon DEF o
<1>11. CASE ~(encrypted[e] + 1 >= RotateEvery)
  <2>1. /\ wire' = [wire EXCEPT ![e] = v]
        /\ our' = [our EXCEPT ![e] = Stepped(our[e])]
        /\ encrypted' = [encrypted EXCEPT ![e] = encrypted[e] + 1]
    BY <1>11, Zenon DEF SendSealed
  <2> HIDE DEF o, p, k, q, v
  <2>2. /\ wire' \in [Ends -> Seq(Packets)] /\ wire'[o] = wire[o] /\ wire'[e] = v
        /\ our' \in [Ends -> Ciphers] /\ our'[o] = our[o] /\ our'[e] = Stepped(our[e])
        /\ encrypted' \in [Ends -> Nat]
    BY <1>1, <1>2, <1>4, <1>8, <2>1, SMTT(60)
  <2> QED BY <1>9, <2>2, Zenon DEF o
<1> QED BY <1>10, <1>11, Zenon

LEMMA SendSealedInv ==
    ASSUME Inv, NEW e \in Ends, NEW kind \in {"handshake", "data"}, NEW value \in Ends \cup Nat,
           SendSealed(e, kind, value), state[e] \in {"SendHandshake", "ReplyHandshake", "Success"},
           state' \in [Ends -> {"Pending", "WaitDhKey", "WaitKey", "SendHandshake",
                                "ReplyHandshake", "Handshake", "Success"}],
           state'[Other(e)] = state[Other(e)],
           state'[e] = "Success" \/ (state'[e] = "Handshake" /\ state[e] # "Success"),
           sent' \in [Ends -> Nat], UNCHANGED <<peer, ready, channel, closed, failure>>
    PROVE  Inv'
<1> DEFINE o == Other(e)
<1>1. o \in Ends /\ o # e /\ Other(o) = e /\ \A x \in Ends : x = e \/ x = o BY OtherIs, Zenon
<1>2. /\ TypeOK /\ Exchange(e) /\ Exchange(o) /\ InStep(e) /\ InStep(o)
      /\ channel[o] \in Seq(Packets) /\ peer[o] \in Ciphers
  BY <1>1, Zenon DEF Inv, TypeOK
<1>3. Other(e) = o BY Zenon
<1> HIDE DEF o
<1>4. /\ wire' \in [Ends -> Seq(Packets)] /\ wire'[o] = wire[o]
      /\ our' \in [Ends -> Ciphers] /\ our'[o] = our[o] /\ encrypted' \in [Ends -> Nat]
      /\ Chained(channel[o], wire[e], peer[o], our[e]) => Chained(channel[o], wire'[e], peer[o], our'[e])
  BY <1>2, <1>3, SealedAppends, Zenon
<1>5. TypeOK' BY <1>2, <1>4, Zenon DEF TypeOK
<1>6. FailsOnlyInRotation' BY Zenon DEF Inv, FailsOnlyInRotation
<1>7. ~Before(e) /\ ~Before(e)' /\ ~Before(o) /\ ~Before(o)' /\ ready[e] /\ ready[o]
  BY <1>1, <1>2, <1>3, Zenon DEF Exchange, Before
<1>8. Exchange(e)' /\ InStep(e)'
  <2>1. Sealed(e)' = Sealed(e) /\ Receiving(e)' = Receiving(e)
    BY <1>3, <1>4, <1>7, Zenon DEF Sealed, Receiving
  <2>2. Exchange(e)' BY <1>2, <1>3, <1>7, Zenon DEF Exchange, Before
  <2> QED BY <1>2, <1>3, <1>4, <2>1, <2>2, Zenon DEF InStep
<1>9. Exchange(o)' /\ InStep(o)'
  <2>1. /\ Sealed(o)' = wire'[e] /\ Receiving(o)' = peer[o]
        /\ Sealed(o) = wire[e] /\ Receiving(o) = peer[o]
    BY <1>1, <1>7, Zenon DEF Sealed, Receiving
  <2>2. Exchange(o)' BY <1>1, <1>2, <1>3, <1>7, Zenon DEF Exchange, Before
  <2> QED BY <1>1, <1>2, <1>4, <1>7, <2>1, <2>2, Zenon DEF InStep
<1> QED BY <1>1, <1>5, <1>6, <1>8, <1>9, Zenon DEF Inv

LEMMA SendHandshakeInv ==
    ASSUME Inv, NEW e \in Ends, SendHandshake(e)
    PROVE  Inv'
<1>1. TypeOK /\ Other(e) \in Ends /\ Other(e) # e BY OtherIs, Zenon DEF Inv
<1>2. /\ state' \in [Ends -> {"Pending", "WaitDhKey", "WaitKey", "SendHandshake",
                              "ReplyHandshake", "Handshake", "Success"}]
      /\ state'[Other(e)] = state[Other(e)]
      /\ state'[e] = "Success" \/ (state'[e] = "Handshake" /\ state[e] # "Success")
  BY <1>1, Zenon DEF SendHandshake, TypeOK
<1>3. sent' \in [Ends -> Nat] BY <1>1, Zenon DEF SendHandshake, TypeOK
<1>4. /\ SendSealed(e, "handshake", e) /\ e \in Ends \cup Nat
      /\ state[e] \in {"SendHandshake", "ReplyHandshake", "Success"}
      /\ UNCHANGED <<peer, ready, channel, closed, failure>>
  BY Zenon DEF SendHandshake
<1> QED BY <1>2, <1>3, <1>4, SendSealedInv, Zenon

LEMMA WriteTaskInv ==
    ASSUME Inv, NEW e \in Ends, WriteTask(e)
    PROVE  Inv'
<1>1. TypeOK /\ Other(e) \in Ends BY OtherIs, Zenon DEF Inv
<1>2. /\ state' \in [Ends -> {"Pending", "WaitDhKey", "WaitKey", "SendHandshake",
                              "ReplyHandshake", "Handshake", "Success"}]
      /\ state'[Other(e)] = state[Other(e)] /\ state'[e] = "Success"
  BY <1>1, Zenon DEF WriteTask, TypeOK
<1>3. sent' \in [Ends -> Nat] /\ sent[e] + 1 \in Ends \cup Nat BY <1>1, SMTT(60) DEF WriteTask, TypeOK
<1>4. /\ SendSealed(e, "data", sent[e] + 1)
      /\ state[e] \in {"SendHandshake", "ReplyHandshake", "Success"}
      /\ UNCHANGED <<peer, ready, channel, closed, failure>>
  BY Zenon DEF WriteTask
<1> QED BY <1>2, <1>3, <1>4, SendSealedInv, Zenon

LEMMA ReceiveKeyInv ==
    ASSUME Inv, NEW e \in Ends, ReceiveKey(e)
    PROVE  Inv'
<1> DEFINE o == Other(e)
           p == Head(wire[o])
<1>1. o \in Ends /\ o # e /\ \A x \in Ends : x = e \/ x = o BY OtherIs, Zenon
<1>2. TypeOK /\ Exchange(e) BY Zenon DEF Inv
<1>3. state[e] = "WaitKey" /\ ~closed[e] /\ wire[o] # <<>> /\ p.kind = "key" /\ p.seal = peer[e]
  BY Zenon DEF ReceiveKey, Decrypts
<1>4. /\ state'[e] \in {"SendHandshake", "Handshake"} /\ state'[o] = state[o]
      /\ state' \in [Ends -> {"Pending", "WaitDhKey", "WaitKey", "SendHandshake",
                              "ReplyHandshake", "Handshake", "Success"}]
      /\ peer'[o] = peer[o] /\ peer'[e] = rotate_key(p.value)
      /\ wire' = [wire EXCEPT ![o] = Tail(@)]
      /\ UNCHANGED <<our, ready, encrypted, sent, channel, closed, failure>>
  BY <1>1, <1>2, Zenon DEF ReceiveKey, TypeOK
<1>5. ~Before(e) /\ ~Before(e)' BY <1>3, <1>4, Zenon DEF Before
<1>6. channel[e] = <<>> BY <1>2, <1>3, Zenon DEF Exchange
<1>7. /\ Exchange(e)' /\ Exchange(o)' /\ InStep(o)'
      /\ wire' \in [Ends -> Seq(Packets)] /\ p \in Packets
      /\ Sealed(e)' = Tail(wire[o]) /\ Receiving(e)' = peer'[e]
      /\ Chained(channel[e], wire[o], peer[e], our[o])
  BY <1>3, <1>4, <1>5, <1>6, TakePacket, Zenon
<1>8. wire[o] \in Seq(Packets) /\ peer[e] \in Ciphers /\ our[o] \in Ciphers BY <1>1, <1>2, Zenon DEF TypeOK
<1>9. Chained(<<>>, Tail(wire[o]), rotate_key(p.value), our[o])
  BY <1>3, <1>6, <1>7, <1>8, ChainTake, Zenon
<1>10. InStep(e)' BY <1>4, <1>6, <1>7, <1>9, Zenon DEF InStep
<1>11. rotate_key(p.value) \in Ciphers
  <2>1. wire[o][1] = p /\ 1 \in DOMAIN wire[o] BY <1>3, <1>8, TailIs, SMTT(60)
  <2> HIDE DEF p
  <2>2. p.value \in KeyNames BY <1>3, <1>7, <2>1, Zenon DEF Chained, KeyIsNew
  <2> QED BY <2>2, RotatedIs, Zenon
<1>12. TypeOK'
  <2>1. peer' \in [Ends -> Ciphers] BY <1>2, <1>11, Zenon DEF ReceiveKey, TypeOK
  <2> QED BY <1>2, <1>4, <1>7, <2>1, Zenon DEF TypeOK
<1>13. FailsOnlyInRotation' BY <1>4, Zenon DEF Inv, FailsOnlyInRotation
<1> HIDE DEF o, p
<1> QED BY <1>1, <1>7, <1>10, <1>12, <1>13, Zenon DEF Inv

LEMMA ReceiveHandshakeInv ==
    ASSUME Inv, NEW e \in Ends, ReceiveHandshake(e)
    PROVE  Inv'
<1> DEFINE o == Other(e)
           p == Head(wire[o])
<1>1. o \in Ends /\ o # e /\ \A x \in Ends : x = e \/ x = o BY OtherIs, Zenon
<1>2. TypeOK /\ Exchange(e) BY Zenon DEF Inv
<1>3. state[e] = "Handshake" /\ ~closed[e] /\ wire[o] # <<>> /\ p.kind = "handshake" /\ p.seal = peer[e]
  BY Zenon DEF ReceiveHandshake, Decrypts
<1>4. /\ state'[e] \in {"Success", "ReplyHandshake"} /\ state'[o] = state[o]
      /\ state' \in [Ends -> {"Pending", "WaitDhKey", "WaitKey", "SendHandshake",
                              "ReplyHandshake", "Handshake", "Success"}]
      /\ peer'[o] = peer[o] /\ peer'[e] = Stepped(peer[e])
      /\ wire' = [wire EXCEPT ![o] = Tail(@)]
      /\ UNCHANGED <<our, ready, encrypted, sent, channel, closed, failure>>
  BY <1>1, <1>2, Zenon DEF ReceiveHandshake, TypeOK
<1>5. ~Before(e) /\ ~Before(e)' BY <1>3, <1>4, Zenon DEF Before
<1>6. channel[e] = <<>> BY <1>2, <1>3, Zenon DEF Exchange
<1>7. /\ Exchange(e)' /\ Exchange(o)' /\ InStep(o)'
      /\ wire' \in [Ends -> Seq(Packets)]
      /\ Sealed(e)' = Tail(wire[o]) /\ Receiving(e)' = peer'[e]
      /\ Chained(channel[e], wire[o], peer[e], our[o])
  BY <1>3, <1>4, <1>5, <1>6, TakePacket, Zenon
<1>8. wire[o] \in Seq(Packets) /\ peer[e] \in Ciphers /\ our[o] \in Ciphers BY <1>1, <1>2, Zenon DEF TypeOK
<1>9. Chained(<<>>, Tail(wire[o]), Stepped(peer[e]), our[o])
  BY <1>3, <1>6, <1>7, <1>8, ChainTake, Zenon
<1>10. InStep(e)' BY <1>4, <1>6, <1>7, <1>9, Zenon DEF InStep
<1>11. TypeOK'
  <2>1. Stepped(peer[e]) \in Ciphers BY <1>8, SteppedIs, Zenon
  <2>2. peer' \in [Ends -> Ciphers] BY <1>2, <2>1, Zenon DEF ReceiveHandshake, TypeOK
  <2> QED BY <1>2, <1>4, <1>7, <2>2, Zenon DEF TypeOK
<1>12. FailsOnlyInRotation' BY <1>4, Zenon DEF Inv, FailsOnlyInRotation
<1> HIDE DEF o, p
<1> QED BY <1>1, <1>7, <1>10, <1>11, <1>12, Zenon DEF Inv

\* A packet that does not decrypt is behind a key that waits in the channel.
LEMMA ReadTaskInv ==
    ASSUME Inv, NEW e \in Ends, ReadTask(e)
    PROVE  Inv'
<1> DEFINE o == Other(e)
           p == Head(wire[o])
<1>1. o \in Ends /\ o # e /\ \A x \in Ends : x = e \/ x = o BY OtherIs, Zenon
<1>2. TypeOK /\ Exchange(e) BY Zenon DEF Inv
<1>3. state[e] = "Success" /\ ~closed[e] /\ wire[o] # <<>> BY Zenon DEF ReadTask
<1>4. wire' = [wire EXCEPT ![o] = Tail(@)] /\ UNCHANGED <<state, our, ready, encrypted, sent>>
  BY Zenon DEF ReadTask
<1>5. ~Before(e) /\ ~Before(e)' BY <1>3, <1>4, Zenon DEF Before
<1>6. /\ wire[o] \in Seq(Packets) /\ peer[e] \in Ciphers /\ our[o] \in Ciphers
      /\ channel[e] \in Seq(Packets)
  BY <1>1, <1>2, Zenon DEF TypeOK
<1>7. CASE Decrypts(e, p)
  <2>1. /\ peer' = [peer EXCEPT ![e] = Stepped(peer[e])]
        /\ channel' = [channel EXCEPT ![e] = Append(channel[e], p)] /\ UNCHANGED <<closed, failure>>
    BY <1>7, Zenon DEF ReadTask
  <2>2. /\ peer'[o] = peer[o] /\ peer'[e] = Stepped(peer[e])
        /\ channel'[o] = channel[o] /\ channel'[e] = Append(channel[e], p)
    BY <1>1, <1>2, <2>1, Zenon DEF TypeOK
  <2>3. /\ Exchange(e)' /\ Exchange(o)' /\ InStep(o)'
        /\ wire' \in [Ends -> Seq(Packets)] /\ p \in Packets
        /\ Sealed(e)' = Tail(wire[o]) /\ Receiving(e)' = peer'[e] /\ our'[o] = our[o]
        /\ Chained(channel[e], wire[o], peer[e], our[o])
    BY <1>3, <1>4, <1>5, <2>1, <2>2, TakePacket, Zenon
  <2>4. p.seal = peer[e] BY <1>7, Zenon DEF Decrypts
  <2>5. Chained(Append(channel[e], p), Tail(wire[o]), Stepped(peer[e]), our[o])
    BY <1>3, <1>6, <2>3, <2>4, ChainRead, Zenon
  <2>6. InStep(e)' BY <2>2, <2>3, <2>5, Zenon DEF InStep
  <2>7. TypeOK'
    <3>1. Stepped(peer[e]) \in Ciphers BY <1>6, SteppedIs, Zenon
    <3>2. Append(channel[e], p) \in Seq(Packets) BY <1>6, <2>3, AppendIs, Zenon
    <3>3. peer' \in [Ends -> Ciphers] /\ channel' \in [Ends -> Seq(Packets)]
      BY <1>2, <2>1, <3>1, <3>2, Zenon DEF TypeOK
    <3> QED BY <1>2, <1>4, <2>1, <2>3, <3>3, Zenon DEF TypeOK
  <2>8. FailsOnlyInRotation' BY <2>1, Zenon DEF Inv, FailsOnlyInRotation
  <2> HIDE DEF o, p
  <2> QED BY <1>1, <2>3, <2>6, <2>7, <2>8, Zenon DEF Inv
<1>8. CASE ~Decrypts(e, p)
  <2> DEFINE why == IF \E i \in DOMAIN channel[e] : channel[e][i].kind = "key"
                    THEN "rotating" ELSE "other"
  <2>1. /\ closed' = [closed EXCEPT ![e] = TRUE] /\ failure' = [failure EXCEPT ![e] = why]
        /\ UNCHANGED <<peer, channel>>
    BY <1>8, Zenon DEF ReadTask
  <2>2. closed'[e] /\ closed'[o] = closed[o] BY <1>1, <1>2, <2>1, Zenon DEF TypeOK
  <2>3. /\ Exchange(e)' /\ Exchange(o)' /\ InStep(o)'
        /\ wire' \in [Ends -> Seq(Packets)]
        /\ Chained(channel[e], wire[o], peer[e], our[o])
    BY <1>3, <1>4, <1>5, <2>1, <2>2, TakePacket, Zenon
  <2>4. InStep(e)' BY <2>2, Zenon DEF InStep
  <2>5. why = "rotating"
    <3>1. wire[o][1] = p BY <1>3, <1>6, TailIs, Zenon
    <3> HIDE DEF p
    <3>2. Current(channel[e], peer[e]) # peer[e] BY <1>3, <1>8, <2>3, <3>1, Zenon DEF Chained, Decrypts
    <3>3. channel[e] # <<>> /\ channel[e][Len(channel[e])].kind = "key" BY <3>2, Zenon DEF Current
    <3>4. Len(channel[e]) \in DOMAIN channel[e] BY <1>6, <3>3, SMTT(60)
    <3> QED BY <3>3, <3>4, Zenon
  <2> HIDE DEF why
  <2>6. TypeOK' BY <1>2, <1>4, <2>1, <2>3, <2>5, Zenon DEF TypeOK
  <2>7. FailsOnlyInRotation' BY <1>2, <2>1, <2>5, Zenon DEF Inv, FailsOnlyInRotation, TypeOK
  <2> HIDE DEF o, p
  <2> QED BY <1>1, <2>3, <2>4, <2>6, <2>7, Zenon DEF Inv
<1> QED BY <1>7, <1>8, Zenon

LEMMA HandlePacketInv ==
    ASSUME Inv, NEW e \in Ends, HandlePacket(e)
    PROVE  Inv'
<1> DEFINE o == Other(e)
           p == Head(channel[e])
           c == IF p.kind = "key" THEN rotate_key(p.value) ELSE peer[e]
<1>1. o \in Ends /\ o # e /\ Other(o) = e /\ \A x \in Ends : x = e \/ x = o BY OtherIs, Zenon
<1>2. TypeOK /\ Exchange(e) /\ Exchange(o) /\ InStep(e) /\ InStep(o) BY <1>1, Zenon DEF Inv
<1>3. state[e] = "Success" /\ ~closed[e] /\ channel[e] # <<>> BY Zenon DEF HandlePacket
<1>4. /\ wire[o] \in Seq(Packets) /\ peer[e] \in Ciphers /\ our[o] \in Ciphers
      /\ channel[e] \in Seq(Packets)
  BY <1>1, <1>2, Zenon DEF TypeOK
<1>5. /\ peer'[e] = c /\ peer'[o] = peer[o] /\ peer' = [peer EXCEPT ![e] = c]
      /\ channel'[e] = Tail(channel[e]) /\ channel'[o] = channel[o]
      /\ channel' = [channel EXCEPT ![e] = Tail(channel[e])]
      /\ closed'[o] = closed[o] /\ closed' \in [Ends -> BOOLEAN]
      /\ UNCHANGED <<state, our, ready, wire, encrypted, sent, failure>>
  BY <1>1, <1>2, Zenon DEF HandlePacket, TypeOK
<1>6. ~Before(e) /\ ~Before(e)' /\ (Before(o)' <=> Before(o)) BY <1>3, <1>5, Zenon DEF Before
<1>7. ~Before(o) /\ ready[o] BY <1>1, <1>2, <1>3, Zenon DEF Exchange, Before
<1>8. Chained(channel[e], wire[o], peer[e], our[o])
  BY <1>2, <1>3, <1>6, <1>7, Zenon DEF InStep, Sealed, Receiving
<1>9. Chained(Tail(channel[e]), wire[o], c, our[o])
  BY <1>3, <1>4, <1>8, ChainHandle, Zenon
<1>10. TypeOK'
  <2>1. Tail(channel[e]) \in Seq(Packets) /\ p = channel[e][1] /\ 1 \in DOMAIN channel[e]
    BY <1>3, <1>4, TailIs, SMTT(60)
  <2> HIDE DEF p
  <2>2. c \in Ciphers
    <3>1. p.kind = "key" => p.value \in KeyNames BY <1>8, <2>1, Zenon DEF Chained, KeyIsNew
    <3> QED BY <1>4, <3>1, RotatedIs, Zenon
  <2> HIDE DEF c
  <2>3. peer' \in [Ends -> Ciphers] /\ channel' \in [Ends -> Seq(Packets)]
    BY <1>2, <1>5, <2>1, <2>2, Zenon DEF TypeOK
  <2> QED BY <1>2, <1>5, <2>3, Zenon DEF TypeOK
<1>11. FailsOnlyInRotation' BY <1>5, Zenon DEF Inv, FailsOnlyInRotation
<1>12. Other(e) = o BY Zenon
<1> HIDE DEF o, p, c
<1>13. Exchange(e)' /\ Exchange(o)' BY <1>1, <1>2, <1>3, <1>5, <1>6, <1>7, <1>12, Zenon DEF Exchange, Before
<1>14. InStep(e)' BY <1>5, <1>6, <1>9, <1>12, Zenon DEF InStep, Sealed, Receiving
<1>15. InStep(o)'
  <2>1. Sealed(o)' = Sealed(o) /\ Receiving(o)' = Receiving(o)
    BY <1>1, <1>5, <1>6, Zenon DEF Sealed, Receiving
  <2> QED BY <1>1, <1>2, <1>5, <2>1, Zenon DEF InStep
<1> QED BY <1>1, <1>10, <1>11, <1>13, <1>14, <1>15, Zenon DEF Inv

LEMMA NextInv == Inv /\ [ConnNext]_connVars => Inv'
<1> SUFFICES ASSUME Inv, [ConnNext]_connVars PROVE Inv' BY Zenon
<1>1. CASE UNCHANGED connVars
  <2>1. UNCHANGED <<state, our, peer, ready, wire, encrypted, sent, channel, failure, closed>>
    BY <1>1, Zenon DEF connVars
  <2>2. closed' \in [Ends -> BOOLEAN] BY <2>1, Zenon DEF Inv, TypeOK
  <2> QED BY <2>1, <2>2, CloseStep, Zenon
<1>2. ASSUME NEW e \in Ends, VerificationFails(e) \/ Close(e) PROVE Inv'
  <2>1. /\ UNCHANGED <<state, our, peer, ready, wire, encrypted, sent, channel, failure>>
        /\ closed' = [closed EXCEPT ![e] = TRUE]
    BY <1>2, Zenon DEF VerificationFails, Close
  <2>2. closed' \in [Ends -> BOOLEAN] /\ \A x \in Ends : closed[x] => closed'[x]
    BY <2>1, Zenon DEF Inv, TypeOK
  <2> QED BY <2>1, <2>2, CloseStep, Zenon
<1>3. CASE ConnNext
  <2>1. PICK e \in Ends :
            \/ SendDhKey(e) \/ ReceiveDhKey(e) \/ ReceiveKey(e) \/ SendHandshake(e)
            \/ ReceiveHandshake(e) \/ VerificationFails(e)
            \/ WriteTask(e) \/ ReadTask(e) \/ HandlePacket(e) \/ Close(e)
    BY <1>3, Zenon DEF ConnNext
  <2> QED
    BY <1>2, <2>1, SendDhKeyInv, ReceiveDhKeyInv, ReceiveKeyInv, SendHandshakeInv,
       ReceiveHandshakeInv, WriteTaskInv, ReadTaskInv, HandlePacketInv, Zenon
<1> QED BY <1>1, <1>3, Zenon

LEMMA Invariance == ConnSpec => []Inv
<1>1. ConnSpec => ConnInit /\ [][ConnNext]_connVars BY Zenon DEF ConnSpec
<1> QED BY <1>1, InitInv, NextInv, PTL

-----------------------------------------------------------------------------
(* The ciphers of the packets under way                                    *)

LEMMA NatMin ==
    ASSUME NEW T \in SUBSET Nat, T # {}
    PROVE  \E x \in T : \A y \in T : x <= y
<1>1. IsWellFoundedOn(OpToRel(<, Nat), Nat) BY NatLessThanWellFounded, Zenon
<1>2. PICK x \in T : \A y \in T : ~(<<y, x>> \in OpToRel(<, Nat)) BY <1>1, WFMin, Zenon
<1>3. \A y \in T : ~(y < x) BY <1>2, Zenon DEF OpToRel
<1> QED BY <1>3, SMTT(60)

LEMMA LastIsMax ==
    ASSUME NEW S \in SUBSET Nat, NEW x \in S, \A y \in S : y <= x
    PROVE  Max(S) = x
<1>1. x \in S /\ \A y \in S : x >= y BY Zenon
<1> DEFINE m == CHOOSE y \in S : \A z \in S : y >= z
<1>2. m \in S /\ \A y \in S : m >= y BY <1>1, Zenon
<1>3. Max(S) = m BY Zenon DEF Max
<1> HIDE DEF m
<1>4. m \in Nat /\ x \in Nat /\ m >= x /\ m <= x BY <1>2, Zenon
<1>5. m = x BY <1>4, SMTT(60)
<1> QED BY <1>3, <1>5, Zenon

LEMMA ConcatIs ==
    ASSUME NEW S, NEW s \in Seq(S), NEW t \in Seq(S)
    PROVE  /\ Len(s \o t) = Len(s) + Len(t) /\ Len(s) \in Nat /\ Len(t) \in Nat
           /\ \A j \in 1..Len(s) : (s \o t)[j] = s[j]
           /\ \A j \in 1..Len(t) : (s \o t)[Len(s) + j] = t[j]
<1>1. Len(s \o t) = Len(s) + Len(t) /\ Len(s) \in Nat /\ Len(t) \in Nat BY SMTT(60)
<1>2. \A j \in 1..Len(s) : (s \o t)[j] = s[j] BY SMTT(60)
<1>3. \A j \in 1..Len(t) : (s \o t)[Len(s) + j] = t[j] BY SMTT(60)
<1> QED BY <1>1, <1>2, <1>3, Zenon

\* The cipher for the first packet on the wire is the one Current gives.
LEMMA FirstCipher ==
    ASSUME TypeOK, NEW e \in Ends, NEW w, NEW s, Chained(channel[e], w, peer[e], s)
    PROVE  LET n == Len(channel[e])
           IN  /\ CipherFor(e, n + 1) = Current(channel[e], peer[e])
               /\ KeysBefore(e, n + 1) = {} \/ Max(KeysBefore(e, n + 1)) \in 1..n
<1> DEFINE ch == channel[e]
           n == Len(ch)
           K == KeysBefore(e, n + 1)
<1>1. ch \in Seq(Packets) /\ wire[Other(e)] \in Seq(Packets) /\ peer[e] \in Ciphers
  BY OtherIs, Zenon DEF TypeOK
<1>2. n \in Nat /\ DOMAIN ch = 1..n BY <1>1, SMTT(60)
<1>3. \A j \in 1..n : Backlog(e)[j] = ch[j] BY <1>1, ConcatIs, Zenon DEF Backlog
<1>4. K = {j \in 1..n : ch[j].kind = "key"} BY <1>2, <1>3, SMTT(60) DEF KeysBefore
<1>5. peer[e].nonce \in Nat /\ peer[e] = [peer[e] EXCEPT !.nonce = peer[e].nonce]
  BY <1>1, Zenon DEF Ciphers
<1>6. CASE ch # <<>> /\ ch[n].kind = "key"
  <2>1. n \in 1..n BY <1>1, <1>6, SMTT(60)
  <2>2. K = {n} BY <1>2, <1>4, <1>6, <2>1, Zenon DEF Chained
  <2>3. Max(K) = n BY <1>2, <2>2, LastIsMax, SMTT(60)
  <2>4. K # {} BY <2>2, Zenon
  <2> HIDE DEF K, n, ch
  <2>5. CipherFor(e, n + 1) = [key |-> ch[n].value, nonce |-> n + 1 - n - 1]
    BY <1>3, <2>1, <2>3, <2>4, SMTT(60) DEF CipherFor, K
  <2>6. n + 1 - n - 1 = 0 BY <1>2, SMTT(60)
  <2>7. CipherFor(e, n + 1) = Current(ch, peer[e]) BY <1>6, <2>5, <2>6, Zenon DEF Current, rotate_key, n
  <2> QED BY <2>1, <2>3, <2>7, Zenon DEF K, n, ch
<1>7. CASE ~(ch # <<>> /\ ch[n].kind = "key")
  <2>1. K = {}
    <3>1. CASE ch = <<>> BY <1>2, <1>4, <3>1, SMTT(60)
    <3>2. CASE ch # <<>> BY <1>2, <1>4, <1>7, <3>2, Zenon DEF Chained
    <3> QED BY <3>1, <3>2, Zenon
  <2> HIDE DEF K, n, ch
  <2>2. CipherFor(e, n + 1) = [peer[e] EXCEPT !.nonce = peer[e].nonce + (n + 1) - n - 1]
    BY <2>1, Zenon DEF CipherFor, K, n, ch
  <2>3. peer[e].nonce + (n + 1) - n - 1 = peer[e].nonce BY <1>2, <1>5, SMTT(60)
  <2>4. CipherFor(e, n + 1) = peer[e] BY <1>5, <2>2, <2>3, Zenon
  <2>5. Current(ch, peer[e]) = peer[e] BY <1>7, Zenon DEF Current, n
  <2> QED BY <2>1, <2>4, <2>5, Zenon DEF K, n, ch
<1> QED BY <1>6, <1>7, Zenon

LEMMA CipherAfterKey ==
    ASSUME NEW e, NEW i, NEW j, KeysBefore(e, i) # {}, Max(KeysBefore(e, i)) = j
    PROVE  CipherFor(e, i) = [key |-> Backlog(e)[j].value, nonce |-> i - j - 1]
  BY Zenon DEF CipherFor

\* From the cipher for a packet to the one for the packet behind it.
LEMMA NextCipher ==
    ASSUME TypeOK, NEW e \in Ends, NEW i \in Nat, i > Len(channel[e]), i <= Len(Backlog(e)),
           Backlog(e)[i].seal = CipherFor(e, i),
           KeysBefore(e, i) = {} \/ Max(KeysBefore(e, i)) \in 1..(i - 1)
    PROVE  /\ CipherFor(e, i + 1) = After(Backlog(e)[i])
           /\ KeysBefore(e, i + 1) = {} \/ Max(KeysBefore(e, i + 1)) \in 1..i
<1> DEFINE B == Backlog(e)
           n == Len(channel[e])
           K == KeysBefore(e, i)
           L == KeysBefore(e, i + 1)
<1>1. n \in Nat /\ peer[e] \in Ciphers BY SMTT(60) DEF TypeOK
<1>2. L = {j \in 1..i : B[j].kind = "key"} /\ K = {j \in 1..(i - 1) : B[j].kind = "key"}
  BY SMTT(60) DEF KeysBefore
<1> HIDE DEF B
<1>3. CASE B[i].kind = "key"
  <2>1. i \in L /\ L \in SUBSET Nat /\ \A j \in L : j <= i BY <1>1, <1>2, <1>3, SMTT(60)
  <2> HIDE DEF L
  <2>2. Max(L) = i BY <2>1, LastIsMax, Zenon
  <2>3. CipherFor(e, i + 1) = [key |-> B[i].value, nonce |-> i + 1 - i - 1]
    <3>1. L # {} BY <2>1, Zenon
    <3> QED BY <2>2, <3>1, CipherAfterKey, SMTT(60) DEF L, B
  <2>4. i + 1 - i - 1 = 0 /\ i \in 1..i BY <1>1, SMTT(60)
  <2>5. CipherFor(e, i + 1) = After(B[i]) BY <1>3, <2>3, <2>4, Zenon DEF After, rotate_key
  <2> QED BY <2>2, <2>4, <2>5, Zenon DEF L, B
<1>4. CASE B[i].kind # "key"
  <2>1. L = K BY <1>1, <1>2, <1>4, SMTT(60)
  <2>2. After(B[i]) = Stepped(CipherFor(e, i)) BY <1>4, Zenon DEF After, B
  <2>3. CASE K = {}
    <3>1. CipherFor(e, i) = [peer[e] EXCEPT !.nonce = peer[e].nonce + i - n - 1]
      BY <2>3, Zenon DEF CipherFor
    <3>2. CipherFor(e, i + 1) = [peer[e] EXCEPT !.nonce = peer[e].nonce + (i + 1) - n - 1]
      BY <2>1, <2>3, Zenon DEF CipherFor
    <3> HIDE DEF n
    <3>3. peer[e].nonce + (i + 1) - n - 1 = (peer[e].nonce + i - n - 1) + 1
      BY <1>1, SMTT(60) DEF Ciphers
    <3>4. CipherFor(e, i + 1) = Stepped(CipherFor(e, i))
      BY <1>1, <3>1, <3>2, <3>3, Zenon DEF Stepped, Ciphers
    <3> QED BY <2>1, <2>2, <2>3, <3>4, Zenon DEF B
  <2>4. CASE K # {}
    <3> DEFINE j == Max(K)
    <3>1. j \in 1..(i - 1) BY <2>4, Zenon
    <3>2. CipherFor(e, i) = [key |-> B[j].value, nonce |-> i - j - 1]
      BY <2>4, Zenon DEF CipherFor, B
    <3>3. CipherFor(e, i + 1) = [key |-> B[j].value, nonce |-> (i + 1) - j - 1]
      BY <2>1, <2>4, Zenon DEF CipherFor, B
    <3>4. Max(L) \in 1..i BY <2>1, <3>1, SMTT(60)
    <3> HIDE DEF j
    <3>5. (i + 1) - j - 1 = (i - j - 1) + 1 BY <3>1, SMTT(60)
    <3>6. CipherFor(e, i + 1) = Stepped(CipherFor(e, i)) BY <3>2, <3>3, <3>5, SMTT(60) DEF Stepped
    <3> QED BY <2>2, <3>4, <3>6, Zenon DEF B
  <2> QED BY <2>3, <2>4, Zenon
<1> QED BY <1>3, <1>4, Zenon

\* The chain of the packets, counted from the last key before each.
LEMMA ChainCiphers ==
    ASSUME TypeOK, NEW e \in Ends, Chained(channel[e], wire[Other(e)], peer[e], our[Other(e)])
    PROVE  /\ \A i \in (Len(channel[e]) + 1)..Len(Backlog(e)) : Backlog(e)[i].seal = CipherFor(e, i)
           /\ our[Other(e)] = CipherFor(e, Len(Backlog(e)) + 1)
<1> DEFINE ch == channel[e]
           w == wire[Other(e)]
           B == Backlog(e)
           n == Len(ch)
           s == our[Other(e)]
           Seal(i) == IF i <= Len(B) THEN B[i].seal ELSE s
           Good(i) == /\ CipherFor(e, i) = Seal(i)
                      /\ KeysBefore(e, i) = {} \/ Max(KeysBefore(e, i)) \in 1..(i - 1)
           Bad == {i \in (n + 1)..(Len(B) + 1) : ~Good(i)}
<1>1. ch \in Seq(Packets) /\ w \in Seq(Packets) BY OtherIs, Zenon DEF TypeOK
<1>2. /\ n \in Nat /\ Len(w) \in Nat /\ Len(B) = n + Len(w)
      /\ \A j \in 1..Len(w) : B[n + j] = w[j]
  <2>1. B = ch \o w BY Zenon DEF Backlog
  <2> HIDE DEF B, ch, w
  <2> QED BY <1>1, <2>1, ConcatIs, SMTT(60)
<1>3. DOMAIN w = 1..Len(w) /\ Chained(ch, w, peer[e], s) BY <1>1, SMTT(60)
<1>4. /\ CipherFor(e, n + 1) = Current(ch, peer[e])
      /\ KeysBefore(e, n + 1) = {} \/ Max(KeysBefore(e, n + 1)) \in 1..n
  BY FirstCipher, Zenon
<1> HIDE DEF ch, w, B, n, s
<1>5. Seal(n + 1) = Current(ch, peer[e])
  <2>1. CASE w = <<>>
    <3>1. Len(w) = 0 BY <2>1, Zenon
    <3>2. ~(n + 1 <= Len(B)) BY <1>2, <3>1, SMTT(60)
    <3> QED BY <1>3, <2>1, <3>2, Zenon DEF Chained
  <2>2. CASE w # <<>>
    <3>1. 1 \in 1..Len(w) BY <1>1, <1>2, <2>2, SMTT(60)
    <3>2. n + 1 <= Len(B) /\ B[n + 1] = w[1] BY <1>2, <3>1, SMTT(60)
    <3> QED BY <1>3, <2>2, <3>2, Zenon DEF Chained
  <2> QED BY <2>1, <2>2, Zenon
<1>6. ASSUME NEW i \in (n + 1)..Len(B) PROVE Seal(i + 1) = After(B[i]) /\ Seal(i) = B[i].seal
  <2>1. i - n \in 1..Len(w) /\ n + (i - n) = i BY <1>2, SMTT(60)
  <2>2. B[i] = w[i - n] BY <1>2, <2>1, Zenon
  <2>3. CASE i = Len(B)
    <3>1. i - n = Len(w) /\ w # <<>> /\ ~(i + 1 <= Len(B)) BY <1>2, <2>1, <2>3, SMTT(60)
    <3> QED BY <1>2, <1>3, <2>2, <3>1, SMTT(60) DEF Chained
  <2>4. CASE i # Len(B)
    <3> DEFINE m == Len(w)
    <3> HIDE DEF m
    <3>1. i \in Int /\ n + 1 <= i /\ i <= Len(B) /\ Len(B) = n + m /\ n \in Nat /\ m \in Nat
      BY <1>2, SMTT(60) DEF m
    <3>2. i # n + m BY <2>4, <3>1, Zenon
    <3>3. (i - n) + 1 \in 1..m /\ n + ((i - n) + 1) = i + 1 /\ i + 1 <= n + m BY <3>1, <3>2, SMTT(60)
    <3>4. (i - n) + 1 \in 1..Len(w) /\ n + ((i - n) + 1) = i + 1 /\ i + 1 <= Len(B)
      BY <1>2, <3>3, Zenon DEF m
    <3>5. B[i + 1] = w[(i - n) + 1] BY <1>2, <3>4, SMTT(60)
    <3>6. w[(i - n) + 1].seal = After(w[i - n]) BY <1>3, <2>1, <3>4, Zenon DEF Chained
    <3> QED BY <1>2, <2>2, <3>4, <3>5, <3>6, SMTT(60)
  <2> QED BY <2>3, <2>4, Zenon
<1>7. Good(n + 1)
  <2>1. 1..((n + 1) - 1) = 1..n BY <1>2, SMTT(60)
  <2>2. CipherFor(e, n + 1) = Seal(n + 1) BY <1>4, <1>5, Zenon
  <2>3. KeysBefore(e, n + 1) = {} \/ Max(KeysBefore(e, n + 1)) \in 1..((n + 1) - 1) BY <1>4, <2>1, Zenon
  <2> QED BY <2>2, <2>3, Zenon
<1> HIDE DEF Seal
<1>8. ASSUME NEW i \in (n + 1)..Len(B), Good(i) PROVE Good(i + 1)
  <2>1. i \in Nat /\ i > n /\ i <= Len(B) /\ (i + 1) - 1 = i BY <1>2, SMTT(60)
  <2>2. B[i].seal = CipherFor(e, i) BY <1>6, <1>8, Zenon
  <2>3. KeysBefore(e, i) = {} \/ Max(KeysBefore(e, i)) \in 1..(i - 1) BY <1>8, Zenon
  <2>4. /\ CipherFor(e, i + 1) = After(B[i])
        /\ KeysBefore(e, i + 1) = {} \/ Max(KeysBefore(e, i + 1)) \in 1..i
    BY <2>1, <2>2, <2>3, NextCipher, Zenon DEF B, n, ch
  <2> QED BY <1>6, <2>1, <2>4, Zenon
<1> HIDE DEF Good
<1>9. Bad = {}
  <2> SUFFICES ASSUME Bad # {} PROVE FALSE BY Zenon
  <2>1. Bad \in SUBSET Nat BY <1>2, SMTT(60)
  <2>2. PICK i \in Bad : \A k \in Bad : i <= k
    <3> HIDE DEF Bad
    <3> QED BY <2>1, NatMin, Zenon
  <2>3. i \in (n + 1)..(Len(B) + 1) /\ ~Good(i) BY <2>2, Zenon
  <2>4. i # n + 1 BY <1>7, <2>3, Zenon
  <2>5. i - 1 \in (n + 1)..Len(B) /\ (i - 1) + 1 = i /\ ~(i <= i - 1) BY <1>2, <2>3, <2>4, SMTT(60)
  <2>6. Good(i - 1) BY <1>2, <2>2, <2>5, SMTT(60)
  <2>7. Good((i - 1) + 1) BY <1>8, <2>5, <2>6, Zenon
  <2> QED BY <2>3, <2>5, <2>7, Zenon
<1>10. \A i \in (n + 1)..(Len(B) + 1) : Good(i) BY <1>9, Zenon
<1> HIDE DEF Bad
<1>11. ASSUME NEW i \in (n + 1)..Len(B) PROVE B[i].seal = CipherFor(e, i)
  <2>1. i \in (n + 1)..(Len(B) + 1) BY <1>2, SMTT(60)
  <2> QED BY <1>6, <1>10, <2>1, Zenon DEF Good
<1>12. s = CipherFor(e, Len(B) + 1)
  <2>1. Len(B) + 1 \in (n + 1)..(Len(B) + 1) /\ ~(Len(B) + 1 <= Len(B)) BY <1>2, SMTT(60)
  <2> QED BY <1>10, <2>1, Zenon DEF Good, Seal
<1> QED BY <1>11, <1>12, Zenon DEF B, n, ch, s

LEMMA InvInStep == Inv => RotationInStep
<1> SUFFICES ASSUME Inv, NEW e \in Ends, ready[Other(e)], ~closed[e],
                    state[e] \notin {"Pending", "WaitDhKey"}
             PROVE  /\ \A i \in (Len(channel[e]) + 1)..Len(Backlog(e)) :
                           Backlog(e)[i].seal = CipherFor(e, i)
                    /\ our[Other(e)] = CipherFor(e, Len(Backlog(e)) + 1)
  BY Zenon DEF RotationInStep
<1>1. Chained(channel[e], wire[Other(e)], peer[e], our[Other(e)])
  BY Zenon DEF Inv, InStep, Sealed, Receiving, Before
<1> QED BY <1>1, ChainCiphers, Zenon DEF Inv

-----------------------------------------------------------------------------
(* The theorems                                                            *)

\* The state of both ends of a connection keeps its type: in particular a reader only ever
\* applies a key that an end generated.
THEOREM TypeCorrect == ConnSpec => []TypeOK
  BY Invariance, PTL DEF Inv

\* generate_rotate_key_packet and rotate_peer_key: whatever rotations are in flight, a reader
\* that applies each key before it reads on holds the cipher of every packet under way and,
\* behind them, the sender's own.  For any rotation interval and channel size.
THEOREM CiphersInStep == ConnSpec => []RotationInStep
  BY Invariance, InvInStep, PTL

\* read_peer_packet_task: a packet fails to decrypt only while a key that was read waits in
\* the channel for listen_connection to apply it.
THEOREM FailureOnlyInRotation == ConnSpec => []FailsOnlyInRotation
  BY Invariance, PTL DEF Inv
=============================================================================
