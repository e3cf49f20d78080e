-------------------------- MODULE ConnectionProofs --------------------------
(***************************************************************************)
(* Proofs about Connection, for any number of map changes, restarts,        *)
(* connections and packets in flight: a client enters the world only with   *)
(* the gamestate of the map, and no two of a kind are on their way to it.   *)
(***************************************************************************)
EXTENDS Connection, SequenceTheorems, TLAPS

USE BoundsAssumption
-----------------------------------------------------------------------------
(* The packets in flight.                                                  *)

UpMessage == UpPacket \cup OutOfBands
DownMessage == GameStates \cup Snapshots \cup OutOfBands

\* t is what is left of s without its first d packets, with new behind it.
Moved(t, s, d, new) ==
  /\ d \in Nat /\ DOMAIN t \subseteq Nat /\ DOMAIN s \subseteq Nat
  /\ \A i \in DOMAIN t : \/ i + d \in DOMAIN s /\ t[i] = s[i + d]
                         \/ t[i] \in new /\ \A j \in DOMAIN t : j <= i
  /\ \A j \in DOMAIN s : j > d => j - d \in DOMAIN t /\ t[j - d] = s[j]

LEMMA MovedNot ==
  ASSUME NEW S, NEW s \in Seq(S)
  PROVE  Moved(s, s, 0, {})
<1>1. DOMAIN s \subseteq Nat
  BY LenProperties
<1>2. \A i \in DOMAIN s : i + 0 = i /\ i - 0 = i
  BY <1>1
<1>3. QED
  BY <1>1, <1>2 DEF Moved

LEMMA RestMoved ==
  ASSUME NEW S, NEW s \in Seq(S), NEW k \in DOMAIN s
  PROVE  Rest(s, k) \in Seq(S) /\ Moved(Rest(s, k), s, k, {})
<1>1. Len(s) \in Nat /\ DOMAIN s = 1 .. Len(s) /\ \A i \in 1 .. Len(s) : s[i] \in S
  BY LenProperties, ElementOfSeq
<1>2. \A i \in k + 1 .. Len(s) : s[i] \in S
  BY <1>1
<1>3. k + 1 \in 1 .. Len(s) + 1
  BY <1>1
<1> DEFINE t == SubSeq(s, k + 1, Len(s))
<1>4. /\ t \in Seq(S)
      /\ Len(t) = IF k + 1 <= Len(s) THEN Len(s) - (k + 1) + 1 ELSE 0
      /\ \A i \in 1 .. Len(s) - (k + 1) + 1 : t[i] = s[(k + 1) + i - 1]
  BY <1>1, <1>2, SubSeqProperties
<1> HIDE DEF t
<1>5. Len(t) = Len(s) - k /\ DOMAIN t = 1 .. Len(s) - k
  BY <1>1, <1>4, LenProperties
<1>6. \A i \in DOMAIN t : i + k \in DOMAIN s /\ t[i] = s[i + k]
  <2> SUFFICES ASSUME NEW i \in DOMAIN t
               PROVE  i + k \in DOMAIN s /\ t[i] = s[i + k]
    OBVIOUS
  <2>1. i \in 1 .. Len(s) - (k + 1) + 1 /\ i + k \in 1 .. Len(s) /\ (k + 1) + i - 1 = i + k
    BY <1>1, <1>5
  <2>2. QED
    BY <1>1, <1>4, <2>1
<1>7. \A j \in DOMAIN s : j > k => j - k \in DOMAIN t /\ t[j - k] = s[j]
  <2> SUFFICES ASSUME NEW j \in DOMAIN s, j > k
               PROVE  j - k \in DOMAIN t /\ t[j - k] = s[j]
    OBVIOUS
  <2>1. j - k \in 1 .. Len(s) - k /\ (j - k) + k = j
    BY <1>1
  <2>2. QED
    BY <2>1, <1>5, <1>6
<1>8. QED
  BY <1>1, <1>4, <1>5, <1>6, <1>7 DEF Moved, Rest, t

LEMMA InFlightMoved ==
  ASSUME NEW S, NEW s \in Seq(S), NEW p \in S
  PROVE  /\ InFlight(s, p) \in Seq(S)
         /\ \E d \in {0, 1} : Moved(InFlight(s, p), s, d, {p})
         /\ Len(InFlight(s, p)) \in DOMAIN InFlight(s, p)
         /\ InFlight(s, p)[Len(InFlight(s, p))] = p
<1>1. Len(s) \in Nat /\ DOMAIN s = 1 .. Len(s)
  BY LenProperties
<1>2. CASE Len(s) < MaxInFlight
  <2> DEFINE t == Append(s, p)
  <2>1. /\ t \in Seq(S) /\ Len(t) = Len(s) + 1
        /\ \A i \in 1 .. Len(s) : t[i] = s[i]
        /\ t[Len(s) + 1] = p
    BY AppendProperties
  <2> HIDE DEF t
  <2>2. DOMAIN t = 1 .. Len(s) + 1
    BY <2>1, LenProperties
  <2>3. Moved(t, s, 0, {p})
    BY <1>1, <2>1, <2>2 DEF Moved
  <2>4. InFlight(s, p) = t
    BY <1>2 DEF InFlight, t
  <2>5. QED
    BY <1>1, <2>1, <2>2, <2>3, <2>4
<1>3. CASE ~(Len(s) < MaxInFlight)
  <2>1. s # <<>> /\ Len(s) > 0
    BY <1>1, <1>3, EmptySeq
  <2> DEFINE u == Tail(s)
  <2>2. /\ u \in Seq(S) /\ Len(u) = Len(s) - 1
        /\ \A i \in 1 .. Len(u) : u[i] = s[i + 1]
    BY <2>1, HeadTailProperties
  <2> HIDE DEF u
  <2> DEFINE t == Append(u, p)
  <2>3. /\ t \in Seq(S) /\ Len(t) = Len(u) + 1
        /\ \A i \in 1 .. Len(u) : t[i] = u[i]
        /\ t[Len(u) + 1] = p
    BY <2>2, AppendProperties
  <2> HIDE DEF t
  <2>4. Len(t) = Len(s) /\ DOMAIN t = 1 .. Len(s) /\ t[Len(s)] = p
    BY <1>1, <2>1, <2>2, <2>3, LenProperties
  <2>5. \A i \in 1 .. Len(s) - 1 : t[i] = s[i + 1]
    BY <1>1, <2>2, <2>3
  <2>6. Moved(t, s, 1, {p})
    <3>1. \A i \in DOMAIN t : \/ i + 1 \in DOMAIN s /\ t[i] = s[i + 1]
                              \/ t[i] \in {p} /\ \A j \in DOMAIN t : j <= i
      BY <1>1, <2>4, <2>5
    <3>2. ASSUME NEW j \in DOMAIN s, j > 1
          PROVE  j - 1 \in DOMAIN t /\ t[j - 1] = s[j]
      <4>1. j - 1 \in 1 .. Len(s) - 1 /\ (j - 1) + 1 = j
        BY <1>1, <3>2
      <4>2. QED
        BY <1>1, <2>4, <2>5, <4>1
    <3>3. QED
      BY <1>1, <2>4, <3>1, <3>2 DEF Moved
  <2>7. InFlight(s, p) = t
    BY <1>3 DEF InFlight, t, u
  <2>8. QED
    BY <1>1, <2>1, <2>3, <2>4, <2>6, <2>7
<1>4. QED
  BY <1>2, <1>3
-----------------------------------------------------------------------------
(* Messages.                                                               *)

LEMMA UpMessages ==
  ASSUME NEW m \in UpMessage
  PROVE  /\ m.type = "packet" => m \in UpPacket
         /\ m.type # "packet" => m \in OutOfBands
BY DEF UpMessage, UpPacket, OutOfBands, OutOfBandTypes

LEMMA DownMessages ==
  ASSUME NEW m \in DownMessage
  PROVE  /\ m.type = "gamestate" => m \in GameStates
         /\ m.type = "snapshot" => m \in Snapshots
         /\ ~InBand(m) => m \in OutOfBands
BY DEF DownMessage, GameStates, Snapshots, OutOfBands, OutOfBandTypes, InBand

\* m is m0, but may have become older than the last gamestate.
AlikeUp(m, m0) ==
  /\ m.type = m0.type
  /\ m0.type = "packet" => m.id = m0.id /\ m.quit = m0.quit /\ (m.after => m0.after)

AlikeDown(m, m0) ==
  /\ m.type = m0.type
  /\ InBand(m0) => m.cs = m0.cs /\ (m.after => m0.after)
  /\ m0.type = "gamestate" => m.id = m0.id /\ m.map = m0.map

LEMMA NotAfterUp ==
  ASSUME NEW s \in Seq(UpMessage)
  PROVE  /\ NotAfter(s) \in Seq(UpMessage) /\ DOMAIN NotAfter(s) = DOMAIN s
         /\ \A i \in DOMAIN s : /\ AlikeUp(NotAfter(s)[i], s[i])
                                /\ s[i].type = "packet" => ~NotAfter(s)[i].after
<1>1. Len(s) \in Nat /\ DOMAIN s = 1 .. Len(s) /\ \A i \in 1 .. Len(s) : s[i] \in UpMessage
  BY LenProperties, ElementOfSeq
<1> DEFINE Older(m) == IF "after" \in DOMAIN m THEN [m EXCEPT !.after = FALSE] ELSE m
<1>2. ASSUME NEW m \in UpMessage
      PROVE  /\ Older(m) \in UpMessage /\ AlikeUp(Older(m), m)
             /\ m.type = "packet" => ~Older(m).after
  <2>1. CASE m.type = "packet"
    <3>1. m \in UpPacket /\ "after" \in DOMAIN m
      BY <2>1, UpMessages DEF UpPacket
    <3>2. Older(m) \in UpPacket /\ ~Older(m).after /\ Older(m).type = m.type
          /\ Older(m).id = m.id /\ Older(m).quit = m.quit
      BY <3>1 DEF UpPacket
    <3>3. QED
      BY <3>2, <2>1 DEF UpMessage, AlikeUp
  <2>2. CASE m.type # "packet"
    <3>1. Older(m) = m
      BY <2>2, UpMessages DEF OutOfBands
    <3>2. QED
      BY <3>1, <2>2 DEF AlikeUp
  <2>3. QED
    BY <2>1, <2>2
<1>3. NotAfter(s) = [i \in 1 .. Len(s) |-> Older(s[i])]
  BY <1>1 DEF NotAfter
<1> HIDE DEF Older
<1>4. NotAfter(s) \in Seq(UpMessage)
  BY <1>1, <1>2, <1>3, IsASeq
<1>5. QED
  BY <1>1, <1>2, <1>3, <1>4

LEMMA NotAfterDown ==
  ASSUME NEW s \in Seq(DownMessage)
  PROVE  /\ NotAfter(s) \in Seq(DownMessage) /\ DOMAIN NotAfter(s) = DOMAIN s
         /\ \A i \in DOMAIN s : /\ AlikeDown(NotAfter(s)[i], s[i])
                                /\ InBand(s[i]) => ~NotAfter(s)[i].after
<1>1. Len(s) \in Nat /\ DOMAIN s = 1 .. Len(s) /\ \A i \in 1 .. Len(s) : s[i] \in DownMessage
  BY LenProperties, ElementOfSeq
<1> DEFINE Older(m) == IF "after" \in DOMAIN m THEN [m EXCEPT !.after = FALSE] ELSE m
<1>2. ASSUME NEW m \in DownMessage
      PROVE  /\ Older(m) \in DownMessage /\ AlikeDown(Older(m), m)
             /\ InBand(m) => ~Older(m).after
  <2>1. CASE m.type = "gamestate"
    <3>1. m \in GameStates /\ "after" \in DOMAIN m
      BY <2>1, DownMessages DEF GameStates
    <3>2. Older(m) \in GameStates /\ ~Older(m).after /\ Older(m).type = m.type
          /\ Older(m).id = m.id /\ Older(m).map = m.map /\ Older(m).cs = m.cs
      BY <3>1 DEF GameStates
    <3>3. QED
      BY <3>2, <2>1 DEF DownMessage, AlikeDown
  <2>2. CASE m.type = "snapshot"
    <3>1. m \in Snapshots /\ "after" \in DOMAIN m
      BY <2>2, DownMessages DEF Snapshots
    <3>2. Older(m) \in Snapshots /\ ~Older(m).after /\ Older(m).type = m.type
          /\ Older(m).cs = m.cs
      BY <3>1 DEF Snapshots
    <3>3. QED
      BY <3>2, <2>2 DEF DownMessage, AlikeDown
  <2>3. CASE ~InBand(m)
    <3>1. Older(m) = m
      BY <2>3, DownMessages DEF OutOfBands
    <3>2. QED
      BY <3>1, <2>3 DEF AlikeDown
  <2>4. QED
    BY <2>1, <2>2, <2>3 DEF InBand
<1>3. NotAfter(s) = [i \in 1 .. Len(s) |-> Older(s[i])]
  BY <1>1 DEF NotAfter
<1> HIDE DEF Older
<1>4. NotAfter(s) \in Seq(DownMessage)
  BY <1>1, <1>2, <1>3, IsASeq
<1>5. QED
  BY <1>1, <1>2, <1>3, <1>4

\* What a step does to the packets in flight: it takes the first d away and sends new.
UpMoved(d, new) ==
  /\ d \in Nat /\ DOMAIN up' \subseteq Nat /\ DOMAIN up \subseteq Nat
  /\ \A i \in DOMAIN up' : \/ i + d \in DOMAIN up /\ AlikeUp(up'[i], up[i + d])
                           \/ up'[i] \in new /\ \A j \in DOMAIN up' : j <= i

DownMoved(d, new) ==
  /\ d \in Nat /\ DOMAIN down' \subseteq Nat /\ DOMAIN down \subseteq Nat
  /\ \A i \in DOMAIN down' : \/ i + d \in DOMAIN down /\ AlikeDown(down'[i], down[i + d])
                             \/ down'[i] \in new /\ \A j \in DOMAIN down' : j <= i
  /\ \A j \in DOMAIN down : j > d => /\ j - d \in DOMAIN down'
                                     /\ AlikeDown(down'[j - d], down[j])

UpOK == up \in Seq(UpMessage)
DownOK == down \in Seq(DownMessage)

LEMMA UpKept ==
  ASSUME UpOK
  PROVE  /\ up' = up => UpOK' /\ UpMoved(0, {})
         /\ \A k \in DOMAIN up : up' = Rest(up, k) => UpOK' /\ UpMoved(k, {})
         /\ \A k \in DOMAIN up : up' = NotAfter(Rest(up, k)) =>
              /\ UpOK' /\ UpMoved(k, {})
              /\ \A i \in DOMAIN up' : up'[i].type = "packet" => ~up'[i].after
         /\ \A p \in UpMessage : up' = InFlight(up, p) =>
              UpOK' /\ \E d \in {0, 1} : UpMoved(d, {p})
<1>0. up \in Seq(UpMessage)
  BY DEF UpOK
<1>1. ASSUME up' = up
      PROVE  UpOK' /\ UpMoved(0, {})
  BY <1>0, <1>1, MovedNot DEF UpOK, UpMoved, Moved, AlikeUp
<1>2. ASSUME NEW k \in DOMAIN up, up' = Rest(up, k)
      PROVE  UpOK' /\ UpMoved(k, {})
  BY <1>0, <1>2, RestMoved DEF UpOK, UpMoved, Moved, AlikeUp
<1>3. ASSUME NEW k \in DOMAIN up, up' = NotAfter(Rest(up, k))
      PROVE  /\ UpOK' /\ UpMoved(k, {})
             /\ \A i \in DOMAIN up' : up'[i].type = "packet" => ~up'[i].after
  <2> DEFINE r == Rest(up, k)
  <2>1. r \in Seq(UpMessage) /\ Moved(r, up, k, {})
    BY <1>0, RestMoved
  <2> HIDE DEF r
  <2>2. /\ NotAfter(r) \in Seq(UpMessage) /\ DOMAIN NotAfter(r) = DOMAIN r
        /\ \A i \in DOMAIN r : /\ AlikeUp(NotAfter(r)[i], r[i])
                               /\ r[i].type = "packet" => ~NotAfter(r)[i].after
    BY <2>1, NotAfterUp
  <2>3. up' = NotAfter(r)
    BY <1>3 DEF r
  <2>4. \A i \in DOMAIN up' : i + k \in DOMAIN up /\ AlikeUp(up'[i], up[i + k])
                              /\ (up'[i].type = "packet" => ~up'[i].after)
    BY <2>1, <2>2, <2>3 DEF Moved, AlikeUp
  <2>5. QED
    BY <2>1, <2>2, <2>3, <2>4 DEF UpOK, UpMoved, Moved
<1>4. ASSUME NEW p \in UpMessage, up' = InFlight(up, p)
      PROVE  UpOK' /\ \E d \in {0, 1} : UpMoved(d, {p})
  <2>1. PICK d \in {0, 1} : Moved(InFlight(up, p), up, d, {p})
    BY <1>0, InFlightMoved
  <2>2. InFlight(up, p) \in Seq(UpMessage)
    BY <1>0, InFlightMoved
  <2>3. UpMoved(d, {p})
    BY <1>4, <2>1 DEF UpMoved, Moved, AlikeUp
  <2>4. QED
    BY <1>4, <2>2, <2>3 DEF UpOK
<1>5. QED
  BY <1>1, <1>2, <1>3, <1>4

LEMMA DownKept ==
  ASSUME DownOK
  PROVE  /\ down' = down => DownOK' /\ DownMoved(0, {})
         /\ \A k \in DOMAIN down : down' = Rest(down, k) => DownOK' /\ DownMoved(k, {})
         /\ \A p \in DownMessage : down' = InFlight(down, p) =>
              DownOK' /\ \E d \in {0, 1} : DownMoved(d, {p})
         /\ \A p \in DownMessage : down' = InFlight(NotAfter(down), p) =>
              /\ DownOK' /\ \E d \in {0, 1} : DownMoved(d, {p})
              /\ \A i \in DOMAIN down' : InBand(down'[i]) => ~down'[i].after \/ down'[i] = p
<1>0. down \in Seq(DownMessage)
  BY DEF DownOK
<1>1. ASSUME down' = down
      PROVE  DownOK' /\ DownMoved(0, {})
  BY <1>0, <1>1, MovedNot DEF DownOK, DownMoved, Moved, AlikeDown
<1>2. ASSUME NEW k \in DOMAIN down, down' = Rest(down, k)
      PROVE  DownOK' /\ DownMoved(k, {})
  <2>1. Rest(down, k) \in Seq(DownMessage) /\ Moved(Rest(down, k), down, k, {})
    BY <1>0, RestMoved
  <2>2. \A m : AlikeDown(m, m)
    BY DEF AlikeDown
  <2>3. DownMoved(k, {})
    BY <1>2, <2>1, <2>2 DEF DownMoved, Moved
  <2>4. QED
    BY <1>2, <2>1, <2>3 DEF DownOK
<1>3. ASSUME NEW p \in DownMessage, down' = InFlight(down, p)
      PROVE  DownOK' /\ \E d \in {0, 1} : DownMoved(d, {p})
  <2>1. PICK d \in {0, 1} : Moved(InFlight(down, p), down, d, {p})
    BY <1>0, InFlightMoved
  <2>2. InFlight(down, p) \in Seq(DownMessage)
    BY <1>0, InFlightMoved
  <2>3. DownMoved(d, {p})
    BY <1>3, <2>1 DEF DownMoved, Moved, AlikeDown
  <2>4. QED
    BY <1>3, <2>2, <2>3 DEF DownOK
<1>4. ASSUME NEW p \in DownMessage, down' = InFlight(NotAfter(down), p)
      PROVE  /\ DownOK' /\ \E d \in {0, 1} : DownMoved(d, {p})
             /\ \A i \in DOMAIN down' : InBand(down'[i]) => ~down'[i].after \/ down'[i] = p
  <2> DEFINE n == NotAfter(down)
  <2>1. /\ n \in Seq(DownMessage) /\ DOMAIN n = DOMAIN down
        /\ \A i \in DOMAIN down : /\ AlikeDown(n[i], down[i])
                                  /\ InBand(down[i]) => ~n[i].after
    BY <1>0, NotAfterDown
  <2>2. down' = InFlight(n, p)
    BY <1>4
  <2> HIDE DEF n
  <2>3. InFlight(n, p) \in Seq(DownMessage)
    BY <2>1, InFlightMoved
  <2>4. PICK d \in {0, 1} : Moved(InFlight(n, p), n, d, {p})
    BY <2>1, InFlightMoved
  <2>5. DownMoved(d, {p})
    BY <2>1, <2>2, <2>4 DEF DownMoved, Moved
  <2>6. \A i \in DOMAIN down' : InBand(down'[i]) => ~down'[i].after \/ down'[i] = p
    BY <2>1, <2>2, <2>4 DEF Moved, AlikeDown, InBand
  <2>7. QED
    BY <2>2, <2>3, <2>5, <2>6 DEF DownOK
<1>5. QED
  BY <1>1, <1>2, <1>3, <1>4
-----------------------------------------------------------------------------
(* Types.                                                                  *)

ServerRecord ==
  [state : {"CS_FREE", "CS_ZOMBIE", "CS_CONNECTED", "CS_PRIMED", "CS_ACTIVE"},
   drop : BOOLEAN, cs : ServerId, gotCP : BOOLEAN, cpNum : Nat]

ClientRecord ==
  [state : {"CA_DISCONNECTED", "CA_CONNECTING", "CA_CHALLENGING",
            "CA_CONNECTED", "CA_PRIMED", "CA_ACTIVE"},
   id : ServerId, map : ServerId, after : BOOLEAN,
   snap : {"none", "not active", "active"},
   cs : ServerId, executed : ServerId, drop : BOOLEAN,
   connects : 0 .. MaxConnects, cp : ServerId, cpNum : Nat]

ServerOK == server \in ServerRecord /\ (server.drop <=> server.state = "CS_ZOMBIE")

SvOK ==
  /\ sv \in [serverId : 1 .. MaxServerId, restartedServerId : 1 .. MaxServerId,
             pure : BOOLEAN]
  /\ sv.restartedServerId <= sv.serverId

LEMMA TypeParts == TypeOK <=> SvOK /\ ServerOK /\ client \in ClientRecord
BY DEF TypeOK, SvOK, ServerOK, ServerRecord, ClientRecord

LEMMA NetParts == NetsOK <=> UpOK /\ DownOK
BY DEF NetsOK, UpOK, DownOK, UpMessage, DownMessage

LEMMA SvFacts ==
  ASSUME SvOK
  PROVE  /\ sv.serverId \in ServerId /\ sv.restartedServerId \in ServerId
         /\ sv.serverId \in Nat /\ sv.restartedServerId \in Nat \ {0}
         /\ sv.serverId <= MaxServerId /\ sv.restartedServerId <= sv.serverId
BY DEF SvOK, ServerId, NoId

LEMMA NoIdIsId == NoId \in ServerId /\ ServerId \subseteq Nat
BY DEF NoId, ServerId

\* The messages the two sides build.
LEMMA BuiltMessages ==
  ASSUME SvOK, ServerOK, client \in ClientRecord
  PROVE  /\ \A t \in OutOfBandTypes :
              /\ OutOfBand(t) \in UpMessage /\ OutOfBand(t) \in DownMessage
              /\ OutOfBand(t).type = t
         /\ GameState \in DownMessage
         /\ [type |-> "snapshot", after |-> TRUE, cs |-> server.cs,
             active |-> server.state = "CS_ACTIVE", drop |-> server.drop] \in DownMessage
         /\ \A q \in BOOLEAN : Packet(client, q) \in UpMessage
<1>1. \A t \in OutOfBandTypes : /\ OutOfBand(t) \in UpMessage /\ OutOfBand(t) \in DownMessage
                                /\ OutOfBand(t).type = t
  BY DEF OutOfBand, UpMessage, DownMessage, OutOfBands
<1>2. GameState \in GameStates
  BY SvFacts DEF GameState, GameStates, ServerOK, ServerRecord
<1>3. [type |-> "snapshot", after |-> TRUE, cs |-> server.cs,
       active |-> server.state = "CS_ACTIVE", drop |-> server.drop] \in Snapshots
  BY DEF Snapshots, ServerOK, ServerRecord
<1>4. \A q \in BOOLEAN : Packet(client, q) \in UpPacket
  BY DEF Packet, UpPacket, ClientRecord
<1>5. QED
  BY <1>1, <1>2, <1>3, <1>4 DEF UpMessage, DownMessage
-----------------------------------------------------------------------------
(* What the steps do: kinds of steps, by what the invariant looks at.       *)

\* The server works: it answers, executes commands and moves, sends snapshots, drops.
ServerWorks ==
  /\ UNCHANGED <<sv, client, early>>
  /\ \E d : UpMoved(d, {})
  /\ \E d, new : /\ DownMoved(d, new)
                 /\ \A m \in new :
                      /\ m.type \in {"snapshot", "challengeResponse", "disconnect"}
                      /\ m.type = "snapshot" => m.cs = server.cs
  /\ server'.cs \in {server.cs, NoId}
  /\ server'.state = "CS_PRIMED" => server.state = "CS_PRIMED"
  /\ server'.state = "CS_ACTIVE" =>
       \/ server.state = "CS_ACTIVE" /\ (server.gotCP => server'.gotCP)
       \/ /\ server.state = "CS_PRIMED"
          /\ ~sv.pure \/ server'.gotCP
          /\ \E k \in DOMAIN up : /\ up[k].type = "packet" /\ ~up[k].quit
                                  /\ up[k].id = sv.serverId

\* It accepts or denies a connect.
Accepts ==
  /\ UNCHANGED <<sv, client>> /\ early' = FALSE
  /\ client.state = "CA_CHALLENGING"
  /\ server'.state \in {"CS_FREE", "CS_CONNECTED"} /\ server'.cs = NoId
  /\ \E k \in DOMAIN up : up[k].type = "connect" /\ UpMoved(k, {})
  /\ \E d, new : DownMoved(d, new) /\ \A m \in new : m.type = "connectResponse"

\* It sends a gamestate.
SendsGameState ==
  /\ UNCHANGED <<sv, early>>
  /\ server'.state = "CS_PRIMED" /\ server'.cs = server.cs
  /\ client' = [client EXCEPT !.after = FALSE]
  /\ \E k \in DOMAIN up :
       /\ up[k].type = "packet" /\ UpMoved(k, {})
       /\ up[k].after \/ (sv.pure /\ ~server.gotCP /\ server.state = "CS_ACTIVE")
  /\ \A i \in DOMAIN up' : up'[i].type = "packet" => ~up'[i].after
  /\ \E d : DownMoved(d, {GameState})
  /\ \A i \in DOMAIN down' : InBand(down'[i]) => ~down'[i].after

\* The client sends a packet.
ClientSends ==
  /\ UNCHANGED <<sv, server, client, early, down>>
  /\ \E d, p : /\ UpMoved(d, {p})
               /\ p.type = "packet" => Connected /\ p = Packet(client, FALSE)
               /\ p.type = "connect" => client.state = "CA_CHALLENGING"

\* Its connection is wiped, to begin another or not.
ClientWiped ==
  /\ UNCHANGED <<sv, server, early, down>>
  /\ client'.state \in {"CA_DISCONNECTED", "CA_CONNECTING"}
  /\ client'.state = "CA_CONNECTING" => client.connects = 0 \/ Quiet
  /\ client'.connects = 0 => client.connects = 0 /\ client.state # "CA_DISCONNECTED"
  /\ client'.id = NoId /\ client'.map = NoId /\ client'.cs = NoId
  /\ \E d, new : /\ UpMoved(d, new)
                 /\ \A p \in new : Connected /\ p = Packet(client, TRUE)

\* It goes on to the game, and may learn a server id by a command.
ClientPlays ==
  /\ UNCHANGED <<sv, server, early, up, down>>
  /\ client.state \in {"CA_PRIMED", "CA_ACTIVE"} /\ client'.state = "CA_ACTIVE"
  /\ client'.id \in {client.id, client.cs}
  /\ client'.map = client.map /\ client'.cs = client.cs /\ client'.after = client.after
  /\ client'.connects = client.connects

\* It gets the k-th packet in flight.
Gets(k) ==
  /\ UNCHANGED <<sv, server, up>> /\ DownMoved(k, {})
  /\ early' = (early /\ client'.map # sv.restartedServerId)
  /\ client'.connects = client.connects

GetsNothing == client' = client

GetsHandshake(k) ==
  /\ \/ client.state = "CA_CONNECTING" /\ client'.state = "CA_CHALLENGING"
     \/ /\ client.state = "CA_CHALLENGING" /\ client'.state = "CA_CONNECTED"
        /\ down[k].type = "connectResponse"
  /\ client'.id = client.id /\ client'.map = client.map /\ client'.cs = client.cs

GetsGameState(k) ==
  /\ Connected /\ down[k].type = "gamestate" /\ client'.state = "CA_PRIMED"
  /\ client'.id = down[k].id /\ client'.map = down[k].map /\ ~client'.after
  /\ client'.cs \in {client.cs, down[k].cs} /\ client'.cs >= client.cs

GetsSnapshot(k) ==
  /\ Connected /\ down[k].type = "snapshot" /\ client'.state = client.state
  /\ client'.id = client.id /\ client'.map = client.map
  /\ client'.after = down[k].after
  /\ client'.cs \in {client.cs, down[k].cs} /\ client'.cs >= client.cs

\* A map change, and a restart.
NewMap ==
  /\ UNCHANGED <<client, up, down>> /\ early' = FALSE
  /\ sv'.serverId = sv.serverId + 1 /\ sv'.restartedServerId = sv.serverId + 1
  /\ server'.state \in {"CS_FREE", "CS_ZOMBIE", "CS_CONNECTED"} /\ server'.cs = server.cs

Restart ==
  /\ UNCHANGED <<client, up, down>>
  /\ sv'.serverId = sv.serverId + 1 /\ sv'.restartedServerId = sv.restartedServerId
  /\ \/ /\ server'.state \in {"CS_FREE", "CS_ZOMBIE"} /\ server'.cs = server.cs
        /\ early' <=> early
     \/ /\ server'.state = "CS_ACTIVE" /\ server'.cs = sv.serverId + 1
        /\ early' = (early \/ client.map # sv.restartedServerId)

Kinds ==
  \/ ServerWorks \/ Accepts \/ SendsGameState \/ ClientSends \/ ClientWiped \/ ClientPlays
  \/ NewMap \/ Restart
  \/ \E k \in DOMAIN down :
       Gets(k) /\ (GetsNothing \/ GetsHandshake(k) \/ GetsGameState(k) \/ GetsSnapshot(k))

\* The types that an invariant's step may rely on, before and after.
Types == SvOK /\ ServerOK /\ client \in ClientRecord /\ UpOK /\ DownOK

LEMMA TypesSame == Types <=> TypeOK /\ NetsOK
BY TypeParts, NetParts DEF Types

LEMMA SnapshotStep ==
  ASSUME Types, SV_SendClientSnapshot
  PROVE  Types' /\ ServerWorks
<1> DEFINE p == [type |-> "snapshot", after |-> TRUE, cs |-> server.cs,
                 active |-> server.state = "CS_ACTIVE", drop |-> server.drop]
<1>1. p \in DownMessage /\ p.type = "snapshot" /\ p.cs = server.cs
  BY BuiltMessages DEF Types
<1>2. down' = InFlight(down, p) /\ UNCHANGED <<sv, server, client, up, early>>
  BY DEF SV_SendClientSnapshot
<1> HIDE DEF p
<1>3. DownOK' /\ \E d : DownMoved(d, {p})
  BY <1>1, <1>2, DownKept DEF Types
<1>4. UpOK' /\ UpMoved(0, {})
  BY <1>2, UpKept DEF Types
<1>5. Types'
  BY <1>2, <1>3, <1>4 DEF Types, SvOK, ServerOK
<1>6. ServerWorks
  BY <1>1, <1>2, <1>3, <1>4 DEF ServerWorks
<1>7. QED
  BY <1>5, <1>6

LEMMA GameStateStep ==
  ASSUME Types, UNCHANGED <<sv, early>>, NEW k \in DOMAIN up, up[k].type = "packet",
         up[k].after \/ (sv.pure /\ ~server.gotCP /\ server.state = "CS_ACTIVE"),
         NEW s \in ServerRecord, s.cs = server.cs, s.state \in {"CS_CONNECTED", "CS_PRIMED", "CS_ACTIVE"},
         ~s.drop, SV_SendClientGameState(s, Rest(up, k))
  PROVE  Types' /\ SendsGameState
<1>1. /\ server' = [s EXCEPT !.state = "CS_PRIMED", !.gotCP = FALSE]
      /\ down' = InFlight(NotAfter(down), GameState)
      /\ up' = NotAfter(Rest(up, k))
      /\ client' = [client EXCEPT !.after = FALSE]
  BY DEF SV_SendClientGameState
<1>2. GameState \in DownMessage /\ ~GameState.after
  BY BuiltMessages DEF Types, GameState
<1>3. /\ DownOK' /\ \E d \in {0, 1} : DownMoved(d, {GameState})
      /\ \A i \in DOMAIN down' : InBand(down'[i]) => ~down'[i].after \/ down'[i] = GameState
  BY <1>1, <1>2, DownKept DEF Types
<1>4. /\ UpOK' /\ UpMoved(k, {})
      /\ \A i \in DOMAIN up' : up'[i].type = "packet" => ~up'[i].after
  BY <1>1, UpKept DEF Types
<1>5. /\ server'.state = "CS_PRIMED" /\ server'.cs = server.cs /\ server' \in ServerRecord
      /\ ~server'.drop
  BY <1>1 DEF ServerRecord
<1>6. client' \in ClientRecord
  BY <1>1 DEF Types, ClientRecord
<1>7. Types'
  BY <1>3, <1>4, <1>5, <1>6 DEF Types, SvOK, ServerOK
<1>8. SendsGameState
  BY <1>1, <1>2, <1>3, <1>4, <1>5 DEF SendsGameState
<1>9. QED
  BY <1>7, <1>8

\* A step of the server that sends no gamestate.
ServerActs ==
  /\ UNCHANGED <<sv, client, early>>
  /\ up' = up \/ \E k \in DOMAIN up : up' = Rest(up, k)
  /\ \/ down' = down
     \/ \E t \in {"challengeResponse", "disconnect"} : down' = InFlight(down, OutOfBand(t))

LEMMA ServerStep ==
  ASSUME Types, ServerActs, server' \in ServerRecord,
         server'.drop <=> server'.state = "CS_ZOMBIE",
         server'.cs \in {server.cs, NoId},
         server'.state = "CS_PRIMED" => server.state = "CS_PRIMED",
         server'.state = "CS_ACTIVE" =>
           \/ server.state = "CS_ACTIVE" /\ (server.gotCP => server'.gotCP)
           \/ /\ server.state = "CS_PRIMED"
              /\ ~sv.pure \/ server'.gotCP
              /\ \E k \in DOMAIN up : /\ up[k].type = "packet" /\ ~up[k].quit
                                      /\ up[k].id = sv.serverId
  PROVE  Types' /\ ServerWorks
<1>1. UpOK' /\ \E d : UpMoved(d, {})
  <2>1. CASE up' = up
    BY <2>1, UpKept DEF Types
  <2>2. CASE \E k \in DOMAIN up : up' = Rest(up, k)
    BY <2>2, UpKept DEF Types
  <2>3. QED
    BY <2>1, <2>2 DEF ServerActs
<1>2. DownOK' /\ \E d, new : /\ DownMoved(d, new)
                             /\ \A m \in new : m.type \in {"challengeResponse", "disconnect"}
  <2>1. CASE down' = down
    BY <2>1, DownKept DEF Types
  <2>2. ASSUME NEW t \in {"challengeResponse", "disconnect"}, down' = InFlight(down, OutOfBand(t))
        PROVE  DownOK' /\ \E d, new : /\ DownMoved(d, new)
                                      /\ \A m \in new : m.type \in {"challengeResponse", "disconnect"}
    <3>1. OutOfBand(t) \in DownMessage /\ OutOfBand(t).type = t
      BY BuiltMessages DEF Types, OutOfBandTypes
    <3>2. DownOK' /\ \E d : DownMoved(d, {OutOfBand(t)})
      BY <3>1, <2>2, DownKept DEF Types
    <3>3. QED
      BY <3>1, <3>2
  <2>3. QED
    BY <2>1, <2>2 DEF ServerActs
<1>3. Types'
  BY <1>1, <1>2 DEF Types, SvOK, ServerOK, ServerActs
<1>4. \E d, new : /\ DownMoved(d, new)
                  /\ \A m \in new :
                       /\ m.type \in {"snapshot", "challengeResponse", "disconnect"}
                       /\ m.type = "snapshot" => m.cs = server.cs
  BY <1>2
<1>5. ServerWorks
  BY <1>1, <1>4 DEF ServerWorks, ServerActs
<1>6. QED
  BY <1>3, <1>5

LEMMA FreeIs ==
  /\ Free \in ServerRecord /\ Free.state = "CS_FREE" /\ ~Free.drop /\ Free.cs = NoId
  /\ [Free EXCEPT !.state = "CS_CONNECTED"] \in ServerRecord
BY NoIdIsId DEF Free, ServerRecord

LEMMA Verified ==
  ASSUME Types, NEW msg \in UpPacket
  PROVE  /\ SV_VerifyPaks(msg) \in ServerRecord
         /\ SV_VerifyPaks(msg).state = server.state /\ SV_VerifyPaks(msg).drop = server.drop
         /\ SV_VerifyPaks(msg).cs = server.cs
         /\ server.gotCP => SV_VerifyPaks(msg).gotCP
<1>1. server \in ServerRecord /\ msg.cpNum \in Nat
  BY DEF Types, ServerOK, UpPacket
<1> DEFINE g == server.gotCP \/ (msg.cpNum # server.cpNum /\ msg.cp >= sv.restartedServerId)
<1>2. g \in BOOLEAN /\ (server.gotCP => g)
  OBVIOUS
<1>3. SV_VerifyPaks(msg) = [server EXCEPT !.cpNum = msg.cpNum, !.gotCP = g]
  BY <1>1 DEF SV_VerifyPaks, ServerRecord
<1> HIDE DEF g
<1>4. QED
  BY <1>1, <1>2, <1>3 DEF ServerRecord

LEMMA DroppedIs ==
  ASSUME NEW s \in ServerRecord
  PROVE  /\ Dropped(s) \in ServerRecord /\ Dropped(s).state = "CS_ZOMBIE" /\ Dropped(s).drop
         /\ Dropped(s).cs = s.cs
BY DEF Dropped, ServerRecord

\* One of the steps above, and the types hold again.
Effect == Types' /\ Kinds

LEMMA ServerUnchanged ==
  ASSUME Types, ServerActs, server' = server
  PROVE  Effect
<1>1. Types' /\ ServerWorks
  BY ServerStep DEF Types, ServerOK, ServerRecord
<1>2. QED
  BY <1>1 DEF Effect, Kinds

LEMMA ConnectStep ==
  ASSUME Types, UNCHANGED sv, NEW k \in DOMAIN up, up[k].type = "connect",
         NEW denied \in BOOLEAN, SV_DirectConnect(Rest(up, k), denied)
  PROVE  Effect
<1>1. up' = Rest(up, k) /\ UNCHANGED client
  BY DEF SV_DirectConnect
<1>2. CASE client.state # "CA_CHALLENGING"
  <2>1. UNCHANGED <<server, down, early>>
    BY <1>2 DEF SV_DirectConnect
  <2>2. QED
    BY <1>1, <2>1, ServerUnchanged DEF ServerActs
<1>3. CASE client.state = "CA_CHALLENGING"
  <2> DEFINE p == OutOfBand("connectResponse")
  <2>1. /\ server' = IF denied THEN Free ELSE [Free EXCEPT !.state = "CS_CONNECTED"]
        /\ down' = IF denied THEN down ELSE InFlight(down, p)
        /\ early' = FALSE
    BY <1>3 DEF SV_DirectConnect
  <2>2. p \in DownMessage /\ p.type = "connectResponse"
    BY BuiltMessages DEF Types, OutOfBandTypes
  <2> HIDE DEF p
  <2>3. /\ server' \in ServerRecord /\ server'.state \in {"CS_FREE", "CS_CONNECTED"}
        /\ ~server'.drop /\ server'.cs = NoId
    BY <2>1, FreeIs DEF ServerRecord
  <2>4. DownOK' /\ \E d, new : DownMoved(d, new) /\ \A m \in new : m.type = "connectResponse"
    <3>1. CASE denied
      BY <3>1, <2>1, DownKept DEF Types
    <3>2. CASE ~denied
      <4>1. DownOK' /\ \E d : DownMoved(d, {p})
        BY <3>2, <2>1, <2>2, DownKept DEF Types
      <4>2. QED
        BY <4>1, <2>2
    <3>3. QED
      BY <3>1, <3>2
  <2>5. UpOK' /\ UpMoved(k, {})
    BY <1>1, UpKept DEF Types
  <2>6. Types'
    BY <1>1, <2>3, <2>4, <2>5 DEF Types, SvOK, ServerOK
  <2>7. Accepts
    BY <1>1, <1>3, <2>1, <2>3, <2>4, <2>5 DEF Accepts
  <2>8. QED
    BY <2>6, <2>7 DEF Effect, Kinds
<1>4. QED
  BY <1>2, <1>3

\* The state of a slot in use, with the gamestate sent or not, that a message leaves.
LEMMA MoveStep ==
  ASSUME Types, UNCHANGED <<sv, early>>, InUse, NEW k \in DOMAIN up, up[k].type = "packet",
         ~up[k].quit, up[k].id = sv.serverId,
         SV_UserMove(SV_VerifyPaks(up[k]), Rest(up, k))
  PROVE  Effect
<1> DEFINE s == SV_VerifyPaks(up[k])
<1>1. /\ s \in ServerRecord /\ s.state = server.state /\ s.drop = server.drop
      /\ s.cs = server.cs /\ (server.gotCP => s.gotCP)
  <2>1. up[k] \in UpPacket
    BY UpMessages, ElementOfSeq DEF Types, UpOK
  <2>2. QED
    BY <2>1, Verified
<1>2. SV_UserMove(s, Rest(up, k))
  OBVIOUS
<1> HIDE DEF s
<1>3. server \in ServerRecord /\ ~s.drop /\ s.state \in {"CS_CONNECTED", "CS_PRIMED", "CS_ACTIVE"}
  BY <1>1 DEF Types, ServerOK, InUse
<1>4. CASE sv.pure /\ ~s.gotCP /\ s.state = "CS_ACTIVE"
  <2>1. SV_SendClientGameState(s, Rest(up, k))
    BY <1>2, <1>4 DEF SV_UserMove
  <2>2. sv.pure /\ ~server.gotCP /\ server.state = "CS_ACTIVE"
    BY <1>1, <1>3, <1>4 DEF ServerRecord
  <2>3. Types' /\ SendsGameState
    BY <1>1, <1>3, <2>1, <2>2, GameStateStep
  <2>4. QED
    BY <2>3 DEF Effect, Kinds
<1>5. CASE sv.pure /\ ~s.gotCP /\ s.state # "CS_ACTIVE"
  <2>1. server' = s /\ up' = Rest(up, k) /\ UNCHANGED <<client, down>>
    BY <1>2, <1>5 DEF SV_UserMove
  <2>2. ServerActs
    BY <2>1 DEF ServerActs
  <2>3. Types' /\ ServerWorks
    BY <1>1, <1>3, <1>5, <2>1, <2>2, ServerStep
  <2>4. QED
    BY <2>3 DEF Effect, Kinds
<1>6. CASE ~(sv.pure /\ ~s.gotCP)
  <2>1. /\ server' = [s EXCEPT !.state = IF @ = "CS_PRIMED" THEN "CS_ACTIVE" ELSE @]
        /\ up' = Rest(up, k) /\ UNCHANGED <<client, down>>
    BY <1>2, <1>6 DEF SV_UserMove
  <2>2. ServerActs
    BY <2>1 DEF ServerActs
  <2>3. /\ server' \in ServerRecord /\ ~server'.drop /\ server'.cs = server.cs
        /\ server'.gotCP = s.gotCP
        /\ server'.state = IF s.state = "CS_PRIMED" THEN "CS_ACTIVE" ELSE s.state
    BY <1>1, <1>3, <2>1 DEF ServerRecord
  <2>4. server'.state # "CS_ZOMBIE" /\ server'.state # "CS_PRIMED"
    BY <1>3, <2>3
  <2>5. ASSUME server'.state = "CS_ACTIVE", server.state # "CS_ACTIVE"
        PROVE  /\ server.state = "CS_PRIMED" /\ (~sv.pure \/ server'.gotCP)
               /\ \E l \in DOMAIN up : /\ up[l].type = "packet" /\ ~up[l].quit
                                       /\ up[l].id = sv.serverId
    BY <1>1, <1>6, <2>3, <2>5
  <2>6. server.gotCP => server'.gotCP
    BY <1>1, <2>3
  <2>7. Types' /\ ServerWorks
    BY <2>2, <2>3, <2>4, <2>5, <2>6, ServerStep
  <2>8. QED
    BY <2>7 DEF Effect, Kinds
<1>7. QED
  BY <1>3, <1>4, <1>5, <1>6

LEMMA PacketStep ==
  ASSUME Types, UNCHANGED sv, NEW k \in DOMAIN up, up[k].type = "packet",
         SV_SequencedPacket(up[k], Rest(up, k))
  PROVE  Effect
<1>0. UNCHANGED early
  BY DEF SV_SequencedPacket
<1>1. CASE ~InUse
  <2>1. /\ up' = Rest(up, k) /\ UNCHANGED <<server, client>>
        /\ down' = down \/ down' = InFlight(down, OutOfBand("disconnect"))
    BY <1>1 DEF SV_SequencedPacket
  <2>2. QED
    BY <1>0, <2>1, ServerUnchanged DEF ServerActs
<1>2. CASE InUse /\ up[k].id = sv.serverId /\ up[k].quit
  <2> DEFINE s == SV_VerifyPaks(up[k])
  <2>1. s \in ServerRecord /\ s.cs = server.cs
    <3>1. up[k] \in UpPacket
      BY UpMessages, ElementOfSeq DEF Types, UpOK
    <3>2. QED
      BY <3>1, Verified
  <2>2. server' = Dropped(s) /\ up' = Rest(up, k) /\ UNCHANGED <<client, down>>
    BY <1>2 DEF SV_SequencedPacket, SV_ExecuteClientMessage, ExecuteRest
  <2> HIDE DEF s
  <2>3. ServerActs
    BY <1>0, <2>2 DEF ServerActs
  <2>4. Types' /\ ServerWorks
    BY <2>1, <2>2, <2>3, DroppedIs, ServerStep
  <2>5. QED
    BY <2>4 DEF Effect, Kinds
<1>3. CASE InUse /\ up[k].id = sv.serverId /\ ~up[k].quit
  <2>1. SV_UserMove(SV_VerifyPaks(up[k]), Rest(up, k))
    BY <1>3 DEF SV_SequencedPacket, SV_ExecuteClientMessage, ExecuteRest
  <2>2. QED
    BY <1>0, <1>3, <2>1, MoveStep
<1>4. CASE InUse /\ up[k].id # sv.serverId
  <2>1. Ignored(Rest(up, k)) \/ (up[k].after /\ SV_SendClientGameState(server, Rest(up, k)))
    BY <1>4 DEF SV_SequencedPacket, SV_ExecuteClientMessage
  <2>2. CASE Ignored(Rest(up, k))
    BY <1>0, <2>2, ServerUnchanged DEF ServerActs, Ignored
  <2>3. CASE up[k].after /\ SV_SendClientGameState(server, Rest(up, k))
    <3>1. server \in ServerRecord /\ ~server.drop
          /\ server.state \in {"CS_CONNECTED", "CS_PRIMED", "CS_ACTIVE"}
      BY <1>4 DEF Types, ServerOK, InUse
    <3>2. Types' /\ SendsGameState
      BY <1>0, <2>3, <3>1, GameStateStep
    <3>3. QED
      BY <3>2 DEF Effect, Kinds
  <2>4. QED
    BY <2>1, <2>2, <2>3
<1>5. QED
  BY <1>1, <1>2, <1>3, <1>4 DEF Types, UpOK

LEMMA PacketEventStep ==
  ASSUME Types, NEW k \in DOMAIN up, NEW denied \in BOOLEAN, SV_PacketEvent(k, denied)
  PROVE  Effect
<1>1. UNCHANGED sv
  BY DEF SV_PacketEvent
<1>2. CASE up[k].type = "getchallenge" /\ SV_GetChallenge(Rest(up, k))
  BY <1>1, <1>2, ServerUnchanged DEF ServerActs, SV_GetChallenge
<1>3. CASE up[k].type = "connect" /\ SV_DirectConnect(Rest(up, k), denied)
  BY <1>1, <1>3, ConnectStep
<1>4. CASE up[k].type = "packet" /\ SV_SequencedPacket(up[k], Rest(up, k))
  BY <1>1, <1>4, PacketStep
<1>5. QED
  BY <1>2, <1>3, <1>4 DEF SV_PacketEvent

LEMMA TimeoutStep ==
  ASSUME Types, SV_CheckTimeouts \/ SV_Kick
  PROVE  Effect
<1>1. UNCHANGED <<sv, client, up, down, early>> /\ server' \in {Free, Dropped(server)}
  BY DEF SV_CheckTimeouts, SV_Kick
<1>2. ServerActs
  BY <1>1 DEF ServerActs
<1>3. /\ server' \in ServerRecord /\ (server'.drop <=> server'.state = "CS_ZOMBIE")
      /\ server'.cs \in {server.cs, NoId} /\ server'.state \in {"CS_FREE", "CS_ZOMBIE"}
  BY <1>1, FreeIs, DroppedIs DEF Types, ServerOK
<1>4. Types' /\ ServerWorks
  BY <1>2, <1>3, ServerStep
<1>5. QED
  BY <1>4 DEF Effect, Kinds

\* What a map change or a restart leaves of a slot.
LEMMA SlotKept ==
  ASSUME Types, NEW denied \in BOOLEAN, NEW s \in ServerRecord, ~s.drop, s.state # "CS_ZOMBIE",
         server' = IF ~InUse THEN server ELSE IF denied THEN Dropped(server) ELSE s
  PROVE  /\ server' \in ServerRecord /\ (server'.drop <=> server'.state = "CS_ZOMBIE")
         /\ ~InUse \/ denied => server'.state \in {"CS_FREE", "CS_ZOMBIE"} /\ server'.cs = server.cs
         /\ InUse /\ ~denied => server' = s
BY DroppedIs DEF Types, ServerOK, ServerRecord, InUse

LEMMA SpawnStep ==
  ASSUME Types, NEW denied \in BOOLEAN, SV_SpawnServer(denied)
  PROVE  Effect
<1> DEFINE s == [server EXCEPT !.state = "CS_CONNECTED"]
<1>1. /\ sv.serverId < MaxServerId
      /\ sv' = [sv EXCEPT !.serverId = @ + 1, !.restartedServerId = sv.serverId + 1]
      /\ server' = IF ~InUse THEN server ELSE IF denied THEN Dropped(server) ELSE s
      /\ early' = FALSE /\ UNCHANGED <<client, up, down>>
  BY DEF SV_SpawnServer
<1>2. SvOK' /\ sv'.serverId = sv.serverId + 1 /\ sv'.restartedServerId = sv.serverId + 1
  <2>1. sv.serverId + 1 \in 1 .. MaxServerId
    BY <1>1, SvFacts DEF Types
  <2>2. sv' \in [serverId : 1 .. MaxServerId, restartedServerId : 1 .. MaxServerId,
                 pure : BOOLEAN]
        /\ sv'.serverId = sv.serverId + 1 /\ sv'.restartedServerId = sv.serverId + 1
    BY <1>1, <2>1 DEF Types, SvOK
  <2>3. sv'.restartedServerId <= sv'.serverId
    BY <2>1, <2>2
  <2>4. QED
    BY <2>2, <2>3 DEF SvOK
<1>3. InUse => s \in ServerRecord /\ ~s.drop /\ s.state = "CS_CONNECTED" /\ s.cs = server.cs
  BY DEF Types, ServerOK, ServerRecord, InUse
<1> HIDE DEF s
<1>4. /\ server' \in ServerRecord /\ (server'.drop <=> server'.state = "CS_ZOMBIE")
      /\ server'.state \in {"CS_FREE", "CS_ZOMBIE", "CS_CONNECTED"} /\ server'.cs = server.cs
  <2>1. CASE InUse
    BY <1>1, <1>3, <2>1, SlotKept
  <2>2. CASE ~InUse
    BY <1>1, <2>2 DEF Types, ServerOK, ServerRecord, InUse
  <2>3. QED
    BY <2>1, <2>2
<1>5. UpOK' /\ DownOK'
  BY <1>1, UpKept, DownKept DEF Types
<1>6. Types' /\ NewMap
  BY <1>1, <1>2, <1>4, <1>5 DEF Types, ServerOK, NewMap
<1>7. QED
  BY <1>6 DEF Effect, Kinds

LEMMA RestartStep ==
  ASSUME Types, NEW denied \in BOOLEAN, SV_MapRestart_f(denied)
  PROVE  Effect
<1> DEFINE s == [server EXCEPT !.state = "CS_ACTIVE", !.cs = sv.serverId + 1]
<1>1. /\ sv.serverId < MaxServerId /\ sv' = [sv EXCEPT !.serverId = @ + 1]
      /\ server' = IF ~InUse THEN server ELSE IF denied THEN Dropped(server) ELSE s
      /\ early' = (early \/ (InUse /\ ~denied /\ client.map # sv.restartedServerId))
      /\ UNCHANGED <<client, up, down>>
  BY DEF SV_MapRestart_f
<1>2. /\ SvOK' /\ sv'.serverId = sv.serverId + 1
      /\ sv'.restartedServerId = sv.restartedServerId
  BY <1>1 DEF Types, SvOK
<1>3. sv.serverId + 1 \in ServerId
  BY <1>1, SvFacts DEF Types, ServerId, NoId
<1>4. InUse => s \in ServerRecord /\ ~s.drop /\ s.state = "CS_ACTIVE" /\ s.cs = sv.serverId + 1
  BY <1>3 DEF Types, ServerOK, ServerRecord, InUse
<1> HIDE DEF s
<1>5. /\ server' \in ServerRecord /\ (server'.drop <=> server'.state = "CS_ZOMBIE")
      /\ \/ /\ server'.state \in {"CS_FREE", "CS_ZOMBIE"} /\ server'.cs = server.cs
            /\ ~InUse \/ denied
         \/ /\ server'.state = "CS_ACTIVE" /\ server'.cs = sv.serverId + 1
            /\ InUse /\ ~denied
  <2>1. CASE InUse
    BY <1>1, <1>4, <2>1, SlotKept
  <2>2. CASE ~InUse
    BY <1>1, <2>2 DEF Types, ServerOK, ServerRecord, InUse
  <2>3. QED
    BY <2>1, <2>2
<1>6. \/ /\ server'.state \in {"CS_FREE", "CS_ZOMBIE"} /\ server'.cs = server.cs
         /\ early' <=> early
      \/ /\ server'.state = "CS_ACTIVE" /\ server'.cs = sv.serverId + 1
         /\ early' = (early \/ client.map # sv.restartedServerId)
  <2>1. CASE ~InUse \/ denied
    BY <1>1, <1>5, <2>1
  <2>2. CASE InUse /\ ~denied
    <3>1. early' = (early \/ client.map # sv.restartedServerId)
      BY <1>1, <2>2
    <3>2. QED
      BY <1>5, <2>2, <3>1
  <2>3. QED
    BY <2>1, <2>2
<1>7. UpOK' /\ DownOK'
  BY <1>1, UpKept, DownKept DEF Types
<1>8. Types'
  BY <1>1, <1>2, <1>5, <1>7 DEF Types, ServerOK
<1>9. Restart
  BY <1>1, <1>2, <1>6 DEF Restart
<1>10. QED
  BY <1>8, <1>9 DEF Effect, Kinds
-----------------------------------------------------------------------------
(* The steps of the client.                                                *)

\* No connection is opened while an earlier one has something in flight.
Afresh == client'.connects # client.connects /\ client.connects > 0 => Quiet

LEMMA SendStep ==
  ASSUME Types, CL_CheckForResend \/ CL_WritePacket
  PROVE  Effect
<1>1. UNCHANGED <<sv, server, client, down, early>>
  BY DEF CL_CheckForResend, CL_WritePacket
<1>2. PICK p \in UpMessage :
        /\ up' = InFlight(up, p)
        /\ p.type = "packet" => Connected /\ p = Packet(client, FALSE)
        /\ p.type = "connect" => client.state = "CA_CHALLENGING"
  <2>1. CASE CL_WritePacket
    <3>1. Packet(client, FALSE) \in UpMessage /\ Packet(client, FALSE).type = "packet"
      BY BuiltMessages DEF Types, Packet
    <3>2. QED
      BY <2>1, <3>1 DEF CL_WritePacket
  <2>2. CASE CL_CheckForResend
    <3> DEFINE t == IF client.state = "CA_CONNECTING" THEN "getchallenge" ELSE "connect"
    <3>1. OutOfBand(t) \in UpMessage /\ OutOfBand(t).type = t
      BY BuiltMessages DEF Types, OutOfBandTypes
    <3>2. up' = InFlight(up, OutOfBand(t)) /\ (t = "connect" => client.state = "CA_CHALLENGING")
      BY <2>2 DEF CL_CheckForResend
    <3>3. t # "packet"
      OBVIOUS
    <3>4. QED
      BY <3>1, <3>2, <3>3
  <2>3. QED
    BY <2>1, <2>2
<1>3. UpOK' /\ \E d : UpMoved(d, {p})
  BY <1>2, UpKept DEF Types
<1>4. DownOK'
  BY <1>1, DownKept DEF Types
<1>5. Types'
  BY <1>1, <1>3, <1>4 DEF Types, SvOK, ServerOK
<1>6. ClientSends
  BY <1>1, <1>2, <1>3 DEF ClientSends
<1>7. QED
  BY <1>5, <1>6 DEF Effect, Kinds

LEMMA ConnectsIsNat ==
  ASSUME client \in ClientRecord
  PROVE  client.connects \in Nat
<1>1. client.connects \in 0 .. MaxConnects
  BY DEF ClientRecord
<1>2. QED
  BY <1>1

LEMMA WipedIs ==
  ASSUME client \in ClientRecord
  PROVE  /\ Wiped(client) \in ClientRecord /\ Wiped(client).state = "CA_DISCONNECTED"
         /\ Wiped(client).id = NoId /\ Wiped(client).map = NoId /\ Wiped(client).cs = NoId
         /\ Wiped(client).connects = client.connects
BY NoIdIsId DEF Wiped, ClientRecord

LEMMA DisconnectPacketsMoved ==
  ASSUME Types, up' = DisconnectPackets
  PROVE  UpOK' /\ \E d, new : /\ UpMoved(d, new)
                              /\ \A p \in new : Connected /\ p = Packet(client, TRUE)
<1> DEFINE p == Packet(client, TRUE)
<1>1. CASE Connected
  <2>1. p \in UpMessage
    BY BuiltMessages DEF Types
  <2>2. up' = InFlight(up, p)
    BY <1>1 DEF DisconnectPackets
  <2>3. UpOK' /\ \E d : UpMoved(d, {p})
    BY <2>1, <2>2, UpKept DEF Types
  <2>4. \A q \in {p} : Connected /\ q = p
    BY <1>1
  <2> HIDE DEF p
  <2>5. \E d, new : UpMoved(d, new) /\ \A q \in new : Connected /\ q = p
    BY <2>3, <2>4
  <2>6. QED
    BY <2>3, <2>5 DEF p
<1>2. CASE ~Connected
  <2>1. UpOK' /\ UpMoved(0, {})
    BY <1>2, UpKept DEF Types, DisconnectPackets
  <2>2. \E d, new : UpMoved(d, new) /\ \A q \in new : Connected /\ q = p
    <3> DEFINE none == {}
    <3>1. UpMoved(0, none) /\ \A q \in none : Connected /\ q = p
      BY <2>1
    <3> HIDE DEF p, none
    <3>2. QED
      BY <3>1
  <2>3. QED
    BY <2>1, <2>2
<1>3. QED
  BY <1>1, <1>2

LEMMA WipeStep ==
  ASSUME Types, CL_Disconnect \/ CL_Connect_f \/ (CL_Frame /\ client.drop)
  PROVE  Types' /\ (Afresh => Kinds)
<1>1. UNCHANGED <<sv, server, down, early>> /\ up' = DisconnectPackets
  BY DEF CL_Disconnect, CL_Connect_f, CL_Frame
<1>2. UpOK' /\ \E d, new : /\ UpMoved(d, new)
                           /\ \A p \in new : Connected /\ p = Packet(client, TRUE)
  BY <1>1, DisconnectPacketsMoved
<1>3. /\ client' \in ClientRecord
      /\ client'.state \in {"CA_DISCONNECTED", "CA_CONNECTING"}
      /\ client'.state = "CA_CONNECTING" => client'.connects = client.connects + 1
      /\ client'.connects = 0 => client.connects = 0 /\ client.state # "CA_DISCONNECTED"
      /\ client'.id = NoId /\ client'.map = NoId /\ client'.cs = NoId
  <2>1. CASE CL_Connect_f
    <3>1. client' = [Wiped(client) EXCEPT !.state = "CA_CONNECTING", !.connects = @ + 1]
          /\ client.connects < MaxConnects
      BY <2>1 DEF CL_Connect_f
    <3>2. client.connects + 1 \in 0 .. MaxConnects /\ client.connects + 1 # 0
      BY <3>1, ConnectsIsNat DEF Types
    <3> DEFINE w == Wiped(client)
    <3>3. /\ w \in ClientRecord /\ w.id = NoId /\ w.map = NoId /\ w.cs = NoId
          /\ w.connects = client.connects
      BY WipedIs DEF Types
    <3>4. client' = [w EXCEPT !.state = "CA_CONNECTING", !.connects = @ + 1]
      BY <3>1
    <3> HIDE DEF w
    <3>5. QED
      BY <3>2, <3>3, <3>4 DEF ClientRecord
  <2>2. CASE CL_Disconnect \/ (CL_Frame /\ client.drop)
    <3>1. client' = Wiped(client) /\ client.state # "CA_DISCONNECTED"
      BY <2>2 DEF CL_Disconnect, CL_Frame
    <3>2. QED
      BY <3>1, WipedIs DEF Types
  <2>3. QED
    BY <2>1, <2>2
<1>4. Afresh /\ client'.state = "CA_CONNECTING" => client.connects = 0 \/ Quiet
  <2>1. client.connects \in Nat
    BY ConnectsIsNat DEF Types
  <2>2. QED
    BY <1>3, <2>1 DEF Afresh
<1>5. DownOK'
  BY <1>1, DownKept DEF Types
<1>6. Types'
  BY <1>1, <1>2, <1>3, <1>5 DEF Types, SvOK, ServerOK
<1>7. Afresh => ClientWiped
  BY <1>1, <1>2, <1>3, <1>4 DEF ClientWiped
<1>8. QED
  BY <1>6, <1>7 DEF Kinds

LEMMA FrameStep ==
  ASSUME Types, CL_Frame, ~client.drop
  PROVE  Effect
<1>1. /\ UNCHANGED <<sv, server, down, early, up>>
      /\ client.state \in {"CA_PRIMED", "CA_ACTIVE"}
      /\ client' = IF client.executed # client.cs
                   THEN [client EXCEPT !.state = "CA_ACTIVE", !.id = client.cs,
                                       !.executed = client.cs]
                   ELSE [client EXCEPT !.state = "CA_ACTIVE"]
  BY DEF CL_Frame
<1>2. /\ client' \in ClientRecord /\ client'.state = "CA_ACTIVE"
      /\ client'.id \in {client.id, client.cs}
      /\ client'.map = client.map /\ client'.cs = client.cs /\ client'.after = client.after
      /\ client'.connects = client.connects
  <2>1. CASE client.executed # client.cs
    BY <1>1, <2>1 DEF Types, ClientRecord
  <2>2. CASE client.executed = client.cs
    BY <1>1, <2>2 DEF Types, ClientRecord
  <2>3. QED
    BY <2>1, <2>2
<1>3. UpOK' /\ DownOK'
  BY <1>1, UpKept, DownKept DEF Types
<1>4. Types' /\ ClientPlays
  BY <1>1, <1>2, <1>3 DEF Types, SvOK, ServerOK, ClientPlays
<1>5. QED
  BY <1>4 DEF Effect, Kinds

LEMMA CommandsAre ==
  ASSUME client \in ClientRecord, NEW msg \in GameStates \cup Snapshots
  PROVE  /\ Commands(client, msg) \in ClientRecord
         /\ Commands(client, msg).state = client.state /\ Commands(client, msg).id = client.id
         /\ Commands(client, msg).map = client.map
         /\ Commands(client, msg).connects = client.connects
         /\ Commands(client, msg).after = msg.after
         /\ Commands(client, msg).cs \in {client.cs, msg.cs}
         /\ Commands(client, msg).cs >= client.cs
<1>1. /\ client.cs \in ServerId /\ msg.cs \in ServerId /\ client.drop \in BOOLEAN
      /\ msg.drop \in BOOLEAN /\ msg.after \in BOOLEAN
  BY DEF ClientRecord, GameStates, Snapshots
<1> DEFINE n == IF msg.cs > client.cs THEN msg.cs ELSE client.cs
<1> DEFINE b == client.drop \/ msg.drop
<1>2. n \in ServerId /\ n \in {client.cs, msg.cs} /\ n >= client.cs /\ b \in BOOLEAN
  <2>1. client.cs \in Nat /\ msg.cs \in Nat
    BY <1>1, NoIdIsId
  <2>2. n \in {client.cs, msg.cs} /\ n >= client.cs
    BY <2>1
  <2>3. n \in ServerId
    BY <1>1, <2>2
  <2>4. QED
    BY <1>1, <2>2, <2>3
<1>3. Commands(client, msg) = [client EXCEPT !.after = msg.after, !.drop = b, !.cs = n]
  BY DEF Commands, ClientRecord
<1> HIDE DEF n, b
<1>4. QED
  BY <1>1, <1>2, <1>3 DEF ClientRecord

LEMMA ChecksumsAre ==
  ASSUME NEW c \in ClientRecord
  PROVE  /\ CL_SendPureChecksums(c) \in ClientRecord
         /\ CL_SendPureChecksums(c).state = c.state /\ CL_SendPureChecksums(c).id = c.id
         /\ CL_SendPureChecksums(c).map = c.map /\ CL_SendPureChecksums(c).after = c.after
         /\ CL_SendPureChecksums(c).cs = c.cs
         /\ CL_SendPureChecksums(c).connects = c.connects
<1>0. c.id \in ServerId /\ c.cpNum \in Nat
  BY DEF ClientRecord
<1>1. c.id \in ServerId /\ c.cpNum + 1 \in Nat
  BY <1>0
<1>2. CASE sv.pure
  BY <1>1, <1>2 DEF ClientRecord, CL_SendPureChecksums
<1>3. CASE ~sv.pure
  BY <1>3 DEF CL_SendPureChecksums
<1>4. QED
  BY <1>2, <1>3

LEMMA ReceiveStep ==
  ASSUME Types, NEW k \in DOMAIN down, CL_PacketEvent(k)
  PROVE  Effect /\ client'.connects = client.connects
<1> DEFINE msg == down[k]
<1>1. /\ down' = Rest(down, k) /\ UNCHANGED <<sv, server, up>>
      /\ early' = (early /\ client'.map # sv.restartedServerId)
      /\ client' = IF msg.type \in OutOfBandTypes
                   THEN CL_ConnectionlessPacket(client, msg.type)
                   ELSE IF ~Connected THEN client
                   ELSE IF msg.type = "gamestate" THEN CL_ParseGamestate(client, msg)
                   ELSE CL_ParseSnapshot(client, msg)
  BY DEF CL_PacketEvent
<1>2. msg \in DownMessage
  BY ElementOfSeq DEF Types, DownOK
<1>3. DownOK' /\ DownMoved(k, {})
  BY <1>1, DownKept DEF Types
<1>4. UpOK' /\ SvOK' /\ ServerOK'
  BY <1>1, UpKept DEF Types, SvOK, ServerOK
<1>5. /\ client' \in ClientRecord /\ client'.connects = client.connects
      /\ GetsNothing \/ GetsHandshake(k) \/ GetsGameState(k) \/ GetsSnapshot(k)
  <2> HIDE DEF msg
  <2>0. client \in ClientRecord
    BY DEF Types
  <2>1. CASE msg.type \in OutOfBandTypes
    <3>1. client' = CL_ConnectionlessPacket(client, msg.type)
      BY <1>1, <2>1
    <3>2. CASE msg.type = "challengeResponse" /\ client.state = "CA_CONNECTING"
      <4>1. client' = [client EXCEPT !.state = "CA_CHALLENGING"]
        BY <3>1, <3>2 DEF CL_ConnectionlessPacket
      <4>2. QED
        BY <2>0, <3>2, <4>1 DEF ClientRecord, GetsHandshake
    <3>3. CASE msg.type = "connectResponse" /\ client.state = "CA_CHALLENGING"
      <4>1. client' = [client EXCEPT !.state = "CA_CONNECTED"]
        BY <3>1, <3>3 DEF CL_ConnectionlessPacket
      <4>2. QED
        BY <2>0, <3>3, <4>1 DEF ClientRecord, GetsHandshake, msg
    <3>4. CASE /\ ~(msg.type = "challengeResponse" /\ client.state = "CA_CONNECTING")
               /\ ~(msg.type = "connectResponse" /\ client.state = "CA_CHALLENGING")
      BY <2>0, <3>1, <3>4 DEF CL_ConnectionlessPacket, GetsNothing
    <3>5. QED
      BY <3>2, <3>3, <3>4
  <2>2. CASE msg.type \notin OutOfBandTypes /\ ~Connected
    BY <1>1, <2>0, <2>2 DEF GetsNothing
  <2>3. CASE msg.type \notin OutOfBandTypes /\ Connected /\ msg.type = "gamestate"
    <3>1. client' = CL_ParseGamestate(client, msg)
      BY <1>1, <2>3
    <3>2. msg \in GameStates /\ msg.id \in ServerId /\ msg.map \in ServerId /\ ~msg.after
      BY <1>2, <2>3, DownMessages DEF GameStates
    <3> DEFINE c == Commands(client, msg)
    <3>3. /\ c \in ClientRecord /\ c.connects = client.connects /\ ~c.after
          /\ c.cs \in {client.cs, msg.cs} /\ c.cs >= client.cs
      BY <2>0, <3>2, CommandsAre
    <3> DEFINE g == [c EXCEPT !.state = "CA_PRIMED", !.id = msg.id, !.map = msg.map,
                              !.snap = "none"]
    <3>4. client' = CL_SendPureChecksums(g)
      BY <3>1 DEF CL_ParseGamestate
    <3> HIDE DEF c
    <3>5. /\ g \in ClientRecord /\ g.state = "CA_PRIMED" /\ g.id = msg.id /\ g.map = msg.map
          /\ g.after = c.after /\ g.cs = c.cs /\ g.connects = c.connects
      BY <3>2, <3>3 DEF ClientRecord
    <3> HIDE DEF g
    <3>6. /\ client' \in ClientRecord /\ client'.state = "CA_PRIMED" /\ client'.id = msg.id
          /\ client'.map = msg.map /\ client'.after = c.after /\ client'.cs = c.cs
          /\ client'.connects = c.connects
      BY <3>4, <3>5, ChecksumsAre
    <3>7. GetsGameState(k)
      BY <2>3, <3>3, <3>6 DEF GetsGameState, msg
    <3>8. QED
      BY <3>3, <3>6, <3>7
  <2>4. CASE msg.type \notin OutOfBandTypes /\ Connected /\ msg.type # "gamestate"
    <3>1. client' = CL_ParseSnapshot(client, msg)
      BY <1>1, <2>4
    <3>2. msg \in Snapshots /\ msg.type = "snapshot"
      BY <1>2, <2>4, DownMessages DEF OutOfBands, InBand, Snapshots
    <3> DEFINE c == Commands(client, msg)
    <3>3. /\ c \in ClientRecord /\ c.connects = client.connects /\ c.after = msg.after
          /\ c.state = client.state /\ c.id = client.id /\ c.map = client.map
          /\ c.cs \in {client.cs, msg.cs} /\ c.cs >= client.cs
      BY <2>0, <3>2, CommandsAre
    <3>4. client' = [c EXCEPT !.snap = IF msg.active THEN "active" ELSE "not active"]
      BY <3>1 DEF CL_ParseSnapshot
    <3> HIDE DEF c
    <3>5. /\ client' \in ClientRecord /\ client'.connects = c.connects
          /\ client'.after = c.after /\ client'.state = c.state /\ client'.id = c.id
          /\ client'.map = c.map /\ client'.cs = c.cs
      BY <3>3, <3>4 DEF ClientRecord
    <3>6. GetsSnapshot(k)
      BY <2>4, <3>2, <3>3, <3>5 DEF GetsSnapshot, msg
    <3>7. QED
      BY <3>3, <3>5, <3>6
  <2>5. QED
    BY <2>1, <2>2, <2>3, <2>4
<1>6. Types'
  BY <1>3, <1>4, <1>5 DEF Types
<1>7. Gets(k)
  BY <1>1, <1>3, <1>5 DEF Gets
<1>8. QED
  BY <1>5, <1>6, <1>7 DEF Effect, Kinds

\* The types are kept, and every step is of one of these kinds.
LEMMA StepEffect ==
  ASSUME Types, [Next]_vars
  PROVE  Types' /\ (Afresh => Kinds \/ UNCHANGED vars)
<1>1. CASE SV_SendClientSnapshot
  BY <1>1, SnapshotStep DEF Kinds
<1>2. CASE \E k \in DOMAIN up, denied \in BOOLEAN : SV_PacketEvent(k, denied)
  BY <1>2, PacketEventStep DEF Effect
<1>3. CASE SV_CheckTimeouts \/ SV_Kick
  BY <1>3, TimeoutStep DEF Effect
<1>4. CASE \E denied \in BOOLEAN : SV_SpawnServer(denied)
  BY <1>4, SpawnStep DEF Effect
<1>5. CASE \E denied \in BOOLEAN : SV_MapRestart_f(denied)
  BY <1>5, RestartStep DEF Effect
<1>6. CASE CL_Disconnect \/ CL_Connect_f \/ CL_Frame
  BY <1>6, WipeStep, FrameStep DEF Effect
<1>7. CASE CL_CheckForResend \/ CL_WritePacket
  BY <1>7, SendStep DEF Effect
<1>8. CASE \E k \in DOMAIN down : CL_PacketEvent(k)
  BY <1>8, ReceiveStep DEF Effect
<1>9. CASE UNCHANGED vars
  BY <1>9, UpKept, DownKept DEF vars, Types, SvOK, ServerOK
<1>10. QED
  BY <1>1, <1>2, <1>3, <1>4, <1>5, <1>6, <1>7, <1>8, <1>9 DEF Next

\* With one connection at most, none is opened after another.
LEMMA FirstIsAfresh ==
  ASSUME Types, [Next]_vars, MaxConnects <= 1
  PROVE  Afresh
<1>0. client \in ClientRecord /\ client.connects \in Nat
  BY ConnectsIsNat DEF Types
<1>1. CASE CL_Connect_f
  <2>1. client.connects < MaxConnects
    BY <1>1 DEF CL_Connect_f
  <2>2. ~(client.connects > 0)
    BY <1>0, <2>1
  <2>3. QED
    BY <2>2 DEF Afresh
<1>2. CASE CL_Disconnect \/ (CL_Frame /\ client.drop)
  <2>1. client' = Wiped(client)
    BY <1>2 DEF CL_Disconnect, CL_Frame
  <2>2. QED
    BY <1>0, <2>1, WipedIs DEF Afresh
<1>3. CASE CL_Frame /\ ~client.drop
  <2>1. client'.connects = client.connects
    BY <1>0, <1>3 DEF CL_Frame, ClientRecord
  <2>2. QED
    BY <2>1 DEF Afresh
<1>4. CASE \E k \in DOMAIN down : CL_PacketEvent(k)
  <2>1. PICK k \in DOMAIN down : CL_PacketEvent(k)
    BY <1>4
  <2>2. client'.connects = client.connects
    BY <2>1, ReceiveStep
  <2>3. QED
    BY <2>2 DEF Afresh
<1>5. CASE \E k \in DOMAIN up, denied \in BOOLEAN : SV_PacketEvent(k, denied)
  <2>1. client' \in {client, [client EXCEPT !.after = FALSE]}
    BY <1>5 DEF SV_PacketEvent, SV_GetChallenge, SV_DirectConnect, SV_SequencedPacket,
         SV_ExecuteClientMessage, ExecuteRest, SV_UserMove, SV_SendClientGameState, Ignored
  <2>2. client'.connects = client.connects
    BY <1>0, <2>1 DEF ClientRecord
  <2>3. QED
    BY <2>2 DEF Afresh
<1>6. CASE \/ SV_SendClientSnapshot \/ SV_CheckTimeouts \/ SV_Kick
           \/ \E denied \in BOOLEAN : SV_SpawnServer(denied) \/ SV_MapRestart_f(denied)
           \/ CL_CheckForResend \/ CL_WritePacket \/ UNCHANGED vars
  <2>1. client' = client
    BY <1>6 DEF SV_SendClientSnapshot, SV_CheckTimeouts, SV_Kick, SV_SpawnServer,
         SV_MapRestart_f, CL_CheckForResend, CL_WritePacket, vars
  <2>2. QED
    BY <2>1 DEF Afresh
<1>7. QED
  BY <1>1, <1>2, <1>3, <1>4, <1>5, <1>6 DEF Next
-----------------------------------------------------------------------------
(* The invariant, part by part.                                             *)

\* What is a number.
Numbers ==
  /\ sv.serverId \in Nat /\ sv.restartedServerId \in Nat
  /\ sv.restartedServerId > NoId /\ sv.restartedServerId <= sv.serverId
  /\ server.cs \in Nat /\ client.id \in Nat /\ client.cs \in Nat /\ client.map \in Nat
  /\ \A i \in DOMAIN up : up[i].type = "packet" => up[i].id \in Nat
  /\ \A i \in DOMAIN down :
       /\ InBand(down[i]) => down[i].cs \in Nat
       /\ down[i].type = "gamestate" => down[i].id \in Nat /\ down[i].map \in Nat
  /\ NoId = 0

LEMMA TypesNumbers == Types => Numbers
<1> SUFFICES ASSUME Types PROVE Numbers
  OBVIOUS
<1>1. /\ sv.serverId \in Nat /\ sv.restartedServerId \in Nat \ {0}
      /\ sv.restartedServerId <= sv.serverId
  BY SvFacts DEF Types
<1>2. /\ server.cs \in ServerId /\ client.id \in ServerId /\ client.cs \in ServerId
      /\ client.map \in ServerId
  BY DEF Types, ServerOK, ServerRecord, ClientRecord
<1>3. \A i \in DOMAIN up : up[i].type = "packet" => up[i].id \in ServerId
  <2>1. \A i \in DOMAIN up : up[i] \in UpMessage
    BY ElementOfSeq DEF Types, UpOK
  <2>2. QED
    BY <2>1, UpMessages DEF UpPacket
<1>4. \A i \in DOMAIN down :
        /\ InBand(down[i]) => down[i].cs \in ServerId
        /\ down[i].type = "gamestate" => down[i].id \in ServerId /\ down[i].map \in ServerId
  <2>1. \A i \in DOMAIN down : down[i] \in DownMessage
    BY ElementOfSeq DEF Types, DownOK
  <2>2. QED
    BY <2>1, DownMessages DEF GameStates, Snapshots, InBand
<1>5. NoId = 0
  BY DEF NoId
<1>6. sv.restartedServerId > NoId
  BY <1>1, <1>5
<1>7. QED
  BY <1>1, <1>2, <1>3, <1>4, <1>5, <1>6, NoIdIsId DEF Numbers

LEMMA TypesNumbersNext == Types' => Numbers'
BY TypesNumbers, PTL

\* The positions in flight are numbers without a gap.
Positions ==
  /\ DOMAIN up \subseteq Nat \ {0} /\ DOMAIN down \subseteq Nat \ {0}
  /\ \A i, j \in DOMAIN down : \A k \in i .. j : k \in DOMAIN down

LEMMA TypesPositions == Types => Positions
<1> SUFFICES ASSUME Types PROVE Positions
  OBVIOUS
<1>1. /\ Len(up) \in Nat /\ DOMAIN up = 1 .. Len(up)
      /\ Len(down) \in Nat /\ DOMAIN down = 1 .. Len(down)
  BY LenProperties DEF Types, UpOK, DownOK
<1>2. QED
  BY <1>1 DEF Positions

LEMMA TypesPositionsNext == Types' => Positions'
BY TypesPositions, PTL

\* What is known before a step, and of the types after it.
Before == Types /\ Types' /\ Numbers /\ Numbers' /\ BoundsInv /\ ClientInv /\ OrderInv

LEMMA GameStateIs ==
  /\ GameState.type = "gamestate" /\ GameState.id = sv.serverId /\ InBand(GameState)
  /\ GameState.map = sv.restartedServerId /\ GameState.cs = server.cs
BY DEF GameState, InBand

LEMMA PacketIs ==
  \A q \in BOOLEAN : /\ Packet(client, q).type = "packet" /\ Packet(client, q).id = client.id
                     /\ Packet(client, q).quit = q /\ Packet(client, q).after = client.after
BY DEF Packet

\* The bounds on what is in flight, when no server id changes.
LEMMA UpBoundsKept ==
  ASSUME BoundsInv, sv' = sv, NEW d, NEW new, UpMoved(d, new),
         \A p \in new : p.type = "packet" => p.id <= sv.serverId
  PROVE  \A i \in DOMAIN up' : up'[i].type = "packet" => up'[i].id <= sv'.serverId
BY DEF BoundsInv, UpMoved, AlikeUp

LEMMA DownBoundsKept ==
  ASSUME BoundsInv, sv' = sv, NEW d, NEW new, DownMoved(d, new),
         \A p \in new : /\ InBand(p) => p.cs <= sv.serverId
                        /\ p.type = "gamestate" => /\ p.id <= sv.serverId
                                                   /\ p.map \in 1 .. sv.restartedServerId
  PROVE  \A i \in DOMAIN down' :
           /\ InBand(down'[i]) => down'[i].cs <= sv'.serverId
           /\ down'[i].type = "gamestate" => /\ down'[i].id <= sv'.serverId
                                             /\ down'[i].map \in 1 .. sv'.restartedServerId
<1> SUFFICES ASSUME NEW i \in DOMAIN down'
             PROVE  /\ InBand(down'[i]) => down'[i].cs <= sv.serverId
                    /\ down'[i].type = "gamestate" =>
                         /\ down'[i].id <= sv.serverId
                         /\ down'[i].map \in 1 .. sv.restartedServerId
  OBVIOUS
<1>1. CASE down'[i] \in new
  BY <1>1
<1>2. CASE i + d \in DOMAIN down /\ AlikeDown(down'[i], down[i + d])
  BY <1>2 DEF BoundsInv, AlikeDown, InBand
<1>3. QED
  BY <1>1, <1>2 DEF DownMoved

LEMMA BoundsKept ==
  ASSUME Before, Kinds
  PROVE  BoundsInv'
<1>0. Numbers /\ Numbers' /\ BoundsInv /\ ClientInv
  BY DEF Before
<1>a. \A d : UpMoved(d, {}) /\ sv' = sv =>
        \A i \in DOMAIN up' : up'[i].type = "packet" => up'[i].id <= sv'.serverId
  BY <1>0, UpBoundsKept
<1>b. \A d : DownMoved(d, {}) /\ sv' = sv =>
        \A i \in DOMAIN down' :
          /\ InBand(down'[i]) => down'[i].cs <= sv'.serverId
          /\ down'[i].type = "gamestate" => /\ down'[i].id <= sv'.serverId
                                            /\ down'[i].map \in 1 .. sv'.restartedServerId
  BY <1>0, DownBoundsKept
<1>1. CASE ServerWorks
  <2>1. PICK d, new : /\ DownMoved(d, new)
                      /\ \A m \in new :
                           /\ m.type \in {"snapshot", "challengeResponse", "disconnect"}
                           /\ m.type = "snapshot" => m.cs = server.cs
    BY <1>1 DEF ServerWorks
  <2>2. \A i \in DOMAIN down' :
          /\ InBand(down'[i]) => down'[i].cs <= sv'.serverId
          /\ down'[i].type = "gamestate" => /\ down'[i].id <= sv'.serverId
                                            /\ down'[i].map \in 1 .. sv'.restartedServerId
    <3>1. \A p \in new : p.type # "gamestate" /\ (InBand(p) => p.cs <= sv.serverId)
      BY <1>0, <2>1 DEF InBand, BoundsInv
    <3>2. sv' = sv
      BY <1>1 DEF ServerWorks
    <3>3. QED
      BY <1>0, <2>1, <3>1, <3>2, DownBoundsKept
  <2>3. server'.cs <= sv.serverId
    BY <1>0, <1>1 DEF ServerWorks, BoundsInv, Numbers
  <2>4. QED
    BY <1>0, <1>1, <1>a, <2>2, <2>3 DEF ServerWorks, BoundsInv
<1>2. CASE Accepts
  <2>1. PICK d, new : DownMoved(d, new) /\ \A m \in new : m.type = "connectResponse"
    BY <1>2 DEF Accepts
  <2>2. \A p \in new : p.type # "gamestate" /\ ~InBand(p)
    BY <2>1 DEF InBand
  <2>3. \A i \in DOMAIN down' :
          /\ InBand(down'[i]) => down'[i].cs <= sv'.serverId
          /\ down'[i].type = "gamestate" => /\ down'[i].id <= sv'.serverId
                                            /\ down'[i].map \in 1 .. sv'.restartedServerId
    BY <1>0, <1>2, <2>1, <2>2, DownBoundsKept DEF Accepts
  <2>4. server'.cs <= sv.serverId
    BY <1>0, <1>2 DEF Accepts, Numbers
  <2>5. QED
    BY <1>0, <1>2, <1>a, <2>3, <2>4 DEF Accepts, BoundsInv
<1>3. CASE SendsGameState
  <2>1. PICK d : DownMoved(d, {GameState})
    BY <1>3 DEF SendsGameState
  <2>2. /\ GameState.cs <= sv.serverId /\ GameState.id <= sv.serverId
        /\ GameState.map \in 1 .. sv.restartedServerId
    BY <1>0, GameStateIs DEF BoundsInv, Numbers
  <2>3. \A i \in DOMAIN down' :
          /\ InBand(down'[i]) => down'[i].cs <= sv'.serverId
          /\ down'[i].type = "gamestate" => /\ down'[i].id <= sv'.serverId
                                            /\ down'[i].map \in 1 .. sv'.restartedServerId
    BY <1>0, <1>3, <2>1, <2>2, DownBoundsKept DEF SendsGameState
  <2>4. client'.id = client.id /\ client'.cs = client.cs /\ client'.map = client.map
    BY <1>3 DEF SendsGameState, Before, Types, ClientRecord
  <2>5. QED
    BY <1>0, <1>3, <1>a, <2>3, <2>4 DEF SendsGameState, BoundsInv
<1>4. CASE ClientSends
  <2>1. PICK d, p : UpMoved(d, {p}) /\ (p.type = "packet" => p = Packet(client, FALSE))
    BY <1>4 DEF ClientSends
  <2>2. p.type = "packet" => p.id <= sv.serverId
    BY <1>0, <2>1, PacketIs DEF BoundsInv
  <2>3. \A i \in DOMAIN up' : up'[i].type = "packet" => up'[i].id <= sv'.serverId
    BY <1>0, <1>4, <2>1, <2>2, UpBoundsKept DEF ClientSends
  <2>4. QED
    BY <1>0, <1>4, <2>3 DEF ClientSends, BoundsInv
<1>5. CASE ClientWiped
  <2>1. PICK d, new : UpMoved(d, new) /\ \A p \in new : p = Packet(client, TRUE)
    BY <1>5 DEF ClientWiped
  <2>2. \A p \in new : p.type = "packet" => p.id <= sv.serverId
    BY <1>0, <2>1, PacketIs DEF BoundsInv
  <2>3. \A i \in DOMAIN up' : up'[i].type = "packet" => up'[i].id <= sv'.serverId
    BY <1>0, <1>5, <2>1, <2>2, UpBoundsKept DEF ClientWiped
  <2>4. client'.id <= sv.serverId /\ client'.cs <= sv.serverId /\ client'.map <= sv.restartedServerId
    BY <1>0, <1>5 DEF ClientWiped, Numbers
  <2>5. QED
    BY <1>0, <1>5, <2>3, <2>4 DEF ClientWiped, BoundsInv
<1>6. CASE ClientPlays
  BY <1>0, <1>6 DEF ClientPlays, BoundsInv
<1>7. ASSUME NEW k \in DOMAIN down, Gets(k),
             GetsNothing \/ GetsHandshake(k) \/ GetsGameState(k) \/ GetsSnapshot(k)
      PROVE  BoundsInv'
  <2>1. \A i \in DOMAIN down' :
          /\ InBand(down'[i]) => down'[i].cs <= sv'.serverId
          /\ down'[i].type = "gamestate" => /\ down'[i].id <= sv'.serverId
                                            /\ down'[i].map \in 1 .. sv'.restartedServerId
    BY <1>b, <1>7 DEF Gets
  <2>2. /\ client'.id <= sv.serverId /\ client'.cs <= sv.serverId
        /\ client'.map <= sv.restartedServerId
    BY <1>0, <1>7 DEF BoundsInv, GetsNothing, GetsHandshake, GetsGameState, GetsSnapshot, InBand, Numbers
  <2>3. QED
    BY <1>0, <1>7, <2>1, <2>2 DEF Gets, BoundsInv
<1>8. CASE NewMap \/ Restart
  <2>1. /\ UNCHANGED <<client, up, down>> /\ sv'.serverId = sv.serverId + 1
        /\ sv'.restartedServerId \in {sv.restartedServerId, sv.serverId + 1}
        /\ server'.cs \in {server.cs, sv.serverId + 1}
    BY <1>8 DEF NewMap, Restart
  <2>2. \A n \in Nat : /\ n <= sv.serverId => n <= sv'.serverId
                       /\ n <= sv.restartedServerId => n <= sv'.restartedServerId
    BY <1>0, <2>1 DEF Numbers
  <2>3. server'.cs <= sv'.serverId
    BY <1>0, <2>1 DEF Numbers, BoundsInv
  <2>4. /\ client.id <= sv'.serverId /\ client.cs <= sv'.serverId
        /\ client.map <= sv'.restartedServerId
    BY <1>0, <2>2 DEF Numbers, BoundsInv
  <2>5. \A i \in DOMAIN up : up[i].type = "packet" => up[i].id <= sv'.serverId
    BY <1>0, <2>2 DEF Numbers, BoundsInv
  <2>6. \A i \in DOMAIN down :
          /\ InBand(down[i]) => down[i].cs <= sv'.serverId
          /\ down[i].type = "gamestate" => /\ down[i].id <= sv'.serverId
                                           /\ down[i].map \in 1 .. sv'.restartedServerId
    BY <1>0, <2>2 DEF Numbers, BoundsInv
  <2>7. QED
    BY <2>1, <2>3, <2>4, <2>5, <2>6 DEF BoundsInv, InBand
<1>9. QED
  BY <1>1, <1>2, <1>3, <1>4, <1>5, <1>6, <1>7, <1>8 DEF Kinds

LEMMA ClientKept ==
  ASSUME Before, Kinds
  PROVE  ClientInv'
<1>0. Numbers /\ BoundsInv /\ ClientInv
  BY DEF Before
<1>1. CASE client' = client
  BY <1>0, <1>1 DEF ClientInv, Connected
<1>2. CASE SendsGameState
  <2>1. /\ client'.id = client.id /\ client'.cs = client.cs /\ client'.map = client.map
        /\ client'.state = client.state
    BY <1>2 DEF SendsGameState, Before, Types, ClientRecord
  <2>2. QED
    BY <1>0, <2>1 DEF ClientInv, Connected
<1>3. CASE ClientWiped
  BY <1>3 DEF ClientWiped, ClientInv, Connected
<1>4. CASE ClientPlays
  BY <1>0, <1>4 DEF ClientPlays, ClientInv, Connected
<1>5. ASSUME NEW k \in DOMAIN down, GetsHandshake(k) \/ GetsSnapshot(k)
      PROVE  ClientInv'
  BY <1>0, <1>5 DEF GetsHandshake, GetsSnapshot, ClientInv, Connected
<1>6. ASSUME NEW k \in DOMAIN down, GetsGameState(k)
      PROVE  ClientInv'
  <2>1. client'.state = "CA_PRIMED" /\ client'.map # NoId
    BY <1>0, <1>6 DEF GetsGameState, BoundsInv, Numbers
  <2>2. QED
    BY <2>1 DEF ClientInv, Connected
<1>7. QED
  BY <1>1, <1>2, <1>3, <1>4, <1>5, <1>6
  DEF Kinds, ServerWorks, Accepts, ClientSends, NewMap, Restart, GetsNothing

\* The order of what is left in flight, with something other than a gamestate behind it.
LEMMA RestInOrder ==
  ASSUME OrderInv, sv' = sv, NEW d, NEW new, DownMoved(d, new),
         \A p \in new : p.type # "gamestate"
  PROVE  /\ \A i, j \in DOMAIN down' : i < j /\ InBand(down'[i]) /\ down'[j].type = "gamestate" =>
              /\ down'[i].type = "gamestate" => down'[i].map <= down'[j].map
              /\ down'[i].cs >= sv'.restartedServerId => down'[j].map = sv'.restartedServerId
         /\ \A i \in DOMAIN down' : down'[i].type = "gamestate" =>
              /\ i + d \in DOMAIN down /\ down[i + d].type = "gamestate"
              /\ down'[i].map = down[i + d].map
              /\ down'[i].id >= sv'.restartedServerId \/ down'[i].cs >= sv'.restartedServerId
                   => down'[i].map = sv'.restartedServerId
<1>1. \A i \in DOMAIN down' : down'[i].type = "gamestate" =>
        i + d \in DOMAIN down /\ AlikeDown(down'[i], down[i + d])
  BY DEF DownMoved
<1>2. ASSUME NEW i \in DOMAIN down', NEW j \in DOMAIN down', i < j, InBand(down'[i]),
             down'[j].type = "gamestate"
      PROVE  /\ down'[i].type = "gamestate" => down'[i].map <= down'[j].map
             /\ down'[i].cs >= sv'.restartedServerId => down'[j].map = sv'.restartedServerId
  <2>1. i \in Nat /\ j \in Nat /\ d \in Nat
    BY DEF DownMoved
  <2>2. i + d \in DOMAIN down /\ AlikeDown(down'[i], down[i + d])
    <3>1. ~\A l \in DOMAIN down' : l <= i
      BY <1>2, <2>1
    <3>2. QED
      BY <3>1 DEF DownMoved
  <2>3. j + d \in DOMAIN down /\ AlikeDown(down'[j], down[j + d])
    BY <1>1, <1>2
  <2>4. i + d < j + d
    BY <1>2, <2>1
  <2>5. /\ InBand(down[i + d]) /\ down[j + d].type = "gamestate"
        /\ down'[i].cs = down[i + d].cs /\ down'[j].map = down[j + d].map
        /\ down'[i].type = down[i + d].type
        /\ down'[i].type = "gamestate" => down'[i].map = down[i + d].map
    BY <1>2, <2>2, <2>3 DEF AlikeDown, InBand
  <2>6. QED
    BY <2>2, <2>3, <2>4, <2>5 DEF OrderInv
<1>3. ASSUME NEW i \in DOMAIN down', down'[i].type = "gamestate"
      PROVE  /\ i + d \in DOMAIN down /\ down[i + d].type = "gamestate"
             /\ down'[i].map = down[i + d].map
             /\ down'[i].id >= sv'.restartedServerId \/ down'[i].cs >= sv'.restartedServerId
                  => down'[i].map = sv'.restartedServerId
  <2>1. /\ i + d \in DOMAIN down /\ down[i + d].type = "gamestate"
        /\ down'[i].map = down[i + d].map /\ down'[i].id = down[i + d].id
        /\ down'[i].cs = down[i + d].cs
    BY <1>1, <1>3 DEF AlikeDown, InBand
  <2>2. QED
    BY <2>1 DEF OrderInv
<1>4. QED
  BY <1>2, <1>3

\* The first part of OrderInv.
GameStateOrdered(m) ==
  /\ client.map <= m.map
  /\ m.id >= sv.restartedServerId \/ m.cs >= sv.restartedServerId => m.map = sv.restartedServerId
  /\ client.cs >= sv.restartedServerId => m.map = sv.restartedServerId

LEMMA OrderKept ==
  ASSUME Before, Kinds
  PROVE  OrderInv'
<1>0. Numbers /\ Numbers' /\ BoundsInv /\ BoundsInv' /\ ClientInv /\ OrderInv
  BY BoundsKept DEF Before
<1> DEFINE Pairs == \A i, j \in DOMAIN down : i < j /\ InBand(down[i]) /\ down[j].type = "gamestate" =>
              /\ down[i].type = "gamestate" => down[i].map <= down[j].map
              /\ down[i].cs >= sv.restartedServerId => down[j].map = sv.restartedServerId
<1> DEFINE Each == \A i \in DOMAIN down : down[i].type = "gamestate" => GameStateOrdered(down[i])
<1>a. Pairs' /\ Each' => OrderInv'
  BY DEF OrderInv, GameStateOrdered
<1>b. ASSUME NEW d, NEW new, DownMoved(d, new), \A p \in new : p.type # "gamestate", sv' = sv,
             client'.map = client.map, client'.cs = client.cs
      PROVE  OrderInv'
  <2>1. Pairs'
    BY <1>0, <1>b, RestInOrder
  <2>2. Each'
    <3> SUFFICES ASSUME NEW i \in DOMAIN down', down'[i].type = "gamestate"
                 PROVE  GameStateOrdered(down[i])'
      OBVIOUS
    <3>1. /\ i + d \in DOMAIN down /\ down[i + d].type = "gamestate"
          /\ down'[i].map = down[i + d].map
          /\ down'[i].id >= sv'.restartedServerId \/ down'[i].cs >= sv'.restartedServerId
               => down'[i].map = sv'.restartedServerId
      BY <1>0, <1>b, RestInOrder
    <3>2. QED
      BY <1>0, <1>b, <3>1 DEF OrderInv, GameStateOrdered
  <2>3. QED
    BY <1>a, <2>1, <2>2
<1>1. CASE ServerWorks
  <2>1. PICK d, new : /\ DownMoved(d, new)
                      /\ \A m \in new : m.type \in {"snapshot", "challengeResponse", "disconnect"}
    BY <1>1 DEF ServerWorks
  <2>2. \A p \in new : p.type # "gamestate"
    BY <2>1
  <2>3. QED
    BY <1>1, <1>b, <2>1, <2>2 DEF ServerWorks
<1>2. CASE Accepts
  <2>1. PICK d, new : DownMoved(d, new) /\ \A m \in new : m.type = "connectResponse"
    BY <1>2 DEF Accepts
  <2>2. QED
    BY <1>2, <1>b, <2>1 DEF Accepts
<1>3. CASE SendsGameState
  <2>1. PICK d : DownMoved(d, {GameState})
    BY <1>3 DEF SendsGameState
  <2>2. /\ client'.cs = client.cs /\ client'.map = client.map /\ sv' = sv
    BY <1>3 DEF SendsGameState, Before, Types, ClientRecord
  <2>3. ASSUME NEW i \in DOMAIN down', down'[i].type = "gamestate"
        PROVE  \/ down'[i].map = sv'.restartedServerId
               \/ /\ i + d \in DOMAIN down /\ down[i + d].type = "gamestate"
                  /\ AlikeDown(down'[i], down[i + d])
    BY <2>1, <2>2, <2>3, GameStateIs DEF DownMoved, AlikeDown
  <2>4. Each'
    <3> SUFFICES ASSUME NEW i \in DOMAIN down', down'[i].type = "gamestate"
                 PROVE  GameStateOrdered(down[i])'
      OBVIOUS
    <3>1. CASE down'[i].map = sv'.restartedServerId
      BY <1>0, <3>1 DEF BoundsInv, GameStateOrdered
    <3>2. CASE /\ i + d \in DOMAIN down /\ down[i + d].type = "gamestate"
               /\ AlikeDown(down'[i], down[i + d])
      BY <1>0, <2>2, <3>2 DEF OrderInv, GameStateOrdered, AlikeDown, InBand
    <3>3. QED
      BY <2>3, <3>1, <3>2
  <2>5. Pairs'
    <3> SUFFICES ASSUME NEW i \in DOMAIN down', NEW j \in DOMAIN down', i < j, InBand(down'[i]),
                        down'[j].type = "gamestate"
                 PROVE  /\ down'[i].type = "gamestate" => down'[i].map <= down'[j].map
                        /\ down'[i].cs >= sv'.restartedServerId
                             => down'[j].map = sv'.restartedServerId
      BY DEF InBand
    <3>1. CASE down'[j].map = sv'.restartedServerId
      BY <1>0, <3>1 DEF BoundsInv, InBand
    <3>2. CASE /\ j + d \in DOMAIN down /\ down[j + d].type = "gamestate"
               /\ AlikeDown(down'[j], down[j + d])
      <4>1. i \in Nat /\ j \in Nat /\ d \in Nat
        BY <2>1 DEF DownMoved
      <4>2. ~\A l \in DOMAIN down' : l <= i
        BY <4>1
      <4>3. i + d \in DOMAIN down /\ AlikeDown(down'[i], down[i + d]) /\ i + d < j + d
        BY <2>1, <4>1, <4>2 DEF DownMoved
      <4>4. QED
        BY <1>0, <2>2, <3>2, <4>3 DEF OrderInv, AlikeDown, InBand
    <3>3. QED
      BY <2>3, <3>1, <3>2
  <2>6. QED
    BY <1>a, <2>4, <2>5
<1>4. CASE ClientSends \/ ClientPlays \/ ClientWiped
  <2>1. down' = down /\ sv' = sv
    BY <1>4 DEF ClientSends, ClientPlays, ClientWiped
  <2>2. Pairs'
    BY <1>0, <2>1 DEF OrderInv, InBand
  <2>3. Each'
    <3> SUFFICES ASSUME NEW i \in DOMAIN down, down[i].type = "gamestate"
                 PROVE  GameStateOrdered(down[i])'
      BY <2>1
    <3>1. CASE client'.map = client.map /\ client'.cs = client.cs
      BY <1>0, <2>1, <3>1 DEF OrderInv, GameStateOrdered
    <3>2. CASE client'.map = NoId /\ client'.cs = NoId
      BY <1>0, <2>1, <3>2 DEF OrderInv, GameStateOrdered, BoundsInv, Numbers
    <3>3. QED
      BY <1>4, <3>1, <3>2 DEF ClientSends, ClientPlays, ClientWiped
  <2>4. QED
    BY <1>a, <2>2, <2>3
<1>5. ASSUME NEW k \in DOMAIN down, Gets(k),
             GetsNothing \/ GetsHandshake(k) \/ GetsGameState(k) \/ GetsSnapshot(k)
      PROVE  OrderInv'
  <2>1. DownMoved(k, {}) /\ sv' = sv
    BY <1>5 DEF Gets
  <2>2. CASE client'.map = client.map /\ client'.cs = client.cs
    BY <1>b, <2>1, <2>2
  <2>3. CASE GetsGameState(k) \/ GetsSnapshot(k)
    <3>1. Pairs'
      BY <1>0, <2>1, RestInOrder
    <3>2. Each'
      <4> SUFFICES ASSUME NEW i \in DOMAIN down', down'[i].type = "gamestate"
                   PROVE  GameStateOrdered(down[i])'
        OBVIOUS
      <4>1. /\ i + k \in DOMAIN down /\ down[i + k].type = "gamestate"
            /\ down'[i].map = down[i + k].map
            /\ down'[i].id >= sv'.restartedServerId \/ down'[i].cs >= sv'.restartedServerId
                 => down'[i].map = sv'.restartedServerId
        BY <1>0, <2>1, RestInOrder
      <4>2. k < i + k
        BY <2>1, TypesPositionsNext DEF DownMoved, Before, Positions
      <4>3. /\ InBand(down[k])
            /\ down[k].type = "gamestate" => down[k].map <= down[i + k].map
            /\ down[k].cs >= sv.restartedServerId => down[i + k].map = sv.restartedServerId
        BY <1>0, <2>3, <4>1, <4>2 DEF OrderInv, GetsGameState, GetsSnapshot, InBand
      <4>4. client'.map <= down[i + k].map
        BY <1>0, <2>3, <4>1, <4>3 DEF OrderInv, GetsGameState, GetsSnapshot
      <4>5. client'.cs >= sv.restartedServerId => down[i + k].map = sv.restartedServerId
        BY <1>0, <2>3, <4>1, <4>3 DEF OrderInv, GetsGameState, GetsSnapshot
      <4>6. QED
        BY <2>1, <4>1, <4>4, <4>5 DEF GameStateOrdered
    <3>3. QED
      BY <1>a, <3>1, <3>2
  <2>4. QED
    BY <1>5, <2>2, <2>3 DEF GetsNothing, GetsHandshake
<1>6. CASE NewMap
  <2>1. /\ UNCHANGED <<client, up, down>>
        /\ \A n \in Nat : n <= sv.serverId => ~(n >= sv'.restartedServerId)
    BY <1>0, <1>6 DEF NewMap, Numbers
  <2>2. ~(client.cs >= sv'.restartedServerId)
    BY <1>0, <2>1 DEF BoundsInv, Numbers
  <2>3. \A i \in DOMAIN down : InBand(down[i]) => ~(down[i].cs >= sv'.restartedServerId)
    BY <1>0, <2>1 DEF BoundsInv, Numbers
  <2>4. \A i \in DOMAIN down : down[i].type = "gamestate" => ~(down[i].id >= sv'.restartedServerId)
    BY <1>0, <2>1 DEF BoundsInv, Numbers
  <2>5. Pairs'
    BY <1>0, <2>1, <2>3 DEF OrderInv, InBand
  <2>6. Each'
    BY <1>0, <2>1, <2>2, <2>3, <2>4 DEF OrderInv, InBand, GameStateOrdered
  <2>7. QED
    BY <1>a, <2>5, <2>6
<1>7. CASE Restart
  BY <1>0, <1>7 DEF Restart, OrderInv, InBand
<1>8. QED
  BY <1>1, <1>2, <1>3, <1>4, <1>5, <1>6, <1>7 DEF Kinds

\* What the client's handshake asks of each packet in flight.
Harmless(m) == m.type # "connect" /\ (m.type = "packet" => m.quit)

LEMMA QuietKept ==
  ASSUME Quiet, NEW d, NEW new, UpMoved(d, new), \A p \in new : Harmless(p),
         NEW e, NEW sent, DownMoved(e, sent), \A p \in sent : p.type # "connectResponse"
  PROVE  Quiet'
<1>1. \A i \in DOMAIN up' : Harmless(up'[i])
  BY DEF Quiet, UpMoved, AlikeUp, Harmless
<1>2. \A i \in DOMAIN down' : down'[i].type # "connectResponse"
  BY DEF Quiet, DownMoved, AlikeDown
<1>3. QED
  BY <1>1, <1>2 DEF Quiet, Harmless

\* The parts of HandshakeInv for a client that waits for the answer to its connect.
QuitsOnly == \A i \in DOMAIN up : up[i].type = "packet" => up[i].quit
ConnectsLast ==
  \A i, j \in DOMAIN up : i < j /\ up[i].type = "connect" => up[j].type # "packet"
AnswersLast ==
  \A i, j \in DOMAIN down :
    i < j /\ down[i].type = "connectResponse" => down[j].type # "gamestate"
NoPackets == \A i \in DOMAIN up : up[i].type # "packet"
Waits ==
  /\ QuitsOnly /\ ConnectsLast /\ AnswersLast
  /\ Answered => /\ NoPackets /\ server.state # "CS_PRIMED"
                 /\ server.state = "CS_ACTIVE" => early

LEMMA HandshakeParts ==
  HandshakeInv <=> /\ client.connects = 0 => client.state = "CA_DISCONNECTED" /\ Quiet
                   /\ client.state = "CA_CONNECTING" => Quiet
                   /\ client.state = "CA_CHALLENGING" => Waits
BY DEF HandshakeInv, Waits, QuitsOnly, ConnectsLast, AnswersLast, NoPackets

LEMMA HandshakePartsNext ==
  HandshakeInv' <=> /\ client'.connects = 0 => client'.state = "CA_DISCONNECTED" /\ Quiet'
                    /\ client'.state = "CA_CONNECTING" => Quiet'
                    /\ client'.state = "CA_CHALLENGING" => Waits'
BY DEF HandshakeInv, Waits, QuitsOnly, ConnectsLast, AnswersLast, NoPackets, Quiet, Answered

LEMMA UpWaits ==
  ASSUME Types, NEW d, NEW new, UpMoved(d, new), \A p \in new : p.type # "packet"
  PROVE  /\ QuitsOnly => QuitsOnly'
         /\ ConnectsLast => ConnectsLast'
         /\ NoPackets => NoPackets'
<1>1. \A i \in DOMAIN up' : up'[i].type = "packet" =>
        i + d \in DOMAIN up /\ AlikeUp(up'[i], up[i + d])
  BY DEF UpMoved
<1>2. (QuitsOnly => QuitsOnly') /\ (NoPackets => NoPackets')
  BY <1>1 DEF QuitsOnly, NoPackets, AlikeUp
<1>3. ASSUME ConnectsLast, NEW i \in DOMAIN up', NEW j \in DOMAIN up', i < j,
             up'[i].type = "connect", up'[j].type = "packet"
      PROVE  FALSE
  <2>1. i \in Nat /\ j \in Nat /\ d \in Nat
    BY DEF UpMoved
  <2>2. j + d \in DOMAIN up /\ up[j + d].type = "packet"
    BY <1>1, <1>3 DEF AlikeUp
  <2>3. ~\A l \in DOMAIN up' : l <= i
    BY <1>3, <2>1
  <2>4. i + d \in DOMAIN up /\ up[i + d].type = "connect"
    BY <1>3, <2>3 DEF UpMoved, AlikeUp
  <2>5. i + d < j + d
    BY <1>3, <2>1
  <2>6. QED
    BY <1>3, <2>2, <2>4, <2>5 DEF ConnectsLast
<1>4. QED
  BY <1>2, <1>3 DEF ConnectsLast

LEMMA DownWaits ==
  ASSUME Types, NEW d, NEW new, DownMoved(d, new), \A p \in new : p.type # "gamestate"
  PROVE  /\ AnswersLast => AnswersLast'
         /\ Answered' => Answered \/ \E p \in new : p.type = "connectResponse"
<1>1. ASSUME AnswersLast, NEW i \in DOMAIN down', NEW j \in DOMAIN down', i < j,
             down'[i].type = "connectResponse", down'[j].type = "gamestate"
      PROVE  FALSE
  <2>1. i \in Nat /\ j \in Nat /\ d \in Nat
    BY DEF DownMoved
  <2>2. j + d \in DOMAIN down /\ down[j + d].type = "gamestate"
    BY <1>1 DEF AlikeDown, DownMoved
  <2>3. ~\A l \in DOMAIN down' : l <= i
    BY <1>1, <2>1
  <2>4. i + d \in DOMAIN down /\ down[i + d].type = "connectResponse"
    BY <1>1, <2>3 DEF DownMoved, AlikeDown
  <2>5. i + d < j + d
    BY <1>1, <2>1
  <2>6. QED
    BY <1>1, <2>2, <2>4, <2>5 DEF AnswersLast
<1>2. Answered' => Answered \/ \E p \in new : p.type = "connectResponse"
  BY DEF Answered, DownMoved, AlikeDown
<1>3. QED
  BY <1>1, <1>2 DEF AnswersLast

LEMMA HandshakeKept ==
  ASSUME Before, HandshakeInv, Kinds
  PROVE  HandshakeInv'
<1>0. /\ Types /\ Types'
      /\ client.connects = 0 => client.state = "CA_DISCONNECTED" /\ Quiet
      /\ client.state = "CA_CONNECTING" => Quiet
      /\ client.state = "CA_CHALLENGING" => Waits
  BY HandshakeParts DEF Before
<1>1. CASE ServerWorks
  <2>1. PICK d, e, new :
          /\ UpMoved(d, {}) /\ DownMoved(e, new)
          /\ \A m \in new : m.type \in {"snapshot", "challengeResponse", "disconnect"}
    BY <1>1 DEF ServerWorks
  <2>2. \A m \in new : m.type # "connectResponse" /\ m.type # "gamestate"
    BY <2>1
  <2>3. Quiet => Quiet'
    BY <2>1, <2>2, QuietKept
  <2>4. ASSUME Waits
        PROVE  Waits'
    <3>1. QuitsOnly' /\ ConnectsLast' /\ (NoPackets => NoPackets')
      BY <1>0, <2>1, <2>4, UpWaits DEF Waits
    <3>2. AnswersLast' /\ (Answered' => Answered)
      BY <1>0, <2>1, <2>2, <2>4, DownWaits DEF Waits
    <3>3. Answered => server'.state # "CS_PRIMED" /\ (server'.state = "CS_ACTIVE" => early')
      BY <1>1, <2>4 DEF ServerWorks, Waits
    <3>4. QED
      BY <2>4, <3>1, <3>2, <3>3 DEF Waits
  <2>5. client' = client
    BY <1>1 DEF ServerWorks
  <2>6. QED
    BY <1>0, <2>3, <2>4, <2>5, HandshakePartsNext
<1>2. CASE Accepts
  <2>1. client' = client /\ client.state = "CA_CHALLENGING"
    BY <1>2 DEF Accepts
  <2>2. PICK k \in DOMAIN up : up[k].type = "connect" /\ UpMoved(k, {})
    BY <1>2 DEF Accepts
  <2>3. PICK e, new : DownMoved(e, new) /\ \A m \in new : m.type = "connectResponse"
    BY <1>2 DEF Accepts
  <2>4. Waits
    BY <1>0, <2>1
  <2>5. QuitsOnly' /\ ConnectsLast'
    BY <1>0, <2>2, <2>4, UpWaits DEF Waits
  <2>6. AnswersLast'
    BY <1>0, <2>3, <2>4, DownWaits DEF Waits
  <2>7. NoPackets'
    <3> SUFFICES ASSUME NEW i \in DOMAIN up'
                 PROVE  up'[i].type # "packet"
      BY DEF NoPackets
    <3>1. i + k \in DOMAIN up /\ up'[i].type = up[i + k].type
      BY <2>2 DEF UpMoved, AlikeUp
    <3>2. k < i + k
      BY <1>0, TypesPositions, TypesPositionsNext DEF Positions
    <3>3. QED
      BY <2>2, <2>4, <3>1, <3>2 DEF Waits, ConnectsLast
  <2>8. server'.state \in {"CS_FREE", "CS_CONNECTED"}
    BY <1>2 DEF Accepts
  <2>9. Waits'
    BY <2>5, <2>6, <2>7, <2>8 DEF Waits
  <2>10. QED
    BY <1>0, <2>1, <2>9, HandshakePartsNext
<1>3. CASE SendsGameState
  <2>1. client'.state = client.state /\ client'.connects = client.connects
    BY <1>0, <1>3 DEF SendsGameState, Types, ClientRecord
  <2>2. PICK k \in DOMAIN up : up[k].type = "packet" /\ UpMoved(k, {})
    BY <1>3 DEF SendsGameState
  <2>3. PICK e : DownMoved(e, {GameState})
    BY <1>3 DEF SendsGameState
  <2>4. Quiet => Quiet'
    BY <2>2, <2>3, QuietKept, GameStateIs
  <2>5. ASSUME Waits
        PROVE  Waits'
    <3>1. QuitsOnly' /\ ConnectsLast'
      BY <1>0, <2>2, <2>5, UpWaits DEF Waits
    <3>2. ~Answered
      BY <2>2, <2>5 DEF Waits, NoPackets
    <3>3. \A i \in DOMAIN down' : down'[i].type # "connectResponse"
      BY <2>3, <3>2, GameStateIs DEF DownMoved, AlikeDown, Answered
    <3>4. QED
      BY <3>1, <3>3 DEF Waits, Answered, AnswersLast
  <2>6. QED
    BY <1>0, <2>1, <2>4, <2>5, HandshakePartsNext
<1>4. CASE ClientSends
  <2>1. PICK d, p : /\ UpMoved(d, {p})
                    /\ p.type = "packet" => Connected /\ p = Packet(client, FALSE)
                    /\ p.type = "connect" => client.state = "CA_CHALLENGING"
    BY <1>4 DEF ClientSends
  <2>2. UNCHANGED <<client, server, early, down>>
    BY <1>4 DEF ClientSends
  <2>3. DownMoved(0, {})
    BY <1>0, <2>2, DownKept DEF Types
  <2>4. client.state \in {"CA_DISCONNECTED", "CA_CONNECTING"} => Harmless(p)
    BY <2>1 DEF Harmless, Connected
  <2>5. Quiet /\ client.state \in {"CA_DISCONNECTED", "CA_CONNECTING"} => Quiet'
    BY <2>1, <2>3, <2>4, QuietKept
  <2>6. ASSUME Waits, client.state = "CA_CHALLENGING"
        PROVE  Waits'
    <3>1. p.type # "packet"
      BY <2>1, <2>6 DEF Connected
    <3>2. QuitsOnly' /\ ConnectsLast' /\ (NoPackets => NoPackets')
      BY <1>0, <2>1, <2>6, <3>1, UpWaits DEF Waits
    <3>3. AnswersLast' /\ (Answered' => Answered)
      BY <2>2, <2>6 DEF Waits, AnswersLast, Answered
    <3>4. QED
      BY <2>2, <2>6, <3>2, <3>3 DEF Waits
  <2>7. QED
    BY <1>0, <2>2, <2>5, <2>6, HandshakePartsNext
<1>5. CASE ClientWiped
  <2>1. PICK d, new : UpMoved(d, new) /\ \A p \in new : p = Packet(client, TRUE)
    BY <1>5 DEF ClientWiped
  <2>2. \A p \in new : Harmless(p)
    BY <2>1, PacketIs DEF Harmless
  <2>3. DownMoved(0, {})
    BY <1>0, <1>5, DownKept DEF Types, ClientWiped
  <2>4. Quiet => Quiet'
    BY <2>1, <2>2, <2>3, QuietKept
  <2>5. client'.connects # 0
    BY <1>0, <1>5 DEF ClientWiped
  <2>6. client'.state = "CA_CONNECTING" => Quiet
    BY <1>0, <1>5 DEF ClientWiped
  <2>7. client'.state # "CA_CHALLENGING"
    BY <1>5 DEF ClientWiped
  <2>8. QED
    BY <2>4, <2>5, <2>6, <2>7, HandshakePartsNext
<1>6. CASE ClientPlays
  <2>1. client'.connects # 0 /\ client'.state = "CA_ACTIVE"
    BY <1>0, <1>6 DEF ClientPlays
  <2>2. QED
    BY <2>1, HandshakePartsNext
<1>7. ASSUME NEW k \in DOMAIN down, Gets(k),
             GetsNothing \/ GetsHandshake(k) \/ GetsGameState(k) \/ GetsSnapshot(k)
      PROVE  HandshakeInv'
  <2>1. /\ UNCHANGED <<server, up>> /\ DownMoved(k, {}) /\ client'.connects = client.connects
    BY <1>7 DEF Gets
  <2>2. UpMoved(0, {})
    BY <1>0, <2>1, UpKept DEF Types
  <2>3. Quiet => Quiet'
    BY <2>1, <2>2, QuietKept
  <2>4. AnswersLast => AnswersLast'
    BY <1>0, <2>1, DownWaits
  <2>5. Answered' => Answered
    BY <1>0, <2>1, DownWaits
  <2>6. QuitsOnly' = QuitsOnly /\ ConnectsLast' = ConnectsLast /\ NoPackets' = NoPackets
    BY <2>1 DEF QuitsOnly, ConnectsLast, NoPackets
  <2>7. client.connects = 0 => client'.state = "CA_DISCONNECTED" /\ Quiet'
    BY <1>0, <1>7, <2>3 DEF GetsNothing, GetsHandshake, GetsGameState, GetsSnapshot, Connected
  <2>8. client'.state = "CA_CONNECTING" => client.state = "CA_CONNECTING"
    BY <1>7 DEF GetsNothing, GetsHandshake, GetsGameState, GetsSnapshot, Connected
  <2>9. ASSUME client'.state = "CA_CHALLENGING"
        PROVE  Waits'
    <3>1. CASE client.state = "CA_CONNECTING"
      <4>1. Quiet
        BY <1>0, <3>1
      <4>2. QuitsOnly /\ ConnectsLast /\ AnswersLast /\ ~Answered
        BY <4>1 DEF Quiet, QuitsOnly, ConnectsLast, AnswersLast, Answered
      <4>3. QED
        BY <2>4, <2>5, <2>6, <4>2 DEF Waits
    <3>2. CASE client.state = "CA_CHALLENGING"
      <4>1. Waits /\ client' = client
        BY <1>0, <1>7, <2>9, <3>2
        DEF GetsNothing, GetsHandshake, GetsGameState, GetsSnapshot, Connected
      <4>2. client.map = NoId /\ sv.restartedServerId # NoId
        BY <3>2 DEF Before, ClientInv, Numbers
      <4>3. early => early'
        BY <1>7, <4>1, <4>2 DEF Gets
      <4>4. QED
        BY <2>1, <2>4, <2>5, <2>6, <4>1, <4>3 DEF Waits
    <3>3. QED
      BY <1>7, <2>9, <3>1, <3>2 DEF GetsNothing, GetsHandshake, GetsGameState, GetsSnapshot, Connected
  <2>10. QED
    BY <1>0, <2>1, <2>3, <2>7, <2>8, <2>9, HandshakePartsNext
<1>8. CASE NewMap \/ Restart
  <2>1. UNCHANGED <<client, up, down>>
    BY <1>8 DEF NewMap, Restart
  <2>2. Quiet' = Quiet /\ QuitsOnly' = QuitsOnly /\ ConnectsLast' = ConnectsLast
        /\ AnswersLast' = AnswersLast /\ Answered' = Answered /\ NoPackets' = NoPackets
    BY <2>1 DEF Quiet, QuitsOnly, ConnectsLast, AnswersLast, Answered, NoPackets
  <2>3. ASSUME client.state = "CA_CHALLENGING"
        PROVE  Waits'
    <3>1. client.map # sv.restartedServerId
      BY <2>3 DEF Before, ClientInv, Numbers
    <3>2. server'.state # "CS_PRIMED" /\ (server'.state = "CS_ACTIVE" => early')
      BY <1>8, <3>1 DEF NewMap, Restart
    <3>3. QED
      BY <1>0, <2>2, <2>3, <3>2 DEF Waits
  <2>4. QED
    BY <1>0, <2>1, <2>2, <2>3, HandshakePartsNext
<1>9. QED
  BY <1>1, <1>2, <1>3, <1>4, <1>5, <1>6, <1>7, <1>8 DEF Kinds

\* The parts of MapInv.
UpRight ==
  \A i \in DOMAIN up :
    up[i].type = "packet" /\ ~up[i].quit /\ up[i].id >= sv.restartedServerId => Right
CommandsRight ==
  client.map # NoId =>
    /\ client.cs >= sv.restartedServerId \/ server.cs >= sv.restartedServerId => Right
    /\ \A i \in DOMAIN down : InBand(down[i]) /\ down[i].cs >= sv.restartedServerId => Right
OldEarly ==
  \A i \in DOMAIN down :
    down[i].type = "gamestate" /\ down[i].map # sv.restartedServerId =>
      /\ server.cs >= sv.restartedServerId => early
      /\ \A j \in DOMAIN down :
           i < j /\ InBand(down[j]) /\ down[j].cs >= sv.restartedServerId => early
ActiveRight == server.state = "CS_ACTIVE" => Right

LEMMA MapParts ==
  MapInv <=> (Connected => /\ client.id >= sv.restartedServerId => Right
                           /\ UpRight /\ CommandsRight /\ OldEarly /\ ActiveRight)
BY DEF MapInv, UpRight, CommandsRight, OldEarly, ActiveRight

LEMMA MapPartsNext ==
  MapInv' <=> (Connected' => /\ client'.id >= sv'.restartedServerId => Right'
                             /\ UpRight' /\ CommandsRight' /\ OldEarly' /\ ActiveRight')
BY DEF MapInv, UpRight, CommandsRight, OldEarly, ActiveRight, Connected, Right, InBand

\* A gamestate of an older map in flight: the client has not got the map.
LEMMA OldMeansNoMap ==
  ASSUME Before, NEW i \in DOMAIN down, down[i].type = "gamestate",
         down[i].map # sv.restartedServerId
  PROVE  client.map # sv.restartedServerId
<1>1. /\ client.map <= down[i].map /\ down[i].map <= sv.restartedServerId
      /\ client.map \in Nat /\ down[i].map \in Nat /\ sv.restartedServerId \in Nat
  BY DEF Before, OrderInv, BoundsInv, Numbers
<1>2. QED
  BY <1>1

LEMMA UpRightKept ==
  ASSUME UpRight, UNCHANGED sv, Right => Right', NEW d, NEW new, UpMoved(d, new),
         \A p \in new : p.type = "packet" /\ ~p.quit /\ p.id >= sv.restartedServerId => Right'
  PROVE  UpRight'
BY DEF UpRight, UpMoved, AlikeUp

LEMMA OldEarlyKept ==
  ASSUME Before, OldEarly, UNCHANGED sv, server'.cs \in {server.cs, NoId},
         NEW d, NEW new, DownMoved(d, new),
         \A p \in new : /\ p.type = "gamestate" => p.map = sv.restartedServerId
                        /\ InBand(p) => p.cs = server.cs,
         early /\ client.map # sv.restartedServerId => early'
  PROVE  OldEarly'
<1> SUFFICES ASSUME NEW i \in DOMAIN down', down'[i].type = "gamestate",
                    down'[i].map # sv.restartedServerId
             PROVE  /\ server'.cs >= sv.restartedServerId => early'
                    /\ \A j \in DOMAIN down' :
                         i < j /\ InBand(down'[j]) /\ down'[j].cs >= sv.restartedServerId => early'
  BY DEF OldEarly, InBand
<1>1. i + d \in DOMAIN down /\ AlikeDown(down'[i], down[i + d])
  BY DEF DownMoved
<1>2. down[i + d].type = "gamestate" /\ down[i + d].map # sv.restartedServerId
  BY <1>1 DEF AlikeDown
<1>3. early => early'
  BY <1>1, <1>2, OldMeansNoMap
<1>4. server.cs >= sv.restartedServerId => early'
  BY <1>1, <1>2, <1>3 DEF OldEarly
<1>5. server'.cs >= sv.restartedServerId => early'
  BY <1>4 DEF Before, Numbers
<1>6. ASSUME NEW j \in DOMAIN down', i < j, InBand(down'[j]), down'[j].cs >= sv.restartedServerId
      PROVE  early'
  <2>1. CASE down'[j] \in new
    BY <1>4, <1>6, <2>1
  <2>2. CASE j + d \in DOMAIN down /\ AlikeDown(down'[j], down[j + d])
    <3>1. InBand(down[j + d]) /\ down[j + d].cs >= sv.restartedServerId
      BY <1>6, <2>2 DEF AlikeDown, InBand
    <3>2. i + d < j + d
      BY <1>6 DEF DownMoved
    <3>3. QED
      BY <1>1, <1>2, <1>3, <2>2, <3>1, <3>2 DEF OldEarly
  <2>3. QED
    BY <2>1, <2>2 DEF DownMoved
<1>7. QED
  BY <1>5, <1>6

LEMMA CommandsRightKept ==
  ASSUME Before, CommandsRight, UNCHANGED sv, server'.cs \in {server.cs, NoId},
         client'.map = client.map, client'.cs = client.cs, Right => Right',
         NEW d, NEW new, DownMoved(d, new), \A p \in new : InBand(p) => p.cs = server.cs
  PROVE  CommandsRight'
<1> SUFFICES ASSUME client.map # NoId
             PROVE  /\ client'.cs >= sv.restartedServerId \/ server'.cs >= sv.restartedServerId
                         => Right'
                    /\ \A i \in DOMAIN down' :
                         InBand(down'[i]) /\ down'[i].cs >= sv.restartedServerId => Right'
  BY DEF CommandsRight, InBand
<1>1. client'.cs >= sv.restartedServerId \/ server'.cs >= sv.restartedServerId => Right'
  BY DEF CommandsRight, Before, Numbers
<1>2. ASSUME NEW i \in DOMAIN down', InBand(down'[i]), down'[i].cs >= sv.restartedServerId
      PROVE  Right'
  <2>1. CASE down'[i] \in new
    BY <1>2, <2>1 DEF CommandsRight
  <2>2. CASE i + d \in DOMAIN down /\ AlikeDown(down'[i], down[i + d])
    <3>1. InBand(down[i + d]) /\ down[i + d].cs >= sv.restartedServerId
      BY <1>2, <2>2 DEF AlikeDown, InBand
    <3>2. QED
      BY <2>2, <3>1 DEF CommandsRight
  <2>3. QED
    BY <2>1, <2>2 DEF DownMoved
<1>3. QED
  BY <1>1, <1>2

\* Nothing known is from the new map.
LEMMA MapNew ==
  ASSUME Before, NewMap
  PROVE  MapInv'
<1>0. UNCHANGED <<client, up, down>> /\ server'.cs = server.cs /\ server'.state # "CS_ACTIVE"
  BY DEF NewMap
<1>1. \A n \in Nat : n <= sv.serverId => ~(n >= sv'.restartedServerId)
  BY DEF NewMap, Before, Numbers
<1>2. /\ ~(client.id >= sv'.restartedServerId) /\ ~(client.cs >= sv'.restartedServerId)
      /\ ~(server.cs >= sv'.restartedServerId)
  BY <1>1 DEF Before, BoundsInv, Numbers
<1>3. \A i \in DOMAIN up : up[i].type = "packet" => ~(up[i].id >= sv'.restartedServerId)
  BY <1>1 DEF Before, BoundsInv, Numbers
<1>4. \A i \in DOMAIN down : InBand(down[i]) => ~(down[i].cs >= sv'.restartedServerId)
  BY <1>1 DEF Before, BoundsInv, Numbers
<1>5. UpRight'
  BY <1>0, <1>3 DEF UpRight
<1>6. CommandsRight' /\ OldEarly'
  BY <1>0, <1>2, <1>4 DEF CommandsRight, OldEarly, InBand
<1>7. QED
  BY <1>0, <1>2, <1>5, <1>6, MapPartsNext DEF ActiveRight

\* A restart that keeps the client in the game knows whether it has the map.
LEMMA MapRestarted ==
  ASSUME Before, MapInv, Restart
  PROVE  MapInv'
<1> SUFFICES ASSUME Connected'
             PROVE  /\ client'.id >= sv'.restartedServerId => Right'
                    /\ UpRight' /\ CommandsRight' /\ OldEarly' /\ ActiveRight'
  BY MapPartsNext
<1>0. UNCHANGED <<client, up, down>> /\ sv'.restartedServerId = sv.restartedServerId
  BY DEF Restart
<1>1. /\ client.id >= sv.restartedServerId => Right
      /\ UpRight /\ CommandsRight /\ OldEarly /\ ActiveRight
  BY <1>0, MapParts DEF Connected
<1>2. (Right => Right') /\ (early => early')
  BY <1>0 DEF Restart, Right
<1>3. UpRight'
  BY <1>0, <1>1, <1>2 DEF UpRight
<1>4. CASE server'.state = "CS_ACTIVE"
  <2>1. /\ early' = (early \/ client.map # sv.restartedServerId)
    BY <1>4 DEF Restart
  <2>2. Right'
    BY <1>0, <2>1 DEF Right
  <2>3. OldEarly'
    <3>1. \A i \in DOMAIN down : down[i].type = "gamestate" /\ down[i].map # sv.restartedServerId
            => early'
      BY <2>1, OldMeansNoMap
    <3>2. QED
      BY <1>0, <3>1 DEF OldEarly
  <2>4. QED
    BY <1>3, <2>2, <2>3 DEF CommandsRight, ActiveRight
<1>5. CASE server'.state # "CS_ACTIVE"
  <2>1. server'.cs = server.cs
    BY <1>5 DEF Restart
  <2>2. CommandsRight'
    BY <1>0, <1>1, <1>2, <2>1 DEF CommandsRight, InBand
  <2>3. OldEarly'
    BY <1>0, <1>1, <1>2, <2>1 DEF OldEarly, InBand
  <2>4. QED
    BY <1>0, <1>1, <1>2, <1>3, <1>5, <2>2, <2>3 DEF ActiveRight
<1>6. QED
  BY <1>4, <1>5

LEMMA MapServed ==
  ASSUME Before, MapInv, ServerWorks \/ SendsGameState
  PROVE  MapInv'
<1> SUFFICES ASSUME Connected'
             PROVE  /\ client'.id >= sv'.restartedServerId => Right'
                    /\ UpRight' /\ CommandsRight' /\ OldEarly' /\ ActiveRight'
  BY MapPartsNext
<1>0. /\ UNCHANGED <<sv, early>> /\ client'.state = client.state /\ client'.id = client.id
      /\ client'.map = client.map /\ client'.cs = client.cs
      /\ server'.cs \in {server.cs, NoId}
  BY DEF ServerWorks, SendsGameState, Before, Types, ClientRecord
<1>1. /\ client.id >= sv.restartedServerId => Right
      /\ UpRight /\ CommandsRight /\ OldEarly /\ ActiveRight
  BY <1>0, MapParts DEF Connected
<1>2. Right <=> Right'
  BY <1>0 DEF Right
<1>3. PICK d : UpMoved(d, {})
  BY DEF ServerWorks, SendsGameState
<1>4. UpRight'
  BY <1>0, <1>1, <1>2, <1>3, UpRightKept
<1>5. PICK e, new : /\ DownMoved(e, new)
                    /\ \A p \in new : /\ p.type = "gamestate" => p.map = sv.restartedServerId
                                      /\ InBand(p) => p.cs = server.cs
  <2>1. CASE ServerWorks
    BY <2>1 DEF ServerWorks, InBand
  <2>2. CASE SendsGameState
    <3>1. PICK e : DownMoved(e, {GameState})
      BY <2>2 DEF SendsGameState
    <3>2. \A p \in {GameState} : /\ p.type = "gamestate" => p.map = sv.restartedServerId
                                 /\ InBand(p) => p.cs = server.cs
      BY GameStateIs
    <3>3. QED
      BY <3>1, <3>2
  <2>3. QED
    BY <2>1, <2>2
<1>6. OldEarly'
  BY <1>0, <1>1, <1>5, OldEarlyKept
<1>7. CommandsRight'
  BY <1>0, <1>1, <1>2, <1>5, CommandsRightKept
<1>8. ActiveRight'
  <2>1. CASE server.state = "CS_ACTIVE" \/ server'.state # "CS_ACTIVE"
    BY <1>1, <1>2, <2>1 DEF ActiveRight
  <2>2. CASE server.state # "CS_ACTIVE" /\ server'.state = "CS_ACTIVE"
    <3>1. PICK k \in DOMAIN up : up[k].type = "packet" /\ ~up[k].quit /\ up[k].id = sv.serverId
      BY <2>2 DEF ServerWorks, SendsGameState
    <3>2. up[k].id >= sv.restartedServerId
      BY <3>1 DEF Before, Numbers
    <3>3. QED
      BY <1>1, <1>2, <3>1, <3>2 DEF UpRight, ActiveRight
  <2>3. QED
    BY <2>1, <2>2
<1>9. QED
  BY <1>0, <1>1, <1>2, <1>4, <1>6, <1>7, <1>8

LEMMA MapPlayed ==
  ASSUME Before, MapInv, ClientSends \/ ClientPlays
  PROVE  MapInv'
<1> SUFFICES ASSUME Connected'
             PROVE  /\ client'.id >= sv'.restartedServerId => Right'
                    /\ UpRight' /\ CommandsRight' /\ OldEarly' /\ ActiveRight'
  BY MapPartsNext
<1>0. /\ UNCHANGED <<sv, server, early, down>> /\ Connected
      /\ client'.map = client.map /\ client'.cs = client.cs
  BY DEF ClientSends, ClientPlays, Connected
<1>1. /\ client.id >= sv.restartedServerId => Right
      /\ UpRight /\ CommandsRight /\ OldEarly /\ ActiveRight
  BY <1>0, MapParts
<1>2. Right <=> Right'
  BY <1>0 DEF Right
<1>3. CommandsRight' /\ OldEarly' /\ ActiveRight'
  BY <1>0, <1>1, <1>2 DEF CommandsRight, OldEarly, ActiveRight, InBand
<1>4. client'.id >= sv.restartedServerId => Right'
  <2>1. CASE ClientSends
    BY <1>1, <1>2, <2>1 DEF ClientSends
  <2>2. CASE ClientPlays
    <3>1. client'.id \in {client.id, client.cs} /\ client.map # NoId
      BY <2>2 DEF ClientPlays, Before, ClientInv
    <3>2. QED
      BY <1>1, <1>2, <3>1 DEF CommandsRight
  <2>3. QED
    BY <2>1, <2>2
<1>5. UpRight'
  <2>1. CASE ClientPlays
    BY <1>0, <1>1, <1>2, <2>1 DEF ClientPlays, UpRight
  <2>2. CASE ClientSends
    <3>1. PICK d, p : UpMoved(d, {p}) /\ (p.type = "packet" => p = Packet(client, FALSE))
      BY <2>2 DEF ClientSends
    <3>2. p.type = "packet" /\ ~p.quit /\ p.id >= sv.restartedServerId => Right'
      BY <1>1, <1>2, <3>1, PacketIs
    <3>3. QED
      BY <1>0, <1>1, <1>2, <3>1, <3>2, UpRightKept
  <2>3. QED
    BY <2>1, <2>2
<1>6. QED
  BY <1>0, <1>3, <1>4, <1>5

LEMMA MapGot ==
  ASSUME Before, HandshakeInv, MapInv, NEW k \in DOMAIN down, Gets(k),
         GetsNothing \/ GetsHandshake(k) \/ GetsGameState(k) \/ GetsSnapshot(k)
  PROVE  MapInv'
<1> SUFFICES ASSUME Connected'
             PROVE  /\ client'.id >= sv'.restartedServerId => Right'
                    /\ UpRight' /\ CommandsRight' /\ OldEarly' /\ ActiveRight'
  BY MapPartsNext
<1>0. /\ UNCHANGED <<sv, server, up>> /\ DownMoved(k, {})
      /\ early' = (early /\ client'.map # sv.restartedServerId)
  BY DEF Gets
<1>1. /\ Types /\ Types' /\ Numbers /\ BoundsInv /\ OrderInv
  BY DEF Before
<1>2. Right' <=> client'.map = sv.restartedServerId \/ early
  BY <1>0 DEF Right
<1>3. UpMoved(0, {})
  BY <1>0, <1>1, UpKept DEF Types
<1>4. \A i \in DOMAIN down' : /\ i + k \in DOMAIN down /\ k < i + k
                              /\ AlikeDown(down'[i], down[i + k])
  BY <1>0, <1>1, TypesPositions, TypesPositionsNext DEF DownMoved, Positions
<1>5. CASE GetsNothing \/ GetsSnapshot(k)
  <2>1. Connected /\ client'.map = client.map /\ client'.id = client.id
    BY <1>5 DEF GetsNothing, GetsSnapshot, Connected
  <2>2. /\ client.id >= sv.restartedServerId => Right
        /\ UpRight /\ CommandsRight /\ OldEarly /\ ActiveRight
    BY <2>1, MapParts
  <2>3. Right <=> Right'
    BY <1>2, <2>1 DEF Right
  <2>4. UpRight'
    BY <1>0, <1>3, <2>2, <2>3, UpRightKept
  <2>5. OldEarly'
    <3>1. early /\ client.map # sv.restartedServerId => early'
      BY <1>0, <2>1
    <3>2. QED
      BY <1>0, <2>2, <3>1, OldEarlyKept
  <2>6. ActiveRight'
    BY <1>0, <2>2, <2>3 DEF ActiveRight
  <2>7. CommandsRight'
    <3> SUFFICES ASSUME client.map # NoId
                 PROVE  /\ client'.cs >= sv.restartedServerId \/ server.cs >= sv.restartedServerId
                             => Right'
                        /\ \A i \in DOMAIN down' :
                             InBand(down'[i]) /\ down'[i].cs >= sv.restartedServerId => Right'
      BY <1>0, <2>1 DEF CommandsRight, InBand
    <3>1. client'.cs = client.cs \/ (client'.cs = down[k].cs /\ InBand(down[k]))
      BY <1>5 DEF GetsNothing, GetsSnapshot, InBand
    <3>2. client'.cs >= sv.restartedServerId \/ server.cs >= sv.restartedServerId => Right'
      BY <2>2, <2>3, <3>1 DEF CommandsRight
    <3>3. \A i \in DOMAIN down' :
            InBand(down'[i]) /\ down'[i].cs >= sv.restartedServerId => Right'
      BY <1>4, <2>2, <2>3 DEF CommandsRight, AlikeDown, InBand
    <3>4. QED
      BY <3>2, <3>3
  <2>8. QED
    BY <1>0, <2>1, <2>2, <2>3, <2>4, <2>5, <2>6, <2>7
<1>6. CASE GetsHandshake(k)
  <2>1. /\ client.state = "CA_CHALLENGING" /\ down[k].type = "connectResponse"
        /\ client'.id = client.id /\ client'.map = client.map
    BY <1>6 DEF GetsHandshake, Connected
  <2>2. Waits /\ Answered
    BY <2>1, HandshakeParts DEF Answered
  <2>3. client'.id = NoId /\ client'.map = NoId
    BY <2>1 DEF Before, ClientInv
  <2>4. \A i \in DOMAIN down' : down'[i].type # "gamestate"
    BY <1>4, <2>1, <2>2 DEF Waits, AnswersLast, AlikeDown
  <2>5. UpRight'
    BY <1>0, <2>2 DEF UpRight, Waits, NoPackets
  <2>6. CommandsRight' /\ OldEarly'
    BY <2>3, <2>4 DEF CommandsRight, OldEarly
  <2>7. ActiveRight'
    BY <1>0, <1>2, <2>2 DEF ActiveRight, Waits
  <2>8. ~(client'.id >= sv.restartedServerId)
    BY <1>1, <2>3 DEF Numbers
  <2>9. QED
    BY <1>0, <2>5, <2>6, <2>7, <2>8
<1>7. CASE GetsGameState(k)
  <2>1. /\ Connected /\ down[k].type = "gamestate" /\ InBand(down[k])
        /\ client'.id = down[k].id /\ client'.map = down[k].map
        /\ client'.cs \in {client.cs, down[k].cs}
    BY <1>7 DEF GetsGameState, InBand
  <2>2. UpRight /\ CommandsRight /\ OldEarly /\ ActiveRight
    BY <2>1, MapParts
  <2>3. CASE down[k].map = sv.restartedServerId
    <3>1. Right'
      BY <1>2, <2>1, <2>3
    <3>2. \A i \in DOMAIN down' : down'[i].type = "gamestate" => down'[i].map = sv.restartedServerId
      <4> SUFFICES ASSUME NEW i \in DOMAIN down', down'[i].type = "gamestate"
                   PROVE  down'[i].map = sv.restartedServerId
        OBVIOUS
      <4>1. /\ i + k \in DOMAIN down /\ k < i + k /\ down[i + k].type = "gamestate"
            /\ down'[i].map = down[i + k].map
        BY <1>4 DEF AlikeDown
      <4>2. down[k].map <= down[i + k].map /\ down[i + k].map <= sv.restartedServerId
        BY <1>1, <2>1, <4>1 DEF OrderInv, BoundsInv
      <4>3. QED
        BY <1>1, <2>3, <4>1, <4>2 DEF Numbers
    <3>3. OldEarly'
      BY <1>0, <3>2 DEF OldEarly
    <3>4. QED
      BY <3>1, <3>3 DEF UpRight, CommandsRight, ActiveRight
  <2>4. CASE down[k].map # sv.restartedServerId
    <3>1. client.map # sv.restartedServerId
      BY <2>1, <2>4, OldMeansNoMap
    <3>2. (early => early') /\ (Right <=> early)
      BY <1>0, <2>1, <2>4, <3>1 DEF Right
    <3>3. Right => Right'
      BY <3>2 DEF Right
    <3>4. /\ ~(down[k].id >= sv.restartedServerId) /\ ~(down[k].cs >= sv.restartedServerId)
          /\ ~(client.cs >= sv.restartedServerId)
      BY <1>1, <2>1, <2>4 DEF OrderInv
    <3>5. ~(client'.id >= sv.restartedServerId) /\ ~(client'.cs >= sv.restartedServerId)
      BY <2>1, <3>4
    <3>6. UpRight'
      BY <1>0, <1>3, <2>2, <3>3, UpRightKept
    <3>7. OldEarly'
      BY <1>0, <2>2, <3>2, OldEarlyKept
    <3>8. ActiveRight'
      BY <1>0, <2>2, <3>3 DEF ActiveRight
    <3>9. server.cs >= sv.restartedServerId => Right'
      BY <2>1, <2>2, <2>4, <3>2 DEF OldEarly, Right
    <3>10. \A i \in DOMAIN down' :
             InBand(down'[i]) /\ down'[i].cs >= sv.restartedServerId => Right'
      <4> SUFFICES ASSUME NEW i \in DOMAIN down', InBand(down'[i]),
                          down'[i].cs >= sv.restartedServerId
                   PROVE  Right'
        OBVIOUS
      <4>1. /\ i + k \in DOMAIN down /\ k < i + k /\ InBand(down[i + k])
            /\ down[i + k].cs >= sv.restartedServerId
        BY <1>4 DEF AlikeDown, InBand
      <4>2. early
        BY <2>1, <2>2, <2>4, <4>1 DEF OldEarly
      <4>3. QED
        BY <3>2, <3>3, <4>2
    <3>11. CommandsRight'
      BY <1>0, <3>5, <3>9, <3>10 DEF CommandsRight, InBand
    <3>12. QED
      BY <1>0, <3>5, <3>6, <3>7, <3>8, <3>11
  <2>5. QED
    BY <2>3, <2>4
<1>8. QED
  BY <1>5, <1>6, <1>7

LEMMA MapKept ==
  ASSUME Before, HandshakeInv, MapInv, Kinds
  PROVE  MapInv'
<1>1. CASE Accepts \/ ClientWiped
  <2>1. ~Connected'
    BY <1>1 DEF Accepts, ClientWiped, Connected
  <2>2. QED
    BY <2>1, MapPartsNext
<1>2. QED
  BY <1>1, MapServed, MapPlayed, MapGot, MapNew, MapRestarted DEF Kinds

\* The parts of GameStateInv for the i-th packet in flight.
Undropped(i) ==
  /\ \A k \in DOMAIN up : up[k].type = "packet" => ~up[k].after
  /\ Connected => ~client.after
  /\ \A j \in DOMAIN down : j < i /\ InBand(down[j]) => ~down[j].after
  /\ server.state = "CS_ACTIVE" => ~sv.pure \/ server.gotCP

LEMMA GameStateParts ==
  GameStateInv <=> \A i \in DOMAIN down : Current(i) => Undropped(i)
BY DEF GameStateInv, Undropped

LEMMA GameStatePartsNext ==
  GameStateInv' <=> \A i \in DOMAIN down' : Current(i)' => Undropped(i)'
BY DEF GameStateInv, Undropped, Current, Connected, InBand

\* What was in flight is Current as long as no connectResponse comes after it.
LEMMA CurrentBefore ==
  ASSUME Before, sv' = sv, NEW d, NEW new, DownMoved(d, new), NEW i \in DOMAIN down',
         Current(i)', down'[i] \notin new
  PROVE  i + d \in DOMAIN down /\ AlikeDown(down'[i], down[i + d]) /\ Current(i + d)
<1>1. i + d \in DOMAIN down /\ AlikeDown(down'[i], down[i + d]) /\ i \in Nat /\ d \in Nat
  BY DEF DownMoved
<1>2. down[i + d].type = "gamestate" /\ down[i + d].id = sv.serverId
  BY <1>1 DEF Current, AlikeDown
<1>3. ASSUME NEW j \in DOMAIN down, i + d < j
      PROVE  down[j].type # "connectResponse"
  <2>1. j \in Nat /\ j > d /\ i < j - d
    BY <1>1, <1>3 DEF DownMoved
  <2>2. j - d \in DOMAIN down' /\ AlikeDown(down'[j - d], down[j])
    BY <2>1 DEF DownMoved
  <2>3. QED
    BY <2>1, <2>2 DEF Current, AlikeDown
<1>4. QED
  BY <1>1, <1>2, <1>3 DEF Current

\* The messages of the server before a gamestate are not younger for what is sent or lost.
LEMMA OlderKept ==
  ASSUME NEW d, NEW new, DownMoved(d, new), NEW i \in DOMAIN down', down'[i] \notin new,
         \A j \in DOMAIN down : j < i + d /\ InBand(down[j]) => ~down[j].after
  PROVE  \A j \in DOMAIN down' : j < i /\ InBand(down'[j]) => ~down'[j].after
<1> SUFFICES ASSUME NEW j \in DOMAIN down', j < i, InBand(down'[j])
             PROVE  ~down'[j].after
  OBVIOUS
<1>1. i \in Nat /\ j \in Nat /\ d \in Nat
  BY DEF DownMoved
<1>2. ~\A l \in DOMAIN down' : l <= j
  BY <1>1
<1>3. j + d \in DOMAIN down /\ AlikeDown(down'[j], down[j + d]) /\ j + d < i + d
  BY <1>1, <1>2 DEF DownMoved
<1>4. QED
  BY <1>3 DEF AlikeDown, InBand

LEMMA UpOlderKept ==
  ASSUME \A k \in DOMAIN up : up[k].type = "packet" => ~up[k].after,
         NEW d, NEW new, UpMoved(d, new), \A p \in new : p.type = "packet" => ~p.after
  PROVE  \A k \in DOMAIN up' : up'[k].type = "packet" => ~up'[k].after
BY DEF UpMoved, AlikeUp

LEMMA GameStateKept ==
  ASSUME Before, HandshakeInv, GameStateInv, Kinds
  PROVE  GameStateInv'
<1> SUFFICES ASSUME NEW i \in DOMAIN down', Current(i)'
             PROVE  Undropped(i)'
  BY GameStatePartsNext
<1>0. Types /\ Types' /\ down'[i].type = "gamestate"
  BY DEF Before, Current
<1>1. CASE ServerWorks \/ Accepts
  <2>1. PICK d, new : DownMoved(d, new) /\ \A p \in new : p.type # "gamestate"
    BY <1>1 DEF ServerWorks, Accepts
  <2>2. UNCHANGED <<sv, client>>
    BY <1>1 DEF ServerWorks, Accepts
  <2>3. i + d \in DOMAIN down /\ Current(i + d) /\ down'[i] \notin new
    BY <1>0, <2>1, <2>2, CurrentBefore
  <2>4. Undropped(i + d)
    BY <2>3, GameStateParts
  <2>5. PICK e : UpMoved(e, {})
    BY <1>1 DEF ServerWorks, Accepts
  <2>6. \A k \in DOMAIN up' : up'[k].type = "packet" => ~up'[k].after
    BY <2>4, <2>5, UpOlderKept DEF Undropped
  <2>7. \A j \in DOMAIN down' : j < i /\ InBand(down'[j]) => ~down'[j].after
    BY <2>1, <2>3, <2>4, OlderKept DEF Undropped
  <2>8. server'.state = "CS_ACTIVE" => ~sv.pure \/ server'.gotCP
    BY <1>1, <2>4 DEF ServerWorks, Accepts, Undropped
  <2>9. QED
    BY <2>2, <2>4, <2>6, <2>7, <2>8 DEF Undropped, Connected, InBand
<1>2. CASE SendsGameState
  <2>1. ~client'.after /\ server'.state # "CS_ACTIVE"
    BY <1>0, <1>2 DEF SendsGameState, Types, ClientRecord
  <2>2. QED
    BY <1>2, <2>1 DEF SendsGameState, Undropped, InBand
<1>3. CASE ClientSends \/ ClientWiped \/ ClientPlays
  <2>1. UNCHANGED <<sv, server, down>>
    BY <1>3 DEF ClientSends, ClientWiped, ClientPlays
  <2>2. i \in DOMAIN down /\ Current(i)
    BY <2>1 DEF Current
  <2>3. Undropped(i)
    BY <2>2, GameStateParts
  <2>4. Connected' => ~client'.after
    BY <1>3, <2>3 DEF ClientSends, ClientWiped, ClientPlays, Undropped, Connected
  <2>5. PICK d, new : UpMoved(d, new) /\ \A p \in new : p.type = "packet" => ~p.after
    <3>1. CASE ClientPlays
      <4>1. UpMoved(0, {})
        BY <1>0, <3>1, UpKept DEF ClientPlays, Types
      <4>2. QED
        BY <4>1
    <3>2. CASE ClientSends
      <4>1. PICK d, p : /\ UpMoved(d, {p})
                        /\ p.type = "packet" => Connected /\ p = Packet(client, FALSE)
        BY <3>2 DEF ClientSends
      <4>2. \A q \in {p} : q.type = "packet" => ~q.after
        BY <2>3, <4>1, PacketIs DEF Undropped
      <4>3. QED
        BY <4>1, <4>2
    <3>3. CASE ClientWiped
      <4>1. PICK d, new : UpMoved(d, new) /\ \A p \in new : Connected /\ p = Packet(client, TRUE)
        BY <3>3 DEF ClientWiped
      <4>2. \A p \in new : ~p.after
        BY <2>3, <4>1, PacketIs DEF Undropped
      <4>3. QED
        BY <4>1, <4>2
    <3>4. QED
      BY <1>3, <3>1, <3>2, <3>3
  <2>6. \A k \in DOMAIN up' : up'[k].type = "packet" => ~up'[k].after
    BY <2>3, <2>5, UpOlderKept DEF Undropped
  <2>7. QED
    BY <2>1, <2>3, <2>4, <2>6 DEF Undropped, InBand
<1>4. ASSUME NEW k \in DOMAIN down, Gets(k),
             GetsNothing \/ GetsHandshake(k) \/ GetsGameState(k) \/ GetsSnapshot(k)
      PROVE  Undropped(i)'
  <2>1. UNCHANGED <<sv, server, up>> /\ DownMoved(k, {})
    BY <1>4 DEF Gets
  <2>2. i + k \in DOMAIN down /\ AlikeDown(down'[i], down[i + k]) /\ Current(i + k)
    BY <2>1, CurrentBefore
  <2>3. Undropped(i + k)
    BY <2>2, GameStateParts
  <2>4. k < i + k
    BY <1>0, <2>1, TypesPositions, TypesPositionsNext DEF DownMoved, Positions
  <2>5. \A j \in DOMAIN down' : j < i /\ InBand(down'[j]) => ~down'[j].after
    BY <2>1, <2>3, OlderKept DEF Undropped
  <2>6. Connected' => ~client'.after
    <3>1. CASE GetsNothing
      BY <2>3, <3>1 DEF GetsNothing, Undropped, Connected
    <3>2. CASE GetsHandshake(k) /\ Connected'
      <4>1. client.state = "CA_CHALLENGING" /\ down[k].type = "connectResponse"
        BY <3>2 DEF GetsHandshake, Connected
      <4>2. down[i + k].type # "gamestate"
        BY <2>2, <2>4, <4>1, HandshakeParts DEF Waits, AnswersLast
      <4>3. QED
        BY <2>2, <4>2 DEF Current
    <3>3. CASE GetsGameState(k)
      BY <3>3 DEF GetsGameState
    <3>4. CASE GetsSnapshot(k)
      BY <2>3, <2>4, <3>4 DEF GetsSnapshot, Undropped, InBand
    <3>5. QED
      BY <1>4, <3>1, <3>2, <3>3, <3>4
  <2>7. QED
    BY <2>1, <2>3, <2>5, <2>6 DEF Undropped, InBand
<1>5. CASE NewMap \/ Restart
  <2>1. down' = down /\ sv'.serverId = sv.serverId + 1
    BY <1>5 DEF NewMap, Restart
  <2>2. down[i].id <= sv.serverId /\ down[i].id \in Nat /\ sv.serverId \in Nat
    BY <1>0, <2>1 DEF Before, BoundsInv, Numbers
  <2>3. QED
    BY <2>1, <2>2 DEF Current
<1>6. QED
  BY <1>1, <1>2, <1>3, <1>4, <1>5 DEF Kinds

LEMMA OneGameStateKept ==
  ASSUME Before, GameStateInv, OneGameStateInFlight, Kinds
  PROVE  OneGameStateInFlight'
<1>0. Types /\ Types' /\ Positions /\ Positions'
  BY TypesPositions, TypesPositionsNext DEF Before
<1>1. CASE down' = down
  BY <1>1 DEF OneGameStateInFlight
<1>2. ASSUME NEW d, NEW new, DownMoved(d, new),
             NEW i \in DOMAIN down', NEW j \in DOMAIN down', i < j,
             down'[i].type = "gamestate", down'[j].type = "gamestate",
             j + d \in DOMAIN down, AlikeDown(down'[j], down[j + d]),
             \A k \in i .. j : down'[k].type # "connectResponse"
      PROVE  down'[i].id # down'[j].id
  <2>1. i \in Nat /\ j \in Nat /\ d \in Nat
    BY <1>2 DEF DownMoved
  <2>2. j + d \in DOMAIN down /\ AlikeDown(down'[j], down[j + d])
    BY <1>2
  <2>3. ~\A l \in DOMAIN down' : l <= i
    BY <1>2, <2>1
  <2>4. i + d \in DOMAIN down /\ AlikeDown(down'[i], down[i + d])
    BY <1>2, <2>3 DEF DownMoved
  <2>5. ASSUME NEW k \in (i + d) .. (j + d)
        PROVE  down[k].type # "connectResponse"
    <3>1. k \in DOMAIN down
      BY <1>0, <2>2, <2>4 DEF Positions
    <3>2. k > d /\ k - d \in i .. j
      BY <1>0, <2>1, <1>2 DEF Positions
    <3>3. AlikeDown(down'[k - d], down[k])
      BY <1>2, <3>1, <3>2 DEF DownMoved
    <3>4. QED
      BY <1>2, <3>2, <3>3 DEF AlikeDown
  <2>6. i + d < j + d
    BY <1>2, <2>1
  <2>7. down[i + d].type = "gamestate" /\ down[j + d].type = "gamestate"
        /\ down'[i].id = down[i + d].id /\ down'[j].id = down[j + d].id
    BY <1>2, <2>2, <2>4 DEF AlikeDown
  <2>8. QED
    BY <2>2, <2>4, <2>5, <2>6, <2>7 DEF OneGameStateInFlight
<1>3. ASSUME NEW d, NEW new, DownMoved(d, new), \A p \in new : p.type # "gamestate"
      PROVE  OneGameStateInFlight'
  <2>1. \A j \in DOMAIN down' : down'[j].type = "gamestate" =>
          j + d \in DOMAIN down /\ AlikeDown(down'[j], down[j + d])
    BY <1>3 DEF DownMoved
  <2>2. QED
    BY <1>2, <1>3, <2>1 DEF OneGameStateInFlight
<1>4. CASE SendsGameState
  <2>1. PICK d : DownMoved(d, {GameState})
    BY <1>4 DEF SendsGameState
  <2>2. PICK k \in DOMAIN up :
          /\ up[k].type = "packet"
          /\ up[k].after \/ (sv.pure /\ ~server.gotCP /\ server.state = "CS_ACTIVE")
    BY <1>4 DEF SendsGameState
  <2>3. \A l \in DOMAIN down : ~Current(l)
    BY <2>2, GameStateParts DEF Undropped
  <2>4. ASSUME NEW i \in DOMAIN down', NEW j \in DOMAIN down', i < j,
               down'[i].type = "gamestate", down'[j] = GameState, \A l \in DOMAIN down' : l <= j,
               \A l \in i .. j : down'[l].type # "connectResponse", down'[i].id = down'[j].id
        PROVE  FALSE
    <3>1. i \in Nat /\ j \in Nat /\ d \in Nat
      BY <2>1 DEF DownMoved
    <3>2. ~\A l \in DOMAIN down' : l <= i
      BY <2>4, <3>1
    <3>3. i + d \in DOMAIN down /\ AlikeDown(down'[i], down[i + d])
      BY <2>1, <3>2 DEF DownMoved
    <3>4. down[i + d].type = "gamestate" /\ down[i + d].id = sv.serverId
      BY <2>4, <3>3, GameStateIs DEF AlikeDown
    <3>5. ASSUME NEW l \in DOMAIN down, i + d < l
          PROVE  down[l].type # "connectResponse"
      <4>1. l \in Nat /\ l > d /\ i < l - d
        BY <1>0, <3>1, <3>5 DEF Positions
      <4>2. l - d \in DOMAIN down' /\ AlikeDown(down'[l - d], down[l])
        BY <2>1, <4>1 DEF DownMoved
      <4>3. l - d \in i .. j
        BY <2>4, <3>1, <4>1, <4>2
      <4>4. QED
        BY <2>4, <4>2, <4>3 DEF AlikeDown
    <3>6. QED
      BY <2>3, <3>3, <3>4, <3>5 DEF Current
  <2>5. ASSUME NEW i \in DOMAIN down', NEW j \in DOMAIN down', i < j,
               down'[i].type = "gamestate", down'[j].type = "gamestate",
               \A l \in i .. j : down'[l].type # "connectResponse"
        PROVE  down'[i].id # down'[j].id
    <3>1. CASE j + d \in DOMAIN down /\ AlikeDown(down'[j], down[j + d])
      BY <1>2, <2>1, <2>5, <3>1
    <3>2. CASE down'[j] = GameState /\ \A l \in DOMAIN down' : l <= j
      BY <2>4, <2>5, <3>2
    <3>3. QED
      BY <2>1, <3>1, <3>2 DEF DownMoved, AlikeDown
  <2>6. QED
    BY <2>5 DEF OneGameStateInFlight
<1>5. CASE ServerWorks \/ Accepts
  <2>1. PICK d, new : DownMoved(d, new) /\ \A p \in new : p.type # "gamestate"
    BY <1>5 DEF ServerWorks, Accepts
  <2>2. QED
    BY <1>3, <2>1
<1>6. ASSUME NEW k \in DOMAIN down, Gets(k)
      PROVE  OneGameStateInFlight'
  <2>1. DownMoved(k, {})
    BY <1>6 DEF Gets
  <2>2. QED
    BY <1>3, <2>1
<1>7. QED
  BY <1>1, <1>4, <1>5, <1>6 DEF Kinds, ClientSends, ClientWiped, ClientPlays, NewMap, Restart
-----------------------------------------------------------------------------
(* The theorems.                                                            *)

LEMMA InitTypes == Init => Types
<1> SUFFICES ASSUME Init PROVE Types
  OBVIOUS
<1>1. SvOK
  BY DEF Init, SvOK
<1>2. ServerOK
  <2>1. CASE server = Free
    BY <2>1, FreeIs DEF ServerOK
  <2>2. CASE server = [Free EXCEPT !.state = "CS_ACTIVE"]
    BY <2>2, FreeIs DEF ServerOK, ServerRecord
  <2>3. CASE server = [Free EXCEPT !.state = "CS_ZOMBIE", !.drop = TRUE]
    BY <2>3, FreeIs DEF ServerOK, ServerRecord
  <2>4. QED
    BY <2>1, <2>2, <2>3 DEF Init
<1>3. client \in ClientRecord
  BY NoIdIsId DEF Init, ClientRecord
<1>4. UpOK
  <2> DEFINE p == [type |-> "packet", id |-> 1, after |-> TRUE, quit |-> TRUE,
                   cp |-> NoId, cpNum |-> 0]
  <2>1. 1 \in ServerId /\ NoId \in ServerId /\ 0 \in Nat
    BY DEF ServerId, NoId
  <2>2. p \in UpMessage
    BY <2>1 DEF UpMessage, UpPacket
  <2>3. up \in {<<>>, <<p>>}
    BY DEF Init
  <2> HIDE DEF p
  <2>4. <<>> \in Seq(UpMessage)
    OBVIOUS
  <2>5. <<p>> \in Seq(UpMessage)
    BY <2>2
  <2>6. QED
    BY <2>3, <2>4, <2>5 DEF UpOK
<1>5. DownOK
  BY DEF Init, DownOK
<1>6. QED
  BY <1>1, <1>2, <1>3, <1>4, <1>5 DEF Types

LEMMA InitIInv == Init => IInv
<1> SUFFICES ASSUME Init PROVE IInv
  OBVIOUS
<1>0. Types /\ Numbers
  BY InitTypes, TypesNumbers
<1>1. /\ sv.serverId = 1 /\ sv.restartedServerId = 1
      /\ down = <<>>
      /\ client.state = "CA_DISCONNECTED" /\ client.id = NoId /\ client.map = NoId
      /\ client.cs = NoId
  BY DEF Init
<1>a. server.cs = NoId
  <2>1. server \in {Free, [Free EXCEPT !.state = "CS_ACTIVE"],
                   [Free EXCEPT !.state = "CS_ZOMBIE", !.drop = TRUE]}
    BY DEF Init
  <2>2. QED
    BY <2>1, FreeIs DEF ServerRecord
<1>2. \A i \in DOMAIN up : up[i].type = "packet" /\ up[i].id = 1 /\ up[i].quit
  BY DEF Init
<1>3. DOMAIN down = {}
  BY <1>1
<1>4. BoundsInv
  BY <1>0, <1>1, <1>a, <1>2, <1>3 DEF BoundsInv, Numbers
<1>5. ClientInv
  BY <1>1 DEF ClientInv
<1>6. OrderInv /\ GameStateInv /\ OneGameStateInFlight
  BY <1>3 DEF OrderInv, GameStateInv, OneGameStateInFlight
<1>7. HandshakeInv
  BY <1>1, <1>2, <1>3 DEF HandshakeInv, Quiet
<1>8. MapInv
  BY <1>1 DEF MapInv, Connected
<1>9. QED
  BY <1>0, <1>4, <1>5, <1>6, <1>7, <1>8, TypesSame DEF IInv

LEMMA IInvKept == IInv /\ [Next]_vars /\ Afresh => IInv'
<1> SUFFICES ASSUME IInv, [Next]_vars, Afresh PROVE IInv'
  OBVIOUS
<1>1. /\ Types /\ BoundsInv /\ ClientInv /\ OrderInv /\ HandshakeInv /\ MapInv
      /\ GameStateInv /\ OneGameStateInFlight
  BY TypesSame DEF IInv
<1>2. Types' /\ (Kinds \/ UNCHANGED vars)
  BY <1>1, StepEffect
<1>3. Before
  BY <1>1, <1>2, TypesNumbers, TypesNumbersNext DEF Before
<1>4. (TypeOK /\ NetsOK)'
  BY <1>2, TypesSame, PTL
<1>5. CASE Kinds
  BY <1>1, <1>3, <1>4, <1>5, BoundsKept, ClientKept, OrderKept, HandshakeKept, MapKept,
     GameStateKept, OneGameStateKept DEF IInv
<1>6. CASE UNCHANGED vars
  <2>1. BoundsInv' /\ ClientInv' /\ OrderInv'
    BY <1>1, <1>6 DEF vars, BoundsInv, ClientInv, OrderInv, Connected, InBand
  <2>2. HandshakeInv' /\ MapInv'
    BY <1>1, <1>6 DEF vars, HandshakeInv, MapInv, Quiet, Answered, Connected, Right, InBand
  <2>3. GameStateInv' /\ OneGameStateInFlight'
    BY <1>1, <1>6 DEF vars, GameStateInv, OneGameStateInFlight, Current, Connected, InBand
  <2>4. QED
    BY <1>4, <2>1, <2>2, <2>3 DEF IInv
<1>7. QED
  BY <1>2, <1>5, <1>6

\* The two ends and what is in flight between them keep their types, whatever was lost,
\* and a slot has a disconnect to send exactly while it is a zombie.
THEOREM TypeCorrect == Spec => []TypeOK
<1>1. Init => Types
  BY InitTypes
<1>2. Types /\ [Next]_vars => Types'
  BY StepEffect
<1>3. Types => TypeOK
  BY TypesSame
<1>4. QED
  BY <1>1, <1>2, <1>3, PTL DEF Spec

\* The invariant of the connection, for any number of connections, each of which is opened
\* when nothing is in flight that an earlier one sent to set up or to play.
THEOREM Inductive == Spec /\ ReconnectsQuietly => []IInv
<1>1. Init => IInv
  BY InitIInv
<1>2. IInv /\ [Next]_vars /\ [Afresh]_vars => IInv'
  <2>1. CASE Afresh
    BY <2>1, IInvKept
  <2>2. CASE UNCHANGED vars
    <3>1. UNCHANGED vars => Afresh
      BY DEF vars, Afresh
    <3>2. QED
      BY <2>2, <3>1, IInvKept
  <2>3. QED
    BY <2>1, <2>2
<1>3. ReconnectsQuietly <=> [][Afresh]_vars
  BY PTL DEF ReconnectsQuietly, Afresh
<1>4. QED
  BY <1>1, <1>2, <1>3, PTL DEF Spec

\* SV_UserMove never puts a client into the world that has not the gamestate of the map,
\* unless SV_MapRestart_f found it without.
THEOREM EntersRight == Spec /\ ReconnectsQuietly => []EntersOnTheMap
<1>1. IInv => EntersOnTheMap
  BY DEF IInv, MapInv, Right, EntersOnTheMap, OnTheMap
<1>2. QED
  BY <1>1, Inductive, PTL

\* SV_ExecuteClientMessage and SV_UserMove never send a gamestate again while the one of
\* the same server id is still on its way.
THEOREM OneGameState == Spec /\ ReconnectsQuietly => []OneGameStateInFlight
<1>1. IInv => OneGameStateInFlight
  BY DEF IInv
<1>2. QED
  BY <1>1, Inductive, PTL

\* The first connection of a client: there is no earlier one, and no premise.
THEOREM FirstConnection ==
  ASSUME MaxConnects <= 1
  PROVE  Spec => [](EntersOnTheMap /\ OneGameStateInFlight)
<1>1. Types /\ [Next]_vars => [Afresh]_vars
  BY FirstIsAfresh
<1>2. Init => Types
  BY InitTypes
<1>3. Types /\ [Next]_vars => Types'
  BY StepEffect
<1>4. Spec => [][Afresh]_vars
  BY <1>1, <1>2, <1>3, PTL DEF Spec
<1>5. ReconnectsQuietly <=> [][Afresh]_vars
  BY PTL DEF ReconnectsQuietly, Afresh
<1>6. QED
  BY <1>4, <1>5, EntersRight, OneGameState, PTL
=============================================================================
