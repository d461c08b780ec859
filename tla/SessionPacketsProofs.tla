------------------------ MODULE SessionPacketsProofs ------------------------
(***************************************************************************)
(* Proofs about SessionPackets for any kinds and any number of packets and *)
(* any limit per Update: when a session may gain or lose its player, and   *)
(* that its packets are neither lost nor handled twice nor out of order.   *)
(***************************************************************************)
EXTENDS SessionPackets, SequenceTheorems, TLAPS

\* The variables the life of the player depends on.
PlayerTypes ==
  /\ player \in {"none", "world", "transfer", "limbo"}
  /\ loading \in BOOLEAN /\ recentlyLogout \in BOOLEAN /\ logoutTime \in BOOLEAN
  /\ login \in {"none", "pending", "ready"}
  /\ filter \in {"none", "world", "map"}
  /\ socket \in {"open", "closed", "removed"}

\* The map's Update runs only for a session with a player.
MapHasPlayer == filter = "map" => player # "none"

PInv == PlayerTypes /\ LogoutHasPlayer /\ LoginReplacesNobody /\ MapHasPlayer

-----------------------------------------------------------------------------

LEMMA InitPInv == Init => PInv
BY DEF Init, PInv, PlayerTypes, LogoutHasPlayer, LoginReplacesNobody, MapHasPlayer

\* What MapSessionFilter lets through is never a packet that the session
\* handles without a player.
LEMMA MapPackets ==
  ASSUME NEW k, MapProcess(k)
  PROVE  k \in {"game", "swing"} /\ Status(k) = "LOGGEDIN"
<1>1. k \in {"game", "swing"}
  BY DEF MapProcess, Processing
<1> QED BY <1>1 DEF Status

\* The handlers of the world keep the invariant.
LEMMA HandleStep ==
  ASSUME PInv, NEW k, Handle(k), filter \in {"world", "map"}, UNCHANGED filter,
         filter = "map" => MapProcess(k)
  PROVE  PInv' /\ (filter = "map" => player' # "none")
<1> USE DEF PInv, PlayerTypes, LogoutHasPlayer, LoginReplacesNobody, MapHasPlayer
<1>1. CASE Status(k) = "LOGGEDIN"
  <2>1. CASE player # "world"
    BY <1>1, <2>1 DEF Handle, Ignored, playerVars
  <2>2. CASE player = "world" /\ k = "logout"
    <3>1. filter # "map"
      BY <2>2, MapPackets
    <3>2. HandleLogoutRequest /\ UNCHANGED <<loading, login, socket>>
      BY <1>1, <2>2 DEF Handle, HandleInWorld
    <3> QED BY <3>1, <3>2, <2>2 DEF HandleLogoutRequest, LogoutPlayer
  <2>3. CASE player = "world" /\ k = "cancel"
    BY <1>1, <2>3 DEF Handle, HandleInWorld
  <2>4. CASE player = "world" /\ k \notin {"logout", "cancel"}
    BY <1>1, <2>4 DEF Handle, HandleInWorld
  <2> QED BY <2>1, <2>2, <2>3, <2>4
<1>2. CASE Status(k) # "LOGGEDIN"
  <2>1. filter # "map"
    BY <1>2, MapPackets
  <2>2. CASE Status(k) = "TRANSFER"
    <3>1. CASE player \in {"transfer", "limbo"}
      BY <1>2, <2>1, <2>2, <3>1 DEF Handle, HandleMoveWorldportAck
    <3>2. CASE player \notin {"transfer", "limbo"}
      BY <1>2, <2>1, <2>2, <3>2 DEF Handle, Ignored, playerVars
    <3> QED BY <3>1, <3>2
  <2>3. CASE Status(k) = "AUTHED" /\ ~inQueue
    <3>1. CASE k = "enum"
      BY <2>1, <2>3, <3>1 DEF Handle, HandleCharEnum
    <3>2. CASE k # "enum"
      <4>1. HandlePlayerLoginOpcode
        BY <2>3, <3>2 DEF Handle
      <4> QED BY <2>1, <4>1 DEF HandlePlayerLoginOpcode
    <3> QED BY <3>1, <3>2
  <2>4. CASE Status(k) # "TRANSFER" /\ ~(Status(k) = "AUTHED" /\ ~inQueue)
    BY <1>2, <2>1, <2>4 DEF Handle, Ignored, playerVars
  <2> QED BY <2>2, <2>3, <2>4
<1> QED BY <1>1, <1>2

\* A turn of the loop, on either thread.
LEMMA HandlePacketStep ==
  ASSUME PInv, HandlePacket
  PROVE  PInv' /\ (filter = "map" => player' # "none")
<1> DEFINE k == kinds[Head(recvQueue)]
<1>1. /\ filter \in {"world", "map"} /\ UNCHANGED filter
      /\ filter = "map" => MapProcess(k)
  BY DEF HandlePacket, HasNext, Process, PInv, PlayerTypes
<1>2. CASE MustWait(k)
  <2>1. UNCHANGED <<playerVars, socket>>
    BY <1>2 DEF HandlePacket
  <2> QED BY <1>1, <2>1 DEF playerVars, PInv, PlayerTypes, LogoutHasPlayer,
                            LoginReplacesNobody, MapHasPlayer
<1>3. CASE ~MustWait(k)
  <2>1. Handle(k)
    BY <1>3 DEF HandlePacket
  <2> HIDE DEF k
  <2> QED BY <1>1, <2>1, HandleStep
<1> QED BY <1>2, <1>3

LEMMA EndLoopStep ==
  ASSUME PInv, EndLoop
  PROVE  PInv' /\ (filter = "map" => player' # "none")
BY DEF EndLoop, ProcessQueryCallbacks, PInv, PlayerTypes, LogoutHasPlayer,
       LoginReplacesNobody, MapHasPlayer

\* Every step keeps the invariant, and no step of the map's Update takes the
\* player away.
LEMMA NextStep ==
  ASSUME PInv, [Next]_vars
  PROVE  PInv' /\ (filter = "map" => player' # "none")
<1> USE DEF PInv, PlayerTypes, LogoutHasPlayer, LoginReplacesNobody, MapHasPlayer
<1>1. ASSUME NEW kk \in Kinds, QueuePacket(kk) PROVE PInv' /\ (filter = "map" => player' # "none")
  BY <1>1 DEF QueuePacket, updateVars, playerVars
<1>2. CASE CloseSocket
  BY <1>2 DEF CloseSocket, updateVars, playerVars
<1>3. CASE LoginQueried
  BY <1>3 DEF LoginQueried, updateVars
<1>4. CASE LeaveQueue
  BY <1>4 DEF LeaveQueue, updateVars, playerVars
<1>5. CASE TeleportTo
  BY <1>5 DEF TeleportTo, updateVars
<1>6. ASSUME NEW f \in {"world", "map"}, StartUpdate(f) PROVE PInv' /\ (filter = "map" => player' # "none")
  BY <1>6 DEF StartUpdate, playerVars
<1>7. CASE HandlePacket
  BY <1>7, HandlePacketStep
<1>8. CASE EndLoop
  BY <1>8, EndLoopStep
<1>9. CASE EndMapUpdate
  BY <1>9 DEF EndMapUpdate, playerVars
<1>10. CASE EndWorldUpdate
  BY <1>10 DEF EndWorldUpdate, TimedLogout, LogoutPlayer
<1>11. CASE RemoveSession
  BY <1>11 DEF RemoveSession, LogoutPlayer
<1>12. CASE UNCHANGED vars
  BY <1>12 DEF vars
<1> QED
  BY <1>1, <1>2, <1>3, <1>4, <1>5, <1>6, <1>7, <1>8, <1>9, <1>10, <1>11, <1>12
  DEF Next, UpdateStep, Removed

LEMMA SpecPInv == Spec => []PInv
<1>1. PInv /\ [Next]_vars => PInv'
  BY NextStep
<1> QED BY InitPInv, <1>1, PTL DEF Spec

\* A logout is timed only while the session has a player, so the timed logout
\* of Update never calls LogoutPlayer, which dereferences it, without one.
THEOREM LogoutTheorem == Spec => []LogoutHasPlayer
<1>1. PInv => LogoutHasPlayer
  BY DEF PInv
<1> QED BY <1>1, SpecPInv, PTL

\* A login that is under way belongs to a session without a player: neither a
\* repeated request nor a late answer of the database replaces a player.
THEOREM LoginTheorem == Spec => []LoginReplacesNobody
<1>1. PInv => LoginReplacesNobody
  BY DEF PInv
<1> QED BY <1>1, SpecPInv, PTL

\* The comment of WorldSession::Update on logouts: the thread of a map never
\* gives a session its player or takes it away.
THEOREM MapKeepsPlayerTheorem == Spec => MapKeepsPlayer
<1>1. PInv /\ [Next]_vars => [filter = "map" => (player = "none" <=> player' = "none")]_vars
  <2> SUFFICES ASSUME PInv, [Next]_vars, filter = "map"
               PROVE  player = "none" <=> player' = "none"
    OBVIOUS
  <2> QED BY NextStep DEF PInv, MapHasPlayer
<1> QED BY <1>1, SpecPInv, PTL DEF Spec, MapKeepsPlayer
-----------------------------------------------------------------------------
(* The packets.                                                            *)

USE PacketsAssumption

\* The packets of a player.
Ours == {n \in 1..Len(kinds) : LoggedIn(n)}

\* The members of S come in ascending order in s.
InOrder(s, S) ==
  \A i, j \in 1..Len(s) : i < j /\ s[i] \in S /\ s[j] \in S => s[i] < s[j]

PacketTypes ==
  /\ kinds \in Seq(Kinds) /\ Len(kinds) <= MaxPackets
  /\ recvQueue \in Seq(1..Len(kinds)) /\ done \in Seq(1..Len(kinds))
  /\ requeue \in Seq(1..Len(kinds))
  /\ inLoop \in BOOLEAN /\ inQueue \in BOOLEAN
  /\ processed \in 0..(MaxProcessed + 1)

\* While an Update holds packets back, the session has no player and cannot
\* get one, so it holds back every packet of a player.
RequeueInv ==
  /\ filter = "none" => ~inLoop
  /\ requeue # <<>> => inLoop /\ player = "none" /\ ~recentlyLogout
  /\ ToSet(requeue) \subseteq Ours

\* What is held back came before what is in the queue, and both are in the
\* order of arrival; of a player's packets, what is done came before both.
OrderInv ==
  /\ InOrder(recvQueue, Nat) /\ InOrder(requeue, Nat) /\ InOrder(done, Ours)
  /\ \A x \in ToSet(requeue), y \in ToSet(recvQueue) : x < y
  /\ \A x \in ToSet(done) \cap Ours, y \in (ToSet(recvQueue) \cup ToSet(requeue)) \cap Ours :
       x < y

QInv == PacketTypes /\ RequeueInv /\ OrderInv /\ OnePlace

LEMMA AppendFacts ==
  ASSUME NEW T, NEW s \in Seq(T), NEW e
  PROVE  /\ Len(Append(s, e)) = Len(s) + 1 /\ ToSet(Append(s, e)) = ToSet(s) \cup {e}
         /\ \A i \in 1..Len(s) : Append(s, e)[i] = s[i]
         /\ Append(s, e)[Len(s) + 1] = e
<1>1. /\ Len(Append(s, e)) = Len(s) + 1
      /\ \A i \in 1..Len(s) : Append(s, e)[i] = s[i]
      /\ Append(s, e)[Len(s) + 1] = e
      /\ DOMAIN Append(s, e) = 1..(Len(s) + 1)
  <2>1. s \in Seq(T \cup {e})
    OBVIOUS
  <2> QED
    BY <2>1
<1>2. 1..(Len(s) + 1) = 1..Len(s) \cup {Len(s) + 1} /\ DOMAIN s = 1..Len(s)
  OBVIOUS
<1> QED
  BY <1>1, <1>2 DEF ToSet

LEMMA ConcatFacts ==
  ASSUME NEW T, NEW s \in Seq(T), NEW u \in Seq(T)
  PROVE  /\ s \o u \in Seq(T) /\ Len(s \o u) = Len(s) + Len(u)
         /\ ToSet(s \o u) = ToSet(s) \cup ToSet(u)
         /\ \A i \in 1..Len(s \o u) :
              (s \o u)[i] = IF i <= Len(s) THEN s[i] ELSE u[i - Len(s)]
<1>1. /\ s \o u \in Seq(T) /\ Len(s \o u) = Len(s) + Len(u)
      /\ \A i \in 1..Len(s \o u) :
           (s \o u)[i] = IF i <= Len(s) THEN s[i] ELSE u[i - Len(s)]
  OBVIOUS
<1>2. \A i \in 1..Len(s) : i \in 1..Len(s \o u) /\ (s \o u)[i] = s[i]
  BY <1>1
<1>3. \A i \in 1..Len(u) :
        Len(s) + i \in 1..Len(s \o u) /\ (s \o u)[Len(s) + i] = u[i]
  BY <1>1
<1>4. \A i \in 1..Len(s \o u) : i \in 1..Len(s) \/ i - Len(s) \in 1..Len(u)
  BY <1>1
<1>5. DOMAIN s = 1..Len(s) /\ DOMAIN u = 1..Len(u) /\ DOMAIN (s \o u) = 1..Len(s \o u)
  BY <1>1
<1>6. ToSet(s \o u) \subseteq ToSet(s) \cup ToSet(u)
  BY <1>1, <1>4, <1>5 DEF ToSet
<1>7. ToSet(s) \cup ToSet(u) \subseteq ToSet(s \o u)
  BY <1>2, <1>3, <1>5 DEF ToSet
<1> QED
  BY <1>1, <1>6, <1>7

LEMMA TailFacts ==
  ASSUME NEW T, NEW s \in Seq(T), s # <<>>
  PROVE  /\ Tail(s) \in Seq(T) /\ Len(Tail(s)) = Len(s) - 1 /\ Len(s) \in Nat \ {0}
         /\ Head(s) \in T /\ Head(s) = s[1]
         /\ \A i \in 1..(Len(s) - 1) : Tail(s)[i] = s[i + 1]
         /\ ToSet(s) = {Head(s)} \cup ToSet(Tail(s))
<1>1. /\ Tail(s) \in Seq(T) /\ Len(Tail(s)) = Len(s) - 1 /\ Len(s) \in Nat \ {0}
      /\ Head(s) \in T /\ Head(s) = s[1]
      /\ \A i \in 1..(Len(s) - 1) : Tail(s)[i] = s[i + 1]
  OBVIOUS
<1>2. DOMAIN s = 1..Len(s) /\ DOMAIN Tail(s) = 1..(Len(s) - 1)
  BY <1>1
<1>3. \A i \in 1..Len(s) : i = 1 \/ i - 1 \in 1..(Len(s) - 1)
  BY <1>1
<1>4. \A i \in 1..(Len(s) - 1) : i + 1 \in 1..Len(s)
  BY <1>1
<1>5. ToSet(s) \subseteq {Head(s)} \cup ToSet(Tail(s))
  <2> SUFFICES ASSUME NEW i \in 1..Len(s), i # 1 PROVE s[i] \in ToSet(Tail(s))
    BY <1>1, <1>2 DEF ToSet
  <2>1. i - 1 \in 1..(Len(s) - 1) /\ Tail(s)[i - 1] = s[i]
    BY <1>1, <1>3
  <2> QED
    BY <1>2, <2>1 DEF ToSet
<1>6. {Head(s)} \cup ToSet(Tail(s)) \subseteq ToSet(s)
  BY <1>1, <1>2, <1>4 DEF ToSet
<1> QED
  BY <1>1, <1>5, <1>6

\* The order of a sequence that grows, is joined to another, or loses its head.
LEMMA AppendOrder ==
  ASSUME NEW S \in SUBSET Nat, NEW s \in Seq(Nat), NEW e \in Nat, InOrder(s, S),
         \A x \in ToSet(s) \cap S : e \in S => x < e
  PROVE  InOrder(Append(s, e), S)
<1> SUFFICES ASSUME NEW i \in 1..(Len(s) + 1), NEW j \in 1..(Len(s) + 1), i < j,
                    Append(s, e)[i] \in S, Append(s, e)[j] \in S
             PROVE  Append(s, e)[i] < Append(s, e)[j]
  BY AppendFacts DEF InOrder
<1>1. i \in 1..Len(s) /\ Append(s, e)[i] = s[i]
  BY AppendFacts
<1>2. CASE j = Len(s) + 1
  <2>1. s[i] \in ToSet(s) \cap S
    BY <1>1 DEF ToSet
  <2> QED
    BY <1>1, <1>2, <2>1, AppendFacts
<1>3. CASE j # Len(s) + 1
  <2>1. j \in 1..Len(s) /\ Append(s, e)[j] = s[j]
    BY <1>3, AppendFacts
  <2> QED
    BY <1>1, <2>1 DEF InOrder
<1> QED
  BY <1>2, <1>3

LEMMA ConcatOrder ==
  ASSUME NEW S \in SUBSET Nat, NEW s \in Seq(Nat), NEW u \in Seq(Nat),
         InOrder(s, S), InOrder(u, S),
         \A x \in ToSet(s) \cap S, y \in ToSet(u) \cap S : x < y
  PROVE  InOrder(s \o u, S)
<1> SUFFICES ASSUME NEW i \in 1..Len(s \o u), NEW j \in 1..Len(s \o u), i < j,
                    (s \o u)[i] \in S, (s \o u)[j] \in S
             PROVE  (s \o u)[i] < (s \o u)[j]
  BY DEF InOrder
<1>0. /\ Len(s \o u) = Len(s) + Len(u) /\ Len(s) \in Nat /\ Len(u) \in Nat
      /\ \A k \in 1..Len(s \o u) :
           (s \o u)[k] = IF k <= Len(s) THEN s[k] ELSE u[k - Len(s)]
  BY ConcatFacts
<1>1. CASE j <= Len(s)
  <2>1. i \in 1..Len(s) /\ j \in 1..Len(s) /\ (s \o u)[i] = s[i] /\ (s \o u)[j] = s[j]
    BY <1>0, <1>1
  <2> QED
    BY <2>1 DEF InOrder
<1>2. CASE i <= Len(s) /\ ~(j <= Len(s))
  <2>1. /\ i \in 1..Len(s) /\ j - Len(s) \in 1..Len(u)
        /\ (s \o u)[i] = s[i] /\ (s \o u)[j] = u[j - Len(s)]
    BY <1>0, <1>2
  <2>2. s[i] \in ToSet(s) \cap S /\ u[j - Len(s)] \in ToSet(u) \cap S
    BY <2>1 DEF ToSet
  <2> QED
    BY <2>1, <2>2
<1>3. CASE ~(i <= Len(s))
  <2>1. /\ i - Len(s) \in 1..Len(u) /\ j - Len(s) \in 1..Len(u)
        /\ (s \o u)[i] = u[i - Len(s)] /\ (s \o u)[j] = u[j - Len(s)]
        /\ i - Len(s) < j - Len(s)
    BY <1>0, <1>3
  <2> QED
    BY <2>1 DEF InOrder
<1> QED
  BY <1>0, <1>1, <1>2, <1>3

LEMMA TailOrder ==
  ASSUME NEW s \in Seq(Nat), s # <<>>, InOrder(s, Nat)
  PROVE  InOrder(Tail(s), Nat) /\ \A y \in ToSet(Tail(s)) : Head(s) < y
<1>0. /\ Tail(s) \in Seq(Nat) /\ Len(Tail(s)) = Len(s) - 1 /\ Len(s) \in Nat \ {0}
      /\ Head(s) = s[1] /\ \A i \in 1..(Len(s) - 1) : Tail(s)[i] = s[i + 1]
  BY TailFacts
<1>1. \A i, j \in 1..Len(s) : i < j => s[i] < s[j]
  BY DEF InOrder
<1>2. InOrder(Tail(s), Nat)
  BY <1>0, <1>1 DEF InOrder
<1>3. ASSUME NEW y \in ToSet(Tail(s)) PROVE Head(s) < y
  <2>1. PICK i \in 1..(Len(s) - 1) : y = Tail(s)[i]
    BY <1>0 DEF ToSet
  <2> QED
    BY <1>0, <1>1, <2>1
<1> QED
  BY <1>2, <1>3

LEMMA ThreePlaces ==
  ASSUME NEW T, NEW a \in Seq(T), NEW b \in Seq(T), NEW c \in Seq(T)
  PROVE  /\ Len(a \o b \o c) = Len(a) + Len(b) + Len(c)
         /\ ToSet(a \o b \o c) = ToSet(a) \cup ToSet(b) \cup ToSet(c)
<1>1. PICK d \in Seq(T) : /\ d = a \o b /\ Len(d) = Len(a) + Len(b)
                          /\ ToSet(d) = ToSet(a) \cup ToSet(b)
  BY ConcatFacts
<1>2. Len(d \o c) = Len(d) + Len(c) /\ ToSet(d \o c) = ToSet(d) \cup ToSet(c)
  BY ConcatFacts
<1> QED
  BY <1>1, <1>2

\* OnePlace, counted.
LEMMA PlacesCounted ==
  ASSUME PacketTypes, OnePlace
  PROVE  /\ Len(recvQueue) + Len(requeue) + Len(done) = Len(kinds)
         /\ ToSet(recvQueue) \cup ToSet(requeue) \cup ToSet(done) = 1..Len(kinds)
  BY ThreePlaces DEF PacketTypes, OnePlace

LEMMA PacketsInit == Init => QInv
<1> SUFFICES ASSUME Init PROVE QInv
  OBVIOUS
<1>1. kinds = <<>> /\ recvQueue = <<>> /\ done = <<>> /\ requeue = <<>>
  BY DEF Init
<1>2. ToSet(<<>>) = {}
  BY DEF ToSet
<1>3. PacketTypes
  <2>1. inLoop \in BOOLEAN /\ inQueue \in BOOLEAN
    BY DEF Init
  <2>2. processed \in 0..(MaxProcessed + 1) /\ Len(kinds) <= MaxPackets
    BY <1>1 DEF Init
  <2>3. <<>> \in Seq(Kinds) /\ <<>> \in Seq(1..Len(kinds))
    OBVIOUS
  <2> QED
    BY <1>1, <2>1, <2>2, <2>3 DEF PacketTypes
<1>4. RequeueInv
  BY <1>1, <1>2 DEF Init, RequeueInv
<1>5. OrderInv
  BY <1>1, <1>2 DEF OrderInv, InOrder
<1>6. OnePlace
  <2>1. kinds = <<>> /\ recvQueue \o requeue \o done = <<>>
    BY <1>1
  <2> QED
    BY <1>2, <2>1 DEF OnePlace
<1> QED
  BY <1>3, <1>4, <1>5, <1>6 DEF QInv

\* The steps that leave the packets where they are.
LEMMA PacketsStay ==
  ASSUME PInv, QInv,
         \/ CloseSocket \/ LoginQueried \/ LeaveQueue \/ TeleportTo
         \/ \E f \in {"world", "map"} : StartUpdate(f)
         \/ EndMapUpdate \/ EndWorldUpdate \/ UNCHANGED vars
  PROVE  QInv'
<1> USE DEF QInv
<1>1. UNCHANGED <<kinds, recvQueue, done, requeue>>
  BY DEF CloseSocket, LoginQueried, LeaveQueue, TeleportTo, StartUpdate, EndMapUpdate,
         EndWorldUpdate, vars, updateVars, RequeueInv
<1>2. PacketTypes'
  <2>1. inQueue' \in BOOLEAN
    BY DEF CloseSocket, LoginQueried, LeaveQueue, TeleportTo, StartUpdate, EndMapUpdate,
           EndWorldUpdate, vars, PacketTypes
  <2>2. inLoop' \in BOOLEAN
    BY DEF CloseSocket, LoginQueried, LeaveQueue, TeleportTo, StartUpdate, EndMapUpdate,
           EndWorldUpdate, vars, updateVars, PacketTypes
  <2>3. processed' \in 0..(MaxProcessed + 1)
    BY DEF CloseSocket, LoginQueried, LeaveQueue, TeleportTo, StartUpdate, EndMapUpdate,
           EndWorldUpdate, vars, updateVars, PacketTypes
  <2> QED
    BY <1>1, <2>1, <2>2, <2>3 DEF PacketTypes
<1>3. RequeueInv'
  <2>1. filter' = "none" => ~inLoop'
    BY DEF CloseSocket, LoginQueried, LeaveQueue, TeleportTo, StartUpdate, EndMapUpdate,
           EndWorldUpdate, vars, updateVars, RequeueInv
  <2>2. requeue # <<>> => inLoop' /\ player' = "none" /\ ~recentlyLogout'
    BY DEF CloseSocket, LoginQueried, LeaveQueue, TeleportTo, StartUpdate, EndMapUpdate,
           EndWorldUpdate, vars, updateVars, playerVars, RequeueInv
  <2> QED
    BY <1>1, <2>1, <2>2 DEF RequeueInv, Ours, LoggedIn
<1>4. OrderInv' /\ OnePlace'
  BY <1>1 DEF OrderInv, OnePlace, Ours, LoggedIn
<1> QED
  BY <1>2, <1>3, <1>4

LEMMA PacketsQueued ==
  ASSUME QInv, NEW k \in Kinds, QueuePacket(k)
  PROVE  QInv'
<1> USE DEF QInv
<1>n. PICK n \in Nat : n = Len(kinds)
  BY DEF PacketTypes
<1>1. /\ kinds' = Append(kinds, k) /\ recvQueue' = Append(recvQueue, n + 1)
      /\ UNCHANGED <<done, requeue, filter, inLoop, processed, player, recentlyLogout, inQueue>>
      /\ n < MaxPackets
  BY <1>n DEF QueuePacket, updateVars, playerVars
<1>2. /\ recvQueue \in Seq(1..n) /\ done \in Seq(1..n) /\ requeue \in Seq(1..n)
      /\ kinds \in Seq(Kinds)
  BY <1>n DEF PacketTypes
<1>3. Len(kinds') = n + 1 /\ \A m \in 1..n : kinds'[m] = kinds[m]
  BY <1>1, <1>2, <1>n, AppendFacts
<1>4. ToSet(recvQueue') = ToSet(recvQueue) \cup {n + 1} /\ Len(recvQueue') = Len(recvQueue) + 1
  BY <1>1, <1>2, AppendFacts
<1>5. Ours \subseteq 1..n /\ Ours' \cap (1..n) = Ours
  BY <1>3, <1>n DEF Ours, LoggedIn
<1>6. /\ ToSet(recvQueue) \subseteq 1..n /\ ToSet(done) \subseteq 1..n
      /\ ToSet(requeue) \subseteq 1..n
  BY <1>2 DEF ToSet
<1>7. PacketTypes'
  <2>1. kinds' \in Seq(Kinds) /\ recvQueue' \in Seq(1..(n + 1))
    BY <1>1, <1>2
  <2>2. done \in Seq(1..(n + 1)) /\ requeue \in Seq(1..(n + 1))
    BY <1>2
  <2> QED
    BY <1>1, <1>3, <2>1, <2>2 DEF PacketTypes
<1>8. RequeueInv'
  <2>1. ToSet(requeue') \subseteq Ours'
    BY <1>1, <1>5, <1>6 DEF RequeueInv
  <2> QED
    BY <1>1, <2>1 DEF RequeueInv
<1>9. OrderInv'
  <2>1. InOrder(recvQueue', Nat)
    <3>1. recvQueue \in Seq(Nat) /\ n + 1 \in Nat
      BY <1>2
    <3>2. \A x \in ToSet(recvQueue) \cap Nat : x < n + 1
      BY <1>6
    <3> QED
      BY <1>1, <3>1, <3>2, AppendOrder DEF OrderInv
  <2>2. InOrder(done', Ours')
    <3>0. \A i \in 1..Len(done) : done[i] \in 1..n
      BY <1>2
    <3>1. \A i \in 1..Len(done) : done[i] \in Ours' => done[i] \in Ours
      BY <1>5, <3>0
    <3> QED
      BY <1>1, <3>1 DEF OrderInv, InOrder
  <2>3. \A x \in ToSet(requeue'), y \in ToSet(recvQueue') : x < y
    BY <1>1, <1>4, <1>6 DEF OrderInv
  <2>4. ASSUME NEW x \in ToSet(done') \cap Ours',
               NEW y \in (ToSet(recvQueue') \cup ToSet(requeue')) \cap Ours'
        PROVE  x < y
    <3>1. x \in ToSet(done) \cap Ours /\ x \in 1..n
      BY <1>1, <1>5, <1>6
    <3>2. CASE y = n + 1
      BY <3>1, <3>2
    <3>3. CASE y # n + 1
      <4>1. y \in (ToSet(recvQueue) \cup ToSet(requeue)) \cap Ours
        BY <1>1, <1>4, <1>5, <1>6, <3>3
      <4> QED
        BY <3>1, <4>1 DEF OrderInv
    <3> QED
      BY <3>2, <3>3
  <2>5. InOrder(requeue', Nat)
    BY <1>1 DEF OrderInv
  <2> QED
    BY <2>1, <2>2, <2>3, <2>4, <2>5 DEF OrderInv
<1>10. OnePlace'
  <2>1. /\ Len(recvQueue) + Len(requeue) + Len(done) = n
        /\ ToSet(recvQueue) \cup ToSet(requeue) \cup ToSet(done) = 1..n
    BY <1>n, PlacesCounted
  <2>2. recvQueue' \in Seq(1..(n + 1)) /\ requeue' \in Seq(1..(n + 1)) /\ done' \in Seq(1..(n + 1))
    BY <1>3, <1>7 DEF PacketTypes
  <2>3. /\ Len(recvQueue' \o requeue' \o done') = Len(recvQueue') + Len(requeue') + Len(done')
        /\ ToSet(recvQueue' \o requeue' \o done') =
             ToSet(recvQueue') \cup ToSet(requeue') \cup ToSet(done')
    BY <2>2, ThreePlaces
  <2>4. Len(recvQueue') + Len(requeue') + Len(done') = n + 1
    <3>1. PICK a \in Nat, b \in Nat, c \in Nat :
            a = Len(recvQueue) /\ b = Len(requeue) /\ c = Len(done)
      BY <1>2
    <3>2. Len(recvQueue') = a + 1 /\ Len(requeue') = b /\ Len(done') = c /\ a + b + c = n
      BY <1>1, <1>4, <2>1, <3>1
    <3> QED
      BY <3>2
  <2>5. ToSet(recvQueue') \cup ToSet(requeue') \cup ToSet(done') = 1..(n + 1)
    <3>1. 1..(n + 1) = 1..n \cup {n + 1}
      OBVIOUS
    <3> QED
      BY <1>1, <1>4, <2>1, <3>1
  <2> QED
    BY <1>3, <2>3, <2>4, <2>5 DEF OnePlace
<1> QED
  BY <1>7, <1>8, <1>9, <1>10

\* No handler gives the session a player.
LEMMA HandleNoPlayer ==
  ASSUME NEW k, Handle(k), player = "none", ~recentlyLogout
  PROVE  player' = "none" /\ ~recentlyLogout'
<1>1. CASE Status(k) = "AUTHED" /\ ~inQueue
  BY <1>1 DEF Handle, HandleCharEnum, HandlePlayerLoginOpcode
<1>2. CASE ~(Status(k) = "AUTHED" /\ ~inQueue)
  <2>1. Ignored
    BY <1>2 DEF Handle
  <2> QED
    BY <2>1 DEF Ignored, playerVars
<1> QED
  BY <1>1, <1>2

LEMMA PacketsHandled ==
  ASSUME PInv, QInv, HandlePacket
  PROVE  QInv'
<1> USE DEF QInv
<1>c. PICK c \in Nat : c = Len(kinds)
  BY DEF PacketTypes
<1>n. PICK n, r : n = Head(recvQueue) /\ r = Tail(recvQueue)
  OBVIOUS
<1>1. /\ recvQueue # <<>> /\ recvQueue' = r /\ filter # "none" /\ inLoop
      /\ processed <= MaxProcessed /\ processed' = processed + 1
      /\ UNCHANGED <<kinds, filter, inLoop, inQueue>>
  BY <1>n DEF HandlePacket, HasNext, Continue
<1>2. /\ recvQueue \in Seq(1..c) /\ done \in Seq(1..c) /\ requeue \in Seq(1..c)
      /\ recvQueue \in Seq(Nat) /\ done \in Seq(Nat) /\ requeue \in Seq(Nat)
  BY <1>c DEF PacketTypes
<1>3. /\ r \in Seq(1..c) /\ n \in 1..c /\ Len(r) = Len(recvQueue) - 1
      /\ ToSet(recvQueue) = {n} \cup ToSet(r)
  BY <1>1, <1>2, <1>n, TailFacts
<1>4. InOrder(r, Nat) /\ \A y \in ToSet(r) : n < y
  BY <1>1, <1>2, <1>n, TailOrder DEF OrderInv
<1>5. Ours' = Ours /\ Ours \subseteq Nat /\ (n \in Ours <=> Status(kinds[n]) = "LOGGEDIN")
  BY <1>1, <1>3, <1>c DEF Ours, LoggedIn
<1>6. /\ Len(recvQueue) + Len(requeue) + Len(done) = c
      /\ ToSet(recvQueue) \cup ToSet(requeue) \cup ToSet(done) = 1..c
  BY <1>c, PlacesCounted
<1>7. processed' \in 0..(MaxProcessed + 1)
  BY <1>1 DEF PacketTypes
<1>8. CASE MustWait(kinds[n])
  <2>1. requeue' = Append(requeue, n) /\ UNCHANGED <<done, player, recentlyLogout>>
    BY <1>8, <1>n DEF HandlePacket, playerVars
  <2>2. Status(kinds[n]) = "LOGGEDIN" /\ player = "none" /\ ~recentlyLogout
    BY <1>8 DEF MustWait
  <2>3. ToSet(requeue') = ToSet(requeue) \cup {n} /\ Len(requeue') = Len(requeue) + 1
    BY <1>2, <2>1, AppendFacts
  <2>4. requeue' \in Seq(1..c)
    BY <1>2, <1>3, <2>1
  <2>5. PacketTypes'
    BY <1>1, <1>2, <1>3, <1>7, <1>c, <2>1, <2>4 DEF PacketTypes
  <2>6. RequeueInv'
    BY <1>1, <1>5, <2>1, <2>2, <2>3 DEF RequeueInv
  <2>7. OrderInv'
    <3>1. \A x \in ToSet(requeue) : x < n
      BY <1>3 DEF OrderInv
    <3>2. InOrder(requeue', Nat)
      BY <1>2, <1>3, <2>1, <3>1, AppendOrder DEF OrderInv
    <3>3. \A x \in ToSet(requeue'), y \in ToSet(recvQueue') : x < y
      BY <1>1, <1>3, <1>4, <2>3 DEF OrderInv
    <3>4. ToSet(recvQueue') \cup ToSet(requeue') = ToSet(recvQueue) \cup ToSet(requeue)
      BY <1>1, <1>3, <2>3
    <3> QED
      BY <1>1, <1>4, <1>5, <2>1, <3>2, <3>3, <3>4 DEF OrderInv
  <2>8. OnePlace'
    <3>1. Len(recvQueue') + Len(requeue') + Len(done') = c
      <4>1. PICK i \in Nat, j \in Nat, k \in Nat :
              i = Len(recvQueue) /\ j = Len(requeue) /\ k = Len(done)
        BY <1>2
      <4>2. Len(recvQueue') = i - 1 /\ Len(requeue') = j + 1 /\ Len(done') = k /\ i + j + k = c
        BY <1>1, <1>3, <1>6, <2>1, <2>3, <4>1
      <4> QED
        BY <4>2
    <3>2. ToSet(recvQueue') \cup ToSet(requeue') \cup ToSet(done') = 1..c
      BY <1>1, <1>3, <1>6, <2>1, <2>3
    <3>3. recvQueue' \in Seq(1..c) /\ requeue' \in Seq(1..c) /\ done' \in Seq(1..c)
      BY <1>1, <1>2, <1>3, <2>1, <2>4
    <3>4. /\ Len(recvQueue' \o requeue' \o done') = Len(recvQueue') + Len(requeue') + Len(done')
          /\ ToSet(recvQueue' \o requeue' \o done') =
               ToSet(recvQueue') \cup ToSet(requeue') \cup ToSet(done')
      BY <3>3, ThreePlaces
    <3> QED
      BY <1>1, <1>c, <3>1, <3>2, <3>4 DEF OnePlace
  <2> QED
    BY <2>5, <2>6, <2>7, <2>8
<1>9. CASE ~MustWait(kinds[n])
  <2>1. done' = Append(done, n) /\ Handle(kinds[n]) /\ UNCHANGED requeue
    BY <1>9, <1>n DEF HandlePacket
  <2>2. requeue # <<>> => player' = "none" /\ ~recentlyLogout' /\ n \notin Ours
    <3>1. requeue # <<>> => player = "none" /\ ~recentlyLogout
      BY DEF RequeueInv
    <3> QED
      BY <1>5, <1>9, <2>1, <3>1, HandleNoPlayer DEF MustWait
  <2>3. ToSet(done') = ToSet(done) \cup {n} /\ Len(done') = Len(done) + 1
    BY <1>2, <2>1, AppendFacts
  <2>4. done' \in Seq(1..c)
    BY <1>2, <1>3, <2>1
  <2>5. PacketTypes'
    BY <1>1, <1>2, <1>3, <1>7, <1>c, <2>1, <2>4 DEF PacketTypes
  <2>6. RequeueInv'
    BY <1>1, <1>5, <2>1, <2>2 DEF RequeueInv
  <2>7. OrderInv'
    <3>1. \A x \in ToSet(done) \cap Ours : n \in Ours => x < n
      BY <1>3 DEF OrderInv
    <3>2. InOrder(done', Ours)
      BY <1>2, <1>3, <1>5, <2>1, <3>1, AppendOrder DEF OrderInv
    <3>3. \A x \in ToSet(requeue'), y \in ToSet(recvQueue') : x < y
      BY <1>1, <1>3, <2>1 DEF OrderInv
    <3>4. requeue = <<>> => ToSet(requeue) = {}
      BY DEF ToSet
    <3>5. ASSUME NEW x \in ToSet(done') \cap Ours,
                 NEW y \in (ToSet(recvQueue') \cup ToSet(requeue')) \cap Ours
          PROVE  x < y
      <4>1. CASE x = n
        BY <1>1, <1>4, <2>1, <2>2, <3>4, <4>1
      <4>2. CASE x \in ToSet(done)
        BY <1>1, <1>3, <2>1, <4>2 DEF OrderInv
      <4> QED
        BY <2>3, <4>1, <4>2
    <3>6. InOrder(requeue', Nat)
      BY <2>1 DEF OrderInv
    <3> QED
      BY <1>1, <1>4, <1>5, <3>2, <3>3, <3>5, <3>6 DEF OrderInv
  <2>8. OnePlace'
    <3>1. Len(recvQueue') + Len(requeue') + Len(done') = c
      BY <1>1, <1>2, <1>3, <1>6, <2>1, <2>3
    <3>2. ToSet(recvQueue') \cup ToSet(requeue') \cup ToSet(done') = 1..c
      BY <1>1, <1>3, <1>6, <2>1, <2>3
    <3>3. recvQueue' \in Seq(1..c) /\ requeue' \in Seq(1..c) /\ done' \in Seq(1..c)
      BY <1>1, <1>2, <1>3, <2>1, <2>4
    <3>4. /\ Len(recvQueue' \o requeue' \o done') = Len(recvQueue') + Len(requeue') + Len(done')
          /\ ToSet(recvQueue' \o requeue' \o done') =
               ToSet(recvQueue') \cup ToSet(requeue') \cup ToSet(done')
      BY <3>3, ThreePlaces
    <3> QED
      BY <1>1, <1>c, <3>1, <3>2, <3>4 DEF OnePlace
  <2> QED
    BY <2>5, <2>6, <2>7, <2>8
<1> QED
  BY <1>8, <1>9

LEMMA PacketsReadded ==
  ASSUME QInv, EndLoop
  PROVE  QInv'
<1> USE DEF QInv
<1>c. PICK c \in Nat : c = Len(kinds)
  BY DEF PacketTypes
<1>1. /\ recvQueue' = requeue \o recvQueue /\ requeue' = <<>> /\ filter # "none" /\ ~inLoop'
      /\ inLoop' \in BOOLEAN /\ UNCHANGED <<kinds, done, filter, processed, inQueue>>
  BY DEF EndLoop, Readd
<1>2. /\ recvQueue \in Seq(1..c) /\ done \in Seq(1..c) /\ requeue \in Seq(1..c)
      /\ recvQueue \in Seq(Nat) /\ requeue \in Seq(Nat)
  BY <1>c DEF PacketTypes
<1>3. /\ recvQueue' \in Seq(1..c) /\ Len(recvQueue') = Len(requeue) + Len(recvQueue)
      /\ ToSet(recvQueue') = ToSet(requeue) \cup ToSet(recvQueue)
  BY <1>1, <1>2, ConcatFacts
<1>4. Ours' = Ours /\ ToSet(<<>>) = {} /\ <<>> \in Seq(1..c) /\ Len(<<>>) = 0
  BY <1>1 DEF Ours, LoggedIn, ToSet
<1>5. PacketTypes'
  BY <1>1, <1>2, <1>3, <1>4, <1>c DEF PacketTypes
<1>6. RequeueInv'
  BY <1>1, <1>4 DEF RequeueInv
<1>7. OrderInv'
  <2>1. InOrder(recvQueue', Nat)
    BY <1>1, <1>2, ConcatOrder DEF OrderInv
  <2>2. InOrder(<<>>, Nat)
    BY DEF InOrder
  <2> QED
    BY <1>1, <1>3, <1>4, <2>1, <2>2 DEF OrderInv
<1>8. OnePlace'
  <2>1. /\ Len(recvQueue) + Len(requeue) + Len(done) = c
        /\ ToSet(recvQueue) \cup ToSet(requeue) \cup ToSet(done) = 1..c
    BY <1>c, PlacesCounted
  <2>2. Len(recvQueue') + Len(requeue') + Len(done') = c
    BY <1>1, <1>2, <1>3, <1>4, <2>1
  <2>3. ToSet(recvQueue') \cup ToSet(requeue') \cup ToSet(done') = 1..c
    BY <1>1, <1>3, <1>4, <2>1
  <2>4. recvQueue' \in Seq(1..c) /\ requeue' \in Seq(1..c) /\ done' \in Seq(1..c)
    BY <1>1, <1>2, <1>3, <1>4
  <2>5. /\ Len(recvQueue' \o requeue' \o done') = Len(recvQueue') + Len(requeue') + Len(done')
        /\ ToSet(recvQueue' \o requeue' \o done') =
             ToSet(recvQueue') \cup ToSet(requeue') \cup ToSet(done')
    BY <2>4, ThreePlaces
  <2> QED
    BY <1>1, <1>c, <2>2, <2>3, <2>5 DEF OnePlace
<1> QED
  BY <1>5, <1>6, <1>7, <1>8

LEMMA PacketsDeleted ==
  ASSUME QInv, RemoveSession
  PROVE  QInv'
<1> USE DEF QInv
<1>c. PICK c \in Nat : c = Len(kinds)
  BY DEF PacketTypes
<1>1. /\ recvQueue' = <<>> /\ done' = done \o recvQueue /\ ~inLoop /\ processed' = 0
      /\ UNCHANGED <<kinds, inLoop, requeue, inQueue>>
  BY DEF RemoveSession
<1>2. /\ recvQueue \in Seq(1..c) /\ done \in Seq(1..c) /\ requeue \in Seq(1..c)
      /\ recvQueue \in Seq(Nat) /\ done \in Seq(Nat)
  BY <1>c DEF PacketTypes
<1>3. /\ done' \in Seq(1..c) /\ Len(done') = Len(done) + Len(recvQueue)
      /\ ToSet(done') = ToSet(done) \cup ToSet(recvQueue)
  BY <1>1, <1>2, ConcatFacts
<1>4. /\ Ours' = Ours /\ Ours \subseteq Nat
      /\ ToSet(<<>>) = {} /\ <<>> \in Seq(1..c) /\ Len(<<>>) = 0
  BY <1>1, <1>c DEF Ours, LoggedIn, ToSet
<1>5. requeue = <<>>
  BY <1>1 DEF RequeueInv
<1>6. PacketTypes'
  BY <1>1, <1>2, <1>3, <1>4, <1>c DEF PacketTypes
<1>7. RequeueInv'
  BY <1>1, <1>4, <1>5 DEF RequeueInv
<1>8. OrderInv'
  <2>1. InOrder(recvQueue, Ours)
    BY <1>4 DEF OrderInv, InOrder
  <2>2. InOrder(done', Ours)
    BY <1>1, <1>2, <1>4, <2>1, ConcatOrder DEF OrderInv
  <2>3. InOrder(<<>>, Nat)
    BY DEF InOrder
  <2> QED
    BY <1>1, <1>4, <1>5, <2>2, <2>3 DEF OrderInv
<1>9. OnePlace'
  <2>1. /\ Len(recvQueue) + Len(requeue) + Len(done) = c
        /\ ToSet(recvQueue) \cup ToSet(requeue) \cup ToSet(done) = 1..c
    BY <1>c, PlacesCounted
  <2>2. Len(recvQueue') + Len(requeue') + Len(done') = c
    BY <1>1, <1>2, <1>3, <1>4, <2>1
  <2>3. ToSet(recvQueue') \cup ToSet(requeue') \cup ToSet(done') = 1..c
    BY <1>1, <1>3, <1>4, <2>1
  <2>4. recvQueue' \in Seq(1..c) /\ requeue' \in Seq(1..c) /\ done' \in Seq(1..c)
    BY <1>1, <1>2, <1>3, <1>4
  <2>5. /\ Len(recvQueue' \o requeue' \o done') = Len(recvQueue') + Len(requeue') + Len(done')
        /\ ToSet(recvQueue' \o requeue' \o done') =
             ToSet(recvQueue') \cup ToSet(requeue') \cup ToSet(done')
    BY <2>4, ThreePlaces
  <2> QED
    BY <1>1, <1>c, <2>2, <2>3, <2>5 DEF OnePlace
<1> QED
  BY <1>6, <1>7, <1>8, <1>9

LEMMA SpecQInv == Spec => [](PInv /\ QInv)
<1>1. ASSUME PInv, QInv, [Next]_vars PROVE QInv'
  BY <1>1, PacketsStay, PacketsQueued, PacketsHandled, PacketsReadded, PacketsDeleted
  DEF Next, UpdateStep, Removed
<1>2. PInv /\ QInv /\ [Next]_vars => QInv'
  BY <1>1
<1> QED
  BY <1>2, PacketsInit, SpecPInv, PTL DEF Spec

\* The values of the session's variables; in particular Update never takes
\* more packets than MAX_PROCESSED_PACKETS_IN_SAME_WORLDSESSION_UPDATE allows.
THEOREM TypeTheorem == Spec => []TypeOK
<1>1. PInv /\ QInv => TypeOK
  <2> SUFFICES ASSUME PInv, QInv PROVE TypeOK
    OBVIOUS
  <2>1. {recvQueue, done, requeue} \subseteq Seq(1..Len(kinds))
    BY DEF QInv, PacketTypes
  <2>2. {loading, recentlyLogout, logoutTime, inQueue} \subseteq BOOLEAN
    BY Zenon DEF PInv, PlayerTypes, QInv, PacketTypes
  <2> QED
    BY <2>1, <2>2 DEF TypeOK, PInv, PlayerTypes, QInv, PacketTypes
<1> QED
  BY <1>1, SpecQInv, PTL

\* Every packet received is in the queue, held back by the Update that runs,
\* or done, and in one of them only: re-adding packets to the front of
\* _recvQueue and deleting a session lose and repeat none.
THEOREM OnePlaceTheorem == Spec => []OnePlace
<1>1. PInv /\ QInv => OnePlace
  BY DEF QInv
<1> QED
  BY <1>1, SpecQInv, PTL

\* The packets of a player are finished with in the order in which they were
\* received, over any sequence of updates by the world and by the maps,
\* logins, transfers and logouts, and for any limit per Update.
THEOREM HandledInOrderTheorem == Spec => []HandledInOrder
<1>1. PInv /\ QInv => HandledInOrder
  <2> SUFFICES ASSUME QInv PROVE HandledInOrder
    OBVIOUS
  <2>1. \A i \in 1..Len(done) : LoggedIn(done[i]) => done[i] \in Ours
    BY DEF QInv, PacketTypes, Ours
  <2> QED
    BY <2>1 DEF QInv, OrderInv, InOrder, HandledInOrder
<1> QED
  BY <1>1, SpecQInv, PTL

=============================================================================
