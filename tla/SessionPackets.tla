--------------------------- MODULE SessionPackets ---------------------------
(***************************************************************************)
(* The packets of one session: the network thread puts them into           *)
(* _recvQueue, WorldSession::Update takes them out on the world thread     *)
(* (World::UpdateSessions) and on the thread of the player's map           *)
(* (Map::Update), which run one after the other, and the player behind the *)
(* session logs in, is transferred between maps and logs out meanwhile.    *)
(*                                                                         *)
(* Packets are numbered in the order of arrival.  A turn of the loop of    *)
(* Update is one step: the other threads only append to the queue, close   *)
(* the socket, or finish the query of the login.  Interrealm sessions are  *)
(* left out (m_InterRealmBG is 0).                                         *)
(***************************************************************************)
EXTENDS Integers, Sequences, SequencesExt, FiniteSets

CONSTANTS
  Kinds,         \* the kinds of packets the client sends
  MaxProcessed,  \* MAX_PROCESSED_PACKETS_IN_SAME_WORLDSESSION_UPDATE
  MaxPackets     \* bound: packets the client sends

\* opcodeTable, for one opcode of each kind that the session treats in its
\* own way; "game" and "swing" stand for the many handlers that act on a
\* player in the world.
AllKinds == {"game", "swing", "logout", "cancel", "enum", "login", "ack", "trade"}

Status(k) ==
  CASE k \in {"game", "swing", "logout", "cancel"} -> "LOGGEDIN"
    [] k \in {"enum", "login"} -> "AUTHED"
    [] k = "ack" -> "TRANSFER"
    [] k = "trade" -> "LOGGEDIN_OR_RECENTLY_LOGGOUT"

Processing(k) ==
  CASE k = "game" -> "THREADSAFE" [] k = "swing" -> "INPLACE" [] OTHER -> "THREADUNSAFE"

ASSUME PacketsAssumption ==
  /\ Kinds \subseteq AllKinds
  /\ MaxProcessed \in Nat /\ MaxPackets \in Nat

VARIABLES
  kinds,        \* kinds[n]: the kind of the n-th packet received
  recvQueue,    \* _recvQueue
  done,         \* the packets Update has finished with, in that order
  filter,       \* of the Update that runs: "world", "map" or "none"
  inLoop,       \* it is in the loop over the packets
  requeue,      \* its requeuePackets
  processed,    \* its processedPackets
  player,       \* "none", "world", "transfer" (IsBeingTeleportedFar) or
                \* "limbo": in no map and in no transfer
  loading,      \* m_playerLoading
  login,        \* _charLoginCallback: "none", "pending" or "ready"
  recentlyLogout,
  logoutTime,   \* _logoutTime is set
  inQueue,
  socket        \* "open", "closed", or "removed" with the session

updateVars == <<filter, inLoop, requeue, processed>>
playerVars == <<player, loading, login, recentlyLogout, logoutTime>>
vars == <<kinds, recvQueue, done, filter, inLoop, requeue, processed, player,
          loading, login, recentlyLogout, logoutTime, inQueue, socket>>

Init ==
  /\ kinds = <<>> /\ recvQueue = <<>> /\ done = <<>>
  /\ filter = "none" /\ inLoop = FALSE /\ requeue = <<>> /\ processed = 0
  /\ player = "none" /\ loading = FALSE /\ login = "none"
  /\ recentlyLogout = FALSE /\ logoutTime = FALSE
  /\ inQueue \in BOOLEAN
  /\ socket = "open"

-----------------------------------------------------------------------------
(* The other threads.                                                      *)

\* QueuePacket.
QueuePacket(k) ==
  /\ socket = "open" /\ Len(kinds) < MaxPackets
  /\ kinds' = Append(kinds, k)
  /\ recvQueue' = Append(recvQueue, Len(kinds) + 1)
  /\ UNCHANGED <<done, updateVars, playerVars, inQueue, socket>>

\* The network thread closes the socket, or KickPlayer does.
CloseSocket ==
  /\ socket = "open"
  /\ socket' = "closed"
  /\ UNCHANGED <<kinds, recvQueue, done, updateVars, playerVars, inQueue>>

\* A database worker has executed the queries of the login.
LoginQueried ==
  /\ login = "pending"
  /\ login' = "ready"
  /\ UNCHANGED <<kinds, recvQueue, done, updateVars, player, loading,
                 recentlyLogout, logoutTime, inQueue, socket>>

\* The world thread, between two updates: the session leaves the queue of
\* World (RemoveQueuedPlayer).
LeaveQueue ==
  /\ filter = "none" /\ inQueue /\ socket # "removed"
  /\ inQueue' = FALSE
  /\ UNCHANGED <<kinds, recvQueue, done, updateVars, playerVars, socket>>

\* Player::TeleportTo another map, from the update of the player's map, a
\* spell or a script.
TeleportTo ==
  /\ filter = "none" /\ player = "world"
  /\ player' = "transfer"
  /\ UNCHANGED <<kinds, recvQueue, done, updateVars, loading, login,
                 recentlyLogout, logoutTime, inQueue, socket>>

-----------------------------------------------------------------------------
(* The loop of WorldSession::Update.                                       *)

\* Update is called by the world, or by the map the player is in.
StartUpdate(f) ==
  /\ filter = "none" /\ socket # "removed"
  /\ f = "map" => player = "world"
  /\ filter' = f /\ inLoop' = TRUE /\ requeue' = <<>> /\ processed' = 0
  /\ UNCHANGED <<kinds, recvQueue, done, playerVars, inQueue, socket>>

\* Seeded fault: the map thread takes thread-unsafe packets.
MapProcessUnsafe(k) == player = "world"

\* Seeded fault: the map thread leaves the packets of the map to the world.
MapProcessInplaceOnly(k) == Processing(k) = "INPLACE"

\* MapSessionFilter::Process.
MapProcess(k) ==
  \/ Processing(k) = "INPLACE"
  \/ Processing(k) = "THREADSAFE" /\ player = "world"

\* WorldSessionFilter::Process.
WorldProcess(k) ==
  \/ Processing(k) \in {"INPLACE", "THREADUNSAFE"}
  \/ player # "world"

Process(k) == IF filter = "map" THEN MapProcess(k) ELSE WorldProcess(k)

\* _recvQueue.next(packet, updater) returns a packet.
HasNext == recvQueue # <<>> /\ Process(kinds[Head(recvQueue)])

\* Seeded fault: one packet more than Update may take.
ContinueOneMore == socket = "open" /\ processed <= MaxProcessed + 1

\* The loop goes on: the socket is open and the limit is not passed.
Continue == socket = "open" /\ processed <= MaxProcessed

\* Seeded fault: the time of the logout is not reset.
LogoutKeepsTime ==
  player' = "none" /\ recentlyLogout' = TRUE /\ UNCHANGED logoutTime

\* LogoutPlayer: pending transfers are finished, the player is saved and
\* removed from the world.
LogoutPlayer ==
  player' = "none" /\ recentlyLogout' = TRUE /\ logoutTime' = FALSE

\* HandleLogoutRequestOpcode: refused, at once, or in 20 seconds.
HandleLogoutRequest ==
  \/ logoutTime' = FALSE /\ UNCHANGED <<player, recentlyLogout>>
  \/ LogoutPlayer
  \/ logoutTime' = TRUE /\ UNCHANGED <<player, recentlyLogout>>

\* The handlers of a player in the world; any of them may end in TeleportTo.
HandleInWorld(k) ==
  /\ CASE k = "logout" -> HandleLogoutRequest
       [] k = "cancel" -> logoutTime' = FALSE /\ UNCHANGED <<player, recentlyLogout>>
       [] OTHER -> /\ player' \in {"world", "transfer"}
                   /\ UNCHANGED <<recentlyLogout, logoutTime>>
  /\ UNCHANGED <<loading, login, socket>>

\* HandleMoveWorldportAckOpcode: the new map, or on to the homebind, which
\* may fail in its turn.  TeleportTo has checked the coordinates.
HandleMoveWorldportAck ==
  /\ player' \in IF player = "transfer" THEN {"world", "transfer", "limbo"} ELSE {player}
  /\ UNCHANGED <<loading, login, recentlyLogout, logoutTime, socket>>

HandleCharEnum ==
  /\ recentlyLogout' = FALSE
  /\ UNCHANGED <<player, loading, login, logoutTime, socket>>

\* Seeded fault: a second request while the first one is under way is obeyed.
LoginOpcodeAgain ==
  /\ loading' = TRUE /\ login' = "pending"
  /\ UNCHANGED <<player, recentlyLogout, logoutTime, socket>>

\* HandlePlayerLoginOpcode: ignored for a session that has a player or loads
\* one; else the queries are enqueued, or the packet is too short (an
\* exception leaves m_playerLoading set), or the character is not allowed
\* (kick, m_playerLoading stays set), or the queries cannot be prepared.
HandlePlayerLoginOpcode ==
  /\ \/ /\ loading \/ player # "none"
        /\ UNCHANGED <<loading, login, socket>>
     \/ /\ ~loading /\ player = "none"
        /\ \/ loading' = TRUE /\ login' = "pending" /\ UNCHANGED socket
           \/ loading' = TRUE /\ UNCHANGED <<login, socket>>
           \/ loading' = TRUE /\ socket' = "closed" /\ UNCHANGED login
           \/ UNCHANGED <<loading, login, socket>>
  /\ UNCHANGED <<player, recentlyLogout, logoutTime>>

Ignored == UNCHANGED <<playerVars, socket>>

\* What the switch over the status does with a packet it does not requeue.
Handle(k) ==
  CASE Status(k) = "LOGGEDIN" ->
         IF player = "world" THEN HandleInWorld(k) ELSE Ignored
    [] Status(k) = "TRANSFER" ->
         IF player \in {"transfer", "limbo"} THEN HandleMoveWorldportAck ELSE Ignored
    [] Status(k) = "AUTHED" /\ ~inQueue ->
         IF k = "enum" THEN HandleCharEnum ELSE HandlePlayerLoginOpcode
    [] OTHER -> Ignored

\* STATUS_LOGGEDIN without a player who has just left.
MustWait(k) == Status(k) = "LOGGEDIN" /\ player = "none" /\ ~recentlyLogout

\* One turn of the loop.
HandlePacket ==
  /\ filter # "none" /\ inLoop /\ Continue /\ HasNext
  /\ LET n == Head(recvQueue)
     IN  IF MustWait(kinds[n])
         THEN /\ requeue' = Append(requeue, n)
              /\ UNCHANGED <<done, playerVars, socket>>
         ELSE /\ done' = Append(done, n)
              /\ Handle(kinds[n])
              /\ UNCHANGED requeue
  /\ recvQueue' = Tail(recvQueue)
  /\ processed' = processed + 1
  /\ UNCHANGED <<kinds, filter, inLoop, inQueue>>

-----------------------------------------------------------------------------
(* The rest of Update.                                                     *)

\* Seeded fault: the packets go to the end of the queue.
ReaddAtEnd == recvQueue' = recvQueue \o requeue

\* Seeded fault: the packets are not put back.
ReaddNothing == UNCHANGED recvQueue

\* _recvQueue.readd: to the front.
Readd == recvQueue' = requeue \o recvQueue

\* ProcessQueryCallbacks.  HandlePlayerLogin gives the session its player, in
\* the world or on the way to another place, or kicks a session whose
\* character cannot be loaded.
ProcessQueryCallbacks ==
  /\ IF login = "ready"
     THEN /\ login' = "none" /\ loading' = FALSE
          /\ \/ player' \in {"world", "transfer", "limbo"} /\ UNCHANGED socket
             \/ player' = "none" /\ socket' = "closed"
     ELSE UNCHANGED <<player, loading, login, socket>>
  /\ UNCHANGED <<recentlyLogout, logoutTime>>

\* The loop is over.
EndLoop ==
  /\ filter # "none" /\ inLoop /\ ~(Continue /\ HasNext)
  /\ Readd
  /\ requeue' = <<>>
  /\ ProcessQueryCallbacks
  /\ inLoop' = FALSE
  /\ UNCHANGED <<kinds, done, filter, processed, inQueue>>

\* The map's Update ends here.
EndMapUpdate ==
  /\ filter = "map" /\ ~inLoop
  /\ filter' = "none" /\ processed' = 0
  /\ UNCHANGED <<kinds, recvQueue, done, inLoop, requeue, playerVars, inQueue, socket>>

\* The world's Update: the logout that was timed, if its time has come.
TimedLogout ==
  IF logoutTime /\ ~loading
  THEN LogoutPlayer \/ UNCHANGED <<player, recentlyLogout, logoutTime>>
  ELSE UNCHANGED <<player, recentlyLogout, logoutTime>>

EndWorldUpdate ==
  /\ filter = "world" /\ ~inLoop /\ socket = "open"
  /\ TimedLogout
  /\ filter' = "none" /\ processed' = 0
  /\ UNCHANGED <<kinds, recvQueue, done, inLoop, requeue, loading, login, inQueue,
                 socket>>

\* Update returns false: the world deletes the session, which logs the player
\* out and deletes the packets.
RemoveSession ==
  /\ filter = "world" /\ ~inLoop /\ socket = "closed"
  /\ IF player # "none" THEN LogoutPlayer
     ELSE UNCHANGED <<player, recentlyLogout, logoutTime>>
  /\ done' = done \o recvQueue
  /\ recvQueue' = <<>>
  /\ socket' = "removed"
  /\ filter' = "none" /\ processed' = 0
  /\ UNCHANGED <<kinds, inLoop, requeue, loading, login, inQueue>>

-----------------------------------------------------------------------------
UpdateStep ==
  HandlePacket \/ EndLoop \/ EndMapUpdate \/ EndWorldUpdate \/ RemoveSession

Removed == socket = "removed" /\ UNCHANGED vars

Next ==
  \/ \E k \in Kinds : QueuePacket(k)
  \/ CloseSocket \/ LoginQueried \/ LeaveQueue \/ TeleportTo
  \/ \E f \in {"world", "map"} : StartUpdate(f)
  \/ UpdateStep
  \/ Removed

Spec == Init /\ [][Next]_vars

\* The world calls Update in every tick and the map in every one of its
\* ticks while the player is in it, and a call runs to its end.
FairSpec ==
  /\ Spec
  /\ WF_vars(UpdateStep)
  /\ \A f \in {"world", "map"} : SF_vars(StartUpdate(f))

-----------------------------------------------------------------------------
(* Properties.                                                             *)

\* The values of the variables.
TypeOK ==
  /\ kinds \in Seq(Kinds) /\ Len(kinds) <= MaxPackets
  /\ {recvQueue, done, requeue} \subseteq Seq(1..Len(kinds))
  /\ filter \in {"none", "world", "map"} /\ inLoop \in BOOLEAN
  /\ processed \in 0..(MaxProcessed + 1)
  /\ player \in {"none", "world", "transfer", "limbo"}
  /\ {loading, recentlyLogout, logoutTime, inQueue} \subseteq BOOLEAN
  /\ login \in {"none", "pending", "ready"}
  /\ socket \in {"open", "closed", "removed"}

\* No packet is lost or handled twice, however often Update puts it back.
OnePlace ==
  LET all == recvQueue \o requeue \o done
  IN  Len(all) = Len(kinds) /\ ToSet(all) = 1..Len(kinds)

LoggedIn(n) == Status(kinds[n]) = "LOGGEDIN"

\* The packets of a player (movement, spells, logout) are finished with in
\* the order in which the client sent them, across the world thread, the map
\* threads and the time they wait for the login.
HandledInOrder ==
  \A i, j \in 1..Len(done) :
    i < j /\ LoggedIn(done[i]) /\ LoggedIn(done[j]) => done[i] < done[j]

\* A logout is timed only while there is a player: LogoutPlayer, which
\* dereferences the player, is never called without one.
LogoutHasPlayer == logoutTime => player # "none"

\* The queries of a login belong to a session that waits for them and has no
\* player: HandlePlayerLogin never replaces a player by another one.
LoginReplacesNobody == login # "none" => loading /\ player = "none"

\* "logout procedure should happen only in World::UpdateSessions()": no step
\* of a map thread gives the session a player or takes it away.
MapKeepsPlayer == [][filter = "map" => (player = "none" <=> player' = "none")]_vars

\* The packets of a player that Update has not finished with before packet n.
Ahead(n) == {m \in 1..(n - 1) : LoggedIn(m) /\ m \notin ToSet(done)}

\* "Any leftover will be processed in next update": a packet that does not
\* wait for a player is finished with, or the session ends, as long as no
\* more packets than one Update takes wait for the player in front of it.
LeftoverProcessed ==
  \A n \in 1..MaxPackets :
    /\ n <= Len(kinds) /\ n \in ToSet(recvQueue)
    /\ ~LoggedIn(n) /\ Cardinality(Ahead(n)) <= MaxProcessed
    ~> n \in ToSet(done)
=============================================================================
