---------------------------- MODULE SessionQueue ----------------------------
(***************************************************************************)
(* Admission of client sessions by World: the network threads hand a       *)
(* session over with AddSession; UpdateSessions, on the world thread, adds *)
(* the new ones (AddSession_), replaces sessions of the same account,      *)
(* queues players while the realm is full, removes the sessions whose      *)
(* socket is closed and admits queued ones in their place.                 *)
(*                                                                         *)
(* A session is a WorldSession object, used once.  The network threads     *)
(* share addSessQueue (a LockedQueue) and the state of the socket with the *)
(* world thread, so one step of the world thread is one AddSession_ or one *)
(* session of UpdateSessions.                                              *)
(***************************************************************************)
EXTENDS Integers, Sequences, FiniteSets, SequencesExt

CONSTANTS
  Accounts,
  Sessions,             \* the WorldSession objects
  AccountOf,            \* AccountOf[s]: GetAccountId
  Staff,                \* sessions that are not of a player account
  Premium,              \* sessions with IsPremium
  RateOnline,           \* Rate.Online
  Settings,             \* the realms that are explored together: the sessions
                        \* that come, the values PlayerLimit takes, and
                        \* whether DisconnectToleranceInterval is not 0
  NoSession

ASSUME SessionsAssumption ==
  /\ AccountOf \in [Sessions -> Accounts]
  /\ Staff \subseteq Sessions /\ Premium \subseteq Sessions
  /\ RateOnline \in Nat \ {0}
  /\ Settings \subseteq [sessions : SUBSET Sessions, limits : SUBSET Nat,
                         tolerance : BOOLEAN]
  /\ NoSession \notin Sessions

VARIABLES
  realm,           \* the setting of this behaviour
  addSessQueue,    \* sessions handed over by the network threads
  m_sessions,      \* per account: its session or NoSession
  m_QueuedPlayer,  \* the sessions that wait, first come first
  m_inQueue,       \* sessions with the flag m_inQueue set
  closed,          \* sessions whose socket is closed
  loading,         \* sessions with PlayerLoading
  deleted,         \* sessions that have been destroyed
  m_disconnects,   \* accounts with an entry in m_disconnects
  m_playerLimit,
  wpc,             \* the world thread: "idle", "add" or "update"
  todo,            \* accounts UpdateSessions has still to visit
  kicked           \* KickAll has been called

vars == <<realm, addSessQueue, m_sessions, m_QueuedPlayer, m_inQueue, closed, loading,
          deleted, m_disconnects, m_playerLimit, wpc, todo, kicked>>

Listed == {s \in Sessions : m_sessions[AccountOf[s]] = s}
Pending == ToSet(addSessQueue)
Queued == ToSet(m_QueuedPlayer)

Init ==
  /\ realm \in Settings
  /\ addSessQueue = <<>>
  /\ m_sessions = [a \in Accounts |-> NoSession]
  /\ m_QueuedPlayer = <<>>
  /\ m_inQueue = {}
  /\ closed = {}
  /\ loading = {}
  /\ deleted = {}
  /\ m_disconnects = {}
  /\ m_playerLimit \in realm.limits
  /\ wpc = "idle"
  /\ todo = {}
  /\ kicked = FALSE

-----------------------------------------------------------------------------
(* The network threads.                                                    *)

\* A client has authenticated: AddSession.
AddSession(s) ==
  /\ s \in realm.sessions \ (Pending \cup Listed \cup deleted)
  /\ addSessQueue' = Append(addSessQueue, s)
  /\ UNCHANGED <<realm, m_sessions, m_QueuedPlayer, m_inQueue, closed, loading, deleted,
                 m_disconnects, m_playerLimit, wpc, todo, kicked>>

\* The client leaves, times out or is kicked (KickPlayer closes the socket).
CloseSocket(s) ==
  /\ s \in (Pending \cup Listed) \ closed
  /\ closed' = closed \cup {s}
  /\ UNCHANGED <<realm, addSessQueue, m_sessions, m_QueuedPlayer, m_inQueue, loading,
                 deleted, m_disconnects, m_playerLimit, wpc, todo, kicked>>

-----------------------------------------------------------------------------
(* World.                                                                  *)

\* GetActiveSessionCount, with queue q.
ActiveSessionCount(q) == (Cardinality(Listed) - Len(q)) * RateOnline

\* Seeded fault: somebody is admitted whenever a session goes.
RemoveQueuedAdmitAlways(s, q, flags) ==
  LET rest == RemoveFirst(q, s)
      found == s \in ToSet(q)
      gone == IF found THEN {s} ELSE {}
  IN  IF rest # <<>>
      THEN [found |-> found, queue |-> Tail(rest), flags |-> flags \ (gone \cup {Head(rest)})]
      ELSE [found |-> found, queue |-> rest, flags |-> flags \ gone]

\* Seeded fault: the slot of the session that goes is still counted.
RemoveQueuedNoDecrease(s, q, flags) ==
  LET found == s \in ToSet(q)
      rest == RemoveFirst(q, s)
      admit == /\ m_playerLimit = 0 \/ ActiveSessionCount(q) < m_playerLimit
               /\ rest # <<>>
      gone == IF found THEN {s} ELSE {}
  IN  IF admit
      THEN [found |-> found, queue |-> Tail(rest), flags |-> flags \ (gone \cup {Head(rest)})]
      ELSE [found |-> found, queue |-> rest, flags |-> flags \ gone]

\* Seeded fault: the flag of the session taken from the front stays set.
RemoveQueuedKeepsFlag(s, q, flags) ==
  LET found == s \in ToSet(q)
      rest == RemoveFirst(q, s)
      active == ActiveSessionCount(q)
      sessions == IF ~found /\ active > 0 THEN active - 1 ELSE active
      admit == (m_playerLimit = 0 \/ sessions < m_playerLimit) /\ rest # <<>>
  IN  [found |-> found,
       queue |-> IF admit THEN Tail(rest) ELSE rest,
       flags |-> IF found THEN flags \ {s} ELSE flags]

\* Seeded fault: the last of the queue is admitted.
RemoveQueuedAdmitLast(s, q, flags) ==
  LET found == s \in ToSet(q)
      rest == RemoveFirst(q, s)
      active == ActiveSessionCount(q)
      sessions == IF ~found /\ active > 0 THEN active - 1 ELSE active
      admit == (m_playerLimit = 0 \/ sessions < m_playerLimit) /\ rest # <<>>
      gone == IF found THEN {s} ELSE {}
  IN  IF admit
      THEN [found |-> found, queue |-> Front(rest), flags |-> flags \ (gone \cup {Last(rest)})]
      ELSE [found |-> found, queue |-> rest, flags |-> flags \ gone]

\* RemoveQueuedPlayer(s), given the queue and the flags it finds: take s out
\* of the queue if it is there; if there is room then, count s out if it was
\* not queued and admit the first that waits.
RemoveQueuedPlayer(s, q, flags) ==
  LET found == s \in ToSet(q)
      rest == RemoveFirst(q, s)
      active == ActiveSessionCount(q)
      sessions == IF ~found /\ active > 0 THEN active - 1 ELSE active
      admit == (m_playerLimit = 0 \/ sessions < m_playerLimit) /\ rest # <<>>
      gone == IF found THEN {s} ELSE {}
  IN  IF admit
      THEN [found |-> found, queue |-> Tail(rest), flags |-> flags \ (gone \cup {Head(rest)})]
      ELSE [found |-> found, queue |-> rest, flags |-> flags \ gone]

\* HasRecentlyDisconnected: the age of an entry is computed as a negative
\* number, so no entry is ever too old.
HasRecentlyDisconnected(s) == realm.tolerance /\ AccountOf[s] \in m_disconnects

\* IsPlayerAccount, HasRecentlyDisconnected and IsPremium in AddSession_.
MayBeQueued(s) == s \notin Staff \cup Premium /\ ~HasRecentlyDisconnected(s)

\* ~WorldSession, for each of a set of sessions.
Delete(S) ==
  /\ deleted' = deleted \cup S
  /\ closed' = closed \ S
  /\ loading' = loading \ S

\* UpdateSessions begins.
StartUpdateSessions ==
  /\ wpc = "idle"
  /\ wpc' = "add"
  /\ UNCHANGED <<realm, addSessQueue, m_sessions, m_QueuedPlayer, m_inQueue, closed,
                 loading, deleted, m_disconnects, m_playerLimit, todo, kicked>>

\* AddSession_: the account is loading a character in its old session
\* (RemoveSession returns false), and the new session is dropped.
AddSessionRefused ==
  /\ wpc = "add" /\ addSessQueue # <<>>
  /\ LET s == Head(addSessQueue)
     IN  /\ m_sessions[AccountOf[s]] \in loading
         /\ Delete({s})
  /\ addSessQueue' = Tail(addSessQueue)
  /\ UNCHANGED <<realm, m_sessions, m_QueuedPlayer, m_inQueue, m_disconnects,
                 m_playerLimit, wpc, todo, kicked>>

\* AddSession_: the old session of the account, if any, is taken out of the
\* queue and deleted; the new one is listed, and waits if the realm is full.
\* The new session itself is not counted, except when it replaces one that
\* was queued.
AddSession_ ==
  /\ wpc = "add" /\ addSessQueue # <<>>
  /\ LET s == Head(addSessQueue)
         old == m_sessions[AccountOf[s]]
         r == IF old = NoSession
              THEN [found |-> FALSE, queue |-> m_QueuedPlayer, flags |-> m_inQueue]
              ELSE RemoveQueuedPlayer(old, m_QueuedPlayer, m_inQueue)
     IN  /\ old \notin loading
         /\ m_sessions' = [m_sessions EXCEPT ![AccountOf[s]] = s]
         /\ Delete({old} \ {NoSession})
         /\ LET total == Cardinality(Listed') * RateOnline
                others == IF r.found THEN total ELSE total - 1
            IN  IF m_playerLimit > 0 /\ others >= m_playerLimit /\ MayBeQueued(s)
                THEN /\ m_QueuedPlayer' = Append(r.queue, s)
                     /\ m_inQueue' = r.flags \cup {s}
                ELSE /\ m_QueuedPlayer' = r.queue
                     /\ m_inQueue' = r.flags
  /\ addSessQueue' = Tail(addSessQueue)
  /\ UNCHANGED <<realm, m_disconnects, m_playerLimit, wpc, todo, kicked>>

\* addSessQueue is empty: UpdateSessions goes on to the sessions.
AddingDone ==
  /\ wpc = "add" /\ addSessQueue = <<>>
  /\ wpc' = "update"
  /\ todo' = {a \in Accounts : m_sessions[a] # NoSession}
  /\ UNCHANGED <<realm, addSessQueue, m_sessions, m_QueuedPlayer, m_inQueue, closed,
                 loading, deleted, m_disconnects, m_playerLimit, kicked>>

\* Seeded fault: a session that loads a character stays until it has.
UpdateSessionWhileLoading(a) ==
  /\ wpc = "update" /\ a \in todo
  /\ m_sessions[a] \notin closed \/ m_sessions[a] \in loading
  /\ loading' \in {loading} \cup {loading \cup ({m_sessions[a]} \ m_inQueue)}
  /\ todo' = todo \ {a}
  /\ UNCHANGED <<realm, addSessQueue, m_sessions, m_QueuedPlayer, m_inQueue, closed,
                 deleted, m_disconnects, m_playerLimit, wpc, kicked>>

\* WorldSession::Update of a session that stays.  Unless it waits in the
\* queue it may begin to load a character, and a load may end.
UpdateSession(a) ==
  /\ wpc = "update" /\ a \in todo
  /\ LET s == m_sessions[a]
     IN  /\ s \notin closed
         /\ \/ UNCHANGED loading
            \/ s \notin m_inQueue /\ loading' = loading \cup {s}
            \/ loading' = loading \ {s}
  /\ todo' = todo \ {a}
  /\ UNCHANGED <<realm, addSessQueue, m_sessions, m_QueuedPlayer, m_inQueue, closed,
                 deleted, m_disconnects, m_playerLimit, wpc, kicked>>

\* Seeded fault: the session is deleted and stays in m_sessions.
RemoveInactiveNoErase(a) ==
  /\ wpc = "update" /\ a \in todo
  /\ LET s == m_sessions[a]
         r == RemoveQueuedPlayer(s, m_QueuedPlayer, m_inQueue)
     IN  /\ s \in closed
         /\ m_QueuedPlayer' = r.queue /\ m_inQueue' = r.flags
         /\ Delete({s})
  /\ todo' = todo \ {a}
  /\ UNCHANGED <<realm, addSessQueue, m_sessions, m_disconnects, m_playerLimit, wpc,
                 kicked>>

\* WorldSession::Update finds the socket closed and returns false.
\* RemoveQueuedPlayer is called twice for the session, which is still listed.
RemoveInactive(a) ==
  /\ wpc = "update" /\ a \in todo
  /\ LET s == m_sessions[a]
         r1 == RemoveQueuedPlayer(s, m_QueuedPlayer, m_inQueue)
         r2 == RemoveQueuedPlayer(s, r1.queue, r1.flags)
     IN  /\ s \in closed
         /\ m_disconnects' = IF ~r1.found /\ realm.tolerance
                             THEN m_disconnects \cup {a} ELSE m_disconnects
         /\ m_QueuedPlayer' = r2.queue
         /\ m_inQueue' = r2.flags
         /\ Delete({s})
  /\ m_sessions' = [m_sessions EXCEPT ![a] = NoSession]
  /\ todo' = todo \ {a}
  /\ UNCHANGED <<realm, addSessQueue, m_playerLimit, wpc, kicked>>

UpdateSessionsDone ==
  /\ wpc = "update" /\ todo = {}
  /\ wpc' = "idle"
  /\ UNCHANGED <<realm, addSessQueue, m_sessions, m_QueuedPlayer, m_inQueue, closed,
                 loading, deleted, m_disconnects, m_playerLimit, todo, kicked>>

\* The command "server plimit", from the console or (in UpdateSessions) from
\* the client of an administrator.
SetPlayerAmountLimit(n) ==
  /\ wpc # "add" /\ n # m_playerLimit
  /\ m_playerLimit' = n
  /\ UNCHANGED <<realm, addSessQueue, m_sessions, m_QueuedPlayer, m_inQueue, closed,
                 loading, deleted, m_disconnects, wpc, todo, kicked>>

\* KickAll, at shutdown.
KickAll ==
  /\ wpc = "idle" /\ ~kicked
  /\ m_QueuedPlayer' = <<>>
  /\ closed' = closed \cup Listed
  /\ kicked' = TRUE
  /\ UNCHANGED <<realm, addSessQueue, m_sessions, m_inQueue, loading, deleted,
                 m_disconnects, m_playerLimit, wpc, todo>>

WorldStep ==
  \/ StartUpdateSessions \/ AddSessionRefused \/ AddSession_ \/ AddingDone
  \/ \E a \in Accounts : UpdateSession(a) \/ RemoveInactive(a)
  \/ UpdateSessionsDone

Next ==
  \/ \E s \in Sessions : AddSession(s) \/ CloseSocket(s)
  \/ WorldStep
  \/ \E n \in realm.limits : SetPlayerAmountLimit(n)
  \/ KickAll

Spec == Init /\ [][Next]_vars

\* World::Update calls UpdateSessions on every turn of the world loop.
FairSpec == Spec /\ WF_vars(WorldStep)

-----------------------------------------------------------------------------
(* Properties.                                                             *)

\* m_QueuedPlayer holds no session twice and none that has been deleted or
\* replaced, whatever account reconnects or leaves while it waits, and no
\* session that addSessQueue or m_sessions refers to has been deleted.
NoDangling ==
  /\ IsInjective(m_QueuedPlayer) /\ Queued \subseteq Listed
  /\ (Listed \cup Pending) \cap deleted = {} /\ Listed \cap Pending = {}

\* A session whose flag m_inQueue is set (so that its packets are refused)
\* is in the queue and will be admitted, until KickAll.
FlagMeansQueued == ~kicked => m_inQueue = Queued

NonExempt == Listed \ (Staff \cup Premium \cup Queued)

FixedLimit == (\A m, n \in realm.limits : m = n) /\ ~realm.tolerance

\* With a fixed limit no more players than PlayerLimit are in the world,
\* however sessions are replaced, removed or admitted.
PlayersWithinLimit ==
  FixedLimit /\ m_playerLimit > 0 /\ ~kicked => Cardinality(NonExempt) <= m_playerLimit

\* The players in the world.
PlayersIn == Listed \ (Staff \cup Queued)

\* With a fixed limit, and while no staff is there, nobody waits unless the
\* world has as many players as PlayerLimit: AddSession_ and the two calls of
\* RemoveQueuedPlayer in UpdateSessions give every slot away that gets free.
\* Staff sessions take slots (GetActiveAndQueuedSessionCount counts them all),
\* although PlayerLimit is documented as excluding them.
NoIdleSlot ==
  FixedLimit /\ Listed \cap Staff = {} /\ m_QueuedPlayer # <<>> =>
    m_playerLimit > 0 /\ Cardinality(PlayersIn) >= m_playerLimit

\* First come, first served: a session taken from the queue into the world
\* leaves nobody behind who came before it.
AdmittedInOrder ==
  [][\A i, j \in 1..Len(m_QueuedPlayer) :
       i < j /\ m_QueuedPlayer[j] \notin Queued' /\ m_QueuedPlayer[j] \in Listed'
         => m_QueuedPlayer[i] \notin Queued' \/ kicked']_vars

\* A session whose socket is closed is destroyed in the end, and its slot,
\* its place in the queue and its account are free again: since a session
\* object is used once, there comes a time after which none is left over.
ClosedIsRemoved == <>[](closed = {})
=============================================================================
