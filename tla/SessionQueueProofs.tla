------------------------- MODULE SessionQueueProofs -------------------------
(***************************************************************************)
(* Proofs about SessionQueue for any accounts, sessions and settings of    *)
(* the realm.                                                              *)
(***************************************************************************)
EXTENDS SessionQueue, FiniteSetTheorems, TLAPS

QueueTypes ==
  /\ realm \in Settings
  /\ addSessQueue \in Seq(Sessions) /\ m_QueuedPlayer \in Seq(Sessions)
  /\ m_sessions \in [Accounts -> Sessions \cup {NoSession}]
  /\ closed \subseteq Sessions
  /\ m_playerLimit \in realm.limits

\* A session is listed under its own account, and is handed over once.
ListInv ==
  /\ \A a \in Accounts : m_sessions[a] # NoSession => AccountOf[m_sessions[a]] = a
  /\ IsFiniteSet(Listed)
  /\ IsInjective(addSessQueue)

IInv == QueueTypes /\ ListInv /\ NoDangling /\ FlagMeansQueued

USE SessionsAssumption

-----------------------------------------------------------------------------
(* Sequences without duplicates.                                           *)

LEMMA ToSetFacts ==
  ASSUME NEW q \in Seq(Sessions)
  PROVE  /\ Len(q) \in Nat /\ DOMAIN q = 1..Len(q)
         /\ \A x : x \in ToSet(q) <=> \E n \in 1..Len(q) : q[n] = x
         /\ ToSet(q) \subseteq Sessions
         /\ IsInjective(q) <=> \A m, n \in 1..Len(q) : q[m] = q[n] => m = n
  BY DEF ToSet, IsInjective

LEMMA AppendFacts ==
  ASSUME NEW q \in Seq(Sessions), NEW s \in Sessions
  PROVE  /\ Append(q, s) \in Seq(Sessions) /\ Append(q, s) # <<>>
         /\ Len(Append(q, s)) = Len(q) + 1
         /\ ToSet(Append(q, s)) = ToSet(q) \cup {s}
         /\ IsInjective(q) /\ s \notin ToSet(q) => IsInjective(Append(q, s))
         /\ \A n \in 1..Len(q) : Append(q, s)[n] = q[n]
<1> DEFINE a == Append(q, s)
<1>1. /\ a \in Seq(Sessions) /\ Len(a) = Len(q) + 1 /\ a[Len(q) + 1] = s
      /\ \A n \in 1..Len(q) : a[n] = q[n]
  OBVIOUS
<1>2. a # <<>>
  BY <1>1, ToSetFacts
<1> HIDE DEF a
<1>3. ToSet(a) = ToSet(q) \cup {s}
  <2>1. ASSUME NEW x \in ToSet(a) PROVE x \in ToSet(q) \cup {s}
    BY <1>1, <2>1, ToSetFacts
  <2>2. ASSUME NEW x \in ToSet(q) PROVE x \in ToSet(a)
    BY <1>1, <2>2, ToSetFacts
  <2>3. s \in ToSet(a)
    <3>1. Len(q) + 1 \in 1..Len(a)
      BY <1>1, ToSetFacts
    <3> QED
      BY <1>1, <3>1, ToSetFacts
  <2> QED
    BY <2>1, <2>2, <2>3
<1>4. ASSUME IsInjective(q), s \notin ToSet(q) PROVE IsInjective(a)
  <2> SUFFICES ASSUME NEW m \in 1..Len(a), NEW n \in 1..Len(a), a[m] = a[n]
               PROVE  m = n
    BY <1>1, ToSetFacts
  <2>1. \A k \in 1..Len(q) : q[k] # s
    BY <1>4, ToSetFacts
  <2>2. \A k, l \in 1..Len(q) : q[k] = q[l] => k = l
    BY <1>4, ToSetFacts
  <2>3. Len(q) \in Nat
    BY ToSetFacts
  <2> QED
    BY <1>1, <2>1, <2>2, <2>3
<1> QED
  BY <1>1, <1>2, <1>3, <1>4 DEF a

LEMMA TailFacts ==
  ASSUME NEW q \in Seq(Sessions), q # <<>>, IsInjective(q)
  PROVE  /\ Tail(q) \in Seq(Sessions) /\ IsInjective(Tail(q))
         /\ Len(q) > 0 /\ Len(Tail(q)) = Len(q) - 1
         /\ Head(q) = q[1] /\ Head(q) \in Sessions
         /\ ToSet(Tail(q)) = ToSet(q) \ {Head(q)} /\ Head(q) \in ToSet(q)
         /\ \A n \in 1..(Len(q) - 1) : Tail(q)[n] = q[n + 1]
<1> DEFINE t == Tail(q)
<1>1. /\ t \in Seq(Sessions) /\ Len(q) > 0 /\ Len(t) = Len(q) - 1 /\ Head(q) = q[1]
      /\ \A n \in 1..Len(t) : t[n] = q[n + 1]
  OBVIOUS
<1> HIDE DEF t
<1>2. 1 \in 1..Len(q) /\ q[1] \in ToSet(q) /\ q[1] \in Sessions
  BY <1>1, ToSetFacts
<1>3. IsInjective(t)
  <2> SUFFICES ASSUME NEW m \in 1..Len(t), NEW n \in 1..Len(t), t[m] = t[n]
               PROVE  m = n
    BY <1>1, ToSetFacts
  <2>1. m + 1 \in 1..Len(q) /\ n + 1 \in 1..Len(q) /\ q[m + 1] = q[n + 1]
    BY <1>1, ToSetFacts
  <2>2. m + 1 = n + 1
    BY <2>1, ToSetFacts
  <2> QED
    BY <2>2
<1>4. ASSUME NEW x \in ToSet(t) PROVE x \in ToSet(q) /\ x # q[1]
  <2>1. PICK n \in 1..Len(t) : t[n] = x
    BY <1>1, <1>4, ToSetFacts
  <2>2. n + 1 \in 1..Len(q) /\ q[n + 1] = x /\ n + 1 # 1
    BY <1>1, <2>1, ToSetFacts
  <2> QED
    BY <1>2, <2>2, ToSetFacts
<1>5. ASSUME NEW x \in ToSet(q), x # q[1] PROVE x \in ToSet(t)
  <2>1. PICK n \in 1..Len(q) : q[n] = x
    BY <1>5, ToSetFacts
  <2>2. n - 1 \in 1..Len(t) /\ t[n - 1] = x
    BY <1>1, <1>5, <2>1, ToSetFacts
  <2> QED
    BY <1>1, <2>2, ToSetFacts
<1> QED
  BY <1>1, <1>2, <1>3, <1>4, <1>5 DEF t

\* Where an element of q is after s has been taken out at position k.
Shifted(k, n) == IF n < k THEN n ELSE n + 1

\* The erase of RemoveQueuedPlayer takes s, and only s, out of the queue, and
\* leaves the order of the others.
LEMMA RemoveFirstFacts ==
  ASSUME NEW q \in Seq(Sessions), IsInjective(q), NEW s
  PROVE  LET rest == RemoveFirst(q, s)
         IN  /\ rest \in Seq(Sessions) /\ IsInjective(rest)
             /\ ToSet(rest) = ToSet(q) \ {s}
             /\ Len(rest) = IF s \in ToSet(q) THEN Len(q) - 1 ELSE Len(q)
             /\ \A i, j \in 1..Len(q) : i < j /\ q[i] # s /\ q[j] # s =>
                  \E m, n \in 1..Len(rest) : m < n /\ rest[m] = q[i] /\ rest[n] = q[j]
<1> DEFINE rest == RemoveFirst(q, s)
<1>1. CASE s \notin ToSet(q)
  <2>1. rest = q
    BY <1>1, ToSetFacts DEF RemoveFirst
  <2> QED
    BY <1>1, <2>1, ToSetFacts
<1>2. CASE s \in ToSet(q)
  <2>1. PICK k \in 1..Len(q) : q[k] = s
    BY <1>2, ToSetFacts
  <2>2. rest = SubSeq(q, 1, k - 1) \o SubSeq(q, k + 1, Len(q))
    <3>1. {i \in 1..Len(q) : q[i] = s} = {k}
      BY <2>1, ToSetFacts
    <3>2. Min({k}) = k
      BY DEF Min
    <3> QED
      BY <2>1, <3>1, <3>2 DEF RemoveFirst, RemoveAt, SelectInSeq
  <2>3. /\ rest \in Seq(Sessions) /\ Len(rest) = Len(q) - 1
        /\ \A n \in 1..(Len(q) - 1) : rest[n] = q[Shifted(k, n)]
    <3> DEFINE l == SubSeq(q, 1, k - 1)
               r == SubSeq(q, k + 1, Len(q))
    <3>1. /\ l \in Seq(Sessions) /\ Len(l) = k - 1
          /\ \A n \in 1..(k - 1) : l[n] = q[n]
      BY ToSetFacts
    <3>2. /\ r \in Seq(Sessions) /\ Len(r) = Len(q) - k
          /\ \A n \in 1..(Len(q) - k) : r[n] = q[n + k]
      BY ToSetFacts
    <3> HIDE DEF l, r
    <3>3. /\ l \o r \in Seq(Sessions) /\ Len(l \o r) = Len(q) - 1
          /\ \A n \in 1..(k - 1) : (l \o r)[n] = l[n]
          /\ \A n \in k..(Len(q) - 1) : (l \o r)[n] = r[n - k + 1]
      <4>0. Len(q) \in Nat
        BY ToSetFacts
      <4>1. l \o r \in Seq(Sessions) /\ Len(l \o r) = Len(q) - 1
        <5>1. l \o r \in Seq(Sessions) /\ Len(l \o r) = Len(l) + Len(r)
          <6>1. l \in Seq(Sessions) /\ r \in Seq(Sessions)
            BY <3>1, <3>2
          <6> QED
            BY <6>1
        <5> QED
          BY <3>1, <3>2, <4>0, <5>1
      <4>2. ASSUME NEW n \in 1..(k - 1) PROVE (l \o r)[n] = l[n]
        BY <3>1, <3>2, <4>0
      <4>3. ASSUME NEW n \in k..(Len(q) - 1) PROVE (l \o r)[n] = r[n - k + 1]
        <5>1. n \in 1..(Len(l) + Len(r)) /\ ~(n <= Len(l)) /\ n - Len(l) = n - k + 1
          BY <3>1, <3>2, <4>0
        <5> QED
          BY <3>1, <3>2, <5>1
      <4> QED
        BY <4>1, <4>2, <4>3
    <3>4. \A n \in 1..(Len(q) - 1) : (l \o r)[n] = q[Shifted(k, n)]
      <4> SUFFICES ASSUME NEW n \in 1..(Len(q) - 1)
                   PROVE  (l \o r)[n] = q[Shifted(k, n)]
        OBVIOUS
      <4>1. CASE n < k
        BY <3>1, <3>3, <4>1, ToSetFacts DEF Shifted
      <4>2. CASE ~(n < k)
        <5>1. n - k + 1 \in 1..(Len(q) - k) /\ n - k + 1 + k = n + 1
          BY <4>2, ToSetFacts
        <5> QED
          BY <3>2, <3>3, <4>2, <5>1, ToSetFacts DEF Shifted
      <4> QED
        BY <4>1, <4>2
    <3> QED
      BY <2>2, <3>3, <3>4 DEF l, r
  <2> HIDE DEF rest
  <2>4. \A n \in 1..(Len(q) - 1) : Shifted(k, n) \in 1..Len(q) \ {k}
    BY ToSetFacts DEF Shifted
  <2>5. ASSUME NEW i \in 1..Len(q), q[i] # s
        PROVE  LET m == IF i < k THEN i ELSE i - 1
               IN  m \in 1..(Len(q) - 1) /\ Shifted(k, m) = i /\ rest[m] = q[i]
    <3>1. i # k
      BY <2>1, <2>5
    <3>2. Len(q) \in Nat
      BY ToSetFacts
    <3>3. CASE i < k
      BY <2>3, <3>2, <3>3 DEF Shifted
    <3>4. CASE ~(i < k)
      <4>1. i - 1 \in 1..(Len(q) - 1) /\ ~(i - 1 < k)
        BY <3>1, <3>2, <3>4
      <4>2. Shifted(k, i - 1) = i
        BY <4>1 DEF Shifted
      <4> QED
        BY <2>3, <3>4, <4>1, <4>2
    <3> QED
      BY <3>3, <3>4
  <2>6. IsInjective(rest)
    <3> SUFFICES ASSUME NEW m \in 1..(Len(q) - 1), NEW n \in 1..(Len(q) - 1),
                        rest[m] = rest[n]
                 PROVE  m = n
      BY <2>3, ToSetFacts
    <3>1. Shifted(k, m) = Shifted(k, n)
      <4>1. q[Shifted(k, m)] = q[Shifted(k, n)]
        BY <2>3
      <4>2. Shifted(k, m) \in 1..Len(q) /\ Shifted(k, n) \in 1..Len(q)
        BY <2>4
      <4> QED
        BY <4>1, <4>2, ToSetFacts
    <3> QED
      BY <3>1, ToSetFacts DEF Shifted
  <2>7. ToSet(rest) = ToSet(q) \ {s}
    <3>1. ASSUME NEW x \in ToSet(rest) PROVE x \in ToSet(q) /\ x # s
      <4>1. PICK n \in 1..(Len(q) - 1) : rest[n] = x
        BY <2>3, <3>1, ToSetFacts
      <4>2. Shifted(k, n) \in 1..Len(q) /\ Shifted(k, n) # k /\ x = q[Shifted(k, n)]
        BY <2>3, <2>4, <4>1
      <4> QED
        BY <2>1, <4>2, ToSetFacts
    <3>2. ASSUME NEW x \in ToSet(q), x # s PROVE x \in ToSet(rest)
      <4>1. PICK i \in 1..Len(q) : q[i] = x
        BY <3>2, ToSetFacts
      <4>2. PICK m \in 1..(Len(q) - 1) : rest[m] = x
        BY <2>5, <3>2, <4>1
      <4> QED
        BY <2>3, <4>2, ToSetFacts
    <3> QED
      BY <3>1, <3>2
  <2>8. ASSUME NEW i \in 1..Len(q), NEW j \in 1..Len(q), i < j, q[i] # s, q[j] # s
        PROVE  \E m, n \in 1..Len(rest) : m < n /\ rest[m] = q[i] /\ rest[n] = q[j]
    <3> DEFINE m == IF i < k THEN i ELSE i - 1
               n == IF j < k THEN j ELSE j - 1
    <3>1. m \in 1..Len(rest) /\ n \in 1..Len(rest) /\ rest[m] = q[i] /\ rest[n] = q[j]
      BY <2>3, <2>5, <2>8
    <3>2. m < n
      <4>1. i # k /\ j # k
        BY <2>1, <2>8
      <4> QED
        BY <2>8, <4>1
    <3> QED
      BY <3>1, <3>2
  <2> QED
    BY <1>2, <2>3, <2>6, <2>7, <2>8 DEF rest
<1> QED
  BY <1>1, <1>2

-----------------------------------------------------------------------------
(* RemoveQueuedPlayer.                                                     *)

\* The sessions RemoveQueuedPlayer counts, and whether it finds room.
Counted(s, q) ==
  IF s \notin ToSet(q) /\ ActiveSessionCount(q) > 0
  THEN ActiveSessionCount(q) - 1 ELSE ActiveSessionCount(q)

Room(s, q) == m_playerLimit = 0 \/ Counted(s, q) < m_playerLimit

LEMMA RemoveQueuedForm ==
  ASSUME NEW s, NEW q, NEW flags
  PROVE  LET r == RemoveQueuedPlayer(s, q, flags)
             rest == RemoveFirst(q, s)
             gone == IF s \in ToSet(q) THEN {s} ELSE {}
         IN  /\ r.found <=> s \in ToSet(q)
             /\ Room(s, q) /\ rest # <<>> =>
                  r.queue = Tail(rest) /\ r.flags = flags \ (gone \cup {Head(rest)})
             /\ ~(Room(s, q) /\ rest # <<>>) => r.queue = rest /\ r.flags = flags \ gone
  BY Zenon DEF RemoveQueuedPlayer, Room, Counted

LEMMA RemoveQueuedFacts ==
  ASSUME NEW q \in Seq(Sessions), IsInjective(q), NEW s, NEW flags
  PROVE  LET r == RemoveQueuedPlayer(s, q, flags)
         IN  /\ r.queue \in Seq(Sessions) /\ IsInjective(r.queue)
             /\ ToSet(r.queue) \subseteq ToSet(q) \ {s}
             /\ flags = ToSet(q) => r.flags = ToSet(r.queue)
<1> DEFINE r == RemoveQueuedPlayer(s, q, flags)
           rest == RemoveFirst(q, s)
           gone == IF s \in ToSet(q) THEN {s} ELSE {}
<1>1. rest \in Seq(Sessions) /\ IsInjective(rest) /\ ToSet(rest) = ToSet(q) \ {s}
  BY RemoveFirstFacts
<1>2. ToSet(q) \ gone = ToSet(rest)
  BY <1>1
<1>3. CASE Room(s, q) /\ rest # <<>>
  <2>1. r.queue = Tail(rest) /\ r.flags = flags \ (gone \cup {Head(rest)})
    BY <1>3, RemoveQueuedForm
  <2>2. /\ Tail(rest) \in Seq(Sessions) /\ IsInjective(Tail(rest))
        /\ ToSet(Tail(rest)) = ToSet(rest) \ {Head(rest)}
    BY <1>1, <1>3, TailFacts
  <2> HIDE DEF r, rest, gone
  <2> QED
    BY <1>1, <1>2, <2>1, <2>2 DEF r
<1>4. CASE ~(Room(s, q) /\ rest # <<>>)
  <2>1. r.queue = rest /\ r.flags = flags \ gone
    BY <1>4, RemoveQueuedForm
  <2> HIDE DEF r, rest, gone
  <2> QED
    BY <1>1, <1>2, <2>1 DEF r
<1> QED
  BY <1>3, <1>4

LEMMA RemoveQueuedLength ==
  ASSUME NEW q \in Seq(Sessions), IsInjective(q), NEW s, NEW flags
  PROVE  LET r == RemoveQueuedPlayer(s, q, flags)
             left == IF s \in ToSet(q) THEN Len(q) - 1 ELSE Len(q)
         IN  /\ left \in Nat
             /\ Len(r.queue) = IF Room(s, q) /\ left > 0 THEN left - 1 ELSE left
<1> DEFINE r == RemoveQueuedPlayer(s, q, flags)
           rest == RemoveFirst(q, s)
           left == IF s \in ToSet(q) THEN Len(q) - 1 ELSE Len(q)
<1>1. rest \in Seq(Sessions) /\ IsInjective(rest) /\ Len(rest) = left
  BY RemoveFirstFacts
<1>2. left \in Nat /\ (rest # <<>> <=> left > 0)
  <2> HIDE DEF rest, left
  <2> QED
    BY <1>1
<1>3. CASE Room(s, q) /\ rest # <<>>
  <2>1. r.queue = Tail(rest)
    BY <1>3, RemoveQueuedForm
  <2>2. Len(Tail(rest)) = Len(rest) - 1
    BY <1>1, <1>3, TailFacts
  <2> HIDE DEF r, rest, left
  <2>3. Len(r.queue) = IF Room(s, q) /\ left > 0 THEN left - 1 ELSE left
    BY <1>1, <1>2, <1>3, <2>1, <2>2
  <2> QED
    BY <1>2, <2>3 DEF r, left
<1>4. CASE ~(Room(s, q) /\ rest # <<>>)
  <2>1. r.queue = rest
    BY <1>4, RemoveQueuedForm
  <2> HIDE DEF r, rest, left
  <2>2. Len(r.queue) = IF Room(s, q) /\ left > 0 THEN left - 1 ELSE left
    BY <1>1, <1>2, <1>4, <2>1
  <2> QED
    BY <1>2, <2>2 DEF r, left
<1> QED
  BY <1>3, <1>4

\* Whoever is admitted was the first of those who stay, and those who go on
\* waiting keep their order.
LEMMA RemoveQueuedOrder ==
  ASSUME NEW q \in Seq(Sessions), IsInjective(q), NEW s, NEW flags,
         NEW i \in 1..Len(q), NEW j \in 1..Len(q), i < j
  PROVE  LET r == RemoveQueuedPlayer(s, q, flags)
         IN  /\ q[j] # s /\ q[j] \notin ToSet(r.queue) => q[i] \notin ToSet(r.queue)
             /\ q[i] \in ToSet(r.queue) /\ q[j] \in ToSet(r.queue) =>
                  \E m, n \in 1..Len(r.queue) :
                    m < n /\ r.queue[m] = q[i] /\ r.queue[n] = q[j]
<1> DEFINE r == RemoveQueuedPlayer(s, q, flags)
           rest == RemoveFirst(q, s)
<1>1. /\ rest \in Seq(Sessions) /\ IsInjective(rest) /\ ToSet(rest) = ToSet(q) \ {s}
      /\ q[i] # s /\ q[j] # s =>
           \E m, n \in 1..Len(rest) : m < n /\ rest[m] = q[i] /\ rest[n] = q[j]
  BY RemoveFirstFacts
<1>2. q[i] \in ToSet(q) /\ q[j] \in ToSet(q)
  BY ToSetFacts
<1>3. CASE Room(s, q) /\ rest # <<>>
  <2>1. r.queue = Tail(rest)
    BY <1>3, RemoveQueuedForm
  <2>2. /\ ToSet(Tail(rest)) = ToSet(rest) \ {rest[1]}
        /\ Len(Tail(rest)) = Len(rest) - 1 /\ Len(rest) \in Nat
        /\ \A n \in 1..(Len(rest) - 1) : Tail(rest)[n] = rest[n + 1]
        /\ \A m, n \in 1..Len(rest) : rest[m] = rest[n] => m = n
    <3> HIDE DEF rest
    <3> QED
      BY <1>1, <1>3, TailFacts, ToSetFacts
  <2> HIDE DEF r, rest
  <2>3. ASSUME q[j] # s, q[j] \notin ToSet(r.queue), q[i] \in ToSet(r.queue)
        PROVE  FALSE
    <3>1. q[i] # s /\ q[i] # rest[1] /\ q[j] = rest[1]
      BY <1>1, <1>2, <2>1, <2>2, <2>3
    <3>2. PICK m, n \in 1..Len(rest) : m < n /\ rest[m] = q[i] /\ rest[n] = q[j]
      BY <1>1, <2>3, <3>1
    <3>3. n = 1
      BY <2>2, <3>1, <3>2
    <3> QED
      BY <3>2, <3>3
  <2>4. ASSUME q[i] \in ToSet(r.queue), q[j] \in ToSet(r.queue)
        PROVE  \E m, n \in 1..Len(r.queue) :
                 m < n /\ r.queue[m] = q[i] /\ r.queue[n] = q[j]
    <3>1. q[i] # s /\ q[j] # s /\ q[i] # rest[1] /\ q[j] # rest[1]
      BY <1>1, <2>1, <2>2, <2>4
    <3>2. PICK m, n \in 1..Len(rest) : m < n /\ rest[m] = q[i] /\ rest[n] = q[j]
      BY <1>1, <3>1
    <3>3. m # 1 /\ n # 1
      BY <3>1, <3>2
    <3>4. /\ m - 1 \in 1..(Len(rest) - 1) /\ n - 1 \in 1..(Len(rest) - 1) /\ m - 1 < n - 1
          /\ m - 1 + 1 = m /\ n - 1 + 1 = n
      BY <2>2, <3>2, <3>3
    <3>5. Tail(rest)[m - 1] = q[i] /\ Tail(rest)[n - 1] = q[j]
      BY <2>2, <3>2, <3>4
    <3> QED
      BY <2>1, <2>2, <3>4, <3>5
  <2> QED
    BY <2>3, <2>4 DEF r
<1>4. CASE ~(Room(s, q) /\ rest # <<>>)
  <2>1. r.queue = rest
    BY <1>4, RemoveQueuedForm
  <2> HIDE DEF r, rest
  <2> QED
    BY <1>1, <1>2, <2>1 DEF r
<1> QED
  BY <1>3, <1>4

-----------------------------------------------------------------------------
(* m_sessions.                                                             *)

LEMMA ListedReplace ==
  ASSUME IInv, NEW s \in Sessions, m_sessions' = [m_sessions EXCEPT ![AccountOf[s]] = s]
  PROVE  /\ Listed' = (Listed \ {m_sessions[AccountOf[s]]}) \cup {s}
         /\ m_sessions' \in [Accounts -> Sessions \cup {NoSession}]
         /\ \A a \in Accounts : m_sessions'[a] # NoSession => AccountOf[m_sessions'[a]] = a
<1> DEFINE old == m_sessions[AccountOf[s]]
<1>1. /\ m_sessions \in [Accounts -> Sessions \cup {NoSession}] /\ AccountOf[s] \in Accounts
      /\ \A a \in Accounts : m_sessions[a] # NoSession => AccountOf[m_sessions[a]] = a
  BY DEF IInv, QueueTypes, ListInv
<1>2. ASSUME NEW t \in Sessions PROVE t \in Listed' <=> (t \in Listed /\ t # old) \/ t = s
  BY <1>1 DEF Listed
<1>3. Listed \subseteq Sessions /\ Listed' \subseteq Sessions
  BY DEF Listed
<1> QED
  BY <1>1, <1>2, <1>3

LEMMA ListedErase ==
  ASSUME IInv, NEW a \in Accounts, m_sessions' = [m_sessions EXCEPT ![a] = NoSession]
  PROVE  /\ Listed' = Listed \ {m_sessions[a]}
         /\ m_sessions' \in [Accounts -> Sessions \cup {NoSession}]
         /\ \A b \in Accounts : m_sessions'[b] # NoSession => AccountOf[m_sessions'[b]] = b
<1>1. /\ m_sessions \in [Accounts -> Sessions \cup {NoSession}]
      /\ \A b \in Accounts : m_sessions[b] # NoSession => AccountOf[m_sessions[b]] = b
  BY DEF IInv, QueueTypes, ListInv
<1>2. ASSUME NEW t \in Sessions PROVE t \in Listed' <=> (t \in Listed /\ t # m_sessions[a])
  BY <1>1 DEF Listed
<1>3. Listed \subseteq Sessions /\ Listed' \subseteq Sessions
  BY DEF Listed
<1> QED
  BY <1>1, <1>2, <1>3

\* The session at the head of addSessQueue is new.
LEMMA HeadFacts ==
  ASSUME IInv, addSessQueue # <<>>, addSessQueue' = Tail(addSessQueue)
  PROVE  /\ Head(addSessQueue) \in Sessions /\ Head(addSessQueue) \in Pending
         /\ Head(addSessQueue) \notin Listed /\ Head(addSessQueue) \notin deleted
         /\ addSessQueue' \in Seq(Sessions) /\ IsInjective(addSessQueue')
         /\ Pending' = Pending \ {Head(addSessQueue)}
<1>1. addSessQueue \in Seq(Sessions) /\ IsInjective(addSessQueue)
  BY DEF IInv, QueueTypes, ListInv
<1>2. /\ Head(addSessQueue) \in Sessions /\ Head(addSessQueue) \in ToSet(addSessQueue)
      /\ Tail(addSessQueue) \in Seq(Sessions) /\ IsInjective(Tail(addSessQueue))
      /\ ToSet(Tail(addSessQueue)) = ToSet(addSessQueue) \ {Head(addSessQueue)}
  BY <1>1, TailFacts
<1> QED
  BY <1>2 DEF Pending, IInv, NoDangling

-----------------------------------------------------------------------------
(* The invariant.                                                          *)

LEMMA InitIInv == Init => IInv
<1> SUFFICES ASSUME Init PROVE IInv
  OBVIOUS
<1>1. Listed = {} /\ Pending = {} /\ Queued = {}
  <2>1. Pending = {} /\ Queued = {}
    BY DEF Init, Pending, Queued, ToSet
  <2>2. Listed = {}
    BY DEF Init, Listed
  <2> QED
    BY <2>1, <2>2
<1>2. QueueTypes
  BY DEF Init, QueueTypes
<1>3. ListInv
  BY <1>1, FS_EmptySet DEF Init, ListInv, IsInjective
<1>4. NoDangling
  BY <1>1 DEF Init, NoDangling, IsInjective
<1>5. FlagMeansQueued
  BY <1>1 DEF Init, FlagMeansQueued
<1> QED
  BY <1>2, <1>3, <1>4, <1>5 DEF IInv

\* Steps that touch no list of sessions.
LEMMA FrameStep ==
  ASSUME IInv, closed' \subseteq Sessions, m_playerLimit' \in realm.limits,
         UNCHANGED <<realm, addSessQueue, m_sessions, m_QueuedPlayer, m_inQueue, deleted,
                     kicked>>
  PROVE  IInv'
<1>1. Listed' = Listed /\ Pending' = Pending /\ Queued' = Queued
  BY DEF Listed, Pending, Queued
<1>2. QueueTypes'
  BY DEF IInv, QueueTypes
<1>3. ListInv' /\ NoDangling'
  BY <1>1 DEF IInv, ListInv, NoDangling
<1>4. FlagMeansQueued'
  BY <1>1 DEF IInv, FlagMeansQueued
<1> QED
  BY <1>2, <1>3, <1>4 DEF IInv

LEMMA AddSessionStep ==
  ASSUME IInv, NEW s \in Sessions, AddSession(s)
  PROVE  IInv'
<1>0. /\ addSessQueue' = Append(addSessQueue, s) /\ s \notin Pending \cup Listed \cup deleted
      /\ UNCHANGED <<realm, m_sessions, m_QueuedPlayer, m_inQueue, closed, deleted,
                     m_playerLimit, kicked>>
  BY DEF AddSession
<1>1. /\ addSessQueue' \in Seq(Sessions) /\ IsInjective(addSessQueue')
      /\ Pending' = Pending \cup {s}
  <2>1. addSessQueue \in Seq(Sessions) /\ IsInjective(addSessQueue)
    BY DEF IInv, QueueTypes, ListInv
  <2> QED
    BY <1>0, <2>1, AppendFacts DEF Pending
<1>2. Listed' = Listed /\ Queued' = Queued
  BY <1>0 DEF Listed, Queued
<1>3. QueueTypes'
  BY <1>0, <1>1 DEF IInv, QueueTypes
<1>4. ListInv' /\ NoDangling'
  BY <1>0, <1>1, <1>2 DEF IInv, ListInv, NoDangling
<1>5. FlagMeansQueued'
  BY <1>0, <1>2 DEF IInv, FlagMeansQueued
<1> QED
  BY <1>3, <1>4, <1>5 DEF IInv

LEMMA AddSessionRefusedStep ==
  ASSUME IInv, AddSessionRefused
  PROVE  IInv'
<1> DEFINE s == Head(addSessQueue)
<1>0. /\ addSessQueue # <<>> /\ addSessQueue' = Tail(addSessQueue)
      /\ deleted' = deleted \cup {s} /\ closed' \subseteq closed
      /\ UNCHANGED <<realm, m_sessions, m_QueuedPlayer, m_inQueue, m_playerLimit, kicked>>
  BY DEF AddSessionRefused, Delete
<1>1. /\ s \notin Listed /\ addSessQueue' \in Seq(Sessions) /\ IsInjective(addSessQueue')
      /\ Pending' = Pending \ {s}
  BY <1>0, HeadFacts
<1> HIDE DEF s
<1>2. Listed' = Listed /\ Queued' = Queued
  BY <1>0 DEF Listed, Queued
<1>3. QueueTypes'
  BY <1>0, <1>1 DEF IInv, QueueTypes
<1>4. ListInv' /\ NoDangling'
  BY <1>0, <1>1, <1>2 DEF IInv, ListInv, NoDangling
<1>5. FlagMeansQueued'
  BY <1>0, <1>2 DEF IInv, FlagMeansQueued
<1> QED
  BY <1>3, <1>4, <1>5 DEF IInv

\* What AddSession_ starts from once the old session is out of the queue.
Replaced(s) ==
  IF m_sessions[AccountOf[s]] = NoSession
  THEN [found |-> FALSE, queue |-> m_QueuedPlayer, flags |-> m_inQueue]
  ELSE RemoveQueuedPlayer(m_sessions[AccountOf[s]], m_QueuedPlayer, m_inQueue)

LEMMA ReplacedFacts ==
  ASSUME IInv, NEW s \in Sessions, s \notin Listed
  PROVE  LET r == Replaced(s)
         IN  /\ r.queue \in Seq(Sessions) /\ IsInjective(r.queue)
             /\ ToSet(r.queue) \subseteq Queued \ {m_sessions[AccountOf[s]]}
             /\ s \notin ToSet(r.queue)
             /\ m_inQueue = Queued => r.flags = ToSet(r.queue)
<1> DEFINE old == m_sessions[AccountOf[s]]
           r == Replaced(s)
<1>1. /\ m_QueuedPlayer \in Seq(Sessions) /\ IsInjective(m_QueuedPlayer)
      /\ ToSet(m_QueuedPlayer) \subseteq Listed /\ Listed \subseteq Sessions
  BY DEF IInv, QueueTypes, NoDangling, Queued, Listed
<1>2. CASE old = NoSession
  <2>1. r.queue = m_QueuedPlayer /\ r.flags = m_inQueue
    BY <1>2 DEF Replaced
  <2> HIDE DEF r, old
  <2> QED
    BY <1>1, <1>2, <2>1 DEF Queued, r, old
<1>3. CASE old # NoSession
  <2>1. r = RemoveQueuedPlayer(old, m_QueuedPlayer, m_inQueue)
    BY <1>3 DEF Replaced
  <2>2. /\ r.queue \in Seq(Sessions) /\ IsInjective(r.queue)
        /\ ToSet(r.queue) \subseteq ToSet(m_QueuedPlayer) \ {old}
        /\ m_inQueue = ToSet(m_QueuedPlayer) => r.flags = ToSet(r.queue)
    BY <1>1, <2>1, RemoveQueuedFacts
  <2> HIDE DEF r, old
  <2> QED
    BY <1>1, <2>2 DEF Queued, r, old
<1> QED
  BY <1>2, <1>3

LEMMA AddSession_Form ==
  ASSUME IInv, AddSession_
  PROVE  \E s \in Sessions :
           /\ s = Head(addSessQueue) /\ s \notin Listed /\ s \notin deleted
           /\ Listed' = (Listed \ {m_sessions[AccountOf[s]]}) \cup {s}
           /\ IF /\ m_playerLimit > 0 /\ MayBeQueued(s)
                 /\ (IF Replaced(s).found THEN Cardinality(Listed') * RateOnline
                      ELSE Cardinality(Listed') * RateOnline - 1) >= m_playerLimit
              THEN /\ m_QueuedPlayer' = Append(Replaced(s).queue, s)
                   /\ m_inQueue' = Replaced(s).flags \cup {s}
              ELSE /\ m_QueuedPlayer' = Replaced(s).queue
                   /\ m_inQueue' = Replaced(s).flags
<1>0. addSessQueue # <<>> /\ addSessQueue' = Tail(addSessQueue)
  BY DEF AddSession_
<1>1. PICK s \in Sessions : s = Head(addSessQueue) /\ s \notin Listed /\ s \notin deleted
  BY <1>0, HeadFacts
<1>2. m_sessions' = [m_sessions EXCEPT ![AccountOf[s]] = s]
  BY <1>1 DEF AddSession_
<1>3. Listed' = (Listed \ {m_sessions[AccountOf[s]]}) \cup {s}
  BY <1>2, ListedReplace
<1>4. IF /\ m_playerLimit > 0 /\ MayBeQueued(s)
         /\ (IF Replaced(s).found THEN Cardinality(Listed') * RateOnline
              ELSE Cardinality(Listed') * RateOnline - 1) >= m_playerLimit
      THEN /\ m_QueuedPlayer' = Append(Replaced(s).queue, s)
           /\ m_inQueue' = Replaced(s).flags \cup {s}
      ELSE /\ m_QueuedPlayer' = Replaced(s).queue
           /\ m_inQueue' = Replaced(s).flags
  BY <1>1, Zenon DEF AddSession_, Replaced
<1> QED
  BY <1>1, <1>3, <1>4

LEMMA AddSession_Step ==
  ASSUME IInv, AddSession_
  PROVE  IInv'
<1>0. /\ addSessQueue # <<>> /\ addSessQueue' = Tail(addSessQueue)
      /\ UNCHANGED <<realm, m_playerLimit, kicked>>
  BY DEF AddSession_
<1>1. PICK s \in Sessions :
        /\ s = Head(addSessQueue) /\ s \notin Listed /\ s \notin deleted
        /\ Listed' = (Listed \ {m_sessions[AccountOf[s]]}) \cup {s}
        /\ \/ /\ m_QueuedPlayer' = Append(Replaced(s).queue, s)
              /\ m_inQueue' = Replaced(s).flags \cup {s}
           \/ /\ m_QueuedPlayer' = Replaced(s).queue
              /\ m_inQueue' = Replaced(s).flags
  BY AddSession_Form
<1> DEFINE old == m_sessions[AccountOf[s]]
           r == Replaced(s)
<1>2. /\ r.queue \in Seq(Sessions) /\ IsInjective(r.queue)
      /\ ToSet(r.queue) \subseteq Queued \ {old} /\ s \notin ToSet(r.queue)
      /\ m_inQueue = Queued => r.flags = ToSet(r.queue)
  BY <1>1, ReplacedFacts
<1>3. /\ addSessQueue' \in Seq(Sessions) /\ IsInjective(addSessQueue')
      /\ Pending' = Pending \ {s} /\ s \in Pending
  BY <1>0, <1>1, HeadFacts
<1>4. /\ m_sessions' = [m_sessions EXCEPT ![AccountOf[s]] = s]
      /\ deleted' = deleted \cup ({old} \ {NoSession}) /\ closed' \subseteq closed
  BY <1>1 DEF AddSession_, Delete
<1>5. /\ m_sessions' \in [Accounts -> Sessions \cup {NoSession}]
      /\ \A a \in Accounts : m_sessions'[a] # NoSession => AccountOf[m_sessions'[a]] = a
  BY <1>4, ListedReplace
<1>6. old # NoSession => old \in Listed /\ old \notin Pending
  <2>1. old # NoSession => old \in Sessions /\ AccountOf[old] = AccountOf[s]
    BY DEF IInv, QueueTypes, ListInv
  <2> QED
    BY <2>1 DEF Listed, IInv, NoDangling
<1> HIDE DEF r, old
<1>7. /\ m_QueuedPlayer' \in Seq(Sessions) /\ IsInjective(m_QueuedPlayer')
      /\ \/ Queued' = ToSet(r.queue) /\ m_inQueue' = r.flags
         \/ Queued' = ToSet(r.queue) \cup {s} /\ m_inQueue' = r.flags \cup {s}
  <2>1. CASE m_QueuedPlayer' = r.queue /\ m_inQueue' = r.flags
    BY <1>2, <2>1 DEF Queued
  <2>2. CASE m_QueuedPlayer' = Append(r.queue, s) /\ m_inQueue' = r.flags \cup {s}
    BY <1>2, <2>2, AppendFacts DEF Queued
  <2> QED
    BY <1>1, <2>1, <2>2 DEF r
<1>8. QueueTypes'
  BY <1>0, <1>3, <1>4, <1>5, <1>7 DEF IInv, QueueTypes
<1>9. ListInv'
  <2>1. IsFiniteSet(Listed \ {old})
    BY FS_RemoveElement DEF IInv, ListInv
  <2>2. IsFiniteSet((Listed \ {old}) \cup {s})
    BY <2>1, FS_AddElement
  <2> QED
    BY <1>1, <1>3, <1>5, <2>2 DEF ListInv, old
<1>10. NoDangling'
  <2>1. Queued \subseteq Listed /\ (Listed \cup Pending) \cap deleted = {}
        /\ Listed \cap Pending = {} /\ Listed' = (Listed \ {old}) \cup {s}
    BY <1>1 DEF IInv, NoDangling, old
  <2>2. Queued' \subseteq Listed'
    BY <1>2, <1>7, <2>1
  <2>3. (Listed' \cup Pending') \cap deleted' = {} /\ Listed' \cap Pending' = {}
    BY <1>1, <1>3, <1>4, <1>6, <2>1
  <2> QED
    BY <1>7, <2>2, <2>3 DEF NoDangling
<1>11. FlagMeansQueued'
  <2>1. m_inQueue = Queued => m_inQueue' = Queued'
    BY <1>2, <1>7
  <2> QED
    BY <1>0, <2>1 DEF IInv, FlagMeansQueued
<1> QED
  BY <1>8, <1>9, <1>10, <1>11 DEF IInv

LEMMA RemoveInactiveForm ==
  ASSUME IInv, NEW a \in Accounts, RemoveInactive(a)
  PROVE  LET s == m_sessions[a]
             r1 == RemoveQueuedPlayer(s, m_QueuedPlayer, m_inQueue)
             r2 == RemoveQueuedPlayer(s, r1.queue, r1.flags)
         IN  /\ s \in Listed /\ Listed' = Listed \ {s}
             /\ m_QueuedPlayer' = r2.queue /\ m_inQueue' = r2.flags
             /\ r1.queue \in Seq(Sessions) /\ IsInjective(r1.queue)
             /\ ToSet(r1.queue) \subseteq Queued \ {s}
             /\ m_QueuedPlayer' \in Seq(Sessions) /\ IsInjective(m_QueuedPlayer')
             /\ Queued' \subseteq Queued \ {s}
             /\ m_inQueue = Queued => m_inQueue' = Queued'
<1> DEFINE s == m_sessions[a]
           r1 == RemoveQueuedPlayer(s, m_QueuedPlayer, m_inQueue)
           r2 == RemoveQueuedPlayer(s, r1.queue, r1.flags)
<1>1. s \in Listed /\ Listed' = Listed \ {s}
  <2>1. s \in Sessions /\ s # NoSession
    BY DEF RemoveInactive, IInv, QueueTypes
  <2>2. s \in Listed
    BY <2>1 DEF IInv, ListInv, Listed
  <2> QED
    BY <2>2, ListedErase DEF RemoveInactive
<1>2. m_QueuedPlayer' = r2.queue /\ m_inQueue' = r2.flags
  BY DEF RemoveInactive
<1>3. m_QueuedPlayer \in Seq(Sessions) /\ IsInjective(m_QueuedPlayer)
  BY DEF IInv, QueueTypes, NoDangling
<1>4. /\ r1.queue \in Seq(Sessions) /\ IsInjective(r1.queue)
      /\ ToSet(r1.queue) \subseteq ToSet(m_QueuedPlayer) \ {s}
      /\ m_inQueue = ToSet(m_QueuedPlayer) => r1.flags = ToSet(r1.queue)
  BY <1>3, RemoveQueuedFacts
<1> HIDE DEF r1
<1>5. /\ r2.queue \in Seq(Sessions) /\ IsInjective(r2.queue)
      /\ ToSet(r2.queue) \subseteq ToSet(r1.queue) \ {s}
      /\ r1.flags = ToSet(r1.queue) => r2.flags = ToSet(r2.queue)
  <2>1. PICK q, f : q = r1.queue /\ f = r1.flags
    OBVIOUS
  <2>2. q \in Seq(Sessions) /\ IsInjective(q)
    BY <1>4, <2>1
  <2>3. LET r == RemoveQueuedPlayer(s, q, f)
        IN  /\ r.queue \in Seq(Sessions) /\ IsInjective(r.queue)
            /\ ToSet(r.queue) \subseteq ToSet(q) \ {s}
            /\ f = ToSet(q) => r.flags = ToSet(r.queue)
    BY <2>2, RemoveQueuedFacts
  <2> QED
    BY <2>1, <2>3
<1> HIDE DEF r2, s
<1>6. Queued' = ToSet(r2.queue) /\ Queued = ToSet(m_QueuedPlayer)
  BY <1>2 DEF Queued
<1> QED
  BY <1>1, <1>2, <1>4, <1>5, <1>6 DEF s, r1, r2

LEMMA RemoveInactiveStep ==
  ASSUME IInv, NEW a \in Accounts, RemoveInactive(a)
  PROVE  IInv'
<1>s. PICK s : s = m_sessions[a]
  OBVIOUS
<1>0. /\ UNCHANGED <<realm, addSessQueue, m_playerLimit, kicked>>
      /\ m_sessions' = [m_sessions EXCEPT ![a] = NoSession]
      /\ deleted' = deleted \cup {s} /\ closed' \subseteq closed
  BY <1>s DEF RemoveInactive, Delete
<1>1. /\ s \in Listed /\ Listed' = Listed \ {s}
      /\ m_QueuedPlayer' \in Seq(Sessions) /\ IsInjective(m_QueuedPlayer')
      /\ Queued' \subseteq Queued \ {s}
      /\ m_inQueue = Queued => m_inQueue' = Queued'
  BY <1>s, RemoveInactiveForm
<1>2. /\ m_sessions' \in [Accounts -> Sessions \cup {NoSession}]
      /\ \A b \in Accounts : m_sessions'[b] # NoSession => AccountOf[m_sessions'[b]] = b
  BY <1>0, ListedErase
<1>3. Pending' = Pending
  BY <1>0 DEF Pending
<1>4. QueueTypes'
  BY <1>0, <1>1, <1>2 DEF IInv, QueueTypes
<1>5. ListInv'
  <2>1. IsFiniteSet(Listed \ {s})
    BY FS_RemoveElement DEF IInv, ListInv
  <2> QED
    BY <1>0, <1>1, <1>2, <2>1 DEF IInv, ListInv
<1>6. NoDangling'
  BY <1>0, <1>1, <1>3 DEF IInv, NoDangling
<1>7. FlagMeansQueued'
  BY <1>0, <1>1 DEF IInv, FlagMeansQueued
<1> QED
  BY <1>4, <1>5, <1>6, <1>7 DEF IInv

LEMMA KickAllStep ==
  ASSUME IInv, KickAll
  PROVE  IInv'
<1>0. /\ m_QueuedPlayer' = <<>> /\ closed' = closed \cup Listed /\ kicked' = TRUE
      /\ UNCHANGED <<realm, addSessQueue, m_sessions, deleted, m_playerLimit>>
  BY DEF KickAll
<1>1. Listed' = Listed /\ Pending' = Pending /\ Queued' = {} /\ Listed \subseteq Sessions
  BY <1>0 DEF Listed, Pending, Queued, ToSet
<1>2. QueueTypes'
  BY <1>0, <1>1 DEF IInv, QueueTypes
<1>3. ListInv'
  BY <1>0, <1>1 DEF IInv, ListInv
<1>4. NoDangling'
  BY <1>0, <1>1 DEF IInv, NoDangling, IsInjective
<1>5. FlagMeansQueued'
  BY <1>0 DEF FlagMeansQueued
<1> QED
  BY <1>2, <1>3, <1>4, <1>5 DEF IInv

LEMMA OtherSteps ==
  ASSUME IInv,
         \/ \E s \in Sessions : CloseSocket(s)
         \/ StartUpdateSessions \/ AddingDone \/ UpdateSessionsDone
         \/ \E a \in Accounts : UpdateSession(a)
         \/ \E n \in realm.limits : SetPlayerAmountLimit(n)
         \/ UNCHANGED vars
  PROVE  /\ IInv'
         /\ UNCHANGED <<realm, addSessQueue, m_sessions, m_QueuedPlayer, m_inQueue,
                        deleted, kicked>>
<1>1. closed \subseteq Sessions /\ m_playerLimit \in realm.limits
  BY DEF IInv, QueueTypes
<1>2. /\ closed' \subseteq Sessions /\ m_playerLimit' \in realm.limits
      /\ UNCHANGED <<realm, addSessQueue, m_sessions, m_QueuedPlayer, m_inQueue, deleted,
                     kicked>>
  BY <1>1 DEF CloseSocket, StartUpdateSessions, AddingDone, UpdateSessionsDone,
              UpdateSession, SetPlayerAmountLimit, vars
<1> QED
  BY <1>2, FrameStep

LEMMA NextStep == IInv /\ [Next]_vars => IInv'
<1> SUFFICES ASSUME IInv, [Next]_vars PROVE IInv'
  OBVIOUS
<1>1. CASE WorldStep
  BY <1>1, AddSessionRefusedStep, AddSession_Step, RemoveInactiveStep, OtherSteps
  DEF WorldStep
<1>2. ASSUME NEW s \in Sessions, AddSession(s) \/ CloseSocket(s) PROVE IInv'
  BY <1>2, AddSessionStep, OtherSteps
<1>3. CASE KickAll
  BY <1>3, KickAllStep
<1>4. CASE (\E n \in realm.limits : SetPlayerAmountLimit(n)) \/ UNCHANGED vars
  BY <1>4, OtherSteps
<1> QED
  BY <1>1, <1>2, <1>3, <1>4 DEF Next

LEMMA SpecIInv == Spec => []IInv
  BY InitIInv, NextStep, PTL DEF Spec

\* World never keeps a pointer to a session that RemoveSession, AddSession_ or
\* UpdateSessions has deleted, and the queue never holds a session twice.
THEOREM SpecNoDangling == Spec => []NoDangling
<1>1. IInv => NoDangling
  BY DEF IInv
<1> QED
  BY <1>1, SpecIInv, PTL

\* The flag m_inQueue of WorldSession and m_QueuedPlayer of World agree until
\* KickAll.
THEOREM SpecFlagMeansQueued == Spec => []FlagMeansQueued
<1>1. IInv => FlagMeansQueued
  BY DEF IInv
<1> QED
  BY <1>1, SpecIInv, PTL

-----------------------------------------------------------------------------
(* First come, first served.                                               *)

AdmitsInOrder ==
  \A i, j \in 1..Len(m_QueuedPlayer) :
    i < j /\ m_QueuedPlayer[j] \notin Queued' /\ m_QueuedPlayer[j] \in Listed'
      => m_QueuedPlayer[i] \notin Queued' \/ kicked'

\* A step that leaves the queue as it is, or makes it longer, admits nobody.
LEMMA OrderKept ==
  ASSUME IInv, Queued \subseteq Queued'
  PROVE  AdmitsInOrder
<1>1. m_QueuedPlayer \in Seq(Sessions)
  BY DEF IInv, QueueTypes
<1>2. \A j \in 1..Len(m_QueuedPlayer) : m_QueuedPlayer[j] \in Queued
  BY <1>1, ToSetFacts DEF Queued
<1> QED
  BY <1>2 DEF AdmitsInOrder

LEMMA AddSession_Order ==
  ASSUME IInv, AddSession_
  PROVE  AdmitsInOrder
<1>1. PICK s \in Sessions :
        /\ s \notin Listed
        /\ Listed' = (Listed \ {m_sessions[AccountOf[s]]}) \cup {s}
        /\ m_QueuedPlayer' \in {Append(Replaced(s).queue, s), Replaced(s).queue}
  BY AddSession_Form
<1> DEFINE old == m_sessions[AccountOf[s]]
           r == Replaced(s)
<1>2. r.queue \in Seq(Sessions) /\ s \notin ToSet(r.queue)
  BY <1>1, ReplacedFacts
<1>3. Queued' \in {ToSet(r.queue), ToSet(r.queue) \cup {s}}
  <2> HIDE DEF r
  <2>1. m_QueuedPlayer' \in {Append(r.queue, s), r.queue}
    BY <1>1 DEF r
  <2> QED
    BY <1>2, <2>1, AppendFacts DEF Queued
<1>4. CASE old = NoSession
  <2>1. r.queue = m_QueuedPlayer
    BY <1>4 DEF Replaced
  <2> QED
    BY <1>3, <2>1, OrderKept DEF Queued
<1>5. CASE old # NoSession
  <2>1. r = RemoveQueuedPlayer(old, m_QueuedPlayer, m_inQueue)
    BY <1>5 DEF Replaced
  <2>2. m_QueuedPlayer \in Seq(Sessions) /\ IsInjective(m_QueuedPlayer) /\ Queued \subseteq Listed
    BY DEF IInv, QueueTypes, NoDangling
  <2> SUFFICES ASSUME NEW i \in 1..Len(m_QueuedPlayer), NEW j \in 1..Len(m_QueuedPlayer), i < j,
                      m_QueuedPlayer[j] \notin Queued', m_QueuedPlayer[j] \in Listed'
               PROVE  m_QueuedPlayer[i] \notin Queued'
    BY DEF AdmitsInOrder
  <2>3. /\ m_QueuedPlayer[i] \in Listed /\ m_QueuedPlayer[j] \in Listed
        /\ m_QueuedPlayer[i] # s /\ m_QueuedPlayer[j] # s /\ m_QueuedPlayer[j] # old
    <3>1. m_QueuedPlayer[i] \in Queued /\ m_QueuedPlayer[j] \in Queued
      BY <2>2, ToSetFacts DEF Queued
    <3> QED
      BY <1>1, <2>2, <3>1
  <2>4. m_QueuedPlayer[j] \notin ToSet(r.queue) => m_QueuedPlayer[i] \notin ToSet(r.queue)
    BY <2>1, <2>2, <2>3, RemoveQueuedOrder
  <2> HIDE DEF r, old
  <2> QED
    BY <1>3, <2>3, <2>4
<1> QED
  BY <1>4, <1>5

LEMMA RemoveInactiveOrder ==
  ASSUME IInv, NEW a \in Accounts, RemoveInactive(a)
  PROVE  AdmitsInOrder
<1> DEFINE s == m_sessions[a]
           r1 == RemoveQueuedPlayer(s, m_QueuedPlayer, m_inQueue)
           r2 == RemoveQueuedPlayer(s, r1.queue, r1.flags)
<1>1. /\ Listed' = Listed \ {s} /\ m_QueuedPlayer' = r2.queue
      /\ r1.queue \in Seq(Sessions) /\ IsInjective(r1.queue)
  BY RemoveInactiveForm
<1>2. m_QueuedPlayer \in Seq(Sessions) /\ IsInjective(m_QueuedPlayer)
  BY DEF IInv, QueueTypes, NoDangling
<1> SUFFICES ASSUME NEW i \in 1..Len(m_QueuedPlayer), NEW j \in 1..Len(m_QueuedPlayer), i < j,
                    m_QueuedPlayer[j] \notin Queued', m_QueuedPlayer[j] \in Listed'
             PROVE  m_QueuedPlayer[i] \notin Queued'
  BY DEF AdmitsInOrder
<1>x. PICK x, y : x = m_QueuedPlayer[i] /\ y = m_QueuedPlayer[j]
  OBVIOUS
<1>3. y # s /\ Queued' = ToSet(r2.queue) /\ y \notin ToSet(r2.queue)
  BY <1>1, <1>x DEF Queued
<1>4. /\ y \notin ToSet(r1.queue) => x \notin ToSet(r1.queue)
      /\ x \in ToSet(r1.queue) /\ y \in ToSet(r1.queue) =>
           \E m, n \in 1..Len(r1.queue) : m < n /\ r1.queue[m] = x /\ r1.queue[n] = y
  BY <1>2, <1>3, <1>x, RemoveQueuedOrder
<1>q. PICK q, f : q = r1.queue /\ f = r1.flags
  OBVIOUS
<1> HIDE DEF r1
<1>5. /\ ToSet(r2.queue) \subseteq ToSet(r1.queue)
      /\ \A m, n \in 1..Len(q) : m < n /\ q[n] # s /\ q[n] \notin ToSet(r2.queue)
           => q[m] \notin ToSet(r2.queue)
  <2>1. q \in Seq(Sessions) /\ IsInjective(q)
    BY <1>1, <1>q
  <2>2. r2 = RemoveQueuedPlayer(s, q, f)
    BY <1>q
  <2>3. ToSet(r2.queue) \subseteq ToSet(q)
    BY <2>1, <2>2, RemoveQueuedFacts
  <2> QED
    BY <1>q, <2>1, <2>2, <2>3, RemoveQueuedOrder
<1> HIDE DEF r2, s
<1>6. CASE x \in ToSet(r1.queue) /\ y \in ToSet(r1.queue)
  <2>1. PICK m, n \in 1..Len(q) : m < n /\ q[m] = x /\ q[n] = y
    BY <1>4, <1>6, <1>q
  <2>2. x \notin ToSet(r2.queue)
    BY <1>3, <1>5, <2>1
  <2> QED
    BY <1>3, <1>x, <2>2
<1>7. CASE ~(x \in ToSet(r1.queue) /\ y \in ToSet(r1.queue))
  <2>1. x \notin ToSet(r1.queue)
    BY <1>4, <1>7
  <2> QED
    BY <1>3, <1>5, <1>x, <2>1
<1> QED
  BY <1>6, <1>7

LEMMA NextOrder ==
  ASSUME IInv, [Next]_vars
  PROVE  AdmitsInOrder
<1>1. CASE KickAll
  BY <1>1 DEF KickAll, AdmitsInOrder
<1>2. ASSUME NEW s \in Sessions, AddSession(s) PROVE AdmitsInOrder
  BY <1>2, OrderKept DEF AddSession, Queued
<1>3. CASE AddSessionRefused
  BY <1>3, OrderKept DEF AddSessionRefused, Queued
<1>4. CASE AddSession_
  BY <1>4, AddSession_Order
<1>5. ASSUME NEW a \in Accounts, RemoveInactive(a) PROVE AdmitsInOrder
  BY <1>5, RemoveInactiveOrder
<1>6. CASE \/ \E s \in Sessions : CloseSocket(s)
           \/ StartUpdateSessions \/ AddingDone \/ UpdateSessionsDone
           \/ \E a \in Accounts : UpdateSession(a)
           \/ \E n \in realm.limits : SetPlayerAmountLimit(n)
           \/ UNCHANGED vars
  BY <1>6, OtherSteps, OrderKept DEF Queued
<1> QED
  BY <1>1, <1>2, <1>3, <1>4, <1>5, <1>6 DEF Next, WorldStep

\* RemoveQueuedPlayer admits in the order in which AddQueuedPlayer queued,
\* also when it is called twice for one session or from AddSession_.
THEOREM SpecAdmittedInOrder == Spec => AdmittedInOrder
<1>1. IInv /\ [Next]_vars =>
        [\A i, j \in 1..Len(m_QueuedPlayer) :
           i < j /\ m_QueuedPlayer[j] \notin Queued' /\ m_QueuedPlayer[j] \in Listed'
             => m_QueuedPlayer[i] \notin Queued' \/ kicked']_vars
  BY NextOrder DEF AdmitsInOrder
<1> QED
  BY <1>1, SpecIInv, PTL DEF Spec, AdmittedInOrder

-----------------------------------------------------------------------------
(* The limit of players.                                                   *)

LEMMA Outside ==
  ASSUME NEW q \in Seq(Sessions), IsInjective(q),
         NEW S, IsFiniteSet(S), ToSet(q) \subseteq S
  PROVE  /\ Cardinality(S) \in Nat /\ Len(q) \in Nat
         /\ IsFiniteSet(S \ ToSet(q)) /\ Cardinality(S \ ToSet(q)) \in Nat
         /\ Cardinality(S \ ToSet(q)) = Cardinality(S) - Len(q)
<1>1. Cardinality(ToSet(q)) = Len(q)
  <2>1. IsFiniteSet(1..Len(q)) /\ Cardinality(1..Len(q)) = Len(q)
    <3>1. Len(q) \in Nat /\ 1 \in Int /\ Len(q) \in Int
      BY ToSetFacts
    <3>2. /\ IsFiniteSet(1..Len(q))
          /\ Cardinality(1..Len(q)) = IF 1 > Len(q) THEN 0 ELSE Len(q) - 1 + 1
      BY <3>1, FS_Interval
    <3> QED
      BY <3>1, <3>2
  <2>2. q \in [1..Len(q) -> ToSet(q)]
    BY ToSetFacts
  <2>3. q \in Bijection(1..Len(q), ToSet(q))
    BY <2>2, ToSetFacts DEF Bijection, Injection, Surjection, IsInjective
  <2>4. ExistsBijection(1..Len(q), ToSet(q))
    BY <2>3 DEF ExistsBijection
  <2> QED
    BY <2>1, <2>4, FS_Bijection
<1>2. S \cap ToSet(q) = ToSet(q)
  OBVIOUS
<1>3. IsFiniteSet(S \ ToSet(q)) /\ Cardinality(S \ ToSet(q)) = Cardinality(S) - Cardinality(S \cap ToSet(q))
  BY FS_Difference
<1> QED
  BY <1>1, <1>2, <1>3, FS_CardinalityType, ToSetFacts

LEMMA LimitIsNat ==
  ASSUME IInv
  PROVE  m_playerLimit \in Nat
  BY DEF IInv, QueueTypes

\* Either nobody is admitted in the place of s, or the number of those who
\* are then not queued has been compared with the limit.
LEMMA AdmissionChecked ==
  ASSUME IInv, m_playerLimit > 0, NEW s \in Listed, NEW flags,
         NEW q \in Seq(Sessions), IsInjective(q), ToSet(q) \subseteq Listed
  PROVE  LET r == RemoveQueuedPlayer(s, q, flags)
         IN  \/ ToSet(r.queue) = ToSet(q) \ {s}
             \/ /\ IsFiniteSet((Listed \ {s}) \ ToSet(r.queue))
                /\ Cardinality((Listed \ {s}) \ ToSet(r.queue)) <= m_playerLimit
<1> DEFINE r == RemoveQueuedPlayer(s, q, flags)
           rest == RemoveFirst(q, s)
           N == Cardinality(Listed)
           k == Len(q)
           left == IF s \in ToSet(q) THEN k - 1 ELSE k
<1>1. CASE ~(Room(s, q) /\ rest # <<>>)
  <2>1. r.queue = rest
    BY <1>1, RemoveQueuedForm
  <2>2. ToSet(rest) = ToSet(q) \ {s}
    BY RemoveFirstFacts
  <2> QED
    BY <2>1, <2>2
<1>2. CASE Room(s, q) /\ rest # <<>>
  <2>1. IsFiniteSet(Listed) /\ IsFiniteSet(Listed \ {s}) /\ Cardinality(Listed \ {s}) = N - 1
    BY FS_RemoveElement DEF IInv, ListInv
  <2>2. N \in Nat /\ k \in Nat /\ N - k \in Nat /\ (s \notin ToSet(q) => N - k > 0)
    <3>1. /\ Cardinality(Listed \ ToSet(q)) = N - k /\ IsFiniteSet(Listed \ ToSet(q))
          /\ N \in Nat /\ k \in Nat /\ Cardinality(Listed \ ToSet(q)) \in Nat
      BY <2>1, Outside
    <3>2. s \notin ToSet(q) => Listed \ ToSet(q) # {}
      OBVIOUS
    <3>3. s \notin ToSet(q) => Cardinality(Listed \ ToSet(q)) # 0
      BY <3>1, <3>2, FS_EmptySet
    <3> HIDE DEF N, k
    <3> QED
      BY <3>1, <3>3
  <2>3. Len(r.queue) = left - 1
    <3>1. /\ left \in Nat
          /\ Len(r.queue) = IF Room(s, q) /\ left > 0 THEN left - 1 ELSE left
      BY RemoveQueuedLength
    <3>2. rest \in Seq(Sessions) /\ Len(rest) = left
      BY RemoveFirstFacts
    <3>3. left > 0
      <4> HIDE DEF rest, left
      <4> QED
        BY <1>2, <3>1, <3>2
    <3> HIDE DEF r, rest, left
    <3> QED
      BY <1>2, <3>1, <3>3
  <2>4. /\ r.queue \in Seq(Sessions) /\ IsInjective(r.queue)
        /\ ToSet(r.queue) \subseteq Listed \ {s}
    BY RemoveQueuedFacts
  <2>5. /\ IsFiniteSet((Listed \ {s}) \ ToSet(r.queue))
        /\ Cardinality((Listed \ {s}) \ ToSet(r.queue)) = N - left
    <3> HIDE DEF r, left, N
    <3>1. Len(r.queue) \in Nat /\ Cardinality(Listed \ {s}) = N - 1 /\ N \in Nat
      BY <2>1, <2>2, <2>4, ToSetFacts
    <3>2. /\ IsFiniteSet((Listed \ {s}) \ ToSet(r.queue))
          /\ Cardinality((Listed \ {s}) \ ToSet(r.queue)) = Cardinality(Listed \ {s}) - Len(r.queue)
      BY <2>1, <2>4, Outside
    <3>3. left \in Int
      BY <2>2 DEF left
    <3> QED
      BY <2>3, <3>1, <3>2, <3>3
  <2>6. N - left <= m_playerLimit
    <3>1. Counted(s, q) < m_playerLimit /\ m_playerLimit \in Nat
      BY <1>2, LimitIsNat DEF Room
    <3>2. ActiveSessionCount(q) = (N - k) * RateOnline
      BY DEF ActiveSessionCount
    <3> HIDE DEF N, k
    <3>3. /\ (N - k) * RateOnline \in Int /\ (N - k) * RateOnline >= N - k
      BY <2>2
    <3>4. CASE s \in ToSet(q)
      <4>1. N - k < m_playerLimit
        BY <2>2, <3>1, <3>2, <3>3, <3>4 DEF Counted
      <4> QED
        BY <2>2, <3>1, <3>4, <4>1
    <3>5. CASE s \notin ToSet(q)
      <4>1. N - k - 1 < m_playerLimit
        BY <2>2, <3>1, <3>2, <3>3, <3>5 DEF Counted
      <4> QED
        BY <2>2, <3>1, <3>5, <4>1
    <3> QED
      BY <3>4, <3>5
  <2> QED
    BY <2>5, <2>6
<1> QED
  BY <1>1, <1>2

Exempt == Staff \cup Premium

LEMMA Bounded ==
  ASSUME IInv, NEW S, IsFiniteSet(S), NEW n \in Nat, Cardinality(S) <= n, NEW T, T \subseteq S
  PROVE  Cardinality(T) <= n
  BY FS_Subset, FS_CardinalityType

\* FixedLimit makes the limit and the rule of who may be queued constant.
LEMMA FixedLimitFacts ==
  ASSUME IInv, [Next]_vars, FixedLimit'
  PROVE  /\ FixedLimit /\ m_playerLimit' = m_playerLimit
         /\ \A s \in Sessions : MayBeQueued(s) <=> s \notin Exempt
<1>1. realm' = realm
  BY DEF Next, WorldStep, AddSession, CloseSocket, StartUpdateSessions, AddSessionRefused,
         AddSession_, AddingDone, UpdateSession, RemoveInactive, UpdateSessionsDone,
         SetPlayerAmountLimit, KickAll, vars
<1>2. FixedLimit
  BY <1>1 DEF FixedLimit
<1>3. m_playerLimit' = m_playerLimit
  <2>1. m_playerLimit \in realm.limits /\ m_playerLimit' \in realm.limits
    BY <1>1, NextStep DEF IInv, QueueTypes
  <2> QED
    BY <1>2, <2>1 DEF FixedLimit
<1>4. ~realm.tolerance
  BY <1>2 DEF FixedLimit
<1> QED
  BY <1>2, <1>3, <1>4 DEF MayBeQueued, HasRecentlyDisconnected, Exempt

LEMMA AddSession_Limit ==
  ASSUME IInv, AddSession_, m_playerLimit > 0, m_playerLimit' = m_playerLimit,
         \A s \in Sessions : MayBeQueued(s) <=> s \notin Exempt,
         Cardinality(NonExempt) <= m_playerLimit
  PROVE  Cardinality(NonExempt') <= m_playerLimit
<1>1. PICK s \in Sessions :
        /\ s \notin Listed
        /\ Listed' = (Listed \ {m_sessions[AccountOf[s]]}) \cup {s}
        /\ IF /\ m_playerLimit > 0 /\ MayBeQueued(s)
              /\ (IF Replaced(s).found THEN Cardinality(Listed') * RateOnline
                   ELSE Cardinality(Listed') * RateOnline - 1) >= m_playerLimit
           THEN m_QueuedPlayer' = Append(Replaced(s).queue, s)
           ELSE m_QueuedPlayer' = Replaced(s).queue
  BY AddSession_Form
<1> DEFINE old == m_sessions[AccountOf[s]]
           r == Replaced(s)
<1>2. /\ r.queue \in Seq(Sessions) /\ s \notin ToSet(r.queue)
      /\ ToSet(r.queue) \subseteq Queued
  BY <1>1, ReplacedFacts
<1>3. m_playerLimit \in Nat /\ IsFiniteSet(Listed) /\ IsFiniteSet(Listed')
  BY LimitIsNat, AddSession_Step DEF IInv, ListInv
<1>4. NonExempt \subseteq Listed /\ NonExempt' \subseteq Listed' /\ IsFiniteSet(NonExempt)
  BY <1>3, FS_Subset DEF NonExempt
<1>5. CASE m_QueuedPlayer' = r.queue /\ s \notin Exempt
  <2>1. /\ Cardinality(Listed') \in Nat
        /\ Cardinality(Listed') * RateOnline >= Cardinality(Listed')
        /\ Cardinality(Listed') * RateOnline \in Nat
    <3>1. Cardinality(Listed') \in Nat
      BY <1>3, FS_CardinalityType
    <3>2. PICK n \in Nat : n = Cardinality(Listed')
      BY <3>1
    <3>3. n * RateOnline >= n /\ n * RateOnline \in Nat
      OBVIOUS
    <3> QED
      BY <3>2, <3>3
  <2>2. ~((IF r.found THEN Cardinality(Listed') * RateOnline
           ELSE Cardinality(Listed') * RateOnline - 1) >= m_playerLimit)
    <3>1. Append(r.queue, s) # r.queue
      <4> HIDE DEF r
      <4> QED
        BY <1>2, ToSetFacts, AppendFacts
    <3>2. MayBeQueued(s)
      BY <1>5
    <3> QED
      BY <1>1, <1>5, <3>1, <3>2
  <2>3. Cardinality(Listed') <= m_playerLimit
    <3> HIDE DEF r
    <3> QED
      BY <1>3, <2>1, <2>2
  <2> QED
    BY <1>3, <1>4, <2>3, Bounded
<1>6. CASE s \in Exempt \/ m_QueuedPlayer' = Append(r.queue, s)
  <2>1. NonExempt' \subseteq (Listed \ {old}) \ ToSet(r.queue)
    <3> HIDE DEF r, old
    <3>1. Listed' = (Listed \ {old}) \cup {s}
      BY <1>1 DEF old
    <3>2. m_QueuedPlayer' \in {r.queue, Append(r.queue, s)}
      BY <1>1 DEF r
    <3>3. ToSet(r.queue) \subseteq Queued' /\ (s \in Exempt \/ s \in Queued')
      BY <1>2, <1>6, <3>2, AppendFacts DEF Queued
    <3> QED
      BY <3>1, <3>3 DEF NonExempt, Exempt
  <2>2. ASSUME Queued \ {old} \subseteq ToSet(r.queue) PROVE NonExempt' \subseteq NonExempt
    <3> HIDE DEF r, old
    <3>1. NonExempt' \subseteq Sessions \ Exempt
      BY <1>1 DEF NonExempt, Exempt, Listed
    <3> QED
      BY <2>1, <2>2, <3>1 DEF NonExempt, Exempt
  <2>3. CASE old = NoSession
    <3>1. r.queue = m_QueuedPlayer
      BY <2>3 DEF Replaced
    <3>2. NonExempt' \subseteq NonExempt
      BY <2>2, <3>1 DEF Queued
    <3> QED
      BY <1>3, <1>4, <3>2, Bounded
  <2>4. CASE old # NoSession
    <3>1. old \in Listed
      BY <2>4 DEF IInv, QueueTypes, ListInv, Listed
    <3>2. /\ m_QueuedPlayer \in Seq(Sessions) /\ IsInjective(m_QueuedPlayer)
          /\ ToSet(m_QueuedPlayer) \subseteq Listed
      BY DEF IInv, QueueTypes, NoDangling, Queued
    <3>3. r = RemoveQueuedPlayer(old, m_QueuedPlayer, m_inQueue)
      BY <2>4 DEF Replaced
    <3>4. \/ ToSet(r.queue) = Queued \ {old}
          \/ /\ IsFiniteSet((Listed \ {old}) \ ToSet(r.queue))
             /\ Cardinality((Listed \ {old}) \ ToSet(r.queue)) <= m_playerLimit
      BY <3>1, <3>2, <3>3, AdmissionChecked DEF Queued
    <3> HIDE DEF r, old
    <3>5. CASE ToSet(r.queue) = Queued \ {old}
      BY <1>3, <1>4, <2>2, <3>5, Bounded
    <3>6. CASE /\ IsFiniteSet((Listed \ {old}) \ ToSet(r.queue))
               /\ Cardinality((Listed \ {old}) \ ToSet(r.queue)) <= m_playerLimit
      BY <1>3, <2>1, <3>6, Bounded
    <3> QED
      BY <3>4, <3>5, <3>6
  <2> QED
    BY <2>3, <2>4
<1> QED
  BY <1>1, <1>5, <1>6

LEMMA RemoveInactiveLimit ==
  ASSUME IInv, NEW a \in Accounts, RemoveInactive(a), m_playerLimit > 0,
         m_playerLimit' = m_playerLimit, Cardinality(NonExempt) <= m_playerLimit
  PROVE  Cardinality(NonExempt') <= m_playerLimit
<1>s. PICK s : s = m_sessions[a]
  OBVIOUS
<1>q. PICK q, f : /\ q = RemoveQueuedPlayer(s, m_QueuedPlayer, m_inQueue).queue
                  /\ f = RemoveQueuedPlayer(s, m_QueuedPlayer, m_inQueue).flags
  OBVIOUS
<1>1. /\ s \in Listed /\ Listed' = Listed \ {s}
      /\ q \in Seq(Sessions) /\ IsInjective(q) /\ ToSet(q) \subseteq Queued \ {s}
      /\ m_QueuedPlayer' = RemoveQueuedPlayer(s, q, f).queue
  BY <1>q, <1>s, RemoveInactiveForm
<1>2. /\ m_QueuedPlayer \in Seq(Sessions) /\ IsInjective(m_QueuedPlayer)
      /\ Queued \subseteq Listed /\ Queued = ToSet(m_QueuedPlayer)
  BY DEF IInv, QueueTypes, NoDangling, Queued
<1>3. m_playerLimit \in Nat /\ NonExempt \subseteq Listed /\ IsFiniteSet(NonExempt)
  BY LimitIsNat, FS_Subset DEF IInv, ListInv, NonExempt
<1>4. \/ ToSet(q) = Queued \ {s}
      \/ /\ IsFiniteSet((Listed \ {s}) \ ToSet(q))
         /\ Cardinality((Listed \ {s}) \ ToSet(q)) <= m_playerLimit
  BY <1>1, <1>2, <1>q, AdmissionChecked
<1>5. \/ Queued' = ToSet(q) \ {s}
      \/ /\ IsFiniteSet((Listed \ {s}) \ Queued')
         /\ Cardinality((Listed \ {s}) \ Queued') <= m_playerLimit
  BY <1>1, <1>2, AdmissionChecked DEF Queued
<1>6. NonExempt' \subseteq (Listed \ {s}) \ Queued' /\ NonExempt' \subseteq Listed \ Exempt
  BY <1>1 DEF NonExempt, Exempt
<1>7. CASE /\ IsFiniteSet((Listed \ {s}) \ Queued')
           /\ Cardinality((Listed \ {s}) \ Queued') <= m_playerLimit
  BY <1>3, <1>6, <1>7, Bounded
<1>8. CASE Queued' = ToSet(q) \ {s} /\ ToSet(q) = Queued \ {s}
  <2>1. NonExempt' \subseteq NonExempt
    BY <1>6, <1>8 DEF NonExempt, Exempt
  <2> QED
    BY <1>3, <2>1, Bounded
<1>9. CASE /\ Queued' = ToSet(q) \ {s}
           /\ IsFiniteSet((Listed \ {s}) \ ToSet(q))
           /\ Cardinality((Listed \ {s}) \ ToSet(q)) <= m_playerLimit
  <2>1. NonExempt' \subseteq (Listed \ {s}) \ ToSet(q)
    BY <1>6, <1>9
  <2> QED
    BY <1>3, <1>9, <2>1, Bounded
<1> QED
  BY <1>4, <1>5, <1>7, <1>8, <1>9

LEMMA LimitStep ==
  IInv /\ PlayersWithinLimit /\ [Next]_vars => PlayersWithinLimit'
<1> SUFFICES ASSUME IInv, PlayersWithinLimit, [Next]_vars, FixedLimit',
                    m_playerLimit' > 0, ~kicked'
             PROVE  Cardinality(NonExempt') <= m_playerLimit'
  BY DEF PlayersWithinLimit
<1>1. /\ FixedLimit /\ m_playerLimit' = m_playerLimit
      /\ \A s \in Sessions : MayBeQueued(s) <=> s \notin Exempt
  BY FixedLimitFacts
<1>2. ~kicked
  BY DEF Next, WorldStep, AddSession, CloseSocket, StartUpdateSessions, AddSessionRefused,
         AddSession_, AddingDone, UpdateSession, RemoveInactive, UpdateSessionsDone,
         SetPlayerAmountLimit, KickAll, vars
<1>3. Cardinality(NonExempt) <= m_playerLimit /\ m_playerLimit > 0
  BY <1>1, <1>2 DEF PlayersWithinLimit
<1>4. CASE AddSession_
  BY <1>1, <1>3, <1>4, AddSession_Limit
<1>5. ASSUME NEW a \in Accounts, RemoveInactive(a)
      PROVE  Cardinality(NonExempt') <= m_playerLimit'
  BY <1>1, <1>3, <1>5, RemoveInactiveLimit
<1>6. CASE UNCHANGED <<m_sessions, m_QueuedPlayer>>
  <2>1. NonExempt' = NonExempt
    BY <1>6 DEF NonExempt, Listed, Queued
  <2> QED
    BY <1>1, <1>3, <2>1
<1>7. CASE KickAll
  BY <1>7 DEF KickAll
<1> QED
  BY <1>4, <1>5, <1>6, <1>7 DEF Next, WorldStep, AddSession, CloseSocket,
     StartUpdateSessions, AddSessionRefused, AddingDone, UpdateSession,
     UpdateSessionsDone, SetPlayerAmountLimit, vars

\* With a fixed PlayerLimit the number of players that are neither staff nor
\* premium nor queued stays within it, for any Rate.Online, although
\* RemoveQueuedPlayer is called twice and AddSession_ counts before it queues.
THEOREM SpecPlayersWithinLimit == Spec => []PlayersWithinLimit
<1>1. Init => PlayersWithinLimit
  <2> SUFFICES ASSUME Init, m_playerLimit > 0 PROVE Cardinality(NonExempt) <= m_playerLimit
    BY DEF PlayersWithinLimit
  <2>1. NonExempt = {}
    BY DEF Init, NonExempt, Listed
  <2>2. m_playerLimit \in Nat
    BY InitIInv, LimitIsNat
  <2> QED
    BY <2>1, <2>2, FS_EmptySet
<1> QED
  BY <1>1, LimitStep, SpecIInv, PTL DEF Spec

-----------------------------------------------------------------------------
(* Nobody waits for a free slot.                                           *)

\* RemoveQueuedPlayer in numbers: n sessions are listed and q is the queue.
LEMMA RemoveQueuedCount ==
  ASSUME IInv, RateOnline = 1, NEW s \in Listed, NEW flags,
         NEW q \in Seq(Sessions), IsInjective(q), ToSet(q) \subseteq Listed,
         NEW n, n = Cardinality(Listed), NEW l, l = m_playerLimit,
         NEW k, k = Len(RemoveQueuedPlayer(s, q, flags).queue)
  PROVE  /\ n \in Nat /\ l \in Nat /\ Len(q) \in Nat /\ k \in Nat
         /\ s \in ToSet(q) =>
              k = (IF (l = 0 \/ n - Len(q) < l) /\ Len(q) > 1 THEN Len(q) - 2 ELSE Len(q) - 1)
              /\ Len(q) > 0
         /\ s \notin ToSet(q) =>
              k = (IF (l = 0 \/ n - Len(q) - 1 < l) /\ Len(q) > 0 THEN Len(q) - 1 ELSE Len(q))
<1>1. /\ n \in Nat /\ Len(q) \in Nat
      /\ Cardinality(Listed \ ToSet(q)) = n - Len(q) /\ IsFiniteSet(Listed \ ToSet(q))
      /\ Cardinality(Listed \ ToSet(q)) \in Nat
  BY Outside DEF IInv, ListInv
<1>2. s \notin ToSet(q) => n - Len(q) > 0
  <2>1. s \notin ToSet(q) => Listed \ ToSet(q) # {}
    OBVIOUS
  <2>2. s \notin ToSet(q) => Cardinality(Listed \ ToSet(q)) # 0
    BY <1>1, <2>1, FS_EmptySet
  <2> QED
    BY <1>1, <2>2
<1>3. l \in Nat
  BY LimitIsNat
<1>4. ActiveSessionCount(q) = n - Len(q)
  BY <1>1 DEF ActiveSessionCount
<1>5. /\ (IF s \in ToSet(q) THEN Len(q) - 1 ELSE Len(q)) \in Nat
      /\ k = IF Room(s, q) /\ (IF s \in ToSet(q) THEN Len(q) - 1 ELSE Len(q)) > 0
             THEN (IF s \in ToSet(q) THEN Len(q) - 1 ELSE Len(q)) - 1
             ELSE (IF s \in ToSet(q) THEN Len(q) - 1 ELSE Len(q))
  BY RemoveQueuedLength
<1>6. CASE s \in ToSet(q)
  <2>1. Room(s, q) <=> l = 0 \/ n - Len(q) < l
    BY <1>4, <1>6 DEF Room, Counted
  <2> QED
    BY <1>1, <1>3, <1>5, <1>6, <2>1
<1>7. CASE s \notin ToSet(q)
  <2>1. Room(s, q) <=> l = 0 \/ n - Len(q) - 1 < l
    BY <1>1, <1>2, <1>4, <1>7 DEF Room, Counted
  <2> QED
    BY <1>1, <1>3, <1>5, <1>7, <2>1
<1> QED
  BY <1>6, <1>7

\* With a fixed limit nobody waits unless as many sessions as the limit are
\* active, as the code counts them: those of staff included.
SlotsTaken ==
  FixedLimit /\ m_QueuedPlayer # <<>> =>
    m_playerLimit > 0 /\ ActiveSessionCount(m_QueuedPlayer) >= m_playerLimit

\* SlotsTaken for n listed and k queued sessions and limit l.
Slots(n, k, l) == k # 0 => l > 0 /\ n - k >= l

LEMMA SlotsIsSlotsTaken ==
  ASSUME IInv, RateOnline = 1
  PROVE  (m_QueuedPlayer # <<>> =>
            m_playerLimit > 0 /\ ActiveSessionCount(m_QueuedPlayer) >= m_playerLimit)
         <=> Slots(Cardinality(Listed), Len(m_QueuedPlayer), m_playerLimit)
<1>1. m_QueuedPlayer \in Seq(Sessions) /\ IsFiniteSet(Listed)
  BY DEF IInv, QueueTypes, ListInv
<1>2. m_QueuedPlayer # <<>> <=> Len(m_QueuedPlayer) # 0
  BY <1>1
<1>3. Cardinality(Listed) \in Nat /\ Len(m_QueuedPlayer) \in Nat
  BY <1>1, FS_CardinalityType
<1>4. ActiveSessionCount(m_QueuedPlayer) = Cardinality(Listed) - Len(m_QueuedPlayer)
  BY <1>3 DEF ActiveSessionCount
<1> QED
  BY <1>2, <1>4 DEF Slots

LEMMA AddSession_Slots ==
  ASSUME IInv, RateOnline = 1, AddSession_, m_playerLimit' = m_playerLimit,
         Slots(Cardinality(Listed), Len(m_QueuedPlayer), m_playerLimit)
  PROVE  Slots(Cardinality(Listed'), Len(m_QueuedPlayer'), m_playerLimit)
<1>1. PICK s \in Sessions :
        /\ s \notin Listed
        /\ Listed' = (Listed \ {m_sessions[AccountOf[s]]}) \cup {s}
        /\ IF /\ m_playerLimit > 0 /\ MayBeQueued(s)
              /\ (IF Replaced(s).found THEN Cardinality(Listed') * RateOnline
                   ELSE Cardinality(Listed') * RateOnline - 1) >= m_playerLimit
           THEN m_QueuedPlayer' = Append(Replaced(s).queue, s)
           ELSE m_QueuedPlayer' = Replaced(s).queue
  BY AddSession_Form
<1>2. PICK n, m, l, k, q, found :
        /\ n = Cardinality(Listed) /\ m = Cardinality(Listed') /\ l = m_playerLimit
        /\ q = Replaced(s).queue /\ k = Len(q) /\ found = Replaced(s).found
  OBVIOUS
<1>o. PICK old : old = m_sessions[AccountOf[s]]
  OBVIOUS
<1>3. /\ q \in Seq(Sessions) /\ k \in Nat
      /\ m_QueuedPlayer \in Seq(Sessions) /\ IsInjective(m_QueuedPlayer)
      /\ ToSet(m_QueuedPlayer) \subseteq Listed /\ Len(m_QueuedPlayer) \in Nat
  <2>1. q \in Seq(Sessions)
    BY <1>1, <1>2, ReplacedFacts
  <2>2. /\ m_QueuedPlayer \in Seq(Sessions) /\ IsInjective(m_QueuedPlayer)
        /\ ToSet(m_QueuedPlayer) \subseteq Listed
    BY DEF IInv, QueueTypes, NoDangling, Queued
  <2> QED
    BY <1>2, <2>1, <2>2, ToSetFacts
<1>4. n \in Nat /\ l \in Nat /\ IsFiniteSet(Listed)
  BY <1>2, LimitIsNat, FS_CardinalityType DEF IInv, ListInv
<1>5. \/ Len(m_QueuedPlayer') = k
      \/ /\ l > 0 /\ Len(m_QueuedPlayer') = k + 1
         /\ found \/ m - 1 >= l
         /\ ~found \/ m >= l
  <2>1. m \in Nat
    BY <1>2, AddSession_Step, FS_CardinalityType DEF IInv, ListInv
  <2>2. m * RateOnline = m
    BY <2>1
  <2>3. Len(Append(q, s)) = k + 1
    BY <1>2, <1>3, AppendFacts
  <2> QED
    BY <1>1, <1>2, <2>2, <2>3
<1>6. CASE old = NoSession
  <2>1. q = m_QueuedPlayer /\ ~found
    BY <1>2, <1>6, <1>o DEF Replaced
  <2>2. m = n + 1
    <3>1. old \notin Listed
      BY <1>6 DEF Listed
    <3>2. Listed' = Listed \cup {s}
      BY <1>1, <1>o, <3>1
    <3> QED
      BY <1>1, <1>2, <1>4, <3>2, FS_AddElement
  <2> QED
    BY <1>2, <1>3, <1>4, <1>5, <2>1, <2>2 DEF Slots
<1>7. CASE old # NoSession
  <2>1. old \in Listed
    BY <1>7, <1>o DEF IInv, QueueTypes, ListInv, Listed
  <2>2. m = n
    <3>1. IsFiniteSet(Listed \ {old}) /\ Cardinality(Listed \ {old}) = n - 1
      BY <1>2, <1>4, <2>1, FS_RemoveElement
    <3>2. Cardinality((Listed \ {old}) \cup {s}) = n - 1 + 1
      BY <1>1, <3>1, FS_AddElement
    <3> QED
      BY <1>1, <1>2, <1>4, <1>o, <3>2
  <2>3. Replaced(s) = RemoveQueuedPlayer(old, m_QueuedPlayer, m_inQueue)
    BY <1>7, <1>o DEF Replaced
  <2>4. found <=> old \in ToSet(m_QueuedPlayer)
    BY <1>2, <2>3, RemoveQueuedForm
  <2>5. /\ old \in ToSet(m_QueuedPlayer) =>
              k = (IF (l = 0 \/ n - Len(m_QueuedPlayer) < l) /\ Len(m_QueuedPlayer) > 1
                   THEN Len(m_QueuedPlayer) - 2 ELSE Len(m_QueuedPlayer) - 1)
              /\ Len(m_QueuedPlayer) > 0
        /\ old \notin ToSet(m_QueuedPlayer) =>
              k = (IF (l = 0 \/ n - Len(m_QueuedPlayer) - 1 < l) /\ Len(m_QueuedPlayer) > 0
                   THEN Len(m_QueuedPlayer) - 1 ELSE Len(m_QueuedPlayer))
    BY <1>2, <1>3, <2>1, <2>3, RemoveQueuedCount
  <2>6. CASE old \in ToSet(m_QueuedPlayer)
    BY <1>2, <1>3, <1>4, <1>5, <2>2, <2>4, <2>5, <2>6 DEF Slots
  <2>7. CASE old \notin ToSet(m_QueuedPlayer)
    BY <1>2, <1>3, <1>4, <1>5, <2>2, <2>4, <2>5, <2>7 DEF Slots
  <2> QED
    BY <2>6, <2>7
<1> QED
  BY <1>6, <1>7

LEMMA RemoveInactiveSlots ==
  ASSUME IInv, RateOnline = 1, NEW a \in Accounts, RemoveInactive(a),
         Slots(Cardinality(Listed), Len(m_QueuedPlayer), m_playerLimit)
  PROVE  Slots(Cardinality(Listed'), Len(m_QueuedPlayer'), m_playerLimit)
<1>s. PICK s : s = m_sessions[a]
  OBVIOUS
<1>q. PICK q, f : /\ q = RemoveQueuedPlayer(s, m_QueuedPlayer, m_inQueue).queue
                  /\ f = RemoveQueuedPlayer(s, m_QueuedPlayer, m_inQueue).flags
  OBVIOUS
<1>1. /\ s \in Listed /\ Listed' = Listed \ {s}
      /\ q \in Seq(Sessions) /\ IsInjective(q) /\ ToSet(q) \subseteq Queued \ {s}
      /\ m_QueuedPlayer' = RemoveQueuedPlayer(s, q, f).queue
  BY <1>q, <1>s, RemoveInactiveForm
<1>2. /\ m_QueuedPlayer \in Seq(Sessions) /\ IsInjective(m_QueuedPlayer)
      /\ Queued \subseteq Listed /\ Queued = ToSet(m_QueuedPlayer)
  BY DEF IInv, QueueTypes, NoDangling, Queued
<1>3. PICK n, l, k0, k1, k2 :
        /\ n = Cardinality(Listed) /\ l = m_playerLimit /\ k0 = Len(m_QueuedPlayer)
        /\ k1 = Len(q) /\ k2 = Len(m_QueuedPlayer')
  OBVIOUS
<1>4. /\ n \in Nat /\ l \in Nat /\ k0 \in Nat /\ k1 \in Nat
      /\ s \in Queued => k1 = (IF (l = 0 \/ n - k0 < l) /\ k0 > 1 THEN k0 - 2 ELSE k0 - 1)
                           /\ k0 > 0
      /\ s \notin Queued => k1 = (IF (l = 0 \/ n - k0 - 1 < l) /\ k0 > 0 THEN k0 - 1 ELSE k0)
  BY <1>1, <1>2, <1>3, <1>q, RemoveQueuedCount
<1>5. /\ k2 \in Nat
      /\ k2 = (IF (l = 0 \/ n - k1 - 1 < l) /\ k1 > 0 THEN k1 - 1 ELSE k1)
  <2>1. ToSet(q) \subseteq Listed /\ s \notin ToSet(q)
    BY <1>1, <1>2
  <2>2. k2 = Len(RemoveQueuedPlayer(s, q, f).queue)
    BY <1>1, <1>3
  <2> QED
    BY <1>1, <1>3, <2>1, <2>2, RemoveQueuedCount
<1>6. Cardinality(Listed') = n - 1
  BY <1>1, <1>3, FS_RemoveElement DEF IInv, ListInv
<1>7. Slots(n, k0, l)
  BY <1>3
<1>8. Slots(n - 1, k2, l)
  <2>1. CASE s \in Queued
    BY <1>4, <1>5, <1>7, <2>1 DEF Slots
  <2>2. CASE s \notin Queued
    BY <1>4, <1>5, <1>7, <2>2 DEF Slots
  <2> QED
    BY <2>1, <2>2
<1> QED
  BY <1>3, <1>6, <1>8

LEMMA SlotsStep ==
  ASSUME RateOnline = 1
  PROVE  IInv /\ SlotsTaken /\ [Next]_vars => SlotsTaken'
<1> SUFFICES ASSUME IInv, SlotsTaken, [Next]_vars, FixedLimit'
             PROVE  (m_QueuedPlayer # <<>> =>
                       /\ m_playerLimit > 0
                       /\ ActiveSessionCount(m_QueuedPlayer) >= m_playerLimit)'
  BY DEF SlotsTaken
<1>1. FixedLimit /\ m_playerLimit' = m_playerLimit /\ IInv'
  BY FixedLimitFacts, NextStep
<1>2. Slots(Cardinality(Listed), Len(m_QueuedPlayer), m_playerLimit)
  BY <1>1, SlotsIsSlotsTaken DEF SlotsTaken
<1>3. CASE m_QueuedPlayer' = <<>>
  BY <1>3
<1>4. ASSUME Slots(Cardinality(Listed'), Len(m_QueuedPlayer'), m_playerLimit)
      PROVE  (m_QueuedPlayer # <<>> =>
                /\ m_playerLimit > 0
                /\ ActiveSessionCount(m_QueuedPlayer) >= m_playerLimit)'
  <2>1. /\ m_QueuedPlayer' \in Seq(Sessions) /\ IsFiniteSet(Listed')
    BY <1>1 DEF IInv, QueueTypes, ListInv
  <2>2. m_QueuedPlayer' # <<>> => Len(m_QueuedPlayer') # 0
    BY <2>1
  <2>3. Cardinality(Listed') \in Nat /\ Len(m_QueuedPlayer') \in Nat
    BY <2>1, FS_CardinalityType
  <2>4. ActiveSessionCount(m_QueuedPlayer)' = Cardinality(Listed') - Len(m_QueuedPlayer')
    BY <2>3 DEF ActiveSessionCount
  <2> QED
    BY <1>1, <1>4, <2>2, <2>4 DEF Slots
<1>5. CASE AddSession_
  BY <1>1, <1>2, <1>4, <1>5, AddSession_Slots
<1>6. ASSUME NEW a \in Accounts, RemoveInactive(a)
      PROVE  Slots(Cardinality(Listed'), Len(m_QueuedPlayer'), m_playerLimit)
  BY <1>2, <1>6, RemoveInactiveSlots
<1>7. CASE UNCHANGED <<m_sessions, m_QueuedPlayer>>
  <2>1. Listed' = Listed
    BY <1>7 DEF Listed
  <2> QED
    BY <1>2, <1>4, <1>7, <2>1
<1>8. CASE KickAll
  BY <1>3, <1>8 DEF KickAll
<1> QED
  BY <1>4, <1>5, <1>6, <1>7, <1>8 DEF Next, WorldStep, AddSession, CloseSocket,
     StartUpdateSessions, AddSessionRefused, AddingDone, UpdateSession,
     UpdateSessionsDone, SetPlayerAmountLimit, vars

\* With a fixed PlayerLimit and Rate.Online 1, the default, nobody is left in
\* m_QueuedPlayer while fewer players than the limit are in the world and no
\* staff is: the two calls of RemoveQueuedPlayer in UpdateSessions and the one
\* in AddSession_ give every slot away that they free, the slots that staff
\* sessions have taken included.
THEOREM SpecNoIdleSlot ==
  ASSUME RateOnline = 1
  PROVE  Spec => []NoIdleSlot
<1>1. Init => SlotsTaken
  BY DEF Init, SlotsTaken
<1>2. IInv /\ SlotsTaken /\ [Next]_vars => SlotsTaken'
  BY SlotsStep
<1>3. IInv /\ SlotsTaken => NoIdleSlot
  <2> SUFFICES ASSUME IInv, SlotsTaken, FixedLimit, Listed \cap Staff = {},
                      m_QueuedPlayer # <<>>
               PROVE  m_playerLimit > 0 /\ Cardinality(PlayersIn) >= m_playerLimit
    BY DEF NoIdleSlot
  <2>1. /\ m_QueuedPlayer \in Seq(Sessions) /\ IsFiniteSet(Listed)
        /\ IsInjective(m_QueuedPlayer) /\ ToSet(m_QueuedPlayer) \subseteq Listed
    BY DEF IInv, QueueTypes, ListInv, NoDangling, Queued
  <2>2. PlayersIn = Listed \ ToSet(m_QueuedPlayer)
    BY DEF PlayersIn, Queued
  <2>3. /\ Cardinality(Listed) \in Nat /\ Len(m_QueuedPlayer) \in Nat
        /\ Cardinality(PlayersIn) = Cardinality(Listed) - Len(m_QueuedPlayer)
    BY <2>1, <2>2, Outside
  <2>4. ActiveSessionCount(m_QueuedPlayer) = Cardinality(PlayersIn)
    BY <2>3 DEF ActiveSessionCount
  <2> QED
    BY <2>4 DEF SlotsTaken
<1> QED
  BY <1>1, <1>2, <1>3, SpecIInv, PTL DEF Spec
=============================================================================
