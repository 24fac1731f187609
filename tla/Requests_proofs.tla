--------------------------- MODULE Requests_proofs ---------------------------
(* Proofs of UnitOfWork's safety for any tasks, databases and pools, and   *)
(* of what it means for the sessions of requests, with any routes.         *)
EXTENDS Requests, SequenceTheorems, TLAPS

-----------------------------------------------------------------------------
(* Sessions, of whatever tasks.                                            *)

LOCAL INSTANCE SequencesExt

USE PoolAssumption, OpenerAssumption, BoundsAssumption

\* A sequence without its i-th member.
LEMMA RemoveAtProperties ==
    ASSUME NEW S, NEW q \in Seq(S), NEW i \in DOMAIN q
    PROVE  /\ RemoveAt(q, i) \in Seq(S)
           /\ Len(RemoveAt(q, i)) = Len(q) - 1
           /\ \A j \in DOMAIN RemoveAt(q, i) :
                  /\ j \in 1 .. Len(q) - 1
                  /\ RemoveAt(q, i)[j] = IF j < i THEN q[j] ELSE q[j + 1]
  <1> DEFINE a == SubSeq(q, 1, i - 1)
             b == SubSeq(q, i + 1, Len(q))
  <1>1. i \in 1 .. Len(q) /\ Len(q) \in Nat
    BY LenProperties
  <1>2. a \in Seq(S) /\ Len(a) = i - 1 /\ \A j \in 1 .. i - 1 : a[j] = q[j]
    BY <1>1, SubSeqProperties
  <1>3. b \in Seq(S) /\ Len(b) = Len(q) - i /\ \A j \in 1 .. Len(q) - i : b[j] = q[i + j]
    BY <1>1, SubSeqProperties
  <1> HIDE DEF a, b
  <1>4. /\ a \o b \in Seq(S)
        /\ Len(a \o b) = Len(q) - 1
        /\ DOMAIN (a \o b) = 1 .. Len(q) - 1
        /\ \A j \in 1 .. Len(q) - 1 : (a \o b)[j] = IF j < i THEN q[j] ELSE q[j + 1]
    <2>1. Len(a \o b) = Len(q) - 1
      BY <1>1, <1>2, <1>3, ConcatProperties
    <2>2. a \o b \in Seq(S)
      BY <1>2, <1>3, ConcatProperties
    <2>3. ASSUME NEW j \in 1 .. Len(q) - 1
          PROVE  (a \o b)[j] = IF j < i THEN q[j] ELSE q[j + 1]
      <3>0. /\ j \in 1 .. Len(a) + Len(b)
            /\ j \in Nat /\ i \in Nat
        BY <1>1, <1>2, <1>3
      <3>1. (a \o b)[j] = IF j <= Len(a) THEN a[j] ELSE b[j - Len(a)]
        <4>1. a \in Seq(S) /\ b \in Seq(S)
          BY <1>2, <1>3
        <4> QED
          BY <3>0, <4>1, ConcatProperties, Zenon
      <3>2. CASE j < i
        <4>1. j \in 1 .. i - 1
          BY <3>0, <3>2
        <4> QED
          BY <3>0, <3>1, <3>2, <4>1, <1>2
      <3>3. CASE ~(j < i)
        <4>1. j - (i - 1) \in 1 .. Len(q) - i /\ i + (j - (i - 1)) = j + 1
          BY <1>1, <3>0, <3>3
        <4>2. b[j - (i - 1)] = q[j + 1]
          BY <1>3, <4>1
        <4> QED
          BY <3>0, <3>1, <3>3, <4>2, <1>2
      <3> QED
        BY <3>2, <3>3
    <2> QED
      BY <2>1, <2>2, <2>3
  <1> QED
    BY <1>4 DEF RemoveAt, a, b

-----------------------------------------------------------------------------
(* What the steps do to the sessions.                                      *)

Stacks == sessions \in [Task -> Seq(SessionType)]

\* t's n-th session, and only that, becomes s.
Put(t, n, s) == [sessions EXCEPT ![t] = [@ EXCEPT ![n] = s]]

LEMMA Replaced ==
    ASSUME Stacks, NEW t \in Task, NEW n \in DOMAIN sessions[t], NEW s \in SessionType,
           sessions' = Put(t, n, s)
    PROVE  /\ Stacks'
           /\ \A u \in Task : DOMAIN sessions'[u] = DOMAIN sessions[u]
           /\ \A u \in Task : \A m \in DOMAIN sessions[u] :
                  sessions'[u][m] = IF u = t /\ m = n THEN s ELSE sessions[u][m]
  <1> USE DEF Stacks
  <1>1. sessions[t] \in Seq(SessionType) /\ n \in 1 .. Len(sessions[t])
    BY LenProperties
  <1>2. /\ [sessions[t] EXCEPT ![n] = s] \in Seq(SessionType)
        /\ DOMAIN [sessions[t] EXCEPT ![n] = s] = DOMAIN sessions[t]
    BY <1>1, ExceptSeq
  <1>3. sessions'[t] = [sessions[t] EXCEPT ![n] = s]
    BY DEF Put
  <1>4. \A u \in Task \ {t} : sessions'[u] = sessions[u]
    BY DEF Put
  <1>5. \A m \in DOMAIN sessions[t] :
            [sessions[t] EXCEPT ![n] = s][m] = IF m = n THEN s ELSE sessions[t][m]
    OBVIOUS
  <1>6. Stacks'
    BY <1>2 DEF Put
  <1> QED
    BY <1>2, <1>3, <1>4, <1>5, <1>6

\* t enters session s.
LEMMA Pushed ==
    ASSUME Stacks, NEW t \in Task, NEW s \in SessionType,
           sessions' = [sessions EXCEPT ![t] = Append(@, s)]
    PROVE  /\ Stacks'
           /\ \A u \in Task \ {t} : sessions'[u] = sessions[u]
           /\ Depth(t)' = Depth(t) + 1
           /\ DOMAIN sessions'[t] = DOMAIN sessions[t] \cup {Depth(t) + 1}
           /\ Depth(t) + 1 \notin DOMAIN sessions[t]
           /\ \A n \in DOMAIN sessions[t] : sessions'[t][n] = sessions[t][n]
           /\ sessions'[t][Depth(t) + 1] = s
  <1> USE DEF Stacks, Depth
  <1>1. /\ Len(sessions[t]) \in Nat
        /\ DOMAIN sessions[t] = 1 .. Len(sessions[t])
    BY LenProperties
  <1>2. /\ Append(sessions[t], s) \in Seq(SessionType)
        /\ Len(Append(sessions[t], s)) = Len(sessions[t]) + 1
        /\ DOMAIN Append(sessions[t], s) = 1 .. Len(sessions[t]) + 1
        /\ \A n \in 1 .. Len(sessions[t]) : Append(sessions[t], s)[n] = sessions[t][n]
        /\ Append(sessions[t], s)[Len(sessions[t]) + 1] = s
    BY AppendProperties
  <1> QED
    BY <1>1, <1>2

\* t leaves its innermost session.
LEMMA Popped ==
    ASSUME Stacks, NEW t \in Task, Depth(t) > 0,
           sessions' = [sessions EXCEPT ![t] = Inner(t)]
    PROVE  /\ Stacks'
           /\ \A u \in Task \ {t} : sessions'[u] = sessions[u]
           /\ Depth(t) \in DOMAIN sessions[t]
           /\ Depth(t)' = Depth(t) - 1
           /\ DOMAIN sessions'[t] = DOMAIN sessions[t] \ {Depth(t)}
           /\ \A n \in DOMAIN sessions'[t] : sessions'[t][n] = sessions[t][n]
  <1> USE DEF Stacks, Depth, Inner
  <1>1. /\ Len(sessions[t]) \in Nat
        /\ DOMAIN sessions[t] = 1 .. Len(sessions[t])
        /\ \A n \in 1 .. Len(sessions[t]) : sessions[t][n] \in SessionType
    BY LenProperties
  <1>2. /\ SubSeq(sessions[t], 1, Len(sessions[t]) - 1) \in Seq(SessionType)
        /\ Len(SubSeq(sessions[t], 1, Len(sessions[t]) - 1)) = Len(sessions[t]) - 1
        /\ \A n \in 1 .. Len(sessions[t]) - 1 :
               SubSeq(sessions[t], 1, Len(sessions[t]) - 1)[n] = sessions[t][n]
    BY <1>1, SubSeqProperties
  <1>3. DOMAIN SubSeq(sessions[t], 1, Len(sessions[t]) - 1) = 1 .. Len(sessions[t]) - 1
    BY <1>2, LenProperties
  <1> QED
    BY <1>1, <1>2, <1>3

-----------------------------------------------------------------------------
(* Connections and rows.                                                   *)

\* A row is with one session at most, and not also seen or given up.
RowsApart ==
    /\ \A t \in Task : \A n \in DOMAIN sessions[t] :
           sessions[t][n].work \cap (visible \cup dropped) = {}
    /\ \A t \in Task : \A n \in DOMAIN orphans[t] :
           orphans[t][n].work \cap (visible \cup dropped) = {}
    /\ \A t, u \in Task : \A n \in DOMAIN sessions[t], m \in DOMAIN sessions[u] :
           sessions[t][n].work \cap sessions[u][m].work # {} => t = u /\ n = m
    /\ \A t, u \in Task : \A n \in DOMAIN orphans[t], m \in DOMAIN orphans[u] :
           orphans[t][n].work \cap orphans[u][m].work # {} => t = u /\ n = m
    /\ \A t, u \in Task : \A n \in DOMAIN sessions[t], m \in DOMAIN orphans[u] :
           sessions[t][n].work \cap orphans[u][m].work = {}

\* A session's connection is of its own database.
OwnPool ==
    \A t \in Task : \A n \in DOMAIN sessions[t] :
        sessions[t][n].conn # NoConnection =>
            PoolOf[sessions[t][n].conn] = sessions[t][n].db

Held ==
    /\ Stacks
    /\ orphans \in [Task -> Seq(SessionType)]
    /\ free \subseteq Connection
    /\ visible \subseteq Row /\ dropped \subseteq Row
    /\ RowsApart /\ OwnPool
    /\ NoConnectionLeak /\ NothingUncommitted

HeldVars == <<sessions, free, rows, orphans>>

LEMMA HeldStutter == Held /\ UNCHANGED HeldVars => Held'
  BY DEF Held, HeldVars, Stacks, RowsApart, OwnPool, NoConnectionLeak, NothingUncommitted, rows

LEMMA EnterHeld ==
    ASSUME Held, NEW t \in Task, NEW d \in Database, NEW by \in Opener, Enter(t, d, by)
    PROVE  Held'
  <1>0. Stacks /\ RowsApart /\ OwnPool /\ NoConnectionLeak
    BY DEF Held
  <1> DEFINE s == NewSession(d, by)
  <1>1. s \in SessionType /\ s.work = {} /\ s.conn = NoConnection
    BY DEF NewSession, SessionType
  <1>2. sessions' = [sessions EXCEPT ![t] = Append(@, s)] /\ UNCHANGED <<pools, rows, orphans>>
    BY DEF Enter
  <1> HIDE DEF s
  <1>3. /\ Stacks'
        /\ \A u \in Task \ {t} : sessions'[u] = sessions[u]
        /\ DOMAIN sessions'[t] = DOMAIN sessions[t] \cup {Depth(t) + 1}
        /\ \A n \in DOMAIN sessions[t] : sessions'[t][n] = sessions[t][n]
        /\ sessions'[t][Depth(t) + 1] = s
    BY <1>1, <1>2, Pushed, <1>0
  <1>4. RowsApart'
    BY <1>0, <1>1, <1>2, <1>3 DEF RowsApart, rows
  <1>5. OwnPool'
    BY <1>0, <1>1, <1>2, <1>3 DEF OwnPool
  <1>6. NoConnectionLeak'
    BY <1>0, <1>2, <1>3 DEF NoConnectionLeak, pools
  <1> QED
    BY <1>2, <1>3, <1>4, <1>5, <1>6 DEF Held, pools, rows, NothingUncommitted

\* A session takes a connection out of its pool.
LEMMA TakeHeld ==
    ASSUME Held, NEW t \in Task, NEW n \in DOMAIN sessions[t],
           sessions[t][n].conn = NoConnection, Idle(sessions[t][n].db) # {},
           Take(t, n), UNCHANGED <<rows, orphans>>
    PROVE  Held'
  <1>0. Stacks /\ RowsApart /\ OwnPool /\ NoConnectionLeak
    BY DEF Held
  <1> DEFINE c == AnyOf(sessions[t][n].db)
  <1>1. c \in free /\ PoolOf[c] = sessions[t][n].db
    BY DEF AnyOf, Idle
  <1>2. sessions[t][n] \in SessionType /\ c \in Connection
    BY <1>1, LenProperties DEF Held, Stacks
  <1>a. PICK s \in SessionType : s = [sessions[t][n] EXCEPT !.conn = c]
    BY <1>2 DEF SessionType
  <1>3. sessions' = Put(t, n, s) /\ free' = free \ {c}
    BY <1>a DEF Take, Held, Stacks, Put
  <1>4. s.work = sessions[t][n].work /\ s.conn = c /\ s.db = sessions[t][n].db
    BY <1>2, <1>a DEF SessionType
  <1> HIDE DEF c
  <1>5. /\ Stacks'
        /\ \A u \in Task : DOMAIN sessions'[u] = DOMAIN sessions[u]
        /\ \A u \in Task : \A m \in DOMAIN sessions[u] :
               sessions'[u][m] = IF u = t /\ m = n THEN s ELSE sessions[u][m]
    BY <1>3, Replaced, <1>0
  <1>6. RowsApart'
    <2>1. \A u \in Task : \A m \in DOMAIN sessions[u] : sessions'[u][m].work = sessions[u][m].work
      BY <1>4, <1>5
    <2> QED
      BY <1>0, <1>5, <2>1 DEF RowsApart, rows
  <1>7. OwnPool'
    BY <1>0, <1>1, <1>4, <1>5 DEF OwnPool
  <1>8. NoConnectionLeak'
    BY <1>0, <1>2, <1>3, <1>4, <1>5 DEF NoConnectionLeak
  <1> QED
    BY <1>3, <1>5, <1>6, <1>7, <1>8 DEF Held, rows, NothingUncommitted

LEMMA WriteHeld ==
    ASSUME Held, NEW t \in Task, NEW n \in DOMAIN sessions[t], Write(t, n)
    PROVE  Held'
  <1>0. Stacks /\ RowsApart /\ OwnPool /\ NoConnectionLeak
    BY DEF Held
  <1> DEFINE r == CHOOSE r \in Unwritten : TRUE
  <1>1. r \in Unwritten
    BY DEF Write
  <1>2. sessions[t][n] \in SessionType
    BY LenProperties DEF Held, Stacks
  <1>a. PICK s \in SessionType : s = [sessions[t][n] EXCEPT !.work = @ \cup {r}]
    BY <1>1, <1>2 DEF SessionType, Unwritten
  <1>3. /\ sessions' = Put(t, n, s)
        /\ UNCHANGED <<free, rows, orphans>>
    BY <1>a DEF Write, Held, Stacks, pools, Put
  <1>4. /\ s.work = sessions[t][n].work \cup {r}
        /\ s.conn = sessions[t][n].conn /\ s.db = sessions[t][n].db
    BY <1>1, <1>2, <1>a DEF SessionType
  <1> HIDE DEF r
  <1>5. /\ Stacks'
        /\ \A u \in Task : DOMAIN sessions'[u] = DOMAIN sessions[u]
        /\ \A u \in Task : \A m \in DOMAIN sessions[u] :
               sessions'[u][m] = IF u = t /\ m = n THEN s ELSE sessions[u][m]
    BY <1>3, Replaced, <1>0
  <1>6. RowsApart'
    <2>1. /\ r \notin visible \cup dropped
          /\ \A u \in Task : \A m \in DOMAIN sessions[u] : r \notin sessions[u][m].work
          /\ \A u \in Task : \A m \in DOMAIN orphans[u] : r \notin orphans[u][m].work
      BY <1>1 DEF Unwritten
    <2> QED
      BY <1>0, <1>3, <1>4, <1>5, <2>1 DEF RowsApart, rows
  <1>7. OwnPool'
    BY <1>0, <1>4, <1>5 DEF OwnPool
  <1>8. NoConnectionLeak'
    BY <1>0, <1>3, <1>4, <1>5 DEF NoConnectionLeak
  <1> QED
    BY <1>3, <1>5, <1>6, <1>7, <1>8 DEF Held, rows, NothingUncommitted

\* A session that is emptied gives its connection back; its rows are seen, or
\* given up.
LEMMA EmptiedHeld ==
    ASSUME Held, NEW t \in Task, NEW n \in DOMAIN sessions[t],
           sessions' = [sessions EXCEPT ![t][n] = Emptied(@)],
           free' = Returned(sessions[t][n]),
           \/ visible' = visible \cup sessions[t][n].work /\ dropped' = dropped
           \/ dropped' = dropped \cup sessions[t][n].work /\ visible' = visible,
           UNCHANGED orphans
    PROVE  Held'
  <1>0. Stacks /\ RowsApart /\ OwnPool /\ NoConnectionLeak
    BY DEF Held
  <1> DEFINE w == sessions[t][n].work
  <1>1. sessions[t][n] \in SessionType
    BY LenProperties DEF Held, Stacks
  <1>a. PICK s \in SessionType : s = Emptied(sessions[t][n])
    BY <1>1 DEF Emptied, NewSession, SessionType
  <1>2. s.work = {} /\ s.conn = NoConnection
    BY <1>a DEF Emptied, NewSession
  <1>3. sessions' = Put(t, n, s)
    BY <1>a DEF Held, Stacks, Put
  <1>4. free' = free \cup ({sessions[t][n].conn} \ {NoConnection})
    BY DEF Returned
  <1>5. /\ Stacks'
        /\ \A u \in Task : DOMAIN sessions'[u] = DOMAIN sessions[u]
        /\ \A u \in Task : \A m \in DOMAIN sessions[u] :
               sessions'[u][m] = IF u = t /\ m = n THEN s ELSE sessions[u][m]
    BY <1>3, Replaced, <1>0
  <1>6. /\ w \subseteq Row
        /\ w \cap (visible \cup dropped) = {}
    BY <1>0, <1>1 DEF SessionType, RowsApart
  <1>7. RowsApart'
    BY <1>0, <1>2, <1>5 DEF RowsApart
  <1>8. OwnPool'
    BY <1>0, <1>2, <1>5 DEF OwnPool
  <1>9. NoConnectionLeak' /\ free' \subseteq Connection
    <2>1. ASSUME NEW c \in Connection \ free', NEW u \in Task, NEW m \in DOMAIN sessions[u],
                 sessions[u][m].conn = c
          PROVE  m \in DOMAIN sessions'[u] /\ sessions'[u][m].conn = c
      BY <1>4, <1>5, <2>1, PoolAssumption
    <2>2. free' \subseteq Connection
      BY <1>1, <1>4 DEF SessionType, Held
    <2>3. \A c \in Connection \ free' : c \in Connection \ free
      BY <1>4
    <2> QED
      BY <1>0, <2>1, <2>2, <2>3 DEF NoConnectionLeak
  <1> QED
    BY <1>5, <1>6, <1>7, <1>8, <1>9 DEF Held, NothingUncommitted

\* A session that closes gives its connection back, and its rows up.
LEMMA CloseHeld ==
    ASSUME Held, NEW t \in Task, Depth(t) > 0, Close(t)
    PROVE  Held'
  <1>0. Stacks /\ RowsApart /\ OwnPool /\ NoConnectionLeak
    BY DEF Held
  <1> DEFINE n == Depth(t)
  <1>1. /\ sessions' = [sessions EXCEPT ![t] = Inner(t)]
        /\ free' = free \cup ({sessions[t][n].conn} \ {NoConnection})
        /\ dropped' = dropped \cup sessions[t][n].work
        /\ UNCHANGED <<visible, orphans>>
    BY DEF Close, Returned, Top
  <1>2. /\ Stacks'
        /\ \A u \in Task \ {t} : sessions'[u] = sessions[u]
        /\ n \in DOMAIN sessions[t]
        /\ DOMAIN sessions'[t] = DOMAIN sessions[t] \ {n}
        /\ \A m \in DOMAIN sessions'[t] : sessions'[t][m] = sessions[t][m]
    BY <1>1, Popped, <1>0
  <1>3. sessions[t][n] \in SessionType
    BY <1>2, LenProperties DEF Held, Stacks
  <1> HIDE DEF n
  <1>4. RowsApart'
    BY <1>0, <1>1, <1>2 DEF RowsApart
  <1>5. OwnPool'
    BY <1>0, <1>2 DEF OwnPool
  <1>6. NoConnectionLeak' /\ free' \subseteq Connection
    <2>1. ASSUME NEW c \in Connection \ free', NEW u \in Task, NEW m \in DOMAIN sessions[u],
                 sessions[u][m].conn = c
          PROVE  m \in DOMAIN sessions'[u] /\ sessions'[u][m].conn = c
      <3>1. ~(u = t /\ m = n)
        BY <1>1, <2>1, PoolAssumption
      <3> QED
        BY <1>2, <2>1, <3>1
    <2>2. free' \subseteq Connection
      BY <1>1, <1>3 DEF SessionType, Held
    <2>3. \A c \in Connection \ free' : c \in Connection \ free
      BY <1>1
    <2> QED
      BY <1>0, <1>1, <2>1, <2>2, <2>3 DEF NoConnectionLeak
  <1>7. sessions[t][n].work \subseteq Row /\ sessions[t][n].work \cap visible = {}
    BY <1>0, <1>2, <1>3 DEF SessionType, RowsApart
  <1> QED
    BY <1>1, <1>2, <1>4, <1>5, <1>6, <1>7 DEF Held, NothingUncommitted

\* A session whose generator is dropped keeps its connection and its rows.
LEMMA AbandonHeld ==
    ASSUME Held, NEW t \in Task, Depth(t) > 0, Abandon(t)
    PROVE  Held'
  <1> DEFINE n == Depth(t)
  <1>0. Stacks /\ RowsApart /\ OwnPool /\ NoConnectionLeak
    BY DEF Held
  <1>1. /\ sessions' = [sessions EXCEPT ![t] = Inner(t)]
        /\ orphans' = [orphans EXCEPT ![t] = Append(@, sessions[t][n])]
        /\ UNCHANGED <<free, visible, dropped>>
    BY DEF Abandon, Top, pools, rows
  <1>2. /\ Stacks'
        /\ \A u \in Task \ {t} : sessions'[u] = sessions[u]
        /\ n \in DOMAIN sessions[t]
        /\ DOMAIN sessions'[t] = DOMAIN sessions[t] \ {n}
        /\ \A m \in DOMAIN sessions'[t] : sessions'[t][m] = sessions[t][m]
    BY <1>1, Popped, <1>0
  <1>3. sessions[t][n] \in SessionType
    BY <1>0, <1>2, LenProperties DEF Stacks
  <1> HIDE DEF n
  <1>4. PICK k : /\ orphans' \in [Task -> Seq(SessionType)]
                 /\ \A u \in Task \ {t} : orphans'[u] = orphans[u]
                 /\ DOMAIN orphans'[t] = DOMAIN orphans[t] \cup {k}
                 /\ k \notin DOMAIN orphans[t]
                 /\ \A m \in DOMAIN orphans[t] : orphans'[t][m] = orphans[t][m]
                 /\ orphans'[t][k] = sessions[t][n]
    <2> DEFINE q == orphans[t]
               s == sessions[t][n]
    <2>1. q \in Seq(SessionType) /\ orphans \in [Task -> Seq(SessionType)]
      BY DEF Held
    <2>2. /\ Len(q) \in Nat /\ DOMAIN q = 1 .. Len(q)
          /\ Append(q, s) \in Seq(SessionType)
          /\ DOMAIN Append(q, s) = 1 .. Len(q) + 1
          /\ \A m \in 1 .. Len(q) : Append(q, s)[m] = q[m]
          /\ Append(q, s)[Len(q) + 1] = s
      BY <2>1, <1>3, LenProperties, AppendProperties
    <2>3. DOMAIN Append(q, s) = DOMAIN q \cup {Len(q) + 1} /\ Len(q) + 1 \notin DOMAIN q
      BY <2>2
    <2> QED
      BY <1>1, <2>1, <2>2, <2>3
  <1>5. RowsApart'
    <2> USE <1>0, <1>1, <1>2, <1>4 DEF RowsApart
    <2>1. \A u \in Task : \A m \in DOMAIN sessions'[u] :
              /\ m \in DOMAIN sessions[u] /\ sessions'[u][m] = sessions[u][m]
              /\ ~(u = t /\ m = n)
      OBVIOUS
    <2>2. \A u \in Task : \A m \in DOMAIN orphans'[u] :
              \/ u = t /\ m = k /\ orphans'[u][m] = sessions[t][n]
              \/ m \in DOMAIN orphans[u] /\ orphans'[u][m] = orphans[u][m]
      OBVIOUS
    <2>3. \A u, v \in Task : \A i \in DOMAIN orphans'[u], j \in DOMAIN orphans'[v] :
              orphans'[u][i].work \cap orphans'[v][j].work # {} => u = v /\ i = j
      BY <2>2
    <2>4. \A u, v \in Task : \A i \in DOMAIN sessions'[u], j \in DOMAIN orphans'[v] :
              sessions'[u][i].work \cap orphans'[v][j].work = {}
      BY <2>1, <2>2
    <2> QED
      BY <2>1, <2>2, <2>3, <2>4
  <1>6. OwnPool'
    BY <1>0, <1>2 DEF OwnPool
  <1>7. NoConnectionLeak'
    <2>1. ASSUME NEW c, NEW u \in Task, NEW m \in DOMAIN sessions[u], sessions[u][m].conn = c
          PROVE  \/ m \in DOMAIN sessions'[u] /\ sessions'[u][m].conn = c
                 \/ k \in DOMAIN orphans'[t] /\ orphans'[t][k].conn = c
      BY <1>2, <1>4, <2>1
    <2>2. ASSUME NEW c, NEW u \in Task, NEW m \in DOMAIN orphans[u], orphans[u][m].conn = c
          PROVE  m \in DOMAIN orphans'[u] /\ orphans'[u][m].conn = c
      BY <1>4, <2>2
    <2> SUFFICES ASSUME NEW c \in Connection \ free
                 PROVE  \E u \in Task :
                            \/ \E m \in DOMAIN sessions'[u] : sessions'[u][m].conn = c
                            \/ \E m \in DOMAIN orphans'[u] : orphans'[u][m].conn = c
      BY <1>1 DEF NoConnectionLeak
    <2>3. PICK u \in Task : \/ \E m \in DOMAIN sessions[u] : sessions[u][m].conn = c
                            \/ \E m \in DOMAIN orphans[u] : orphans[u][m].conn = c
      BY <1>0 DEF NoConnectionLeak
    <2> QED
      BY <2>1, <2>2, <2>3
  <1> QED
    BY <1>1, <1>2, <1>4, <1>5, <1>6, <1>7 DEF Held, NothingUncommitted

LEMMA FinalizeHeld ==
    ASSUME Held, NEW t \in Task, Finalize(t)
    PROVE  Held'
  <1> DEFINE q == orphans[t]
             s == q[1]
  <1>0. RowsApart /\ OwnPool /\ NoConnectionLeak
    BY DEF Held
  <1>1. /\ orphans' = [orphans EXCEPT ![t] = Tail(q)]
        /\ free' = free \cup ({s.conn} \ {NoConnection})
        /\ dropped' = dropped \cup s.work
        /\ UNCHANGED <<sessions, visible>>
        /\ q # <<>>
    BY DEF Finalize, Returned, Held
  <1>2. q \in Seq(SessionType) /\ orphans \in [Task -> Seq(SessionType)]
    BY DEF Held
  <1>3. /\ Len(q) \in Nat /\ DOMAIN q = 1 .. Len(q) /\ 1 \in DOMAIN q
        /\ s \in SessionType
        /\ Tail(q) \in Seq(SessionType)
        /\ DOMAIN Tail(q) = 1 .. Len(q) - 1
        /\ \A m \in 1 .. Len(q) - 1 : Tail(q)[m] = q[m + 1]
    BY <1>1, <1>2, LenProperties, HeadTailProperties
  <1> HIDE DEF s
  <1>4. /\ orphans' \in [Task -> Seq(SessionType)]
        /\ \A u \in Task \ {t} : orphans'[u] = orphans[u]
        /\ \A m \in DOMAIN orphans'[t] :
               m \in Nat /\ m + 1 \in DOMAIN orphans[t] \ {1} /\ orphans'[t][m] = orphans[t][m + 1]
        /\ \A m \in DOMAIN orphans[t] \ {1} :
               m - 1 \in DOMAIN orphans'[t] /\ orphans'[t][m - 1] = orphans[t][m]
    BY <1>1, <1>2, <1>3
  <1>s. s = orphans[t][1] /\ 1 \in DOMAIN orphans[t]
    BY <1>3 DEF s
  <1> HIDE DEF q
  <1>5. RowsApart'
    <2> USE <1>0, <1>1, <1>4, <1>s DEF RowsApart
    <2>1. \A u \in Task : \A m \in DOMAIN orphans'[u] : \E k \in DOMAIN orphans[u] :
              /\ orphans'[u][m] = orphans[u][k]
              /\ ~(u = t /\ k = 1)
              /\ k = IF u = t THEN m + 1 ELSE m
      OBVIOUS
    <2>2. \A u, v \in Task : \A i \in DOMAIN orphans'[u], j \in DOMAIN orphans'[v] :
              orphans'[u][i].work \cap orphans'[v][j].work # {} => u = v /\ i = j
      <3> SUFFICES ASSUME NEW u \in Task, NEW v \in Task,
                          NEW i \in DOMAIN orphans'[u], NEW j \in DOMAIN orphans'[v],
                          orphans'[u][i].work \cap orphans'[v][j].work # {}
                   PROVE  u = v /\ i = j
        OBVIOUS
      <3>1. PICK k \in DOMAIN orphans[u] :
                orphans'[u][i] = orphans[u][k] /\ k = IF u = t THEN i + 1 ELSE i
        BY <2>1
      <3>2. PICK l \in DOMAIN orphans[v] :
                orphans'[v][j] = orphans[v][l] /\ l = IF v = t THEN j + 1 ELSE j
        BY <2>1
      <3>3. u = v /\ k = l
        BY <3>1, <3>2
      <3>4. u = t => i \in Nat /\ j \in Nat
        BY <3>3
      <3> QED
        BY <3>1, <3>2, <3>3, <3>4
    <2>3. \A u \in Task : \A m \in DOMAIN sessions[u] : sessions[u][m].work \cap s.work = {}
      OBVIOUS
    <2>4. \A u \in Task : \A m \in DOMAIN orphans'[u] : orphans'[u][m].work \cap s.work = {}
      BY <2>1
    <2>5. \A u, v \in Task : \A i \in DOMAIN sessions[u], j \in DOMAIN orphans'[v] :
              sessions[u][i].work \cap orphans'[v][j].work = {}
      BY <2>1
    <2>6. \A u \in Task : \A m \in DOMAIN orphans'[u] :
              orphans'[u][m].work \cap (visible \cup dropped) = {}
      BY <2>1
    <2> QED
      BY <2>2, <2>3, <2>4, <2>5, <2>6
  <1>6. OwnPool'
    BY <1>0, <1>1 DEF OwnPool
  <1>7. NoConnectionLeak' /\ free' \subseteq Connection
    <2>1. ASSUME NEW c \in Connection \ free', NEW u \in Task, NEW m \in DOMAIN orphans[u],
                 orphans[u][m].conn = c
          PROVE  \E k \in DOMAIN orphans'[u] : orphans'[u][k].conn = c
      <3>1. ~(u = t /\ m = 1)
        BY <1>1, <1>s, <2>1, PoolAssumption
      <3> QED
        BY <1>4, <2>1, <3>1
    <2>2. free' \subseteq Connection
      BY <1>1, <1>3 DEF SessionType, Held
    <2>3. \A c \in Connection \ free' : c \in Connection \ free
      BY <1>1
    <2> QED
      BY <1>0, <1>1, <2>1, <2>2, <2>3 DEF NoConnectionLeak
  <1>8. s.work \subseteq Row /\ s.work \cap visible = {}
    BY <1>0, <1>3, <1>s DEF SessionType, RowsApart
  <1> QED
    BY <1>1, <1>4, <1>5, <1>6, <1>7, <1>8 DEF Held, NothingUncommitted, Stacks

-----------------------------------------------------------------------------
(* The queues.                                                             *)

QueueTypes == queue \in [Database -> Seq(Task \X (1 .. MaxDepth))]

\* Who waits does so for a session of that database without a connection.
Waiters ==
    \A d \in Database : \A i \in DOMAIN queue[d] :
        LET t == queue[d][i][1]  n == queue[d][i][2]
        IN  /\ Waits(t) /\ n \in DOMAIN sessions[t]
            /\ sessions[t][n].conn = NoConnection /\ sessions[t][n].db = d

\* Nobody waits at two places.
Once ==
    \A d, e \in Database : \A i \in DOMAIN queue[d], j \in DOMAIN queue[e] :
        queue[d][i][1] = queue[e][j][1] => d = e /\ i = j

\* A task is only out of the code of a session when it is in one.
Deep ==
    \A t \in Task :
        /\ Depth(t) \in 0 .. MaxDepth
        /\ state[t] # "running" => Depth(t) > 0

Queued ==
    /\ state \in [Task -> {"running", "waiting", "raising", "closing", "cancelled"}]
    /\ QueueTypes /\ Waiters /\ Once

\* A step of a task that is in no queue leaves the others waiting.
LEMMA OthersWait ==
    ASSUME Queued, NEW t \in Task, ~Waits(t), UNCHANGED queue,
           \A u \in Task \ {t} : sessions'[u] = sessions[u],
           NEW s \in {"running", "waiting", "raising", "closing", "cancelled"},
           state' = [state EXCEPT ![t] = s]
    PROVE  Queued'
  <1>1. QueueTypes' /\ Once'
    BY DEF Queued, QueueTypes, Once
  <1>2. \A d \in Database : \A i \in DOMAIN queue[d] : queue[d][i][1] \in Task \ {t}
    <2> TAKE d \in Database
    <2> TAKE i \in DOMAIN queue[d]
    <2>1. queue[d][i] \in Task \X (1 .. MaxDepth)
      BY LenProperties DEF Queued, QueueTypes
    <2> QED
      BY <2>1 DEF Queued, Waiters
  <1>3. \A u \in Task \ {t} : state'[u] = state[u]
    BY DEF Queued
  <1>4. Waiters'
    BY <1>2, <1>3 DEF Queued, Waiters, Waits
  <1> QED
    BY <1>1, <1>4 DEF Queued

\* The queue of d without its i-th place.
Shorter(d, i) ==
    /\ QueueTypes'
    /\ \A e \in Database \ {d} : queue'[e] = queue[e]
    /\ \A j \in DOMAIN queue'[d] :
           LET k == IF j < i THEN j ELSE j + 1
           IN  j \in Nat /\ k \in DOMAIN queue[d] \ {i} /\ queue'[d][j] = queue[d][k]

LEMMA RemovedIsShorter ==
    ASSUME QueueTypes, NEW d \in Database, NEW i \in DOMAIN queue[d],
           queue' = [queue EXCEPT ![d] = RemoveAt(@, i)]
    PROVE  Shorter(d, i)
  <1> DEFINE S == Task \X (1 .. MaxDepth)
             q == queue[d]
  <1>1. q \in Seq(S) /\ i \in DOMAIN q
    BY DEF QueueTypes
  <1>3. Len(q) \in Nat /\ DOMAIN q = 1 .. Len(q)
    BY <1>1, LenProperties
  <1>4. queue'[d] = RemoveAt(q, i) /\ \A e \in Database \ {d} : queue'[e] = queue[e]
    BY DEF QueueTypes
  <1>2. /\ RemoveAt(q, i) \in Seq(S)
        /\ \A j \in DOMAIN RemoveAt(q, i) :
               /\ j \in 1 .. Len(q) - 1
               /\ RemoveAt(q, i)[j] = IF j < i THEN q[j] ELSE q[j + 1]
    <2> HIDE DEF S, q
    <2> QED
      BY <1>1, RemoveAtProperties, Zenon
  <1>5. QueueTypes'
    BY <1>2 DEF QueueTypes
  <1>6. ASSUME NEW j \in DOMAIN queue'[d]
        PROVE  LET k == IF j < i THEN j ELSE j + 1
               IN  j \in Nat /\ k \in DOMAIN q \ {i} /\ queue'[d][j] = q[k]
    <2>1. /\ j \in 1 .. Len(q) - 1
          /\ queue'[d][j] = IF j < i THEN q[j] ELSE q[j + 1]
      BY <1>2, <1>4
    <2>2. i \in 1 .. Len(q)
      BY <1>1, <1>3
    <2> HIDE DEF q
    <2> QED
      BY <1>3, <2>1, <2>2
  <1> QED
    BY <1>4, <1>5, <1>6 DEF Shorter

\* A task leaves the only place it has in a queue, and the others keep theirs.
LEMMA ShorterQueued ==
    ASSUME Queued, NEW t \in Task, NEW d \in Database, NEW i \in DOMAIN queue[d],
           queue[d][i][1] = t, Shorter(d, i),
           \A u \in Task \ {t} : sessions'[u] = sessions[u],
           NEW s \in {"running", "raising", "cancelled"},
           state' = [state EXCEPT ![t] = s]
    PROVE  Queued'
  <1>1. \A e \in Database : \A j \in DOMAIN queue'[e] : \E k \in DOMAIN queue[e] :
            /\ queue'[e][j] = queue[e][k]
            /\ ~(e = d /\ k = i)
            /\ k = IF e = d /\ j >= i THEN j + 1 ELSE j
            /\ e = d => j \in Nat
    <2> TAKE e \in Database
    <2> TAKE j \in DOMAIN queue'[e]
    <2>1. CASE e = d
      <3>1. i \in Nat
        BY LenProperties DEF Queued, QueueTypes
      <3> QED
        BY <2>1, <3>1 DEF Shorter
    <2>2. CASE e # d
      BY <2>2 DEF Shorter
    <2> QED
      BY <2>1, <2>2
  <1>2. i \in Nat
    BY LenProperties DEF Queued, QueueTypes
  <1>3. Once'
    <2> SUFFICES ASSUME NEW e \in Database, NEW f \in Database,
                        NEW j \in DOMAIN queue'[e], NEW l \in DOMAIN queue'[f],
                        queue'[e][j][1] = queue'[f][l][1]
                 PROVE  e = f /\ j = l
      BY DEF Once
    <2>1. PICK k \in DOMAIN queue[e] :
              /\ queue'[e][j] = queue[e][k]
              /\ k = IF e = d /\ j >= i THEN j + 1 ELSE j
              /\ e = d => j \in Nat
      BY <1>1
    <2>2. PICK m \in DOMAIN queue[f] :
              /\ queue'[f][l] = queue[f][m]
              /\ m = IF f = d /\ l >= i THEN l + 1 ELSE l
              /\ f = d => l \in Nat
      BY <1>1
    <2>3. e = f /\ k = m
      BY <2>1, <2>2 DEF Queued, Once
    <2> QED
      BY <1>2, <2>1, <2>2, <2>3
  <1>4. \A e \in Database : \A j \in DOMAIN queue'[e] : queue'[e][j][1] \in Task \ {t}
    <2> TAKE e \in Database
    <2> TAKE j \in DOMAIN queue'[e]
    <2>1. PICK k \in DOMAIN queue[e] : queue'[e][j] = queue[e][k] /\ ~(e = d /\ k = i)
      BY <1>1
    <2>2. queue[e][k] \in Task \X (1 .. MaxDepth)
      BY LenProperties DEF Queued, QueueTypes
    <2> QED
      BY <2>1, <2>2 DEF Queued, Once
  <1>5. \A u \in Task \ {t} : state'[u] = state[u]
    BY DEF Queued
  <1>6. Waiters'
    <2> SUFFICES ASSUME NEW e \in Database, NEW j \in DOMAIN queue'[e]
                 PROVE  LET u == queue'[e][j][1]  n == queue'[e][j][2]
                        IN  /\ state'[u] = "waiting" /\ n \in DOMAIN sessions'[u]
                            /\ sessions'[u][n].conn = NoConnection /\ sessions'[u][n].db = e
      BY DEF Waiters, Waits
    <2>1. PICK k \in DOMAIN queue[e] : queue'[e][j] = queue[e][k]
      BY <1>1
    <2> QED
      BY <1>4, <1>5, <2>1 DEF Queued, Waiters, Waits
  <1>7. QueueTypes'
    BY DEF Shorter
  <1> QED
    BY <1>3, <1>6, <1>7 DEF Queued

LEMMA LeaveQueued ==
    ASSUME Queued, NEW t \in Task, LeaveQueue(t), UNCHANGED sessions,
           NEW s \in {"running", "raising", "cancelled"}, Becomes(t, s)
    PROVE  Queued'
  <1>1. PICK d \in Database : \E i \in DOMAIN queue[d] :
            queue[d][i][1] = t /\ queue' = [queue EXCEPT ![d] = RemoveAt(@, i)]
    BY DEF LeaveQueue
  <1>2. PICK i \in DOMAIN queue[d] :
            queue[d][i][1] = t /\ queue' = [queue EXCEPT ![d] = RemoveAt(@, i)]
    BY <1>1
  <1>3. Shorter(d, i)
    BY <1>2, RemovedIsShorter DEF Queued
  <1> QED
    BY <1>2, <1>3, ShorterQueued DEF Becomes

\* A running task joins a queue.
LEMMA JoinQueued ==
    ASSUME Queued, Deep, Stacks, NEW t \in Task, NEW n \in 1 .. MaxDepth, Connect(t, n),
           Becomes(t, "waiting")
    PROVE  Queued'
  <1> DEFINE d == sessions[t][n].db
             S == Task \X (1 .. MaxDepth)
             w == <<t, n>>
  <1>1. /\ state[t] = "running" /\ n \in 1 .. Depth(t) /\ sessions[t][n].conn = NoConnection
        /\ queue' = [queue EXCEPT ![d] = Append(@, w)]
        /\ UNCHANGED sessions
        /\ state' = [state EXCEPT ![t] = "waiting"]
    BY DEF Connect, InSession, Becomes, Queued
  <1>2. n \in DOMAIN sessions[t] /\ d \in Database
    <2>1. sessions[t] \in Seq(SessionType)
      BY DEF Stacks
    <2>2. n \in DOMAIN sessions[t] /\ sessions[t][n] \in SessionType
      BY <1>1, <2>1, LenProperties DEF Depth
    <2> QED
      BY <2>2 DEF SessionType
  <1>3. /\ w \in S /\ queue \in [Database -> Seq(S)] /\ w[1] = t /\ w[2] = n
    BY DEF Queued, QueueTypes
  <1> HIDE DEF d, S, w
  <1>4. PICK k \in Nat :
            /\ queue'[d] \in Seq(S)
            /\ DOMAIN queue'[d] = DOMAIN queue[d] \cup {k} /\ k \notin DOMAIN queue[d]
            /\ queue'[d][k] = w
            /\ \A i \in DOMAIN queue[d] : queue'[d][i] = queue[d][i]
    <2> DEFINE q == queue[d]
    <2>1. q \in Seq(S)
      BY <1>2, <1>3
    <2>2. /\ Len(q) \in Nat /\ DOMAIN q = 1 .. Len(q)
          /\ Append(q, w) \in Seq(S)
          /\ DOMAIN Append(q, w) = 1 .. Len(q) + 1
          /\ \A i \in 1 .. Len(q) : Append(q, w)[i] = q[i]
          /\ Append(q, w)[Len(q) + 1] = w
      <3> HIDE DEF q
      <3> QED
        BY <1>3, <2>1, LenProperties, AppendProperties
    <2>3. queue'[d] = Append(q, w)
      BY <1>1, <1>2, <1>3
    <2> HIDE DEF q
    <2>4. DOMAIN q = 1 .. Len(q)
      BY <2>2
    <2> QED
      BY <2>2, <2>3 DEF q
  <1>5. \A e \in Database \ {d} : queue'[e] = queue[e]
    BY <1>1, <1>3
  <1>6. \A e \in Database : \A i \in DOMAIN queue[e] :
            queue[e][i] \in S /\ queue[e][i][1] \in Task \ {t}
    <2> TAKE e \in Database
    <2> TAKE i \in DOMAIN queue[e]
    <2>1. queue[e][i] \in S
      BY <1>3, LenProperties
    <2>2. queue[e][i][1] # t
      BY <1>1 DEF Queued, Waiters, Waits
    <2> QED
      BY <2>1, <2>2 DEF S
  <1>7. \A e \in Database : \A i \in DOMAIN queue'[e] :
            \/ e = d /\ i = k /\ queue'[e][i] = w
            \/ i \in DOMAIN queue[e] /\ queue'[e][i] = queue[e][i]
    BY <1>4, <1>5
  <1>8. QueueTypes'
    BY <1>1, <1>2, <1>3, <1>4 DEF QueueTypes, S
  <1>9. Once'
    <2> SUFFICES ASSUME NEW e \in Database, NEW f \in Database,
                        NEW i \in DOMAIN queue'[e], NEW j \in DOMAIN queue'[f],
                        queue'[e][i][1] = queue'[f][j][1]
                 PROVE  e = f /\ i = j
      BY DEF Once
    <2>1. CASE queue'[e][i][1] = t
      <3>1. e = d /\ i = k
        BY <1>6, <1>7, <2>1
      <3>0. queue'[f][j][1] = t
        BY <2>1
      <3>2. f = d /\ j = k
        BY <1>6, <1>7, <3>0
      <3> QED
        BY <3>1, <3>2
    <2>2. CASE queue'[e][i][1] # t
      <3>1. /\ i \in DOMAIN queue[e] /\ queue'[e][i] = queue[e][i]
            /\ j \in DOMAIN queue[f] /\ queue'[f][j] = queue[f][j]
        BY <1>3, <1>7, <2>2
      <3> QED
        BY <3>1 DEF Once, Queued
    <2> QED
      BY <2>1, <2>2
  <1>10. Waiters'
    <2> SUFFICES ASSUME NEW e \in Database, NEW i \in DOMAIN queue'[e]
                 PROVE  LET u == queue'[e][i][1]  m == queue'[e][i][2]
                        IN  /\ state'[u] = "waiting" /\ m \in DOMAIN sessions'[u]
                            /\ sessions'[u][m].conn = NoConnection /\ sessions'[u][m].db = e
      BY DEF Waiters, Waits
    <2>1. CASE e = d /\ queue'[e][i] = w
      BY <1>1, <1>2, <1>3, <2>1 DEF Queued, d
    <2>2. CASE i \in DOMAIN queue[e] /\ queue'[e][i] = queue[e][i]
      <3>1. /\ Waits(queue[e][i][1]) /\ queue[e][i][2] \in DOMAIN sessions[queue[e][i][1]]
            /\ sessions[queue[e][i][1]][queue[e][i][2]].conn = NoConnection
            /\ sessions[queue[e][i][1]][queue[e][i][2]].db = e
        BY <2>2 DEF Queued, Waiters
      <3>2. state'[queue[e][i][1]] = state[queue[e][i][1]]
        BY <1>1, <1>6, <2>2 DEF Queued
      <3> QED
        BY <1>1, <2>2, <3>1, <3>2 DEF Waits
    <2> QED
      BY <1>7, <2>1, <2>2
  <1> QED
    BY <1>1, <1>8, <1>9, <1>10 DEF Queued

-----------------------------------------------------------------------------
(* The steps.                                                              *)

IInv == Held /\ Deep /\ Queued

\* Steps that leave sessions, and who runs, alone.
LEMMA SameStacks ==
    ASSUME IInv, UNCHANGED sessions, NEW t \in Task, Depth(t) > 0,
           NEW s \in {"running", "waiting", "raising", "closing", "cancelled"}, Becomes(t, s)
    PROVE  Deep'
  BY DEF IInv, Deep, Depth, Becomes, Queued

LEMMA EnterStep ==
    ASSUME IInv, NEW t \in Task, NEW d \in Database, NEW by \in Opener, Enter(t, d, by)
    PROVE  IInv'
  <1>0. Stacks /\ Queued /\ Deep
    BY DEF IInv, Held
  <1>1. Held'
    BY EnterHeld DEF IInv
  <1>2. /\ state[t] = "running" /\ Depth(t) < MaxDepth
        /\ sessions' = [sessions EXCEPT ![t] = Append(@, NewSession(d, by))]
        /\ UNCHANGED <<state, queue>>
    BY DEF Enter, pools
  <1>3. NewSession(d, by) \in SessionType
    BY DEF NewSession, SessionType
  <1>4. /\ \A u \in Task \ {t} : sessions'[u] = sessions[u]
        /\ Depth(t)' = Depth(t) + 1
    BY <1>0, <1>2, <1>3, Pushed
  <1>5. state' = [state EXCEPT ![t] = "running"]
    BY <1>0, <1>2 DEF Queued
  <1>6. Queued'
    BY <1>0, <1>2, <1>4, <1>5, OthersWait DEF Waits
  <1>7. Deep'
    <2>1. \A u \in Task \ {t} : Depth(u)' = Depth(u)
      BY <1>4 DEF Depth
    <2> QED
      BY <1>0, <1>2, <1>4, <2>1 DEF Deep
  <1> QED
    BY <1>1, <1>6, <1>7 DEF IInv

\* Other steps of a session's code, which runs.
LEMMA ConnectStep ==
    ASSUME IInv, NEW t \in Task, NEW n \in 1 .. MaxDepth, Connect(t, n)
    PROVE  IInv'
  <1>0. Stacks /\ Queued /\ Deep /\ Held
    BY DEF IInv, Held
  <1>1. /\ n \in DOMAIN sessions[t] /\ state[t] = "running" /\ Depth(t) > 0
        /\ sessions[t][n].conn = NoConnection
    <2>1. DOMAIN sessions[t] = 1 .. Len(sessions[t]) /\ Len(sessions[t]) \in Nat
      BY <1>0, LenProperties DEF Stacks
    <2> QED
      BY <2>1 DEF Connect, InSession, Depth
  <1>2. CASE Idle(sessions[t][n].db) # {}
    <2>1. Take(t, n) /\ UNCHANGED <<state, queue, rows, orphans>>
      BY <1>2 DEF Connect
    <2>2. Held'
      BY <1>0, <1>1, <1>2, <2>1, TakeHeld
    <2>3. /\ \A u \in Task \ {t} : sessions'[u] = sessions[u]
          /\ \A u \in Task : Depth(u)' = Depth(u)
      BY <1>0, <2>1 DEF Take, Stacks, Depth
    <2>4. state' = [state EXCEPT ![t] = "running"]
      BY <1>0, <1>1, <2>1 DEF Queued
    <2>5. Queued'
      BY <1>0, <1>1, <2>1, <2>3, <2>4, OthersWait DEF Waits
    <2>6. Deep'
      BY <1>0, <2>1, <2>3 DEF Deep
    <2> QED
      BY <2>2, <2>5, <2>6 DEF IInv
  <1>3. CASE Idle(sessions[t][n].db) = {}
    <2>1. Becomes(t, "waiting") /\ UNCHANGED <<sessions, free, rows, orphans>>
      BY <1>3 DEF Connect
    <2>2. Queued'
      BY <1>0, <2>1, JoinQueued
    <2>3. Deep'
      BY <1>1, <2>1, SameStacks
    <2>4. Held'
      BY <1>0, <2>1, HeldStutter DEF HeldVars
    <2> QED
      BY <2>2, <2>3, <2>4 DEF IInv
  <1> QED
    BY <1>2, <1>3

\* The n-th session of t changes in its place, and t goes on.
LEMMA PlaceStep ==
    ASSUME IInv, Held', NEW t \in Task, state[t] \in {"running", "raising"}, Depth(t) > 0,
           \A u \in Task \ {t} : sessions'[u] = sessions[u],
           Depth(t)' = Depth(t), UNCHANGED queue,
           NEW s \in {"running", "raising", "closing", "cancelled"},
           state' = [state EXCEPT ![t] = s]
    PROVE  IInv'
  <1>1. Queued'
    BY OthersWait DEF IInv, Waits
  <1>2. Deep'
    <2>1. \A u \in Task : Depth(u)' = Depth(u)
      BY DEF Depth
    <2>2. \A u \in Task \ {t} : state'[u] = state[u]
      BY DEF IInv, Queued
    <2> QED
      BY <2>1, <2>2 DEF IInv, Deep
  <1> QED
    BY <1>1, <1>2 DEF IInv

LEMMA WriteOrCommitStep ==
    ASSUME IInv, NEW t \in Task, NEW n \in 1 .. MaxDepth, Write(t, n) \/ Commit(t, n)
    PROVE  IInv'
  <1>0. Stacks /\ Queued /\ Held
    BY DEF IInv, Held
  <1>1. /\ n \in DOMAIN sessions[t] /\ state[t] = "running" /\ Depth(t) > 0
    <2>1. DOMAIN sessions[t] = 1 .. Len(sessions[t]) /\ Len(sessions[t]) \in Nat
      BY <1>0, LenProperties DEF Stacks
    <2> QED
      BY <2>1 DEF Write, Commit, InSession, Depth
  <1>2. Held'
    <2>1. CASE Write(t, n)
      BY <1>0, <1>1, <2>1, WriteHeld
    <2>2. CASE Commit(t, n)
      BY <1>0, <1>1, <2>2, EmptiedHeld DEF Commit
    <2> QED
      BY <2>1, <2>2
  <1>3. /\ \A u \in Task \ {t} : sessions'[u] = sessions[u]
        /\ Depth(t)' = Depth(t)
    BY <1>0 DEF Write, Commit, Stacks, Depth
  <1>4. UNCHANGED queue /\ state' = [state EXCEPT ![t] = "running"]
    BY <1>0, <1>1 DEF Write, Commit, pools, Queued
  <1> QED
    BY <1>1, <1>2, <1>3, <1>4, PlaceStep

LEMMA RaiseStep ==
    ASSUME IInv, NEW t \in Task, Raise(t)
    PROVE  IInv'
  <1>1. /\ state[t] = "running" /\ Depth(t) > 0
    <2>1. Len(sessions[t]) \in Nat
      BY LenProperties DEF IInv, Held, Stacks
    <2> QED
      BY <2>1 DEF Raise, InSession, Depth
  <1>2. UNCHANGED <<sessions, queue, free, rows, orphans>>
    BY DEF Raise, pools
  <1>3. Held'
    BY <1>2, HeldStutter DEF IInv, HeldVars
  <1>4. PICK s \in {"raising", "cancelled"} : state' = [state EXCEPT ![t] = s]
    BY DEF Raise, Becomes
  <1>5. Depth(t)' = Depth(t)
    BY <1>2 DEF Depth
  <1> QED
    BY <1>1, <1>2, <1>3, <1>4, <1>5, PlaceStep

LEMMA RollbackStep ==
    ASSUME IInv, NEW t \in Task, Rollback(t)
    PROVE  IInv'
  <1>0. Stacks /\ Queued /\ Held
    BY DEF IInv, Held
  <1>1. state[t] = "raising" /\ Depth(t) > 0
    BY DEF IInv, Deep, Rollback
  <1>2. Depth(t) \in DOMAIN sessions[t]
    <2>1. DOMAIN sessions[t] = 1 .. Len(sessions[t]) /\ Len(sessions[t]) \in Nat
      BY <1>0, LenProperties DEF Stacks
    <2> QED
      BY <1>1, <2>1 DEF Depth
  <1>3. Held'
    <2>1. CASE UNCHANGED <<sessions, free, dropped>>
      BY <1>0, <2>1, HeldStutter DEF HeldVars, Rollback, rows
    <2>2. CASE /\ sessions' = [sessions EXCEPT ![t][Depth(t)] = Emptied(@)]
               /\ free' = Returned(Top(t))
               /\ dropped' = dropped \cup Top(t).work
      BY <1>0, <1>2, <2>2, EmptiedHeld DEF Rollback, Top
    <2> QED
      BY <2>1, <2>2 DEF Rollback
  <1>4. /\ \A u \in Task \ {t} : sessions'[u] = sessions[u]
        /\ Depth(t)' = Depth(t)
    BY <1>0 DEF Rollback, Stacks, Depth
  <1>5. UNCHANGED queue /\ state' = [state EXCEPT ![t] = "closing"]
    BY DEF Rollback, Becomes
  <1> QED
    BY <1>1, <1>3, <1>4, <1>5, PlaceStep

\* A task leaves its innermost session, and is in another, or runs.
LEMMA PopStep ==
    ASSUME IInv, Held', NEW t \in Task, ~Waits(t), Depth(t) > 0,
           sessions' = [sessions EXCEPT ![t] = Inner(t)], UNCHANGED queue,
           NEW s \in {"running", "raising", "cancelled"},
           s = "running" \/ Depth(t) > 1,
           state' = [state EXCEPT ![t] = s]
    PROVE  IInv'
  <1>1. Stacks /\ Queued /\ Deep
    BY DEF IInv, Held
  <1>2. /\ \A u \in Task \ {t} : sessions'[u] = sessions[u]
        /\ Depth(t)' = Depth(t) - 1
    BY <1>1, Popped
  <1>3. Queued'
    BY <1>1, <1>2, OthersWait
  <1>4. Deep'
    <2>1. \A u \in Task \ {t} : Depth(u)' = Depth(u) /\ state'[u] = state[u]
      BY <1>1, <1>2 DEF Depth, Queued
    <2>2. Depth(t) \in 0 .. MaxDepth
      BY <1>1 DEF Deep
    <2>3. state'[t] = s
      BY <1>1 DEF Queued
    <2>4. Depth(t)' \in 0 .. MaxDepth /\ (state'[t] # "running" => Depth(t)' > 0)
      BY <1>2, <2>2, <2>3
    <2> QED
      BY <1>1, <2>1, <2>4 DEF Deep
  <1> QED
    BY <1>3, <1>4 DEF IInv

LEMMA CloseStep ==
    ASSUME IInv, NEW t \in Task, Close(t)
    PROVE  IInv'
  <1>1. ~Waits(t) /\ Depth(t) > 0
    <2>1. state[t] # "running" => Depth(t) > 0
      BY DEF IInv, Deep
    <2>2. Len(sessions[t]) \in Nat
      BY LenProperties DEF IInv, Held, Stacks
    <2> QED
      BY <2>1, <2>2 DEF Close, Waits, InSession, Depth
  <1>2. Held'
    BY <1>1, CloseHeld DEF IInv
  <1>3. sessions' = [sessions EXCEPT ![t] = Inner(t)] /\ UNCHANGED queue
    BY DEF Close
  <1>4. PICK s \in {"running", "raising", "cancelled"} :
            (s = "running" \/ Depth(t) > 1) /\ state' = [state EXCEPT ![t] = s]
    <2>1. CASE InSession(t, Depth(t)) /\ UNCHANGED state
      <3>1. state' = [state EXCEPT ![t] = "running"]
        BY <2>1 DEF InSession, IInv, Queued
      <3> QED
        BY <3>1
    <2>2. CASE \E how \in {"raising", "cancelled"} : GoesOn(t, how)
      BY <2>2 DEF GoesOn, Becomes
    <2> QED
      BY <2>1, <2>2 DEF Close
  <1> QED
    BY <1>1, <1>2, <1>3, <1>4, PopStep

LEMMA AbandonStep ==
    ASSUME IInv, NEW t \in Task, Abandon(t)
    PROVE  IInv'
  <1>1. ~Waits(t) /\ Depth(t) > 0
    BY DEF IInv, Deep, Abandon, Waits
  <1>2. Held'
    BY <1>1, AbandonHeld DEF IInv
  <1>3. sessions' = [sessions EXCEPT ![t] = Inner(t)] /\ UNCHANGED queue
    BY DEF Abandon, pools
  <1>4. PICK s \in {"running", "raising", "cancelled"} :
            (s = "running" \/ Depth(t) > 1) /\ state' = [state EXCEPT ![t] = s]
    BY DEF Abandon, GoesOn, Becomes
  <1> QED
    BY <1>1, <1>2, <1>3, <1>4, PopStep

LEMMA LoopStep ==
    ASSUME IInv, NEW t \in Task, Loop(t)
    PROVE  IInv'
  <1>0. Stacks /\ Queued /\ Deep /\ Held
    BY DEF IInv, Held
  <1>1. CASE PoolTimeout(t) \/ CancelWait(t)
    <2>1. PICK s \in {"raising", "cancelled"} : Becomes(t, s)
      BY <1>1 DEF PoolTimeout, CancelWait
    <2>2. Depth(t) > 0 /\ LeaveQueue(t) /\ UNCHANGED <<sessions, free, rows, orphans>>
      BY <1>1 DEF PoolTimeout, CancelWait, Waits, IInv, Deep
    <2>3. Queued'
      BY <1>0, <2>1, <2>2, LeaveQueued
    <2>4. Deep'
      BY <2>1, <2>2, SameStacks
    <2>5. Held'
      BY <1>0, <2>2, HeldStutter DEF HeldVars
    <2> QED
      BY <2>3, <2>4, <2>5 DEF IInv
  <1>2. CASE Finalize(t)
    <2>1. UNCHANGED <<sessions, state, queue>>
      BY <1>2 DEF Finalize
    <2>2. Held'
      BY <1>0, <1>2, FinalizeHeld
    <2> QED
      BY <1>0, <2>1, <2>2 DEF IInv, Queued, QueueTypes, Waiters, Waits, Once, Deep, Depth
  <1>3. ASSUME NEW d \in Database, Granted(t, d)
        PROVE  IInv'
    <2> DEFINE q == queue[d]
               n == q[1][2]
    <2>1. q \in Seq(Task \X (1 .. MaxDepth)) /\ q # <<>> /\ q[1][1] = t
      BY <1>0, <1>3 DEF Granted, Queued, QueueTypes
    <2>2. /\ 1 \in DOMAIN q
          /\ Tail(q) \in Seq(Task \X (1 .. MaxDepth))
          /\ DOMAIN Tail(q) = 1 .. Len(q) - 1
          /\ DOMAIN q = 1 .. Len(q) /\ Len(q) \in Nat
          /\ \A j \in 1 .. Len(q) - 1 : Tail(q)[j] = q[j + 1]
      BY <2>1, LenProperties, HeadTailProperties
    <2>3. /\ Waits(t) /\ n \in DOMAIN sessions[t]
          /\ sessions[t][n].conn = NoConnection /\ sessions[t][n].db = d
      BY <1>0, <2>1, <2>2 DEF Queued, Waiters
    <2>4. /\ Idle(d) # {} /\ Take(t, n)
          /\ queue' = [queue EXCEPT ![d] = Tail(q)]
          /\ Becomes(t, "running") /\ UNCHANGED <<rows, orphans>>
      BY <1>3 DEF Granted
    <2>5. Held'
      BY <1>0, <2>3, <2>4, TakeHeld
    <2>6. /\ \A u \in Task \ {t} : sessions'[u] = sessions[u]
          /\ \A u \in Task : Depth(u)' = Depth(u)
      BY <1>0, <2>4 DEF Take, Stacks, Depth
    <2>7. Shorter(d, 1)
      <3>1. queue'[d] = Tail(q) /\ \A e \in Database \ {d} : queue'[e] = queue[e]
        BY <1>0, <2>4 DEF Queued, QueueTypes
      <3>2. QueueTypes'
        BY <1>0, <2>2, <2>4 DEF Queued, QueueTypes
      <3>3. \A j \in DOMAIN Tail(q) :
                j \in Nat /\ ~(j < 1) /\ j + 1 \in DOMAIN q \ {1} /\ Tail(q)[j] = q[j + 1]
        BY <2>2
      <3> QED
        BY <3>1, <3>2, <3>3 DEF Shorter
    <2>8. state' = [state EXCEPT ![t] = "running"]
      BY <2>4 DEF Becomes
    <2>9. Queued'
      BY <1>0, <2>1, <2>2, <2>6, <2>7, <2>8, ShorterQueued
    <2>10. Deep'
      BY <1>0, <2>6, <2>8 DEF Deep, Queued
    <2> QED
      BY <2>5, <2>9, <2>10 DEF IInv
  <1> QED
    BY <1>1, <1>2, <1>3 DEF Loop

\* What a task may do, or have done to it.
Steps(t) ==
    \/ \E d \in Database, by \in Opener : Enter(t, d, by)
    \/ Works(t) \/ Loop(t) \/ Raise(t) \/ Unwinds(t) \/ Close(t)

LEMMA StepsIInv ==
    ASSUME IInv, NEW t \in Task, Steps(t)
    PROVE  IInv'
  BY EnterStep, ConnectStep, WriteOrCommitStep, LoopStep, RaiseStep, RollbackStep, AbandonStep,
     CloseStep DEF Steps, Works, Unwinds

LEMMA StutterIInv == IInv /\ UNCHANGED vars => IInv'
  <1> SUFFICES ASSUME IInv, UNCHANGED vars
               PROVE  IInv'
    OBVIOUS
  <1>1. Held'
    BY HeldStutter DEF IInv, HeldVars, vars, pools
  <1>2. Queued' /\ Deep'
    BY DEF IInv, Queued, QueueTypes, Waiters, Waits, Once, Deep, Depth, vars, pools
  <1> QED
    BY <1>1, <1>2 DEF IInv

LEMMA InitIInv == Init => IInv
  <1> SUFFICES ASSUME Init
               PROVE  IInv
    OBVIOUS
  <1>1. <<>> \in Seq(SessionType) /\ DOMAIN <<>> = {} /\ Len(<<>>) = 0
    BY EmptySeq
  <1>2. /\ Stacks /\ orphans \in [Task -> Seq(SessionType)]
        /\ \A t \in Task : DOMAIN sessions[t] = {} /\ DOMAIN orphans[t] = {} /\ Depth(t) = 0
    BY <1>1 DEF Init, Stacks, Depth
  <1>3. Held
    BY <1>2 DEF Init, Held, RowsApart, OwnPool, NoConnectionLeak, NothingUncommitted
  <1>4. Deep
    BY <1>2 DEF Init, Deep
  <1>5. Queued
    <2>1. QueueTypes
      BY EmptySeq DEF Init, QueueTypes
    <2>2. \A d \in Database : DOMAIN queue[d] = {}
      BY DEF Init
    <2> QED
      BY <2>1, <2>2 DEF Init, Queued, Waiters, Once
  <1> QED
    BY <1>3, <1>4, <1>5 DEF IInv

LEMMA Inductive == Spec => []IInv
  <1>1. IInv /\ [Next]_vars => IInv'
    BY StepsIInv, StutterIInv DEF Next, Steps
  <1> QED
    BY <1>1, InitIInv, PTL DEF Spec

\* The invariant is also one of the types.
LEMMA IInvTypes == IInv => TypeOK
  <1> SUFFICES ASSUME IInv
               PROVE  TypeOK
    OBVIOUS
  <1>1. ASSUME NEW d \in Database, NEW i \in DOMAIN queue[d]
        PROVE  LET t == queue[d][i][1]  n == queue[d][i][2]
               IN  Waits(t) /\ n <= Depth(t) /\ sessions[t][n].conn = NoConnection
    <2>1. queue[d][i] \in Task \X (1 .. MaxDepth)
      BY LenProperties DEF IInv, Queued, QueueTypes
    <2> DEFINE t == queue[d][i][1]
               n == queue[d][i][2]
    <2>2. Waits(t) /\ n \in DOMAIN sessions[t] /\ sessions[t][n].conn = NoConnection
      BY DEF IInv, Queued, Waiters
    <2>3. DOMAIN sessions[t] = 1 .. Len(sessions[t])
      BY <2>1, LenProperties DEF IInv, Held, Stacks
    <2> QED
      BY <2>2, <2>3 DEF Depth
  <1>2. \A t \in Task : Depth(t) <= MaxDepth
    BY DEF IInv, Deep
  <1> QED
    BY <1>1, <1>2 DEF TypeOK, IInv, Held, Stacks, Queued, QueueTypes

-----------------------------------------------------------------------------
(* The theorems.                                                           *)

\* The types of the sessions and of the queues.
THEOREM TypeCorrect == Spec => []TypeOK
  BY Inductive, IInvTypes, PTL

\* manage_session leaks no connection, whoever fails, nests or is cancelled.
THEOREM NothingLeaks == Spec => []NoConnectionLeak
  <1>1. IInv => NoConnectionLeak
    BY DEF IInv, Held
  <1> QED
    BY <1>1, Inductive, PTL

\* manage_session commits nothing by itself.
THEOREM NoAutoCommit == Spec => []NothingUncommitted
  <1>1. IInv => NothingUncommitted
    BY DEF IInv, Held
  <1> QED
    BY <1>1, Inductive, PTL

-----------------------------------------------------------------------------
(* The sessions of requests.                                               *)

HIDE PoolAssumption
HIDE OpenerAssumption
HIDE BoundsAssumption
USE RouteAssumption, CallableAssumption

\* A session of a request is one of its uses', at most one for each callable,
\* or an own one.
Bound ==
    \A t \in Task : \A n \in DOMAIN sessions[t] :
        sessions[t][n].by # Own => \E i \in DOMAIN route[t] :
            /\ sessions[t][n].by = Callable(route[t][i])
            /\ sessions[t][n].db = route[t][i].db

OneEach ==
    \A t \in Task : \A n, m \in DOMAIN sessions[t] :
        sessions[t][n].by = sessions[t][m].by /\ sessions[t][n].by # Own => n = m

Phases == {"idle", "handling", "sending", "leaving", "aborted", "failing"}

Routed ==
    /\ route \in [Task -> Seq(Use)]
    /\ phase \in [Task -> Phases]
    /\ \A t \in Task : route[t] \in Routes[t] \/ route[t] = <<>>
    /\ \A t \in Task : phase[t] = "idle" => Depth(t) = 0

\* Only a wrapper drops a generator.
Dropped == \A t \in Task : \A n \in DOMAIN orphans[t] : orphans[t][n].by \in Iterating

RInv == IInv /\ Routed /\ Bound /\ OneEach /\ Dropped

-----------------------------------------------------------------------------
(* What steps without Enter do.                                            *)

GoesOnWith(t) == Works(t) \/ Loop(t) \/ Raise(t) \/ Unwinds(t) \/ Close(t)

\* No session changes its database or its opener, and none is entered.
NoneEntered ==
    \A u \in Task : \A n \in DOMAIN sessions'[u] :
        /\ n \in DOMAIN sessions[u]
        /\ sessions'[u][n].by = sessions[u][n].by
        /\ sessions'[u][n].db = sessions[u][n].db

LEMMA GoesOnEntersNone ==
    ASSUME IInv, NEW t \in Task, GoesOnWith(t)
    PROVE  NoneEntered
  <1>0. Stacks /\ Queued /\ Deep
    BY DEF IInv, Held
  <1>1. \A u \in Task : /\ sessions[u] \in Seq(SessionType)
                       /\ DOMAIN sessions[u] = 1 .. Len(sessions[u])
                       /\ \A n \in DOMAIN sessions[u] : sessions[u][n] \in SessionType
    BY <1>0, LenProperties DEF Stacks
  <1>2. UNCHANGED sessions => NoneEntered
    BY DEF NoneEntered
  <1>3. ASSUME NEW n, Take(t, n)
        PROVE  NoneEntered
    BY <1>0, <1>1, <1>3 DEF Take, NoneEntered, Stacks, SessionType
  <1>4. sessions' = [sessions EXCEPT ![t] = Inner(t)] /\ Depth(t) > 0 => NoneEntered
    BY <1>0, Popped DEF NoneEntered
  <1>5. ASSUME NEW n, sessions' = [sessions EXCEPT ![t][n] = Emptied(@)]
        PROVE  NoneEntered
    BY <1>0, <1>1, <1>5 DEF Emptied, NewSession, NoneEntered, Stacks, SessionType
  <1>6. CASE Works(t)
    <2>1. PICK n \in 1 .. MaxDepth : Connect(t, n) \/ Write(t, n) \/ Commit(t, n)
      BY <1>6 DEF Works
    <2>2. CASE Connect(t, n)
      BY <1>2, <1>3, <2>2 DEF Connect
    <2>3. CASE Write(t, n)
      BY <1>0, <1>1, <2>3 DEF Write, NoneEntered, Stacks, SessionType
    <2>4. CASE Commit(t, n)
      BY <1>5, <2>4 DEF Commit
    <2> QED
      BY <2>1, <2>2, <2>3, <2>4
  <1>7. CASE Loop(t)
    BY <1>2, <1>3, <1>7 DEF Loop, Granted, PoolTimeout, CancelWait, Finalize
  <1>8. CASE Raise(t)
    BY <1>2, <1>8 DEF Raise
  <1>9. CASE Rollback(t)
    BY <1>2, <1>5, <1>9 DEF Rollback
  <1>10. CASE Abandon(t)
    <2>1. Depth(t) > 0
      BY <1>0, <1>10 DEF Abandon, Deep
    <2> QED
      BY <1>4, <1>10, <2>1 DEF Abandon
  <1>11. CASE Close(t)
    <2>1. Depth(t) > 0
      BY <1>0, <1>1, <1>11 DEF Close, InSession, Deep, Depth
    <2> QED
      BY <1>4, <1>11, <2>1 DEF Close
  <1> QED
    BY <1>6, <1>7, <1>8, <1>9, <1>10, <1>11 DEF GoesOnWith, Unwinds

LEMMA GoesOnDropped ==
    ASSUME IInv, Dropped, NEW t \in Task, GoesOnWith(t)
    PROVE  Dropped'
  <1>0. Stacks /\ Deep /\ orphans \in [Task -> Seq(SessionType)]
    BY DEF IInv, Held
  <1>1. UNCHANGED orphans => Dropped'
    BY DEF Dropped
  <1>2. CASE Abandon(t)
    <2> DEFINE q == orphans[t]
    <2>1. q \in Seq(SessionType) /\ Depth(t) > 0
      BY <1>0, <1>2 DEF Abandon, Deep
    <2>2. Top(t) \in SessionType
      <3>1. DOMAIN sessions[t] = 1 .. Len(sessions[t]) /\ Len(sessions[t]) \in Nat
        BY <1>0, LenProperties DEF Stacks
      <3>2. sessions[t] \in Seq(SessionType)
        BY <1>0 DEF Stacks
      <3> QED
        BY <2>1, <3>1, <3>2, LenProperties DEF Top, Depth
    <2>3. orphans' = [orphans EXCEPT ![t] = Append(q, Top(t))] /\ Top(t).by \in Iterating
      BY <1>2 DEF Abandon
    <2>4. \A n \in DOMAIN Append(q, Top(t)) :
              \/ n \in DOMAIN q /\ Append(q, Top(t))[n] = q[n]
              \/ Append(q, Top(t))[n] = Top(t)
      BY <2>1, <2>2, LenProperties, AppendProperties
    <2> QED
      BY <1>0, <2>3, <2>4 DEF Dropped
  <1>3. CASE Finalize(t)
    <2> DEFINE q == orphans[t]
    <2>1. q \in Seq(SessionType) /\ q # <<>> /\ orphans' = [orphans EXCEPT ![t] = Tail(q)]
      BY <1>0, <1>3 DEF Finalize
    <2>2. \A n \in DOMAIN Tail(q) : n + 1 \in DOMAIN q /\ Tail(q)[n] = q[n + 1]
      BY <2>1, LenProperties, HeadTailProperties
    <2> QED
      BY <1>0, <2>1, <2>2 DEF Dropped
  <1> QED
    BY <1>1, <1>2, <1>3 DEF GoesOnWith, Works, Connect, Write, Commit, Loop, Granted,
           PoolTimeout, CancelWait, Raise, Unwinds, Rollback, Close

\* The request keeps its route; only when nothing is left does it become idle.
LEMMA GoesOnRInv ==
    ASSUME RInv, NEW t \in Task, GoesOnWith(t), UNCHANGED route,
           NEW p \in Phases, p # "idle" \/ p = phase[t], phase' = [phase EXCEPT ![t] = p]
    PROVE  RInv'
  <1>1. IInv'
    BY StepsIInv DEF RInv, GoesOnWith, Steps
  <1>2. NoneEntered
    BY GoesOnEntersNone DEF RInv
  <1>3. Bound' /\ OneEach'
    BY <1>2 DEF RInv, Bound, OneEach, NoneEntered
  <1>4. Dropped'
    BY GoesOnDropped DEF RInv
  <1>5. \A u \in Task : phase'[u] = "idle" => Depth(u)' = 0
    <2>1. ASSUME NEW u \in Task, phase[u] = "idle"
          PROVE  Depth(u)' = 0
      <3>1. DOMAIN sessions[u] = {}
        BY <2>1, LenProperties DEF RInv, Routed, IInv, Held, Stacks, Depth
      <3>2. DOMAIN sessions'[u] = {}
        BY <1>2, <3>1 DEF NoneEntered
      <3>3. DOMAIN sessions'[u] = 1 .. Len(sessions'[u]) /\ Len(sessions'[u]) \in Nat
        BY <1>1, LenProperties DEF IInv, Held, Stacks
      <3>4. \A l \in Nat : 1 .. l = {} => l = 0
        <4> SUFFICES ASSUME NEW l \in Nat, l # 0
                     PROVE  1 \in 1 .. l
          OBVIOUS
        <4> QED
          OBVIOUS
      <3>5. Len(sessions'[u]) = 0
        BY <3>2, <3>3, <3>4
      <3> QED
        BY <3>5 DEF Depth
    <2> QED
      BY <2>1 DEF RInv, Routed
  <1>6. Routed'
    BY <1>5 DEF RInv, Routed
  <1> QED
    BY <1>1, <1>3, <1>4, <1>6 DEF RInv

-----------------------------------------------------------------------------
(* The steps of requests.                                                  *)

LEMMA QuietRInv ==
    ASSUME RInv, UNCHANGED vars, Routed', \A t \in Task : DOMAIN sessions[t] = {} \/ route'[t] = route[t]
    PROVE  RInv'
  <1>1. IInv'
    BY StutterIInv DEF RInv
  <1>2. UNCHANGED <<sessions, orphans>>
    BY DEF vars
  <1>3. Bound' /\ OneEach' /\ Dropped'
    BY <1>2 DEF RInv, Bound, OneEach, Dropped
  <1> QED
    BY <1>1, <1>3 DEF RInv

LEMMA QuietRouted ==
    ASSUME RInv, UNCHANGED vars, NEW t \in Task, NEW p \in Phases,
           p = "idle" => Depth(t) = 0,
           phase' = [phase EXCEPT ![t] = p],
           NEW r \in Seq(Use), r \in Routes[t] \/ r = <<>>, route' = [route EXCEPT ![t] = r]
    PROVE  Routed'
  <1>1. \A u \in Task : Depth(u)' = Depth(u)
    BY DEF vars, Depth
  <1> QED
    BY <1>1 DEF RInv, Routed

\* Entering a session, of the next use that has none, or an own one.
LEMMA EnterRInv ==
    ASSUME RInv, NEW t \in Task, NEW d \in Database, NEW by \in Opener, Enter(t, d, by),
           UNCHANGED requests, phase[t] # "idle",
           by # Own =>
               /\ \E i \in DOMAIN route[t] : by = Callable(route[t][i]) /\ d = route[t][i].db
               /\ \A m \in DOMAIN sessions[t] : sessions[t][m].by # by
    PROVE  RInv'
  <1>0. Stacks
    BY DEF RInv, IInv, Held
  <1>1. IInv'
    BY EnterStep DEF RInv
  <1> DEFINE s == NewSession(d, by)
  <1>2. s \in SessionType /\ s.by = by /\ s.db = d
    BY DEF NewSession, SessionType
  <1>3. sessions' = [sessions EXCEPT ![t] = Append(@, s)] /\ UNCHANGED orphans
    BY DEF Enter
  <1> HIDE DEF s
  <1>4. /\ \A u \in Task \ {t} : sessions'[u] = sessions[u]
        /\ DOMAIN sessions'[t] = DOMAIN sessions[t] \cup {Depth(t) + 1}
        /\ \A n \in DOMAIN sessions[t] : sessions'[t][n] = sessions[t][n]
        /\ sessions'[t][Depth(t) + 1] = s
    BY <1>0, <1>2, <1>3, Pushed
  <1>5. UNCHANGED <<phase, route>>
    BY DEF requests
  <1>6. Bound'
    BY <1>2, <1>4, <1>5 DEF RInv, Bound
  <1>7. OneEach'
    BY <1>2, <1>4, <1>5 DEF RInv, OneEach
  <1>8. Dropped'
    BY <1>3 DEF RInv, Dropped
  <1>9. Routed'
    BY <1>4, <1>5 DEF RInv, Routed, Depth
  <1> QED
    BY <1>1, <1>6, <1>7, <1>8, <1>9 DEF RInv

LEMMA RequestStep ==
    ASSUME RInv, NEW t \in Task,
           \/ Receive(t) \/ Resolve(t) \/ OwnSession(t) \/ OwnDone(t)
           \/ Body(t) \/ Waking(t) \/ Fails(t)
           \/ Return(t) \/ LeaveDependency(t)
           \/ UnwindOwn(t) \/ UnwindDependency(t) \/ Done(t)
    PROVE  RInv'
  <1>0. /\ phase \in [Task -> Phases] /\ route \in [Task -> Seq(Use)]
        /\ route[t] \in Seq(Use) /\ (route[t] \in Routes[t] \/ route[t] = <<>>)
        /\ phase' = phase => phase' = [phase EXCEPT ![t] = phase[t]]
        /\ route' = route => route' = [route EXCEPT ![t] = route[t]]
    BY DEF RInv, Routed
  <1>1. Depth(t) = 0 => DOMAIN sessions[t] = {}
    BY LenProperties DEF RInv, IInv, Held, Stacks, Depth
  <1>2. CASE Receive(t)
    <2>1. /\ UNCHANGED vars /\ Depth(t) = 0
          /\ phase' = [phase EXCEPT ![t] = "handling"]
      BY <1>2 DEF Receive, Moves, RInv, Routed
    <2>2. PICK r \in Routes[t] : route' = [route EXCEPT ![t] = r]
      BY <1>2 DEF Receive
    <2>3. r \in Seq(Use)
      BY <2>2
    <2>4. Routed'
      <3>1. "handling" \in Phases /\ ("handling" = "idle" => Depth(t) = 0)
        BY DEF Phases
      <3> QED
        BY <2>1, <2>2, <2>3, <3>1, QuietRouted
    <2> QED
      BY <1>0, <1>1, <2>1, <2>2, <2>4, QuietRInv
  <1>3. CASE Resolve(t)
    <2>1. PICK n \in Unresolved(t) : Enter(t, route[t][n].db, Callable(route[t][n]))
      BY <1>3 DEF Resolve
    <2>2. n \in DOMAIN route[t] /\ \A m \in DOMAIN sessions[t] : sessions[t][m].by # Callable(route[t][n])
      BY <2>1 DEF Unresolved
    <2>3. route[t] \in Routes[t]
      BY <1>0, <2>2
    <2>4. Callable(route[t][n]) \in Opener
      BY <2>2, <2>3
    <2>5. route[t][n] \in Use
      BY <1>0, <2>2, LenProperties, ElementOfSeq
    <2>6. route[t][n].db \in Database
      BY <2>5 DEF Use
    <2>7. phase[t] # "idle" /\ UNCHANGED requests
      BY <1>3 DEF Resolve
    <2> QED
      BY <2>1, <2>2, <2>4, <2>6, <2>7, EnterRInv
  <1>4. CASE OwnSession(t)
    <2>1. PICK d \in OwnOn : Enter(t, d, Own)
      BY <1>4 DEF OwnSession
    <2>2. phase[t] # "idle" /\ UNCHANGED requests
      BY <1>4 DEF OwnSession, Code
    <2>3. Own \in Opener /\ d \in Database
      BY OpenerAssumption, RouteAssumption
    <2> QED
      BY <2>1, <2>2, <2>3, EnterRInv
  <1>5. CASE OwnDone(t) \/ Body(t) \/ Waking(t) \/ Fails(t) \/ UnwindOwn(t)
    <2>1. GoesOnWith(t) /\ UNCHANGED <<phase, route>>
      BY <1>5 DEF OwnDone, Body, Waking, Fails, UnwindOwn, GoesOnWith, requests
    <2>2. phase[t] \in Phases
      BY <1>0
    <2> QED
      BY <1>0, <2>1, <2>2, GoesOnRInv
  <1>6. CASE LeaveDependency(t) \/ UnwindDependency(t)
    <2>1. PICK p \in {"leaving", "aborted", "failing"} : phase' = [phase EXCEPT ![t] = p]
      BY <1>6 DEF LeaveDependency, UnwindDependency, Moves
    <2>2. GoesOnWith(t) /\ UNCHANGED route
      BY <1>6 DEF LeaveDependency, UnwindDependency, GoesOnWith
    <2>3. p \in Phases /\ p # "idle"
      BY DEF Phases
    <2> QED
      BY <2>1, <2>2, <2>3, GoesOnRInv
  <1>7. CASE Return(t)
    <2>1. UNCHANGED vars /\ UNCHANGED route /\ phase' = [phase EXCEPT ![t] = "sending"]
      BY <1>7 DEF Return, Moves
    <2>2. Routed'
      <3>1. "sending" \in Phases /\ ("sending" = "idle" => Depth(t) = 0)
        BY DEF Phases
      <3> QED
        BY <1>0, <2>1, <3>1, QuietRouted
    <2> QED
      BY <2>1, <2>2, QuietRInv
  <1>8. CASE Done(t)
    <2>1. /\ UNCHANGED vars /\ Depth(t) = 0
          /\ phase' = [phase EXCEPT ![t] = "idle"] /\ route' = [route EXCEPT ![t] = <<>>]
      BY <1>8 DEF Done, Moves
    <2>2. Routed'
      <3>1. "idle" \in Phases /\ <<>> \in Seq(Use)
        BY EmptySeq DEF Phases
      <3> QED
        BY <2>1, <3>1, QuietRouted
    <2> QED
      BY <1>0, <1>1, <2>1, <2>2, QuietRInv
  <1> QED
    BY <1>2, <1>3, <1>4, <1>5, <1>6, <1>7, <1>8

LEMMA RequestsInductive == RequestsSpec => []RInv
  <1>1. RequestsInit => RInv
    <2> SUFFICES ASSUME RequestsInit
                 PROVE  RInv
      OBVIOUS
    <2>1. IInv
      BY InitIInv DEF RequestsInit
    <2>2. \A t \in Task : /\ DOMAIN sessions[t] = {} /\ DOMAIN orphans[t] = {}
                         /\ Depth(t) = 0
      BY DEF RequestsInit, Init, Depth
    <2>3. Routed
      <3>1. <<>> \in Seq(Use) /\ "idle" \in Phases
        BY EmptySeq DEF Phases
      <3>2. /\ phase = [t \in Task |-> "idle"]
            /\ route = [t \in Task |-> <<>>]
        BY DEF RequestsInit
      <3>3. route \in [Task -> Seq(Use)] /\ phase \in [Task -> Phases]
        BY <3>1, <3>2
      <3>4. \A t \in Task : route[t] = <<>>
        BY <3>2
      <3> QED
        BY <2>2, <3>3, <3>4 DEF Routed
    <2> QED
      BY <2>1, <2>2, <2>3 DEF RInv, Bound, OneEach, Dropped
  <1>2. RInv /\ [RequestsNext]_allVars => RInv'
    <2> SUFFICES ASSUME RInv, [RequestsNext]_allVars
                 PROVE  RInv'
      OBVIOUS
    <2>1. CASE RequestsNext
      BY <2>1, RequestStep DEF RequestsNext
    <2>2. CASE UNCHANGED allVars
      <3>1. UNCHANGED vars /\ UNCHANGED <<phase, route, sessions>>
        BY <2>2 DEF allVars, requests, vars
      <3>2. Routed'
        BY <3>1 DEF RInv, Routed, Depth
      <3> QED
        BY <3>1, <3>2, QuietRInv
    <2> QED
      BY <2>1, <2>2
  <1> QED
    BY <1>1, <1>2, PTL DEF RequestsSpec

\* Whatever FastAPI enters and leaves, and when, requests do to sessions and
\* pools what units of work do, and exceptions find their way out: every
\* behaviour of Requests is one of UnitOfWork, its fairness included.
THEOREM RequestsAreUnits == RequestsSpec => Spec /\ Fairness
  <1>1. RequestsInit => Init
    BY DEF RequestsInit
  <1>2. RInv /\ [RequestsNext]_allVars => [Next]_vars
    <2> SUFFICES ASSUME RInv, [RequestsNext]_allVars
                 PROVE  [Next]_vars
      OBVIOUS
    <2>1. ASSUME NEW t \in Task, Resolve(t)
          PROVE  Next
      <3>1. PICK n \in Unresolved(t) : Enter(t, route[t][n].db, Callable(route[t][n]))
        BY <2>1 DEF Resolve
      <3>2. n \in DOMAIN route[t] /\ route[t] \in Seq(Use) /\ route[t] \in Routes[t]
        BY <3>1 DEF Unresolved, RInv, Routed
      <3>3. route[t][n] \in Use
        BY <3>2, LenProperties, ElementOfSeq
      <3>4. route[t][n].db \in Database
        BY <3>3 DEF Use
      <3>5. Callable(route[t][n]) \in Opener
        BY <3>2, CallableAssumption
      <3> QED
        BY <3>1, <3>4, <3>5 DEF Next
    <2>2. ASSUME NEW t \in Task, OwnSession(t)
          PROVE  Next
      <3>1. PICK d \in OwnOn : Enter(t, d, Own)
        BY <2>2 DEF OwnSession
      <3>2. d \in Database /\ Own \in Opener
        BY OpenerAssumption, RouteAssumption
      <3> QED
        BY <3>1, <3>2 DEF Next
    <2>3. ASSUME NEW t \in Task,
                 \/ OwnDone(t) \/ Body(t) \/ Waking(t) \/ Fails(t)
                 \/ LeaveDependency(t) \/ UnwindOwn(t) \/ UnwindDependency(t)
          PROVE  Next
      BY <2>3 DEF OwnDone, Body, Waking, Fails, LeaveDependency, UnwindOwn, UnwindDependency, Next
    <2>4. ASSUME NEW t \in Task, Receive(t) \/ Return(t) \/ Done(t)
          PROVE  UNCHANGED vars
      BY <2>4 DEF Receive, Return, Done
    <2>5. UNCHANGED allVars => UNCHANGED vars
      BY DEF allVars
    <2> QED
      BY <2>1, <2>2, <2>3, <2>4, <2>5 DEF RequestsNext
  <1> QED
    BY <1>1, <1>2, RequestsInductive, PTL DEF RequestsSpec, Spec

-----------------------------------------------------------------------------
(* Shared dependencies.                                                    *)

\* Two uses of one database are one callable, where they are as documented.
LEMMA SharedCallable ==
    ASSUME Routed, NEW t \in Task, Documented(t),
           NEW i \in DOMAIN route[t], NEW j \in DOMAIN route[t], route[t][i].db = route[t][j].db
    PROVE  Callable(route[t][i]) = Callable(route[t][j])
  <1> DEFINE u == route[t][i]
             v == route[t][j]
  <1>1. u \in Use /\ v \in Use /\ u.db = v.db
    BY LenProperties DEF Routed
  <1>2. route[t] \in Routes[t]
    BY DEF Routed
  <1>3. /\ u.via # "wrapper" /\ v.via # "wrapper"
        /\ u.db # Default => u.call = v.call
    BY <1>1 DEF Documented, Uses
  <1>4. /\ u.via = "get_session" => u.db = Default /\ u.call = 0
        /\ v.via = "get_session" => v.db = Default /\ v.call = 0
    BY <1>2
  <1> HIDE DEF u, v
  <1>5. /\ u.via \in {"get_session", "session_dependency"}
        /\ v.via \in {"get_session", "session_dependency"}
    BY <1>1, <1>3 DEF Use
  <1>6. CASE u.db = Default
    <2>1. ASSUME NEW w \in Use, w.db = Default, w.via \in {"get_session", "session_dependency"},
                 w.via = "get_session" => w.call = 0
          PROVE  Callable(w) = GetSession
      BY <2>1 DEF Callable, SessionDependency, GetSession, Use
    <2>2. Callable(u) = GetSession /\ Callable(v) = GetSession
      BY <1>1, <1>4, <1>5, <1>6, <2>1
    <2> QED
      BY <2>2 DEF u, v
  <1>7. CASE u.db # Default
    <2>1. u.via = "session_dependency" /\ v.via = "session_dependency" /\ u.call = v.call
      BY <1>1, <1>3, <1>4, <1>5, <1>7
    <2>2. Callable(u) = Callable(v)
      BY <1>1, <2>1 DEF Callable
    <2> QED
      BY <2>2 DEF u, v
  <1> QED
    BY <1>6, <1>7

\* A request as documented has one session of its dependencies on a database.
LEMMA OneSession ==
    ASSUME RInv, NEW t \in Task, Documented(t),
           NEW n \in DOMAIN sessions[t], NEW m \in DOMAIN sessions[t],
           sessions[t][n].by # Own, sessions[t][m].by # Own, sessions[t][n].db = sessions[t][m].db
    PROVE  n = m
  <1>1. PICK i \in DOMAIN route[t] :
            sessions[t][n].by = Callable(route[t][i]) /\ sessions[t][n].db = route[t][i].db
    BY DEF RInv, Bound
  <1>2. PICK j \in DOMAIN route[t] :
            sessions[t][m].by = Callable(route[t][j]) /\ sessions[t][m].db = route[t][j].db
    BY DEF RInv, Bound
  <1>3. sessions[t][n].by = sessions[t][m].by
    BY <1>1, <1>2, SharedCallable DEF RInv
  <1> QED
    BY <1>3 DEF RInv, OneEach

-----------------------------------------------------------------------------
(* The theorems.                                                           *)

\* No request leaks a connection, whatever its dependencies are.
THEOREM RequestsLeakNothing == RequestsSpec => []NoConnectionLeak
  <1>1. RInv => NoConnectionLeak
    BY DEF RInv, IInv, Held
  <1> QED
    BY <1>1, RequestsInductive, PTL

\* Nothing of a request is seen that it did not commit.
THEOREM RequestsNoAutoCommit == RequestsSpec => []NothingUncommitted
  <1>1. RInv => NothingUncommitted
    BY DEF RInv, IInv, Held
  <1> QED
    BY <1>1, RequestsInductive, PTL

\* Sharing get_session keeps a request from waiting for itself: it has one
\* session of its dependencies on a database, which cannot both hold a
\* connection and wait for one.
THEOREM DependenciesDontSelfWait == RequestsSpec => []NoSelfWait
  <1>1. RInv => NoSelfWait
    <2> SUFFICES ASSUME RInv, NEW t \in Task, NEW d \in Database,
                        Documented(t), Holds(t, d), WaitsIn(t, d),
                        \A n \in DOMAIN sessions[t] : sessions[t][n].by # Own
                 PROVE  FALSE
      BY DEF NoSelfWait
    <2>1. PICK n \in DOMAIN sessions[t] :
              sessions[t][n].conn # NoConnection /\ PoolOf[sessions[t][n].conn] = d
      BY DEF Holds
    <2>2. sessions[t][n].db = d
      BY <2>1 DEF RInv, IInv, Held, OwnPool
    <2>3. PICK m \in DOMAIN sessions[t] :
              sessions[t][m].conn = NoConnection /\ sessions[t][m].db = d
      BY DEF WaitsIn, RInv, IInv, Queued, Waiters
    <2>4. n = m
      BY <2>2, <2>3, OneSession
    <2> QED
      BY <2>1, <2>3, <2>4
  <1> QED
    BY <1>1, RequestsInductive, PTL

\* Nothing of a documented request outlives the answer to its error.
THEOREM CleanWhenAnswered == RequestsSpec => []CleanBeforeAnswer
  <1>1. RInv => CleanBeforeAnswer
    <2> SUFFICES ASSUME RInv, NEW t \in Task, Documented(t),
                        NEW n \in DOMAIN orphans[t], NEW u \in Uses(t),
                        orphans[t][n].by = Callable(u)
                 PROVE  FALSE
      BY DEF CleanBeforeAnswer
    <2>1. Callable(u) \in Iterating
      BY DEF RInv, Dropped
    <2>2. u.via # "wrapper"
      BY DEF Documented
    <2>3. Callable(u).via # "wrapper"
      BY <2>2 DEF Callable, SessionDependency, GetSession
    <2> QED
      BY <2>1, <2>3
  <1> QED
    BY <1>1, RequestsInductive, PTL

\* What the parts of a request write to a database is committed together.
THEOREM PartsCommitTogether == RequestsSpec => CommitTogether
  <1> DEFINE Together ==
          visible' # visible => \A t \in Task, d \in Database :
              Documented(t) /\ HeldTogether(t, d) \cap (visible' \ visible) # {}
                  => HeldTogether(t, d) \subseteq visible'
  <1>1. RInv /\ [RequestsNext]_allVars => Together
    <2> SUFFICES ASSUME RInv, RequestsNext, visible' # visible,
                        NEW t \in Task, NEW d \in Database, Documented(t),
                        NEW r \in HeldTogether(t, d), r \in visible', r \notin visible,
                        NEW x \in HeldTogether(t, d)
                 PROVE  x \in visible'
      BY DEF allVars, vars, rows
    <2>1. PICK u \in Task : \E k \in 1 .. MaxDepth : Commit(u, k)
      BY DEF RequestsNext, Receive, Resolve, Enter, OwnSession, OwnDone, Body, Waking, Fails,
             Return, LeaveDependency, UnwindOwn, UnwindDependency, Done, Works, Connect, Write,
             Loop, Granted, PoolTimeout, CancelWait, Finalize, Raise, Unwinds, Rollback, Abandon,
             Close, vars, rows
    <2>2. PICK k \in 1 .. MaxDepth : Commit(u, k)
      BY <2>1
    <2>3. k \in DOMAIN sessions[u] /\ visible' = visible \cup sessions[u][k].work
      <3>1. DOMAIN sessions[u] = 1 .. Len(sessions[u])
        BY LenProperties DEF RInv, IInv, Held, Stacks
      <3> QED
        BY <2>2, <3>1 DEF Commit, InSession, Depth
    <2>4. PICK n \in DOMAIN sessions[t] :
              /\ sessions[t][n].db = d /\ sessions[t][n].by # Own
              /\ r \in sessions[t][n].work
      BY DEF HeldTogether
    <2>5. PICK m \in DOMAIN sessions[t] :
              /\ sessions[t][m].db = d /\ sessions[t][m].by # Own
              /\ x \in sessions[t][m].work
      BY DEF HeldTogether
    <2>6. u = t /\ k = n
      BY <2>3, <2>4 DEF RInv, IInv, Held, RowsApart
    <2>7. n = m
      BY <2>4, <2>5, OneSession
    <2> QED
      BY <2>3, <2>5, <2>6, <2>7
  <1> QED
    BY <1>1, RequestsInductive, PTL DEF RequestsSpec, CommitTogether
=============================================================================
