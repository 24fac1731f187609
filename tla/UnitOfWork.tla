----------------------------- MODULE UnitOfWork -----------------------------
(***************************************************************************)
(* Sessions: manage_session and db.session, over the connection pools of   *)
(* the engines.  Requests adds who opens sessions for an endpoint.         *)
(*                                                                         *)
(* A task is inside the sessions it opened, the innermost last: those of   *)
(* an endpoint's dependencies, or one a repository opens for itself below  *)
(* them.  A session borrows a connection of its database's pool when it    *)
(* first works and gives it back at commit, rollback and close.  The pool  *)
(* queues its waiters and times them out.                                  *)
(***************************************************************************)
EXTENDS Naturals, Sequences
LOCAL INSTANCE SequencesExt

CONSTANTS
    Task,
    Database,
    Default,       \* DEFAULT_DB_NAME
    Connection,    \* the connections the pools may open, pool_size + max_overflow
    NoConnection,  \* what a session without one has
    PoolOf,        \* the database of each connection
    Row,           \* what units of work write
    Opener,        \* what opens sessions
    Own,           \* the opener that is code with a session of its own
    Iterating,     \* the openers that iterate get_session instead of entering it
    MaxDepth,      \* sessions a task may be inside of
    MaxOrphans,    \* generators of a task that may wait for their finalizer
    PoolTimesOut   \* a wait for a connection ends in an error at last

ASSUME PoolAssumption ==
    /\ Default \in Database
    /\ NoConnection \notin Connection
    /\ PoolOf \in [Connection -> Database]
    /\ PoolTimesOut \in BOOLEAN

ASSUME OpenerAssumption == Own \in Opener /\ Iterating \subseteq Opener \ {Own}

ASSUME BoundsAssumption == MaxDepth \in Nat \ {0} /\ MaxOrphans \in Nat

VARIABLES
    sessions,   \* the sessions each task is inside of, the innermost last
    state,      \* what each task does
    queue,      \* who waits for a connection of each database: <<task, session>>
    free,       \* the connections in the pools
    visible,    \* committed rows
    dropped,    \* history: rows whose unit of work ended without a commit
    orphans     \* each task's sessions whose generator was dropped by an exception

pools == <<queue, free>>
rows == <<visible, dropped>>
vars == <<sessions, state, pools, rows, orphans>>

\* work is what the session holds uncommitted.
NewSession(d, by) == [db |-> d, by |-> by, conn |-> NoConnection, work |-> {}]

Depth(t) == Len(sessions[t])
Top(t) == sessions[t][Depth(t)]

Init ==
    /\ sessions = [t \in Task |-> <<>>]
    /\ state = [t \in Task |-> "running"]
    /\ queue = [d \in Database |-> <<>>]
    /\ free = Connection
    /\ visible = {}
    /\ dropped = {}
    /\ orphans = [t \in Task |-> <<>>]

Becomes(t, s) == state' = [state EXCEPT ![t] = s]

\* The n-th session of t is inside a body that runs.
InSession(t, n) == state[t] = "running" /\ n \in 1 .. Depth(t)

\* Rows nobody has written yet; the next one is as good as any.
Unwritten ==
    {r \in Row : /\ r \notin visible \cup dropped
                 /\ \A t \in Task :
                        /\ \A n \in DOMAIN sessions[t] : r \notin sessions[t][n].work
                        /\ \A n \in DOMAIN orphans[t] : r \notin orphans[t][n].work}

\* Mutant: every factory is the default database's.
EnterDefault(t, d, by) ==
    /\ state[t] = "running" /\ Depth(t) < MaxDepth
    /\ sessions' = [sessions EXCEPT ![t] =
           Append(@, NewSession(Default, by))]
    /\ UNCHANGED <<state, pools, rows, orphans>>

\* session = factory(): no connection yet.
Enter(t, d, by) ==
    /\ state[t] = "running" /\ Depth(t) < MaxDepth
    /\ sessions' = [sessions EXCEPT ![t] = Append(@, NewSession(d, by))]
    /\ UNCHANGED <<state, pools, rows, orphans>>

\* The pool's connections of database d; the next one is as good as any.
Idle(d) == {c \in free : PoolOf[c] = d}
AnyOf(d) == CHOOSE c \in Idle(d) : TRUE

Take(t, n) ==
    LET c == AnyOf(sessions[t][n].db)
    IN /\ free' = free \ {c}
       /\ sessions' = [sessions EXCEPT ![t][n].conn = c]

\* A session needs a connection: one of the pool, or a place in its queue.
Connect(t, n) ==
    /\ InSession(t, n) /\ sessions[t][n].conn = NoConnection
    /\ \/ /\ Idle(sessions[t][n].db) # {}
          /\ Take(t, n)
          /\ UNCHANGED <<state, queue>>
       \/ /\ Idle(sessions[t][n].db) = {}
          /\ queue' = [queue EXCEPT ![sessions[t][n].db] = Append(@, <<t, n>>)]
          /\ Becomes(t, "waiting")
          /\ UNCHANGED <<sessions, free>>
    /\ UNCHANGED <<rows, orphans>>

\* A connection that came back goes to the first in the queue, unless a task
\* that did not queue was faster.
Granted(t, d) ==
    /\ queue[d] # <<>> /\ Head(queue[d])[1] = t
    /\ Idle(d) # {}
    /\ Take(t, Head(queue[d])[2])
    /\ queue' = [queue EXCEPT ![d] = Tail(@)]
    /\ Becomes(t, "running")
    /\ UNCHANGED <<rows, orphans>>

Waits(t) == state[t] = "waiting"

\* A task is in one queue, at one place.
LeaveQueue(t) ==
    \E d \in Database : \E i \in DOMAIN queue[d] :
        /\ queue[d][i][1] = t
        /\ queue' = [queue EXCEPT ![d] = RemoveAt(@, i)]

PoolTimeout(t) ==
    /\ PoolTimesOut /\ Waits(t)
    /\ LeaveQueue(t)
    /\ Becomes(t, "raising")
    /\ UNCHANGED <<sessions, free, rows, orphans>>

Write(t, n) ==
    /\ InSession(t, n) /\ sessions[t][n].conn # NoConnection
    /\ Unwritten # {}
    /\ LET r == CHOOSE r \in Unwritten : TRUE
       IN sessions' = [sessions EXCEPT ![t][n].work = @ \cup {r}]
    /\ UNCHANGED <<state, pools, rows, orphans>>

\* A session gives its connection back.
Returned(s) == free \cup ({s.conn} \ {NoConnection})
Emptied(s) == NewSession(s.db, s.by)

\* session.commit(), the application's own call.
Commit(t, n) ==
    /\ InSession(t, n) /\ sessions[t][n].conn # NoConnection
    /\ visible' = visible \cup sessions[t][n].work
    /\ free' = Returned(sessions[t][n])
    /\ sessions' = [sessions EXCEPT ![t][n] = Emptied(@)]
    /\ UNCHANGED <<state, queue, dropped, orphans>>

\* An exception in the body: of the code, of a commit that fails, or with
\* "cancelled" one that is no Exception.
Raise(t) ==
    /\ InSession(t, Depth(t))
    /\ \E how \in {"raising", "cancelled"} : Becomes(t, how)
    /\ UNCHANGED <<sessions, pools, rows, orphans>>

\* Cancelled while it waits.
CancelWait(t) ==
    /\ Waits(t)
    /\ LeaveQueue(t)
    /\ Becomes(t, "cancelled")
    /\ UNCHANGED <<sessions, free, rows, orphans>>

Inner(t) == SubSeq(sessions[t], 1, Depth(t) - 1)

\* An exception passes the innermost session, or is caught by who opened it.
\* A dependency raises it again.
GoesOn(t, on) ==
    \/ (Top(t).by = Own \/ Depth(t) = 1) /\ Becomes(t, "running")
    \/ Depth(t) > 1 /\ Becomes(t, on)

\* Mutant: a rollback that fails leaves the session before its close.
RollbackUnclosed(t) ==
    /\ state[t] = "raising" /\ Top(t).by \notin Iterating
    /\ \/ /\ sessions' = [sessions EXCEPT ![t][Depth(t)] = Emptied(@)]
          /\ free' = Returned(Top(t))
          /\ Becomes(t, "closing")
       \/ sessions' = [sessions EXCEPT ![t] = Inner(t)] /\ GoesOn(t, "raising") /\ UNCHANGED free
    /\ dropped' = dropped \cup Top(t).work
    /\ UNCHANGED <<queue, visible, orphans>>

\* The except clause, for an Exception; the rollback may fail or be cancelled.
Rollback(t) ==
    /\ state[t] = "raising" /\ Top(t).by \notin Iterating
    /\ \/ /\ sessions' = [sessions EXCEPT ![t][Depth(t)] = Emptied(@)]
          /\ free' = Returned(Top(t))
          /\ dropped' = dropped \cup Top(t).work
       \/ UNCHANGED <<sessions, free, dropped>>
    /\ Becomes(t, "closing")
    /\ UNCHANGED <<queue, visible, orphans>>

\* Mutant: what is left of the work is committed at the end.
CloseCommits(t) ==
    /\ \/ state[t] = "closing" /\ \E how \in {"raising", "cancelled"} : GoesOn(t, how)
       \/ state[t] = "cancelled" /\ Top(t).by \notin Iterating /\ GoesOn(t, "cancelled")
       \/ InSession(t, Depth(t)) /\ UNCHANGED state
    /\ sessions' = [sessions EXCEPT ![t] = Inner(t)]
    /\ free' = Returned(Top(t))
    /\ dropped' = dropped \cup Top(t).work
    /\ visible' = visible \cup Top(t).work
    /\ UNCHANGED <<queue, orphans>>

\* Mutant: the close stands in the except clause and behind the body, not in a
\* finally clause, and a cancelled body passes both.
CloseUnlessCancelled(t) ==
    /\ \/ /\ state[t] = "closing" /\ \E how \in {"raising", "cancelled"} : GoesOn(t, how)
          /\ free' = Returned(Top(t))
       \/ /\ state[t] = "cancelled" /\ Top(t).by \notin Iterating /\ GoesOn(t, "cancelled")
          /\ UNCHANGED free
       \/ InSession(t, Depth(t)) /\ free' = Returned(Top(t)) /\ UNCHANGED state
    /\ sessions' = [sessions EXCEPT ![t] = Inner(t)]
    /\ dropped' = dropped \cup Top(t).work
    /\ UNCHANGED <<queue, visible, orphans>>

\* The finally clause: on the normal end of the body, after the rollback, and
\* at once when the task is cancelled.  Uncommitted work is gone with it.
Close(t) ==
    /\ \/ state[t] = "closing" /\ \E how \in {"raising", "cancelled"} : GoesOn(t, how)
       \/ state[t] = "cancelled" /\ Top(t).by \notin Iterating /\ GoesOn(t, "cancelled")
       \/ InSession(t, Depth(t)) /\ UNCHANGED state
    /\ sessions' = [sessions EXCEPT ![t] = Inner(t)]
    /\ free' = Returned(Top(t))
    /\ dropped' = dropped \cup Top(t).work
    /\ UNCHANGED <<queue, visible, orphans>>

\* `async for s in get_session(name): yield s`: an exception ends the loop, and
\* the generator it went over is dropped where it was.
Abandon(t) ==
    /\ state[t] \in {"raising", "cancelled"} /\ Top(t).by \in Iterating
    /\ Len(orphans[t]) < MaxOrphans
    /\ orphans' = [orphans EXCEPT ![t] = Append(@, Top(t))]
    /\ sessions' = [sessions EXCEPT ![t] = Inner(t)]
    /\ GoesOn(t, state[t])
    /\ UNCHANGED <<pools, rows>>

\* The event loop closes a dropped generator.  GeneratorExit is no Exception:
\* no rollback, but the finally clause.
Finalize(t) ==
    /\ orphans[t] # <<>>
    /\ orphans' = [orphans EXCEPT ![t] = Tail(@)]
    /\ free' = Returned(Head(orphans[t]))
    /\ dropped' = dropped \cup Head(orphans[t]).work
    /\ UNCHANGED <<sessions, state, queue, visible>>

Unwinds(t) == Rollback(t) \/ Abandon(t)
Works(t) == \E n \in 1 .. MaxDepth : Connect(t, n) \/ Write(t, n) \/ Commit(t, n)
Loop(t) == (\E d \in Database : Granted(t, d)) \/ PoolTimeout(t) \/ CancelWait(t) \/ Finalize(t)

Next ==
    \E t \in Task :
        \/ \E d \in Database, by \in Opener : Enter(t, d, by)
        \/ Works(t) \/ Loop(t) \/ Raise(t) \/ Unwinds(t) \/ Close(t)

Spec == Init /\ [][Next]_vars

\* An exception on its way out of a body.
Leaving(t) == state[t] \in {"raising", "closing", "cancelled"}

(***************************************************************************)
(* The event loop resumes who unwinds, SQLAlchemy's rollback() and close() *)
(* return or raise, and dropped generators are closed.  Nothing is assumed *)
(* of the bodies of units of work, which may keep their connections for    *)
(* ever, nor of the pool's timer.                                          *)
(***************************************************************************)
Fairness ==
    \A t \in Task :
        /\ WF_vars(Leaving(t) /\ (Unwinds(t) \/ Close(t)))
        /\ WF_vars(Finalize(t))

-----------------------------------------------------------------------------
(* Properties.                                                             *)

SessionType == [db : Database, by : Opener, conn : Connection \cup {NoConnection},
                work : SUBSET Row]

\* The types of the state; who waits is in one queue, for a session without a
\* connection.
TypeOK ==
    /\ sessions \in [Task -> Seq(SessionType)]
    /\ orphans \in [Task -> Seq(SessionType)]
    /\ \A t \in Task : Depth(t) <= MaxDepth
    /\ state \in [Task -> {"running", "waiting", "raising", "closing", "cancelled"}]
    /\ free \subseteq Connection
    /\ visible \subseteq Row /\ dropped \subseteq Row
    /\ queue \in [Database -> Seq(Task \X (1 .. MaxDepth))]
    /\ \A d \in Database : \A i \in DOMAIN queue[d] :
           LET t == queue[d][i][1]  n == queue[d][i][2]
           IN Waits(t) /\ n <= Depth(t) /\ sessions[t][n].conn = NoConnection

\* Whatever fails, a rollback included, whoever is cancelled, and whichever
\* generator is dropped, every connection is in the pool or with a session that
\* is still going to close.
NoConnectionLeak ==
    \A c \in Connection \ free : \E t \in Task :
        \/ \E n \in DOMAIN sessions[t] : sessions[t][n].conn = c
        \/ \E n \in DOMAIN orphans[t] : orphans[t][n].conn = c

\* "does NOT auto-commit": what a unit of work had not committed when it
\* ended, normally or not, is never seen by anyone.
NothingUncommitted == visible \cap dropped = {}

\* An exception ends an exhausted pool: when an error, a pool's timeout or a
\* cancellation passes a session with a connection, or its generator is dropped,
\* its database's pool has a free one at some time, whatever of the way out
\* fails and however many sessions it passes (manage_session).
LeaversGiveBack ==
    \A d \in Database :
        LET Borrows(s) == s.db = d /\ s.conn # NoConnection
        IN  (\E t \in Task : \/ Leaving(t) /\ Borrows(Top(t))
                             \/ \E n \in DOMAIN orphans[t] : Borrows(orphans[t][n]))
                ~> Idle(d) # {}
=============================================================================
