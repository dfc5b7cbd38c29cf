------------------------------ MODULE NatsLock ------------------------------
(***************************************************************************)
(* natscache/nats.go: LockOrWait's fast path and wait().  The lock key has *)
(* no TTL; a waiter purges the lock of a holder whose heartbeat is gone.   *)
(***************************************************************************)
EXTENDS RemoteCaller

\* What no step of a wait changes, except that Purge may remove the lock.
others == <<backend, data, beatVars, up, late, hid, mine, queries, prompt>>
unread == <<others, lockVars, mishaps>>

\* The watcher or subscription is closed, with the events it has not delivered.
Unsubscribe(p) == /\ subs' = subs \ {p}
                  /\ event' = [event EXCEPT ![p] = NoEvent]
                  /\ UNCHANGED <<lock, revision>>

\* wait returns.
LeaveWait(p, s) == /\ Goto(p, s)
                   /\ seen' = [seen EXCEPT ![p] = {}]

\* LockOrWait's fast path.
Peek(p) ==
    /\ pc[p] = "peek"
    /\ Goto(p, IF data THEN "idle" ELSE "keep")
    /\ UNCHANGED <<unread, subs, seen>>

\* wait: the entry may have been written since.
Recheck(p) ==
    /\ pc[p] = "recheck"
    /\ Goto(p, IF data THEN "idle" ELSE "lookup")
    /\ UNCHANGED <<unread, subs, seen>>

\* wait: the holder's id and the revision of its lock.
Lookup(p) ==
    /\ pc[p] = "lookup"
    /\ Goto(p, IF lock = {} THEN "peek" ELSE "probe")
    /\ seen' = [seen EXCEPT ![p] = lock]
    /\ UNCHANGED <<unread, subs>>

\* Is the holder's heartbeat there?  (Also waitPoll's question.)
Probe(p) ==
    /\ pc[p] = "probe"
    /\ Goto(p, IF \E l \in seen[p] : l.id \notin beats THEN "purge"
               ELSE IF backend = "nats" THEN "watch" ELSE "poll")
    /\ UNCHANGED <<unread, subs, seen>>

\* Mutant of Watch: only what changes from now on is delivered.
WatchNewOnly(p) ==
    /\ pc[p] = "watch"
    /\ subs' = subs \cup {p}
    /\ event' = [event EXCEPT ![p] = NoEvent]
    /\ Goto(p, "listen")
    /\ UNCHANGED <<others, lock, revision, seen, mishaps>>

\* kv.Watch delivers the last change of the key first, a purge included.
Watch(p) ==
    /\ pc[p] = "watch"
    /\ subs' = subs \cup {p}
    /\ event' = [event EXCEPT ![p] = IF lock = {} THEN "gone" ELSE NoEvent]
    /\ Goto(p, "listen")
    /\ UNCHANGED <<others, lock, revision, seen, mishaps>>

\* The lock is gone.
Woken(p) ==
    /\ pc[p] = "listen"
    /\ event[p] = "gone"
    /\ Goto(p, "reread")
    /\ Unsubscribe(p)
    /\ UNCHANGED <<others, seen, mishaps>>

\* The ticker finds that the holder's heartbeat has expired.
HolderLost(p) ==
    /\ pc[p] = "listen" /\ backend = "nats"
    /\ \E l \in seen[p] : l.id \notin beats
    /\ Goto(p, "purge")
    /\ Unsubscribe(p)
    /\ UNCHANGED <<others, seen, mishaps>>

\* Mutant of Reread: without an entry the caller loads, as after a local wait.
RereadLoads(p) ==
    /\ pc[p] = "reread"
    /\ \/ data /\ AsPlanned /\ LeaveWait(p, "idle")
       \/ ~data /\ AsPlanned /\ LeaveWait(p, "load")
       \/ data /\ StaleAbsent /\ LeaveWait(p, "load")
    /\ UNCHANGED <<others, lockVars, subs>>

\* Serve the winner's entry, or go back for the lock.
Reread(p) ==
    /\ pc[p] = "reread"
    /\ \/ data /\ AsPlanned /\ LeaveWait(p, "idle")
       \/ ~data /\ AsPlanned /\ LeaveWait(p, Start)
       \/ data /\ StaleAbsent /\ LeaveWait(p, Start)
    /\ UNCHANGED <<others, lockVars, subs>>

\* Take the lock away from a holder that is gone, and go back for it.
Purge(p) ==
    /\ pc[p] = "purge"
    /\ \E l \in seen[p] :
          IF backend = "nats" THEN PurgeRevision(l.rev) ELSE DelKey(l.id)
    /\ LeaveWait(p, Start)
    /\ UNCHANGED <<others, subs, mishaps>>

\* A call fails or the caller's context ends: it loads without the lock.
QuitWait(p) ==
    /\ pc[p] \in Waiting \ {"purge"}
    /\ Mishap("quit")
    /\ LeaveWait(p, "load")
    /\ Unsubscribe(p)
    /\ UNCHANGED others

NatsWait(p) == \/ Peek(p) \/ Recheck(p) \/ Lookup(p) \/ Watch(p) \/ HolderLost(p)
=============================================================================
