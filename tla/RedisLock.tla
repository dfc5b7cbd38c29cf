------------------------------ MODULE RedisLock ------------------------------
(***************************************************************************)
(* rediscache/redis.go and rueidiscache/rueidis.go: wait() by polling, by  *)
(* polling through the client-side cache, or by keyspace events.           *)
(***************************************************************************)
EXTENDS NatsLock

\* The first read of the lock key in a round of the polling loop.
Poll(p) ==
    /\ pc[p] = "poll"
    /\ \/ AsPlanned /\ Goto(p, IF lock = {} THEN "reread" ELSE "compare")
       \/ lock # {} /\ StaleAbsent /\ Goto(p, "reread")
    /\ UNCHANGED <<others, lockVars, subs, seen>>

\* The second one: has the lock changed hands?
Compare(p) ==
    /\ pc[p] = "compare"
    /\ \/ /\ \E l \in lock, s \in seen[p] : l.id # s.id
          /\ LeaveWait(p, Start)
       \/ /\ \A l \in lock, s \in seen[p] : l.id = s.id
          /\ Goto(p, "probe")
          /\ UNCHANGED seen
    /\ UNCHANGED <<unread, subs>>

\* PSubscribe sends the request; the server takes it up then or later.
Subscribe(p) ==
    /\ pc[p] = "subscribe"
    /\ Goto(p, "check")
    /\ \/ subs' = subs \cup {p} /\ late' = late \ {p} /\ AsPlanned
       \/ late' = late \cup {p} /\ Mishap("late") /\ UNCHANGED subs
    /\ event' = [event EXCEPT ![p] = NoEvent]
    /\ UNCHANGED <<backend, data, beatVars, up, hid, mine, queries,
                   lock, revision, seen, prompt>>

\* A late subscription becomes active; what was published before is lost.
Activate(p) ==
    /\ p \in late
    /\ pc[p] \in {"check", "listen"}
    /\ p \notin subs
    /\ subs' = subs \cup {p}
    /\ UNCHANGED <<unread, pc, seen>>

\* The lock may have gone before the subscription was made.
Check(p) ==
    /\ pc[p] = "check"
    /\ IF lock = {} THEN Goto(p, "reread") /\ Unsubscribe(p)
                    ELSE Goto(p, "listen") /\ UNCHANGED <<subs, lockVars>>
    /\ UNCHANGED <<others, seen, mishaps>>

\* Somebody else took the lock.
ChangedHands(p) ==
    /\ pc[p] = "listen"
    /\ event[p] = "set"
    /\ LeaveWait(p, Start)
    /\ Unsubscribe(p)
    /\ UNCHANGED <<others, mishaps>>

RedisWait(p) == Poll(p) \/ Compare(p) \/ Subscribe(p) \/ Check(p) \/ ChangedHands(p)
==============================================================================
