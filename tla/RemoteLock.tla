----------------------------- MODULE RemoteLock -----------------------------
(***************************************************************************)
(* The distributed stampede lock: the queries of several processes for one *)
(* key, the server's expirations, and processes that crash or close their  *)
(* cache and come back.                                                    *)
(***************************************************************************)
EXTENDS RedisLock, FiniteSets

Init == StoreInit /\ CallInit

\* The entry expires, or is deleted by a mutation or an Evict.
DataGone ==
    /\ data
    /\ Mishap("gone")
    /\ data' = FALSE
    /\ UNCHANGED <<backend, lockVars, beatVars, up, subs, late, callVars, prompt>>

\* A Redis lock expires after 30 seconds.
LockExpires ==
    /\ backend # "nats"
    /\ DropLock
    /\ \/ \E l \in lock : mine[l.owner] # l.rev /\ AsPlanned /\ UNCHANGED prompt
       \/ \E l \in lock : mine[l.owner] = l.rev /\ Untimely("slow")
    /\ UNCHANGED <<backend, data, beatVars, up, subs, late, callVars>>

\* A heartbeat expires 10 seconds after it was last renewed.
ExpireBeat(id) ==
    /\ id \in beats
    /\ \/ ~Refreshed(id) /\ AsPlanned /\ UNCHANGED prompt
       \/ Refreshed(id) /\ Untimely("lapse")
    /\ beats' = beats \ {id}
    /\ UNCHANGED <<backend, data, lockVars, ids, client, up, subs, late, callVars>>

\* refresh puts back a heartbeat that lapsed.
Refresh(n) ==
    /\ up[n] /\ client[n] # NoId /\ client[n] \notin beats
    /\ beats' = beats \cup {client[n]}
    /\ UNCHANGED <<backend, data, lockVars, ids, client, up, subs, late, callVars, mishaps,
                   prompt>>

CallersOf(n) == {p \in Procs : NodeOf[p] = n}

\* Process n goes down, with whatever its callers were doing.
GoDown(n) ==
    /\ up[n]
    /\ Mishap("crash")
    /\ up' = [up EXCEPT ![n] = FALSE]
    /\ client' = [client EXCEPT ![n] = NoId]
    /\ pc' = [p \in Procs |-> IF NodeOf[p] = n THEN "idle" ELSE pc[p]]
    /\ hid' = [p \in Procs |-> IF NodeOf[p] = n THEN NoId ELSE hid[p]]
    /\ mine' = [p \in Procs |-> IF NodeOf[p] = n THEN 0 ELSE mine[p]]
    /\ seen' = [p \in Procs |-> IF NodeOf[p] = n THEN {} ELSE seen[p]]
    /\ event' = [p \in Procs |-> IF NodeOf[p] = n THEN NoEvent ELSE event[p]]
    /\ subs' = subs \ CallersOf(n)
    /\ UNCHANGED <<backend, data, lock, revision, ids, late, queries, prompt>>

Crash(n) == GoDown(n) /\ UNCHANGED beats

\* Close removes the heartbeat; its callers have finished by then.
Close(n) ==
    /\ \A p \in CallersOf(n) : pc[p] = "idle"
    /\ GoDown(n)
    /\ beats' = beats \ {client[n]}

Restart(n) ==
    /\ ~up[n]
    /\ up' = [up EXCEPT ![n] = TRUE]
    /\ UNCHANGED <<backend, data, lockVars, beatVars, subs, late, callVars, mishaps, prompt>>

Step(p) == \/ Direct(p) \/ Keepalive(p) \/ Announce(p) \/ Acquire(p) \/ Load(p) \/ Add(p)
           \/ CreateEntry(p) \/ Release(p)
           \/ Probe(p) \/ Woken(p) \/ Reread(p) \/ Purge(p)
           \/ NatsWait(p) \/ RedisWait(p)

Next == \/ \E p \in Procs : Query(p) \/ Step(p) \/ QuitWait(p) \/ Activate(p)
        \/ \E id \in beats : ExpireBeat(id)
        \/ \E n \in Nodes : Refresh(n) \/ Crash(n) \/ Close(n) \/ Restart(n)
        \/ DataGone \/ LockExpires

Spec == Init /\ [][Next]_vars

\* Goroutines run, the server expires keys, the refresh goroutine renews.
Fairness == /\ \A p \in Procs : WF_vars(Step(p)) /\ WF_vars(Activate(p))
            /\ WF_vars(\E id \in beats : ExpireBeat(id))
            /\ \A n \in Nodes : WF_vars(Refresh(n))
            /\ WF_vars(LockExpires)

FairSpec == Spec /\ Fairness

(***************************************************************************)
(* Properties.                                                             *)
(***************************************************************************)
TypeOK == StoreTypeOK /\ CallTypeOK

\* Callers that have won and not called release yet.
Holders == {p \in Procs : mine[p] # 0}

\* Distributed stampede protection (LockOrWait's won = true): as long as
\* holders are prompt, crashes, restarts, purges by waiters, lost replies and
\* failed calls never let two callers hold the lock of a key.
OneHolder == prompt => \A p, r \in Holders : p = r

\* A mishap sends one caller to the database without the lock, and no waiter
\* after it: the others are told to try for the lock again (ErrRetryLocker), so
\* that a winner that fails, crashes or stores nothing has one successor.
AtDatabase == {p \in Procs : pc[p] \in {"direct", "load", "add", "create"}}
FewLoaders == prompt => Cardinality(AtDatabase) <= 1 + mishaps

\* wait() never sleeps through the end of the lock: a caller that listens has
\* the event, or the lock is still there.
Alert(p) == pc[p] = "listen" => lock # {} \/ event[p] # NoEvent

\* As redis.go's wait() says of the check after PSubscribe: it closes the gap
\* before the subscription is active, so that every listener is alert.
GapClosed == \A p \in Procs : Alert(p)

\* The same, for NATS too (Watch's first value closes the gap there), but for a
\* caller whose PSubscribe returned before its subscription was active.
WakeupDue == \A p \in Procs \ late : Alert(p)

\* Whatever expires or lapses, release never removes a lock another process
\* took in the meantime (for NATS, not even one of the same process), and a
\* waiter never purges the lock of a prompt holder.
NoForeignRemoval ==
    [][\A p \in Procs : \A l \in lock : lock' = {} /\ pc'[p] # pc[p] =>
         /\ pc[p] = "release" =>
               NodeOf[l.owner] = NodeOf[p] /\ (backend = "nats" => l.owner = p)
         /\ pc[p] = "purge" /\ prompt => mine[l.owner] # l.rev]_vars

\* A NATS waiter that has looked up one holder's lock and listens while
\* another's is there: it asks for the heartbeat of the wrong holder.
Overtaken(p) == /\ backend = "nats" /\ pc[p] = "listen" /\ event[p] = NoEvent
                /\ lock # {} /\ lock # seen[p]

\* A NATS waiter that listens to a lock nobody will release, because the reply
\* of its Create or the Purge of its release was lost: the key has no TTL, and
\* stays while the heartbeat of the process that took it does.
Stranded(p) == /\ backend = "nats" /\ pc[p] = "listen" /\ event[p] = NoEvent
               /\ \E l \in lock : l.id \in beats /\ mine[l.owner] # l.rev

\* No wait is endless: whatever fails, crashes, lapses or is lost, every query
\* returns.
NoEndlessWait == \A p \in Procs : []<>(pc[p] = "idle")

\* The same, but for a waiter overtaken between its lookup and its watch, one
\* whose lock nobody will release, or one whose subscription was late.
WaitEnds == \A p \in Procs : \/ []<>(pc[p] = "idle")
                             \/ <>[]Overtaken(p)
                             \/ <>[]Stranded(p)
                             \/ <>[](p \in late /\ pc[p] = "listen")
=============================================================================
