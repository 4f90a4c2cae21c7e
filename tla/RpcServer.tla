------------------------------- MODULE RpcServer -------------------------------
(* A server of rest_rpc (include/rest_rpc/rpc_server.h): the accept loop on    *)
(* one io thread, the connections on others, a thread that forgets closed      *)
(* connections and one that forgets their subscriptions, and stop(), called by *)
(* the handler of a signal on an io thread or by the destructor.  A step is    *)
(* what a thread does under one lock.  A connection is what RpcConnection says *)
(* of it: it opens, may subscribe, and closes.  publish only reads what is     *)
(* here; what it appends to a connection's queue is RpcConnection's Publish.   *)
EXTENDS Integers, FiniteSets

CONSTANTS
  Conns,      \* connections, in the order in which clients make them
  Names,      \* what is subscribed to: a key with the token appended
  Tokens,
  TokenOf,    \* the token of a name, NoToken if it is empty
  Within,     \* the tokens that occur somewhere in a name
  NoToken,
  NoConn

ASSUME ConnsAssumption == IsFiniteSet(Conns) /\ NoConn \notin Conns
ASSUME NamesAssumption ==
  /\ NoToken \notin Tokens
  /\ TokenOf \in [Names -> Tokens \union {NoToken}] /\ Within \in [Names -> SUBSET Tokens]
  /\ \A n \in Names : TokenOf[n] \in Within[n] \union {NoToken}

VARIABLES
  mode,         \* whether the user calls run() or async_run()
  pool,         \* io_service_pool_: "running" or "stopped"
  conn,         \* conn_ between start() and its entry in connections_
  life,         \* of each connection: "new", "open", "closed"
  connId,       \* conn_id_
  id,           \* conn_id() of each connection
  connections,  \* connections_: pairs of an id and a connection
  reported,     \* how often each id was given to conn_timeout_callback_
  subs,         \* sub_map_: pairs of a name and a connection
  tokens,       \* token_list_
  cleaner,      \* the two clean-up threads: "test", "lock", "wait", "done"
  stopCheck,    \* stop_check_ and stop_check_pub_sub_
  stopper,      \* stop() of the signal handler and of the destructor
  joins,        \* how many of them have come to the joins
  stopped       \* has_stoped_

accepting == <<conn, connId, id>>
subscribed == <<subs, tokens>>
stopping   == <<pool, stopCheck, stopper, joins, stopped>>
vars == <<mode, accepting, life, connections, reported, subscribed, cleaner,
          stopping>>

-------------------------------------------------------------------------------
Cleaners == {"connections", "subscriptions"}
Stoppers == {"signal", "destructor"}
AllIds   == 0..Cardinality(Conns)

TypeOK ==
  /\ mode \in {"run", "async"} /\ pool \in {"running", "stopped"}
  /\ conn \in Conns \union {NoConn} /\ connId \in AllIds /\ id \in [Conns -> AllIds]
  /\ life \in [Conns -> {"new", "open", "closed"}]
  /\ connections \subseteq AllIds \X Conns /\ reported \in [AllIds -> Nat]
  /\ subs \subseteq Names \X Conns /\ tokens \subseteq Tokens
  /\ cleaner \in [Cleaners -> {"test", "lock", "wait", "done"}]
  /\ stopCheck \in [Cleaners -> BOOLEAN]
  /\ stopper \in [Stoppers -> {"idle", "test", "setCheck", "joinCheck", "setSub", "joinSub",
                               "stopPool", "joinThread", "setStopped", "done"}]
  /\ joins \in 0..Cardinality(Stoppers) /\ stopped \in BOOLEAN

Init ==
  /\ mode \in {"run", "async"} /\ pool = "running"
  /\ conn = NoConn /\ connId = 0 /\ id = [c \in Conns |-> 0]
  /\ life = [c \in Conns |-> "new"]
  /\ connections = {} /\ reported = [i \in AllIds |-> 0]
  /\ subs = {} /\ tokens = {}
  /\ cleaner = [k \in Cleaners |-> "test"] /\ stopCheck = [k \in Cleaners |-> FALSE]
  /\ stopper = [t \in Stoppers |-> "idle"] /\ joins = 0 /\ stopped = FALSE

-------------------------------------------------------------------------------
(* The accept loop and the connections                                         *)

\* The connection is started, on an io thread of its own, before it has its id.
Accept(c) ==
  /\ pool = "running" /\ conn = NoConn /\ life[c] = "new"
  /\ conn' = c
  /\ life' = [life EXCEPT ![c] = "open"]
  /\ UNCHANGED <<mode, connId, id, connections, reported, subscribed, cleaner,
                 stopping>>

\* Mutants: the id is not counted on; the connection is not told its id.
EnterUncounted ==
  /\ conn # NoConn /\ conn' = NoConn
  /\ id' = [id EXCEPT ![conn] = connId]
  /\ connections' = IF \E e \in connections : e[1] = connId
                      THEN connections ELSE connections \union {<<connId, conn>>}
  /\ UNCHANGED <<mode, connId, life, reported, subscribed, cleaner, stopping>>

EnterUntold ==
  /\ conn # NoConn /\ conn' = NoConn
  /\ connections' = connections \union {<<connId, conn>>}
  /\ connId' = connId + 1
  /\ UNCHANGED <<mode, id, life, reported, subscribed, cleaner, stopping>>

\* Under mtx_; emplace keeps the entry that is there.
Enter ==
  /\ conn # NoConn /\ conn' = NoConn
  /\ id' = [id EXCEPT ![conn] = connId]
  /\ connections' = IF \E e \in connections : e[1] = connId
                      THEN connections ELSE connections \union {<<connId, conn>>}
  /\ connId' = connId + 1
  /\ UNCHANGED <<mode, life, reported, subscribed, cleaner, stopping>>

\* Mutant: the empty token is listed.
SubscribeAnyToken(c, n) ==
  /\ pool = "running" /\ life[c] = "open"
  /\ subs' = subs \union {<<n, c>>}
  /\ tokens' = tokens \union {TokenOf[n]}
  /\ UNCHANGED <<mode, accepting, life, connections, reported, cleaner, stopping>>

\* The handler of a sub_pub message: under sub_mtx_.
Subscribe(c, n) ==
  /\ pool = "running" /\ life[c] = "open"
  /\ subs' = subs \union {<<n, c>>}
  /\ tokens' = IF TokenOf[n] = NoToken THEN tokens ELSE tokens \union {TokenOf[n]}
  /\ UNCHANGED <<mode, accepting, life, connections, reported, cleaner, stopping>>

CloseConnection(c) ==
  /\ pool = "running" /\ life[c] = "open"
  /\ life' = [life EXCEPT ![c] = "closed"]
  /\ UNCHANGED <<mode, accepting, connections, reported, subscribed, cleaner,
                 stopping>>

-------------------------------------------------------------------------------
(* clean and clean_sub_pub.  A wait ends by a notification or after its        *)
(* timeout: at any time.                                                       *)

TestStop(k) ==
  /\ cleaner[k] = "test"
  /\ cleaner' = [cleaner EXCEPT ![k] = IF stopCheck[k] THEN "done" ELSE "lock"]
  /\ UNCHANGED <<mode, accepting, life, connections, reported, subscribed, stopping>>

Wait(k) ==
  /\ cleaner[k] = "lock"
  /\ cleaner' = [cleaner EXCEPT ![k] = "wait"]
  /\ UNCHANGED <<mode, accepting, life, connections, reported, subscribed, stopping>>

\* Mutant: the thread looks once.
CleanOnce ==
  /\ cleaner["connections"] = "wait"
  /\ cleaner' = [cleaner EXCEPT !["connections"] = "done"]
  /\ connections' = {e \in connections : life[e[2]] # "closed"}
  /\ UNCHANGED <<mode, accepting, life, reported, subscribed, stopping>>

Clean ==
  /\ cleaner["connections"] = "wait"
  /\ cleaner' = [cleaner EXCEPT !["connections"] = "test"]
  /\ LET dead == {e \in connections : life[e[2]] = "closed"} IN
       /\ connections' = connections \ dead
       /\ reported' = [i \in AllIds |->
                         reported[i] + Cardinality({e \in dead : id[e[2]] = i})]
  /\ UNCHANGED <<mode, accepting, life, subscribed, stopping>>

\* Mutant: the tokens stay.
CleanSubsOnly ==
  /\ cleaner["subscriptions"] = "wait"
  /\ cleaner' = [cleaner EXCEPT !["subscriptions"] = "test"]
  /\ subs' = {e \in subs : life[e[2]] # "closed"} /\ tokens' = tokens
  /\ UNCHANGED <<mode, accepting, life, connections, reported, stopping>>

\* With a subscription go all tokens that occur in its name.
CleanSubs ==
  /\ cleaner["subscriptions"] = "wait"
  /\ cleaner' = [cleaner EXCEPT !["subscriptions"] = "test"]
  /\ LET dead == {e \in subs : life[e[2]] = "closed"} IN
       /\ subs' = subs \ dead
       /\ tokens' = tokens \ UNION {Within[e[1]] : e \in dead}
  /\ UNCHANGED <<mode, accepting, life, connections, reported, stopping>>

-------------------------------------------------------------------------------
(* stop                                                                        *)

Go(t, from, to) == stopper[t] = from /\ stopper' = [stopper EXCEPT ![t] = to]

Threads == <<mode, accepting, life, connections, reported, subscribed, cleaner>>

\* The io threads have left their handlers, that of a signal included.
IoThreadsEnd == pool = "stopped" /\ conn = NoConn /\ stopper["signal"] \in {"idle", "done"}

Signal ==
  /\ pool = "running" /\ Go("signal", "idle", "test")
  /\ UNCHANGED <<Threads, pool, stopCheck, joins, stopped>>

\* run() returns when the io threads have ended; after async_run() nothing holds the
\* user back.
Destroy ==
  /\ mode = "run" => IoThreadsEnd
  /\ Go("destructor", "idle", "test")
  /\ UNCHANGED <<Threads, pool, stopCheck, joins, stopped>>

\* Mutant: has_stoped_ is not looked at.
TestStoppedNever(t) ==
  /\ Go(t, "test", "setCheck")
  /\ joins' = joins + 1
  /\ UNCHANGED <<Threads, pool, stopCheck, stopped>>

TestStopped(t) ==
  /\ Go(t, "test", IF stopped THEN "done" ELSE "setCheck")
  /\ joins' = IF stopped THEN joins ELSE joins + 1
  /\ UNCHANGED <<Threads, pool, stopCheck, stopped>>

\* Mutant: the flag is not set.
SetStopUnset(t, k, from, to) ==
  Go(t, from, to) /\ UNCHANGED <<Threads, pool, stopCheck, joins, stopped>>

SetStop(t, k, from, to) ==
  /\ Go(t, from, to)
  /\ stopCheck' = [stopCheck EXCEPT ![k] = TRUE]
  /\ UNCHANGED <<Threads, pool, joins, stopped>>

\* To join a thread twice is undefined: the model stops there.
Join(t, k, from, to) ==
  /\ joins = 1 /\ cleaner[k] = "done"
  /\ Go(t, from, to)
  /\ UNCHANGED <<Threads, pool, stopCheck, joins, stopped>>

StopPool(t) ==
  /\ Go(t, "stopPool", IF mode = "async" THEN "joinThread" ELSE "setStopped")
  /\ pool' = "stopped"
  /\ UNCHANGED <<Threads, stopCheck, joins, stopped>>

JoinThread(t) ==
  /\ IoThreadsEnd
  /\ Go(t, "joinThread", "setStopped")
  /\ UNCHANGED <<Threads, pool, stopCheck, joins, stopped>>

SetStopped(t) ==
  /\ Go(t, "setStopped", "done")
  /\ stopped' = TRUE
  /\ UNCHANGED <<Threads, pool, stopCheck, joins>>

Stop(t) ==
  \/ TestStopped(t)
  \/ SetStop(t, "connections", "setCheck", "joinCheck")
  \/ Join(t, "connections", "joinCheck", "setSub")
  \/ SetStop(t, "subscriptions", "setSub", "joinSub")
  \/ Join(t, "subscriptions", "joinSub", "stopPool")
  \/ StopPool(t) \/ JoinThread(t) \/ SetStopped(t)

-------------------------------------------------------------------------------
CleanConnections   == TestStop("connections") \/ Wait("connections") \/ Clean
CleanSubscriptions == TestStop("subscriptions") \/ Wait("subscriptions") \/ CleanSubs

Next ==
  \/ Enter \/ CleanConnections \/ CleanSubscriptions \/ Signal \/ Destroy
  \/ \E t \in Stoppers : Stop(t)
  \/ \E c \in Conns : Accept(c) \/ CloseConnection(c) \/ \E n \in Names : Subscribe(c, n)

Spec == Init /\ [][Next]_vars

\* Every thread of the server goes on; run() has returned, so the destructor runs.
FairSpec ==
  /\ Spec /\ WF_vars(Enter) /\ WF_vars(CleanConnections) /\ WF_vars(CleanSubscriptions)
  /\ \A t \in Stoppers : WF_vars(Stop(t))

-------------------------------------------------------------------------------
(* Properties                                                                  *)

\* A live connection is in connections_ from the time do_accept has entered it: no
\* entry is lost to another with its id and none is cleaned while it is open
\* (rpc_server.h:134-136, 148-157).
Tracked == \A c \in Conns : life[c] = "open" /\ c # conn => \E e \in connections : e[2] = c

\* The user hears of each id once, although a connection may close before it has
\* its id (rpc_server.h:133-136, 151).
ReportedOnce == \A i \in AllIds : reported[i] <= 1

\* A token that is listed is in use, although it goes with the first of several
\* subscriptions that use it and may come back (rpc_server.h:102-103, 169-178).
TokensUsed == \A t \in tokens : \E e \in subs : TokenOf[e[1]] = t

Signalled == stopper["signal"] # "idle"
Stopping  == stopper["signal"] # "idle" \/ stopper["destructor"] # "idle"

\* Of the signal handler and the destructor only one joins the threads.  Not after
\* async_run(): there both may (rpc_server.h:229-253).
JoinedOnce == joins <= 1 \/ (mode = "async" /\ Signalled)

\* Until the server is stopped closed connections are forgotten, with all their
\* subscriptions, those included that close before they are entered.
Forgotten ==
  \A c \in Conns :
    <>Stopping \/ <>[](life[c] = "closed" =>
                         ~ \E e \in connections \union subs : e[2] = c)

\* stop() ends, wherever the clean-up threads are when it sets their flags.  Not in
\* the handler of a signal after async_run(): it joins the thread that joins it.
StopEnds ==
  \A t \in Stoppers : stopper[t] = "test" ~> stopper[t] = "done" \/ (mode = "async" /\ Signalled)
===============================================================================
