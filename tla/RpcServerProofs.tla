---------------------------- MODULE RpcServerProofs ----------------------------
(* Proofs about the safety of RpcServer, for any number of connections and any *)
(* names and tokens.                                                           *)
EXTENDS RpcServer, FiniteSetTheorems, TLAPS

--------------------------------------------------------------------------------
(* The inductive invariant                                                     *)

\* The connections that do_accept has entered: each was given an id.
Entered == {c \in Conns : life[c] # "new" /\ c # conn}

\* The ids are counted by the entries that were made.
Numbered ==
  /\ connId = Cardinality(Entered)
  /\ conn # NoConn => life[conn] # "new"

\* An entry is that of an entered connection under its own id.
Entries ==
  /\ \A e \in connections : e[2] \in Entered /\ e[1] = id[e[2]] /\ e[1] < connId
  /\ \A e, f \in connections : e[1] = f[1] => e = f

\* What was reported is no longer an entry, and its id is not given again.
Reports ==
  \A i \in AllIds : reported[i] # 0 =>
    /\ reported[i] = 1 /\ i < connId
    /\ \A e \in connections : e[1] # i

\* With run() the destructor comes after the handler of a signal, which has done
\* all there is to do; with async_run() and no signal it is alone.
Passed(t) == stopper[t] \notin {"idle", "test"}
StopOrder ==
  /\ joins # 0 => \E t \in Stoppers : Passed(t)
  /\ joins = 2 => \A t \in Stoppers : Passed(t)
  /\ mode = "run" =>
       /\ pool = "stopped" => stopper["signal"] \in {"setStopped", "done"}
       /\ stopper["signal"] \in {"idle", "test"} => joins = 0
       /\ stopper["signal"] = "done" => stopped
       /\ stopper["destructor"] # "idle" =>
            stopper["signal"] = "done" /\ stopper["destructor"] \in {"test", "done"}
       /\ joins <= 1
  /\ mode = "async" /\ ~Signalled =>
       /\ ~Passed("destructor") => joins = 0
       /\ joins <= 1

\* What the connections and what stop() rest on, apart from each other.
Connections == Numbered /\ Entries /\ Reports /\ Tracked
Links == <<accepting, life, connections, reported>>

IInv == TypeOK /\ Connections /\ TokensUsed /\ StopOrder

--------------------------------------------------------------------------------
(* Lemmas                                                                      *)

\* There are two that may stop the server, and finitely many ids.
LEMMA Sizes ==
  /\ Cardinality(Stoppers) = 2
  /\ Cardinality(Conns) \in Nat
  /\ AllIds \subseteq Nat
<1>1. Stoppers = {"signal"} \cup {"destructor"}
  BY DEF Stoppers
<1>2. IsFiniteSet({"signal"}) /\ Cardinality({"signal"}) = 1
  BY FS_Singleton
<1>3. Cardinality(Stoppers) = 2
  BY <1>1, <1>2, FS_AddElement
<1>4. Cardinality(Conns) \in Nat
  BY ConnsAssumption, FS_CardinalityType
<1> QED
  BY <1>3, <1>4 DEF AllIds

\* The initial state.
LEMMA InitIInv == Init => IInv
<1> SUFFICES ASSUME Init PROVE IInv
  OBVIOUS
<1>1. TypeOK
  <2>1. connId \in AllIds /\ id \in [Conns -> AllIds]
    BY Sizes DEF Init, AllIds
  <2>2. joins \in 0..Cardinality(Stoppers)
    BY Sizes DEF Init
  <2>3. reported \in [AllIds -> Nat]
    BY DEF Init
  <2> QED
    BY <2>1, <2>2, <2>3 DEF Init, TypeOK
<1>2. Entered = {}
  BY DEF Entered, Init
<1>3. Connections
  BY <1>2, FS_EmptySet DEF Connections, Numbered, Entries, Reports, Tracked, Init
<1>4. TokensUsed /\ StopOrder
  BY DEF TokensUsed, StopOrder, Passed, Signalled, Stoppers, Init
<1> QED
  BY <1>1, <1>3, <1>4 DEF IInv

\* What a step leaves alone it does not harm.
LEMMA ConnectionsFrame ==
  ASSUME Connections, UNCHANGED Links
  PROVE  Connections'
<1>1. Entered' = Entered
  BY DEF Entered, Links, accepting
<1> QED
  BY <1>1 DEF Connections, Numbered, Entries, Reports, Tracked, Links, accepting

LEMMA StopFrame ==
  ASSUME StopOrder, UNCHANGED <<mode, stopping>>
  PROVE  StopOrder'
BY DEF StopOrder, Passed, Signalled, stopping

--------------------------------------------------------------------------------
(* The connections                                                             *)

LEMMA AcceptIInv ==
  ASSUME IInv, NEW c \in Conns, Accept(c)
  PROVE  IInv'
<1> USE DEF IInv, Accept
<1>1. TypeOK'
  BY DEF TypeOK, stopping, subscribed
<1>2. Entered' = Entered
  BY ConnsAssumption DEF Entered, TypeOK
<1>3. Numbered' /\ Entries' /\ Reports'
  BY <1>2 DEF Connections, Numbered, Entries, Reports, TypeOK
<1>4. Tracked'
  <2> SUFFICES ASSUME NEW d \in Conns, life'[d] = "open", d # conn'
               PROVE  \E e \in connections : e[2] = d
    BY DEF Tracked
  <2>1. life[d] = "open" /\ d # conn
    BY ConnsAssumption DEF TypeOK
  <2> QED
    BY <2>1 DEF Connections, Tracked
<1>5. TokensUsed'
  BY DEF TokensUsed, subscribed
<1> QED
  BY <1>1, <1>3, <1>4, <1>5, StopFrame DEF Connections

\* The new id is the number of the entries so far: no entry has it.
LEMMA EnterIInv ==
  ASSUME IInv, Enter
  PROVE  IInv'
<1> USE DEF IInv, Enter
<1>1. conn \in Conns /\ conn \notin Entered /\ NoConn \notin Conns
  BY ConnsAssumption DEF TypeOK, Entered
<1>2. Entered' = Entered \cup {conn}
  BY <1>1 DEF Entered, Connections, Numbered
<1>3. IsFiniteSet(Entered) /\ Cardinality(Entered') <= Cardinality(Conns)
  <2>1. Entered \in SUBSET Conns /\ Entered' \in SUBSET Conns
    BY DEF Entered
  <2> QED
    BY <2>1, ConnsAssumption, FS_Subset
<1>4. connId \in Nat /\ connId' = connId + 1 /\ connId' = Cardinality(Entered')
  BY <1>1, <1>2, <1>3, FS_AddElement, Sizes DEF Connections, Numbered, TypeOK
<1>5. connections' = connections \cup {<<connId, conn>>}
  <2>1. \A e \in connections : e[1] < connId
    BY DEF Connections, Entries
  <2>2. \A e \in connections : e[1] # connId
    BY <2>1, <1>4
  <2> QED
    BY <2>2
<1>6. TypeOK'
  <2>1. connId' \in AllIds
    BY <1>3, <1>4, Sizes DEF AllIds
  <2> QED
    BY <2>1, <1>1, <1>5 DEF TypeOK, stopping, subscribed
<1>7. Numbered'
  BY <1>4 DEF Numbered
<1>8. Entries'
  <2>1. ASSUME NEW e \in connections
        PROVE  e \in connections' /\ e[2] \in Entered' /\ e[1] = id'[e[2]] /\ e[1] < connId
    <3>1. e[2] \in Entered /\ e[1] = id[e[2]] /\ e[1] < connId
      BY DEF Connections, Entries
    <3>2. e[2] \in Conns /\ e[2] # conn
      BY <3>1, <1>1 DEF Entered
    <3> QED
      BY <3>1, <3>2, <1>2, <1>5 DEF TypeOK
  <2>2. \A e \in connections : e[1] \in Nat
    BY Sizes DEF TypeOK
  <2>3. id'[conn] = connId
    BY <1>1 DEF TypeOK
  <2>4. ASSUME NEW e \in connections'
        PROVE  e[2] \in Entered' /\ e[1] = id'[e[2]] /\ e[1] < connId'
    <3>1. CASE e \in connections
      BY <3>1, <2>1, <2>2, <1>4
    <3>2. CASE e = <<connId, conn>>
      BY <3>2, <2>3, <1>2, <1>4
    <3> QED
      BY <3>1, <3>2, <1>5
  <2>5. ASSUME NEW e \in connections', NEW f \in connections', e[1] = f[1]
        PROVE  e = f
    <3>1. \A g \in connections : g[1] # connId
      BY <2>1, <2>2, <1>4
    <3> QED
      BY <2>5, <3>1, <1>5 DEF Connections, Entries
  <2> QED
    BY <2>4, <2>5 DEF Entries
<1>9. Reports'
  <2> SUFFICES ASSUME NEW i \in AllIds, reported[i] # 0
               PROVE  /\ reported[i] = 1 /\ i < connId'
                      /\ \A e \in connections' : e[1] # i
    BY DEF Reports
  <2>1. reported[i] = 1 /\ i < connId /\ \A e \in connections : e[1] # i
    BY DEF Connections, Reports
  <2>2. i \in Nat
    BY Sizes
  <2> QED
    BY <2>1, <2>2, <1>4, <1>5
<1>10. Tracked'
  <2> SUFFICES ASSUME NEW c \in Conns, life[c] = "open" PROVE \E e \in connections' : e[2] = c
    BY DEF Tracked
  <2>1. CASE c = conn
    <3>1. <<connId, conn>> \in connections' /\ <<connId, conn>>[2] = conn
      BY <1>5
    <3> QED
      BY <2>1, <3>1
  <2>2. CASE c # conn
    BY <2>2, <1>5 DEF Connections, Tracked
  <2> QED
    BY <2>1, <2>2
<1>11. TokensUsed'
  BY DEF TokensUsed, subscribed
<1> QED
  BY <1>6, <1>7, <1>8, <1>9, <1>10, <1>11, StopFrame DEF Connections

LEMMA CloseIInv ==
  ASSUME IInv, NEW c \in Conns, CloseConnection(c)
  PROVE  IInv'
<1> USE DEF IInv, CloseConnection
<1>1. TypeOK'
  BY DEF TypeOK, stopping, subscribed, accepting
<1>2. Entered' = Entered
  BY DEF Entered, TypeOK, accepting
<1>3. Numbered' /\ Entries' /\ Reports'
  BY <1>2 DEF Connections, Numbered, Entries, Reports, TypeOK, accepting
<1>4. Tracked'
  BY DEF Connections, Tracked, TypeOK, accepting
<1>5. TokensUsed'
  BY DEF TokensUsed, subscribed
<1> QED
  BY <1>1, <1>3, <1>4, <1>5, StopFrame DEF Connections

\* At most one entry has an id, and it goes when the id is reported.
LEMMA CleanIInv ==
  ASSUME IInv, Clean
  PROVE  IInv'
<1> USE DEF IInv, Clean
<1> DEFINE dead == {e \in connections : life[e[2]] = "closed"}
           of(i) == {e \in dead : id[e[2]] = i}
<1>1. ASSUME NEW i \in AllIds
      PROVE  \/ of(i) = {} /\ Cardinality(of(i)) = 0
             \/ /\ Cardinality(of(i)) = 1
                /\ \E e \in of(i) : of(i) = {e} /\ e[1] = i
  <2>1. CASE of(i) = {}
    BY <2>1, FS_EmptySet
  <2>2. CASE of(i) # {}
    <3>1. PICK e \in of(i) : TRUE
      BY <2>2
    <3>2. \A f \in of(i) : f[1] = i
      BY DEF Connections, Entries
    <3>3. \A f \in of(i) : f = e
      BY <3>1, <3>2 DEF Connections, Entries
    <3>4. of(i) = {e}
      BY <3>1, <3>3
    <3> QED
      BY <3>2, <3>4, FS_Singleton
  <2> QED
    BY <2>1, <2>2
<1>2. reported' = [i \in AllIds |-> reported[i] + Cardinality(of(i))]
  OBVIOUS
<1>3. connections' = connections \ dead
  OBVIOUS
<1>4. TypeOK'
  <2>1. reported' \in [AllIds -> Nat]
    BY <1>1, <1>2 DEF TypeOK
  <2> QED
    BY <2>1, <1>3 DEF TypeOK, stopping, subscribed, accepting, Cleaners
<1>5. Entered' = Entered
  BY DEF Entered, accepting
<1>6. Numbered' /\ Entries'
  BY <1>3, <1>5 DEF Connections, Numbered, Entries, accepting
<1>7. Reports'
  <2> SUFFICES ASSUME NEW i \in AllIds, reported'[i] # 0
               PROVE  /\ reported'[i] = 1 /\ i < connId
                      /\ \A e \in connections' : e[1] # i
    BY DEF Reports, accepting
  <2>1. reported'[i] = reported[i] + Cardinality(of(i))
    BY <1>2
  <2>2. reported[i] \in Nat
    BY DEF TypeOK
  <2>3. CASE of(i) = {} /\ Cardinality(of(i)) = 0
    <3>1. reported'[i] = reported[i]
      BY <2>1, <2>2, <2>3
    <3> QED
      BY <3>1, <1>3 DEF Connections, Reports
  <2>4. CASE Cardinality(of(i)) = 1 /\ \E e \in of(i) : of(i) = {e} /\ e[1] = i
    <3>1. PICK e \in of(i) : of(i) = {e} /\ e[1] = i
      BY <2>4
    <3>2. e \in connections /\ e \in dead
      BY <3>1
    <3>3. reported[i] = 0
      BY <3>1, <3>2 DEF Connections, Reports
    <3>4. i < connId
      BY <3>1, <3>2 DEF Connections, Entries
    <3>5. \A f \in connections' : f[1] # i
      BY <3>1, <3>2, <1>3 DEF Connections, Entries
    <3> QED
      BY <2>1, <2>4, <3>3, <3>4, <3>5
  <2> QED
    BY <1>1, <2>3, <2>4
<1>8. Tracked'
  BY <1>3 DEF Connections, Tracked, accepting
<1>9. TokensUsed'
  BY DEF TokensUsed, subscribed
<1> QED
  BY <1>4, <1>6, <1>7, <1>8, <1>9, StopFrame DEF Connections

--------------------------------------------------------------------------------
(* The subscriptions                                                           *)

LEMMA SubscribeIInv ==
  ASSUME IInv, NEW c \in Conns, NEW n \in Names, Subscribe(c, n)
  PROVE  IInv'
<1> USE DEF IInv, Subscribe
<1>1. TypeOK'
  BY NamesAssumption DEF TypeOK, stopping, accepting
<1>2. TokensUsed'
  <2> SUFFICES ASSUME NEW t \in tokens' PROVE \E e \in subs' : TokenOf[e[1]] = t
    BY DEF TokensUsed
  <2>1. CASE t \in tokens
    BY <2>1 DEF TokensUsed
  <2>2. CASE t = TokenOf[n]
    <3>1. <<n, c>> \in subs' /\ <<n, c>>[1] = n
      OBVIOUS
    <3> QED
      BY <2>2, <3>1
  <2> QED
    BY <2>1, <2>2
<1>3. Connections'
  BY ConnectionsFrame DEF Links
<1> QED
  BY <1>1, <1>2, <1>3, StopFrame

\* The token of a name occurs in it, and so goes with it.
LEMMA CleanSubsIInv ==
  ASSUME IInv, CleanSubs
  PROVE  IInv'
<1> USE DEF IInv, CleanSubs
<1> DEFINE dead == {e \in subs : life[e[2]] = "closed"}
<1>1. TypeOK'
  BY DEF TypeOK, stopping, accepting, Cleaners
<1>2. TokensUsed'
  <2> SUFFICES ASSUME NEW t \in tokens' PROVE \E e \in subs' : TokenOf[e[1]] = t
    BY DEF TokensUsed
  <2>1. t \in tokens /\ t \in Tokens /\ t \notin UNION {Within[e[1]] : e \in dead}
    BY DEF TypeOK
  <2>2. PICK e \in subs : TokenOf[e[1]] = t
    BY <2>1 DEF TokensUsed
  <2>3. t \in Within[e[1]]
    BY <2>1, <2>2, NamesAssumption DEF TypeOK
  <2>4. e \notin dead
    BY <2>1, <2>3
  <2> QED
    BY <2>2, <2>4
<1>3. Connections'
  BY ConnectionsFrame DEF Links
<1> QED
  BY <1>1, <1>2, <1>3, StopFrame

\* TestStop and Wait.
LEMMA CleanerIInv ==
  ASSUME IInv, NEW k \in Cleaners, TestStop(k) \/ Wait(k)
  PROVE  IInv'
<1> USE DEF IInv, TestStop, Wait
<1>1. TypeOK'
  BY DEF TypeOK, stopping, subscribed, accepting
<1>2. TokensUsed'
  BY DEF TokensUsed, subscribed
<1>3. Connections'
  BY ConnectionsFrame DEF Links
<1> QED
  BY <1>1, <1>2, <1>3, StopFrame

--------------------------------------------------------------------------------
(* stop                                                                        *)

\* A step that leaves the threads alone is about TypeOK and StopOrder only.
LEMMA ThreadsFrame ==
  ASSUME IInv, UNCHANGED Threads, TypeOK', StopOrder'
  PROVE  IInv'
<1>1. Connections'
  BY ConnectionsFrame DEF IInv, Threads, Links
<1>2. TokensUsed'
  BY DEF IInv, Threads, subscribed, TokensUsed
<1> QED
  BY <1>1, <1>2 DEF IInv

LEMMA SignalIInv ==
  ASSUME IInv, Signal
  PROVE  IInv'
<1> USE DEF IInv, Signal, Go
<1>1. TypeOK'
  BY DEF TypeOK, Threads, accepting, subscribed, Stoppers
<1>2. StopOrder'
  BY DEF TypeOK, Threads, StopOrder, Passed, Signalled, Stoppers
<1> QED
  BY <1>1, <1>2, ThreadsFrame

\* After run() the handler of a signal is the only one that can have stopped the
\* io threads, and it has ended.
LEMMA DestroyIInv ==
  ASSUME IInv, Destroy
  PROVE  IInv'
<1> USE DEF IInv, Destroy, Go
<1>1. TypeOK'
  BY DEF TypeOK, Threads, accepting, subscribed, Stoppers
<1>2. StopOrder'
  BY DEF TypeOK, Threads, StopOrder, Passed, Signalled, Stoppers, IoThreadsEnd
<1> QED
  BY <1>1, <1>2, ThreadsFrame

LEMMA TestStoppedIInv ==
  ASSUME IInv, NEW t \in Stoppers, TestStopped(t)
  PROVE  IInv'
<1> USE DEF IInv, TestStopped, Go
<1>1. joins \in 0..2 /\ joins' \in 0..2
  <2>1. joins \in 0..2
    BY Sizes DEF TypeOK
  <2>2. joins # 2
    BY DEF StopOrder, Passed
  <2> QED
    BY <2>1, <2>2
<1>2. TypeOK'
  BY <1>1, Sizes DEF TypeOK, Threads, accepting, subscribed
<1>3. StopOrder'
  <2>1. (\E u \in Stoppers : Passed(u))' /\ (joins' = 2 => (\A u \in Stoppers : Passed(u))')
    BY <1>1 DEF TypeOK, StopOrder, Passed, Stoppers
  <2>2. CASE t = "signal"
    BY <1>1, <2>1, <2>2 DEF TypeOK, Threads, StopOrder, Passed, Signalled, Stoppers
  <2>3. CASE t = "destructor"
    BY <1>1, <2>1, <2>3 DEF TypeOK, Threads, StopOrder, Passed, Signalled, Stoppers
  <2> QED
    BY <2>2, <2>3 DEF Stoppers
<1> QED
  BY <1>2, <1>3, ThreadsFrame

\* The steps between the test and the end, in which nothing is counted.
LEMMA StopStepIInv ==
  ASSUME IInv, NEW t \in Stoppers,
         \/ SetStop(t, "connections", "setCheck", "joinCheck")
         \/ Join(t, "connections", "joinCheck", "setSub")
         \/ SetStop(t, "subscriptions", "setSub", "joinSub")
         \/ Join(t, "subscriptions", "joinSub", "stopPool")
         \/ StopPool(t) \/ JoinThread(t) \/ SetStopped(t)
  PROVE  IInv'
<1> USE DEF IInv, SetStop, Join, StopPool, JoinThread, SetStopped, Go
<1>1. TypeOK'
  BY DEF TypeOK, Threads, accepting, subscribed, Cleaners
<1>2. joins' = joins /\ Passed(t) /\ UNCHANGED Threads
  BY DEF Passed
<1>3. \A u \in Stoppers : Passed(u)' = Passed(u)
  BY <1>2 DEF TypeOK, Passed
<1>4. Signalled' = Signalled
  BY DEF TypeOK, Signalled, Stoppers
<1>5. StopOrder'
  <2>1. (joins' # 0 => (\E u \in Stoppers : Passed(u))')
         /\ (joins' = 2 => (\A u \in Stoppers : Passed(u))')
    BY <1>2, <1>3 DEF StopOrder
  <2>2. mode' = "async" /\ ~Signalled' =>
          /\ ~Passed("destructor")' => joins' = 0
          /\ joins' <= 1
    BY <1>2, <1>3, <1>4 DEF StopOrder, Threads, Stoppers
  <2>3. ASSUME mode' = "run" PROVE t = "signal"
    BY <2>3 DEF StopOrder, Threads, Stoppers
  <2>4. ASSUME mode' = "run"
        PROVE  /\ pool' = "stopped" => stopper'["signal"] \in {"setStopped", "done"}
               /\ stopper'["signal"] \in {"idle", "test"} => joins' = 0
               /\ stopper'["signal"] = "done" => stopped'
               /\ stopper'["destructor"] # "idle" =>
                    stopper'["signal"] = "done" /\ stopper'["destructor"] \in {"test", "done"}
               /\ joins' <= 1
    BY <2>3, <2>4 DEF TypeOK, StopOrder, Threads, Stoppers, IoThreadsEnd
  <2> QED
    BY <2>1, <2>2, <2>4 DEF StopOrder
<1> QED
  BY <1>1, <1>2, <1>5, ThreadsFrame

--------------------------------------------------------------------------------
(* The theorems                                                                *)

LEMMA NextIInv == IInv /\ [Next]_vars => IInv'
<1> SUFFICES ASSUME IInv, [Next]_vars PROVE IInv'
  OBVIOUS
<1>1. ASSUME NEW c \in Conns, Accept(c) PROVE IInv'
  BY <1>1, AcceptIInv
<1>2. CASE Enter
  BY <1>2, EnterIInv
<1>3. ASSUME NEW c \in Conns, CloseConnection(c) PROVE IInv'
  BY <1>3, CloseIInv
<1>4. ASSUME NEW c \in Conns, NEW n \in Names, Subscribe(c, n) PROVE IInv'
  BY <1>4, SubscribeIInv
<1>5. CASE CleanConnections
  BY <1>5, CleanIInv, CleanerIInv DEF CleanConnections, Cleaners
<1>6. CASE CleanSubscriptions
  BY <1>6, CleanSubsIInv, CleanerIInv DEF CleanSubscriptions, Cleaners
<1>7. CASE Signal
  BY <1>7, SignalIInv
<1>8. CASE Destroy
  BY <1>8, DestroyIInv
<1>9. ASSUME NEW t \in Stoppers, Stop(t) PROVE IInv'
  BY <1>9, TestStoppedIInv, StopStepIInv DEF Stop
<1>10. CASE UNCHANGED vars
  <2>1. UNCHANGED Threads /\ UNCHANGED stopping
    BY <1>10 DEF vars, Threads
  <2>2. TypeOK'
    BY <1>10 DEF IInv, TypeOK, vars, accepting, subscribed, stopping
  <2>3. StopOrder'
    BY <2>1, StopFrame DEF IInv, Threads
  <2> QED
    BY <2>1, <2>2, <2>3, ThreadsFrame
<1> QED
  BY <1>1, <1>2, <1>3, <1>4, <1>5, <1>6, <1>7, <1>8, <1>9, <1>10 DEF Next

\* The inductive invariant holds in every behaviour of the server (rpc_server.h).
THEOREM Invariance == Spec => []IInv
<1> QED
  BY InitIInv, NextIInv, PTL DEF Spec

\* The types are invariant: the counter of ids stays within the number of connections.
THEOREM ServerTypes == Spec => []TypeOK
<1>1. IInv => TypeOK
  BY DEF IInv
<1> QED
  BY <1>1, Invariance, PTL

\* No live connection is lost from connections_ by another's id or by the clean-up
\* thread (do_accept and clean, rpc_server.h:126-160).
THEOREM LiveTracked == Spec => []Tracked
<1>1. IInv => Tracked
  BY DEF IInv, Connections
<1> QED
  BY <1>1, Invariance, PTL

\* No id is reported to the user twice, however accept and clean interleave.
THEOREM EachReportedOnce == Spec => []ReportedOnce
<1>1. IInv => ReportedOnce
  BY DEF IInv, Connections, Reports, ReportedOnce, TypeOK
<1> QED
  BY <1>1, Invariance, PTL

\* A listed token belongs to a subscription, whatever tokens occur in whichever names.
THEOREM ListedTokensUsed == Spec => []TokensUsed
<1>1. IInv => TokensUsed
  BY DEF IInv
<1> QED
  BY <1>1, Invariance, PTL

\* The threads are joined once, unless a signal comes after async_run().
THEOREM ThreadsJoinedOnce == Spec => []JoinedOnce
<1>1. IInv => JoinedOnce
  BY DEF IInv, StopOrder, JoinedOnce, TypeOK
<1> QED
  BY <1>1, Invariance, PTL
================================================================================
