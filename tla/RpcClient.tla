------------------------------- MODULE RpcClient -------------------------------
(* The client of rest_rpc (include/rest_rpc/rpc_client.hpp): threads of the    *)
(* user that call, subscribe and close, and one io thread that runs the        *)
(* completion handlers of the socket's operations.  A step of a user thread is *)
(* what it does under one lock (cb_mtx_, write_mtx_) or at one access of       *)
(* has_connected_ and the socket; a handler of the io thread is one step up to *)
(* the next thing another thread could see half done.                          *)
(*                                                                             *)
(* asio: an operation waits in the socket's queues until the reactor completes *)
(* it; its handler is then queued (ready) and runs in order.  Closing or       *)
(* replacing the socket aborts what waits, not what is already queued.         *)
EXTENDS Integers, Sequences, FiniteSets

CONSTANTS
  Calls,          \* calls of the user's threads, each with an id of its own
  Callbacks,      \* those made with a callback; the others return a future
  Subs,           \* subscriptions
  Pubs,           \* messages that the server publishes to a subscription
  Beats,          \* bound: the heartbeats of enable_auto_heartbeat
  NoMsg,
  AutoReconnect,  \* enable_reconnect_
  EarlyCalls,     \* whether the user calls before connect has returned true
  UserCloses,     \* whether a user thread calls close(), as the destructor does
  Reconnects,     \* set_reconnect_count
  MaxFaults       \* bound: broken connections and failed connects

ASSUME CallsAssumption ==
  /\ Callbacks \subseteq Calls
  /\ LET kinds == <<Calls, Subs, Pubs, Beats, {NoMsg}>>
     IN \A i, j \in DOMAIN kinds : i # j => kinds[i] \cap kinds[j] = {}
ASSUME ModesAssumption ==
  /\ {AutoReconnect, EarlyCalls, UserCloses} \subseteq BOOLEAN
  /\ Reconnects \in Nat /\ MaxFaults \in Nat

VARIABLES
  \* the client
  connected,  \* has_connected_
  retries,    \* reconnect_cnt_
  outbox,     \* outbox_: the first message is, or should be, being written
  header,     \* header_: the message whose header it holds
  pending,    \* the keys of future_map_ and callback_map_
  late,       \* callbacks whose timer has fired: has_timeout_
  kept,       \* key_token_set_
  \* the socket and its operations
  sock,       \* "closed", "connecting", "up", "broken", or "open": not connected
  reading, writing,  \* operations that wait, in order
  ready,      \* completed operations whose handlers wait for the io thread
  frame,      \* the message whose head has been read from this connection, its body not
  \* the threads
  pc,         \* of each message
  cpc,        \* where the io thread and a closing user thread are in close()
  conn,       \* the user's connect(): "no", "waiting", "yes"
  crashed,    \* the message whose handler has failed an assertion
  \* the server and the user
  wire,       \* calls that this connection has brought to the server and that are
              \* not yet answered, and what was published to it
  told,       \* subscriptions it has brought there
  sent,       \* how often each call has been brought to the server
  result,     \* what the user's future or callback got last
  answers,    \* how often it got one
  faults

link    == <<connected, retries>>
out     == <<outbox, header>>
maps    == <<pending, late, kept>>
socket  == <<sock, reading, writing, frame, wire, told>>
threads == <<pc, conn, cpc, crashed>>
given   == <<sent, result, answers>>
vars    == <<link, out, maps, socket, ready, threads, given, faults>>

-------------------------------------------------------------------------------
Msgs    == Calls \union Subs \union Beats
Replies == Calls \union Pubs
Closers == {"io", "user"}
Results == {"none", "reply", "error", "timeout", "broken", "notConnected"}

Op(kind, m)  == [op |-> kind, msg |-> m]
Done(o, res) == [op |-> o.op, msg |-> o.msg, ok |-> res]

TypeOK ==
  /\ connected \in BOOLEAN /\ crashed \in Replies \union {NoMsg}
  /\ retries \in 0..Reconnects /\ faults \in 0..MaxFaults
  /\ outbox \in Seq(Msgs) /\ header \in Msgs \union {NoMsg}
  /\ pending \subseteq Calls /\ late \subseteq Callbacks /\ kept \subseteq Subs
  /\ sock \in {"closed", "open", "connecting", "up", "broken"}
  /\ reading \in Seq([op : {"head", "body"}, msg : Replies \union {NoMsg}])
  /\ writing \in Seq(Msgs)
  /\ ready \in Seq([op : {"connect", "write", "head", "body"},
                    msg : Msgs \union Pubs \union {NoMsg}, ok : BOOLEAN])
  /\ frame \in Replies \union {NoMsg}
  /\ pc \in [Msgs \union Pubs -> {"idle", "checked", "registered", "sent", "done"}]
  /\ cpc \in [Closers -> {"idle", "close", "clearFlag", "closeSocket", "clearOutbox",
                         "clearMaps", "error", "closed"}]
  /\ conn \in {"no", "waiting", "yes"}
  /\ wire \subseteq Replies /\ told \subseteq Subs
  /\ sent \in [Calls -> Nat] /\ answers \in [Calls -> Nat]
  /\ result \in [Calls -> Results]

Init ==
  /\ connected = FALSE /\ crashed = NoMsg /\ retries = Reconnects /\ faults = 0
  /\ outbox = <<>> /\ header = NoMsg /\ pending = {} /\ late = {} /\ kept = {}
  /\ sock = "closed" /\ reading = <<>> /\ writing = <<>> /\ ready = <<>> /\ frame = NoMsg
  /\ pc = [m \in Msgs \union Pubs |-> "idle"] /\ cpc = [t \in Closers |-> "idle"] /\ conn = "no"
  /\ wire = {} /\ told = {}
  /\ sent = [c \in Calls |-> 0] /\ answers = [c \in Calls |-> 0]
  /\ result = [c \in Calls |-> "none"]

-------------------------------------------------------------------------------
(* The socket                                                                  *)

CanWait == sock \in {"connecting", "up", "broken"}

\* write(), on the first message of the outbox: it fails at once on a socket that
\* is not connected.
StartWrite(m, queued) ==
  /\ header' = m
  /\ IF CanWait THEN writing' = Append(writing, m) /\ ready' = queued
                ELSE writing' = writing /\ ready' = Append(queued, Done(Op("write", m), FALSE))

StartRead(o, queued) ==
  IF CanWait THEN reading' = Append(reading, o) /\ ready' = queued
             ELSE reading' = reading /\ ready' = Append(queued, Done(o, FALSE))

Aborted ==
  [i \in DOMAIN reading |-> Done(reading[i], FALSE)]
    \o (IF sock = "connecting" THEN <<Done(Op("connect", NoMsg), FALSE)>> ELSE <<>>)
    \o [i \in DOMAIN writing |-> Done(Op("write", writing[i]), FALSE)]

\* The socket is closed, or replaced by one that connects: what waited is aborted.
LeaveSocket(new, queued) ==
  /\ ready' = queued \o Aborted
  /\ sock' = new /\ reading' = <<>> /\ writing' = <<>> /\ frame' = NoMsg
  /\ wire' = {} /\ told' = {}

-------------------------------------------------------------------------------
(* The reactor: with the io thread idle, an operation completes                *)

IoFree == cpc["io"] = "idle" /\ \A b \in Beats : pc[b] # "checked"
Fault  == faults < MaxFaults /\ faults' = faults + 1

ConnectDone(ok) ==
  /\ IoFree /\ sock = "connecting"
  /\ IF ok THEN faults' = faults ELSE Fault
  /\ sock' = IF ok THEN "up" ELSE "open"
  /\ ready' = Append(ready, Done(Op("connect", NoMsg), ok))
  /\ UNCHANGED <<link, out, maps, reading, writing, frame, wire, told, threads, given>>

\* The peer receives the header that header_ holds when the bytes leave.
WriteDone(ok) ==
  /\ IoFree /\ writing # <<>>
  /\ IF ok THEN sock \in {"up", "broken"} ELSE sock \in {"broken", "open"}
  /\ LET m == Head(writing) IN
       /\ writing' = Tail(writing)
       /\ ready' = Append(ready, Done(Op("write", m), ok))
       /\ IF ok /\ sock = "up"
            THEN \E id \in {m, header} :
                   /\ wire' = wire \union ({id} \intersect Calls)
                   /\ told' = told \union ({id} \intersect Subs)
                   /\ sent' = [c \in Calls |-> IF c = id THEN sent[c] + 1 ELSE sent[c]]
            ELSE UNCHANGED <<wire, told, sent>>
  /\ UNCHANGED <<link, out, maps, sock, reading, frame, threads, result, answers, faults>>

\* The server answers in any order.  A read that would start in the middle of a
\* message does not complete here.
HeadDone ==
  /\ IoFree /\ reading # <<>> /\ Head(reading).op = "head"
  /\ sock = "up" /\ frame = NoMsg
  /\ \E m \in wire :
       /\ wire' = wire \ {m} /\ frame' = m
       /\ ready' = Append(ready, Done(Op("head", m), TRUE))
  /\ reading' = Tail(reading)
  /\ UNCHANGED <<link, out, maps, sock, writing, told, threads, given, faults>>

BodyDone ==
  /\ IoFree /\ reading # <<>> /\ Head(reading) = Op("body", frame)
  /\ sock = "up"
  /\ frame' = NoMsg
  /\ ready' = Append(ready, Done(Head(reading), TRUE))
  /\ reading' = Tail(reading)
  /\ UNCHANGED <<link, out, maps, sock, writing, wire, told, threads, given, faults>>

ReadFails ==
  /\ IoFree /\ reading # <<>> /\ sock \in {"broken", "open"}
  /\ ready' = Append(ready, Done(Head(reading), FALSE))
  /\ reading' = Tail(reading)
  /\ UNCHANGED <<link, out, maps, sock, writing, frame, wire, told, threads, given, faults>>

\* The server publishes to a subscription that it has been told of.
Publish(p) ==
  /\ sock = "up" /\ told # {} /\ pc[p] = "idle"
  /\ pc' = [pc EXCEPT ![p] = "done"]
  /\ wire' = wire \union {p}
  /\ UNCHANGED <<link, out, maps, sock, reading, writing, frame, told, ready, conn, cpc,
                 crashed, given, faults>>

\* The connection breaks; the client learns of it from its operations.
Break ==
  /\ sock = "up" /\ Fault
  /\ sock' = "broken" /\ wire' = {} /\ told' = {}
  /\ UNCHANGED <<link, out, maps, reading, writing, frame, ready, threads, given>>

-------------------------------------------------------------------------------
(* close(): of the io thread after an error, or of a user                      *)

AfterClose(t) == IF t = "io" THEN "error" ELSE "closed"

TestConnected(t) ==
  /\ cpc[t] = "close"
  /\ cpc' = [cpc EXCEPT ![t] = IF connected THEN "clearFlag" ELSE AfterClose(t)]
  /\ UNCHANGED <<link, out, maps, socket, ready, pc, conn, crashed, given, faults>>

ClearConnected(t) ==
  /\ cpc[t] = "clearFlag"
  /\ connected' = FALSE
  /\ cpc' = [cpc EXCEPT ![t] = "closeSocket"]
  /\ UNCHANGED <<retries, out, maps, socket, ready, pc, conn, crashed, given, faults>>

\* shutdown and close; where the other closer was faster nothing waits any more.
CloseSocket(t) ==
  /\ cpc[t] = "closeSocket"
  /\ LeaveSocket("closed", ready)
  /\ cpc' = [cpc EXCEPT ![t] = "clearOutbox"]
  /\ UNCHANGED <<link, out, maps, pc, conn, crashed, given, faults>>

ClearOutbox(t) ==
  /\ cpc[t] = "clearOutbox"
  /\ outbox' = <<>>
  /\ cpc' = [cpc EXCEPT ![t] = "clearMaps"]
  /\ UNCHANGED <<link, header, maps, socket, ready, pc, conn, crashed, given, faults>>

\* A promise that is dropped breaks its future; a callback is just forgotten.
ClearMaps(t) ==
  /\ cpc[t] = "clearMaps"
  /\ pending' = {}
  /\ result' = [c \in Calls |-> IF c \in pending \ Callbacks THEN "broken" ELSE result[c]]
  /\ cpc' = [cpc EXCEPT ![t] = AfterClose(t)]
  /\ UNCHANGED <<link, out, late, kept, socket, ready, pc, conn, crashed, sent, answers,
                 faults>>

ErrorCallback ==
  /\ cpc["io"] = "error"
  /\ IF AutoReconnect THEN LeaveSocket("connecting", ready) ELSE UNCHANGED <<socket, ready>>
  /\ cpc' = [cpc EXCEPT !["io"] = "idle"]
  /\ UNCHANGED <<link, out, maps, pc, conn, crashed, given, faults>>

-------------------------------------------------------------------------------
(* The handlers, in the order in which their operations completed              *)

Handles(kind) == IoFree /\ ready # <<>> /\ Head(ready).op = kind

\* has_connected_, do_read and resend_subscribe as one step; the subscriptions go out
\* in some order.
OnConnected ==
  \E order \in [1..Cardinality(kept) -> kept] :
    /\ \A i, j \in DOMAIN order : order[i] = order[j] => i = j
    /\ connected' = TRUE
    /\ outbox' = outbox \o order
    /\ LET head == Op("head", NoMsg)
           send == outbox = <<>> /\ kept # {}
       IN IF CanWait
            THEN /\ reading' = Append(reading, head)
                 /\ writing' = IF send THEN Append(writing, order[1]) ELSE writing
                 /\ ready' = Tail(ready)
            ELSE /\ UNCHANGED <<reading, writing>>
                 /\ ready' = Tail(ready) \o <<Done(head, FALSE)>>
                       \o (IF send THEN <<Done(Op("write", order[1]), FALSE)>> ELSE <<>>)
    /\ header' = IF outbox = <<>> /\ kept # {} THEN order[1] ELSE header
    /\ UNCHANGED <<retries, sock, frame, wire, told>>

\* Mutants: the count is not looked at; a failed connect is not tried again.
ConnectFailedUncounted ==
  retries' = retries - 1 /\ LeaveSocket("connecting", Tail(ready))

ConnectFailedGivesUp ==
  retries' = retries /\ ready' = Tail(ready) /\ UNCHANGED socket

\* enable_auto_reconnect sets the count to the largest int: it is not used up.
ConnectFailed ==
  IF retries = 0 /\ ~AutoReconnect
    THEN ready' = Tail(ready) /\ UNCHANGED <<retries, socket>>
    ELSE /\ retries' = IF AutoReconnect THEN retries ELSE retries - 1
         /\ LeaveSocket("connecting", Tail(ready))

OnConnect ==
  /\ Handles("connect")
  /\ \/ /\ connected
        /\ ready' = Tail(ready)
        /\ UNCHANGED <<link, out, socket>>
     \/ /\ ~connected /\ ~Head(ready).ok
        /\ ConnectFailed
        /\ UNCHANGED <<connected, out>>
     \/ /\ ~connected /\ Head(ready).ok
        /\ OnConnected
  /\ UNCHANGED <<maps, threads, given, faults>>

\* Mutant: the last message of the outbox is left for the next call.
WriteNextOfTwo ==
  IF Len(outbox) > 2 THEN StartWrite(outbox[2], Tail(ready))
                     ELSE ready' = Tail(ready) /\ UNCHANGED <<header, writing>>

WriteNext ==
  IF Len(outbox) > 1 THEN StartWrite(outbox[2], Tail(ready))
                     ELSE ready' = Tail(ready) /\ UNCHANGED <<header, writing>>

\* A failed write clears has_connected_ before it calls close, which then returns
\* at once: neither the socket nor the caches are touched.
OnWrite ==
  /\ Handles("write")
  /\ IF ~Head(ready).ok
       THEN /\ connected' = FALSE /\ ready' = Tail(ready)
            /\ cpc' = [cpc EXCEPT !["io"] = "error"]
            /\ UNCHANGED <<out, writing>>
       ELSE /\ outbox' = IF outbox = <<>> THEN <<>> ELSE Tail(outbox)
            /\ WriteNext
            /\ UNCHANGED <<connected, cpc>>
  /\ UNCHANGED <<retries, maps, sock, reading, frame, wire, told, pc, conn, crashed, given,
                 faults>>

Answer(cs, res) ==
  /\ result'  = [c \in Calls |-> IF c \in cs THEN res[c] ELSE result[c]]
  /\ answers' = [c \in Calls |-> IF c \in cs THEN answers[c] + 1 ELSE answers[c]]

\* Mutant: after a failed read the callbacks are told of no error.
OnHeadErrorless ==
  /\ Handles("head")
  /\ \/ /\ sock = "closed"
        /\ connected' = FALSE /\ ready' = Tail(ready)
        /\ UNCHANGED <<reading, cpc, result, answers>>
     \/ /\ sock # "closed" /\ Head(ready).ok
        /\ StartRead(Op("body", Head(ready).msg), Tail(ready))
        /\ UNCHANGED <<connected, cpc, result, answers>>
     \/ /\ sock # "closed" /\ ~Head(ready).ok
        /\ Answer(pending \intersect Callbacks, [c \in Calls |-> "reply"])
        /\ ready' = Tail(ready)
        /\ cpc' = [cpc EXCEPT !["io"] = "close"]
        /\ UNCHANGED <<connected, reading>>
  /\ UNCHANGED <<retries, out, maps, sock, writing, frame, wire, told, pc, conn, crashed,
                 sent, faults>>

OnHead ==
  /\ Handles("head")
  /\ \/ /\ sock = "closed"
        /\ connected' = FALSE /\ ready' = Tail(ready)
        /\ UNCHANGED <<reading, cpc, result, answers>>
     \/ /\ sock # "closed" /\ Head(ready).ok
        /\ StartRead(Op("body", Head(ready).msg), Tail(ready))
        /\ UNCHANGED <<connected, cpc, result, answers>>
     \/ /\ sock # "closed" /\ ~Head(ready).ok
        /\ Answer(pending \intersect Callbacks, [c \in Calls |-> "error"])
        /\ ready' = Tail(ready)
        /\ cpc' = [cpc EXCEPT !["io"] = "close"]
        /\ UNCHANGED <<connected, reading>>
  /\ UNCHANGED <<retries, out, maps, sock, writing, frame, wire, told, pc, conn, crashed,
                 sent, faults>>

\* Mutant: the call stays in the map.
CallBackKeeps(c, ok) ==
  IF c \in pending
    THEN /\ Answer({c}, [d \in Calls |-> IF d \in late THEN "timeout"
                                         ELSE IF ok THEN "reply" ELSE "error"])
         /\ UNCHANGED <<pending, crashed>>
    ELSE /\ crashed' = c
         /\ UNCHANGED <<pending, result, answers>>

\* call_back: assert(cl) and assert(f) fail when nothing is registered.  The id of
\* what is published is 0, and never is.
CallBack(c, ok) ==
  IF c \in pending
    THEN /\ pending' = pending \ {c}
         /\ Answer({c}, [d \in Calls |-> IF d \in late THEN "timeout"
                                         ELSE IF ok THEN "reply" ELSE "error"])
         /\ crashed' = crashed
    ELSE /\ crashed' = c
         /\ UNCHANGED <<pending, result, answers>>

\* What is published goes to callback_sub, its failures to call_back.
OnBody ==
  /\ Handles("body")
  /\ IF Head(ready).msg \in Pubs /\ Head(ready).ok /\ sock # "closed"
       THEN UNCHANGED <<pending, result, answers, crashed>>
       ELSE CallBack(Head(ready).msg, Head(ready).ok /\ sock # "closed")
  /\ \/ /\ sock = "closed"
        /\ ready' = Tail(ready)
        /\ UNCHANGED <<connected, reading, cpc>>
     \/ /\ sock # "closed" /\ Head(ready).ok
        /\ StartRead(Op("head", NoMsg), Tail(ready))
        /\ UNCHANGED <<connected, cpc>>
     \/ /\ sock # "closed" /\ ~Head(ready).ok
        /\ connected' = FALSE /\ ready' = Tail(ready)
        /\ cpc' = [cpc EXCEPT !["io"] = "error"]
        /\ UNCHANGED reading
  /\ UNCHANGED <<retries, out, late, kept, sock, writing, frame, wire, told, pc, conn, sent,
                 faults>>

\* Mutant: a call whose timer fires is forgotten.
ExpireErases(c) ==
  /\ IoFree /\ c \in (pending \intersect Callbacks) \ late
  /\ late' = late \union {c} /\ pending' = pending \ {c}
  /\ UNCHANGED <<link, out, kept, socket, ready, threads, given, faults>>

\* The timer of a callback fires; the call stays registered.
Expire(c) ==
  /\ IoFree /\ c \in (pending \intersect Callbacks) \ late
  /\ late' = late \union {c}
  /\ UNCHANGED <<link, out, pending, kept, socket, ready, threads, given, faults>>

-------------------------------------------------------------------------------
(* The heartbeat, on the io thread: has_connected_ is read before the write.   *)
(* Cancelling the timer calls its handler, which starts it again.              *)

BeatChecks(b) ==
  /\ IoFree /\ connected /\ pc[b] = "idle"
  /\ pc' = [pc EXCEPT ![b] = "checked"]
  /\ UNCHANGED <<link, out, maps, socket, ready, conn, cpc, crashed, given, faults>>

-------------------------------------------------------------------------------
(* The user's threads                                                          *)

Connect ==
  /\ conn = "no"
  /\ conn' = "waiting" /\ sock' = "connecting"
  /\ UNCHANGED <<link, out, maps, reading, writing, frame, wire, told, ready, pc, cpc,
                 crashed, given, faults>>

ConnectReturns ==
  /\ conn = "waiting" /\ connected
  /\ conn' = "yes"
  /\ UNCHANGED <<link, out, maps, socket, ready, pc, cpc, crashed, given, faults>>

\* async_call with a callback looks at has_connected_ first; with a future it does not.
CheckConnected(c) ==
  /\ pc[c] = "idle" /\ (conn = "yes" \/ EarlyCalls)
  /\ IF c \in Callbacks /\ ~connected
       THEN /\ pc' = [pc EXCEPT ![c] = "done"]
            /\ Answer({c}, [d \in Calls |-> "notConnected"])
       ELSE /\ pc' = [pc EXCEPT ![c] = "checked"]
            /\ UNCHANGED <<result, answers>>
  /\ UNCHANGED <<link, out, maps, socket, ready, conn, cpc, crashed, sent, faults>>

Register(c) ==
  /\ pc[c] = "checked"
  /\ pc' = [pc EXCEPT ![c] = "registered"]
  /\ pending' = pending \union {c}
  /\ UNCHANGED <<link, out, late, kept, socket, ready, conn, cpc, crashed, given, faults>>

\* Mutant: every message is written at once.
EnqueueAlways(m, next) ==
  /\ pc' = [pc EXCEPT ![m] = next]
  /\ outbox' = Append(outbox, m)
  /\ StartWrite(m, ready)
  /\ UNCHANGED <<link, maps, sock, reading, frame, wire, told, conn, cpc, crashed, given,
                 faults>>

Enqueue(m, next) ==
  /\ pc' = [pc EXCEPT ![m] = next]
  /\ outbox' = Append(outbox, m)
  /\ IF outbox = <<>> THEN StartWrite(m, ready) ELSE UNCHANGED <<header, writing, ready>>
  /\ UNCHANGED <<link, maps, sock, reading, frame, wire, told, conn, cpc, crashed, given,
                 faults>>

BeatWrites(b) == pc[b] = "checked" /\ Enqueue(b, "done")

Write(c) == pc[c] = "registered" /\ Enqueue(c, "done")

Subscribe(s) ==
  /\ pc[s] = "idle" /\ (conn = "yes" \/ EarlyCalls)
  /\ Enqueue(s, "sent")

KeepSubscription(s) ==
  /\ pc[s] = "sent"
  /\ pc' = [pc EXCEPT ![s] = "done"]
  /\ kept' = kept \union {s}
  /\ UNCHANGED <<link, out, pending, late, socket, ready, conn, cpc, crashed, given, faults>>

Close ==
  /\ UserCloses /\ conn = "yes" /\ cpc["user"] = "idle"
  /\ cpc' = [cpc EXCEPT !["user"] = "close"]
  /\ UNCHANGED <<link, out, maps, socket, ready, pc, conn, crashed, given, faults>>

-------------------------------------------------------------------------------
CloseStep(t) ==
  \/ TestConnected(t) \/ ClearConnected(t) \/ CloseSocket(t)
  \/ ClearOutbox(t) \/ ClearMaps(t)

Reactor ==
  /\ crashed = NoMsg
  /\ \/ \E ok \in BOOLEAN : ConnectDone(ok) \/ WriteDone(ok)
     \/ HeadDone \/ BodyDone \/ ReadFails

Handler ==
  /\ crashed = NoMsg
  /\ \/ OnConnect \/ OnWrite \/ OnHead \/ OnBody
     \/ CloseStep("io") \/ ErrorCallback
     \/ \E b \in Beats : BeatWrites(b)

User ==
  /\ crashed = NoMsg
  /\ \/ ConnectReturns \/ CloseStep("user")
     \/ \E c \in Calls : Register(c) \/ Write(c)
     \/ \E s \in Subs : KeepSubscription(s)

Next ==
  \/ Reactor \/ Handler \/ User
  \/ /\ crashed = NoMsg
     /\ \/ Connect \/ Close \/ Break
        \/ \E c \in Calls : CheckConnected(c) \/ Expire(c)
        \/ \E s \in Subs : Subscribe(s)
        \/ \E p \in Pubs : Publish(p)
        \/ \E b \in Beats : BeatChecks(b)

Spec == Init /\ [][Next]_vars

\* The io thread runs its handlers and, between them, the reactor; the server
\* answers; a user thread finishes what it began.
FairSpec == Spec /\ WF_vars(Reactor) /\ WF_vars(Handler) /\ WF_vars(User)

-------------------------------------------------------------------------------
(* Properties                                                                  *)

\* What is being written is the first message of the outbox, so that its buffer
\* stays allocated until the handler pops it, and it is the only one, so that
\* header_ is its own (write, rpc_client.hpp:438-485).  Without reconnection.
WriteOwnsFront ==
  \A i \in DOMAIN writing : outbox # <<>> /\ writing[i] = outbox[1] /\ header = writing[i]

\* A reply finds its call registered: the assertions of call_back hold
\* (rpc_client.hpp:604, 628) until a user closes the client.  Without reconnection.
RepliesExpected == crashed \in Calls => cpc["user"] # "idle"

\* What a caller is promised, over any order of breaks, closes and replies: the
\* server executes a call at most once, the caller gets at most one answer, a
\* reply only if the server executed the call, and never the execution of
\* a call that has been reported as failed.  Without reconnection.
Promise == INSTANCE RpcPromise WITH executed <- sent, got <- result
PromiseSpec == Promise!Spec

\* Over any number of reconnections, and however handlers of old sockets mix with
\* those of the new one, nobody gets a reply or a timeout of a call that the server
\* has never received (call_back, rpc_client.hpp:590-636, called by read_body).
GenuineReplies == \A c \in Calls : result[c] \in {"reply", "timeout"} => sent[c] > 0

\* Until a connection breaks or fails every call is answered: none is left in the
\* outbox by the handler that should have written it (write, rpc_client.hpp:480).
Answered == \A c \in Calls : pc[c] = "registered" ~> result[c] # "none" \/ faults > 0

\* Whoever has got a reply or a timeout, and a future that was set or broken, gets
\* nothing after it: also with reconnection, where a call may be written on both
\* connections and be replied to on both (call_back, rpc_client.hpp:590-636, against
\* clear_cache and the callbacks of a failed read, 521).
RepliesFinal ==
  [][\A c \in Calls :
       result[c] \in {"reply", "timeout"} \/ (c \notin Callbacks /\ result[c] # "none") =>
         result'[c] = result[c] /\ answers'[c] = answers[c]]_vars

\* With automatic reconnection a lost connection is replaced, although the failed
\* read and the failed write each start to reconnect and abort the other's attempt
\* (async_reconnect, rpc_client.hpp:419, called from 742 and 402).  Without
\* subscriptions: with one, and another message, handlers of abandoned sockets may
\* reset the new socket for ever.
Reconnected == sock = "broken" ~> (sock = "up" /\ connected) \/ crashed # NoMsg

-------------------------------------------------------------------------------
(* What the code says and the program does not do                              *)

\* rpc_client.hpp:628: assert(f), whatever message the connection breaks in.
AssertionsHold == crashed = NoMsg

\* rpc_client.hpp:447: messages that wait in the outbox wait for an outstanding write.
WriteOutstanding ==
  outbox # <<>> => \/ writing # <<>>
                   \/ \E i \in DOMAIN ready : ready[i].op = "write"
                   \/ "clearOutbox" \in {cpc[t] : t \in Closers}
===============================================================================
