---------------------------- MODULE RpcConnection ----------------------------
(* One connection of a server of rest_rpc (include/rest_rpc/connection.h) with *)
(* the router that answers its requests (router.h): one io thread that runs    *)
(* the handlers of reads, writes and the idle timer, and other threads that    *)
(* answer later or publish.  What is said of asio in RpcClient holds here too. *)
EXTENDS Integers, Sequences

CONSTANTS
  Requests,   \* messages of the client, each with a req_id of its own
  Kind,       \* what each is: see Kinds
  Pubs,       \* messages that the server publishes to the client
  NoMsg,
  UseTimer,   \* timeout_seconds_ # 0
  MaxFaults   \* bound: broken connections

\* "sync": answered by route, also when the function is unknown or throws; "async":
\* answered by another thread, with the id its handler asked for; "heartbeat": a head
\* without a body; "bad": a wrong magic number or length.
Kinds == {"sync", "async", "subscribe", "heartbeat", "bad"}

ASSUME MessagesAssumption ==
  Kind \in [Requests -> Kinds] /\ Requests \cap Pubs = {} /\ NoMsg \notin Requests \union Pubs
ASSUME LimitsAssumption == UseTimer \in BOOLEAN /\ MaxFaults \in Nat

VARIABLES
  sock,       \* "up", "broken", or "closed": has_closed_
  reading,    \* the read that waits: "none", "head", "body"
  writing,    \* the writes that wait
  timer,      \* whether timer_ is running
  ready,      \* completed operations whose handlers wait for the io thread
  frame,      \* the request whose head has left the wire, its body not
  reqId,      \* req_id_
  queue,      \* write_queue_: each response with the request it answers
  header,     \* header_: the response whose header it holds
  pc,         \* of each request and publication
  taken,      \* the id that the handler of an asynchronous request has asked for
  subscribed,
  executed,   \* how often the handler of each request has run
  answers,    \* how often the client has got a response with its id
  faults

socket == <<sock, reading, writing, frame>>
out    == <<queue, header>>
calls  == <<pc, taken, subscribed, executed>>
vars   == <<socket, timer, ready, reqId, out, calls, answers, faults>>

-------------------------------------------------------------------------------
Msgs      == Requests \union Pubs
Ids       == Requests \union {NoMsg}
Responses == [to : Ids, of : Msgs]
NoResponse == [to |-> NoMsg, of |-> NoMsg]

Done(op, r, ok) == [op |-> op, msg |-> r, ok |-> ok]

TypeOK ==
  /\ sock \in {"up", "broken", "closed"} /\ reading \in {"none", "head", "body"}
  /\ writing \in Seq(Responses) /\ queue \in Seq(Responses)
  /\ header \in Responses \union {NoResponse}
  /\ ready \in Seq([op : {"head", "body", "write", "timer"}, msg : Ids, ok : BOOLEAN])
  /\ frame \in Ids /\ reqId \in Ids /\ timer \in {FALSE, UseTimer}
  /\ pc \in [Msgs -> {"unsent", "wire", "read", "asked", "done"}]
  /\ taken \in [Requests -> Ids] /\ subscribed \in BOOLEAN
  /\ executed \in [Requests -> 0..1] /\ answers \in [Requests -> 0..1]
  /\ faults \in 0..MaxFaults

\* start() has called read_head.
Init ==
  /\ sock = "up" /\ reading = "head" /\ writing = <<>> /\ ready = <<>> /\ frame = NoMsg
  /\ timer = UseTimer /\ reqId = NoMsg /\ queue = <<>> /\ header = NoResponse
  /\ pc = [m \in Msgs |-> "unsent"] /\ taken = [r \in Requests |-> NoMsg]
  /\ subscribed = FALSE /\ faults = 0
  /\ executed = [r \in Requests |-> 0] /\ answers = [r \in Requests |-> 0]

-------------------------------------------------------------------------------
(* The client, the network and the clock                                       *)

Send(r) ==
  /\ sock = "up" /\ pc[r] = "unsent"
  /\ pc' = [pc EXCEPT ![r] = "wire"]
  /\ UNCHANGED <<socket, timer, ready, reqId, out, taken, subscribed, executed, answers, faults>>

HeadDone ==
  /\ sock = "up" /\ reading = "head"
  /\ \E r \in Requests :
       /\ pc[r] = "wire"
       /\ pc' = [pc EXCEPT ![r] = "read"]
       /\ frame' = r
       /\ ready' = Append(ready, Done("head", r, TRUE))
  /\ reading' = "none"
  /\ UNCHANGED <<sock, writing, timer, reqId, out, taken, subscribed, executed, answers, faults>>

BodyDone ==
  /\ sock = "up" /\ reading = "body"
  /\ ready' = Append(ready, Done("body", frame, TRUE))
  /\ reading' = "none"
  /\ UNCHANGED <<sock, writing, frame, timer, reqId, out, calls, answers, faults>>

ReadFails ==
  /\ sock = "broken" /\ reading # "none"
  /\ ready' = Append(ready, Done(reading, frame, FALSE))
  /\ reading' = "none"
  /\ UNCHANGED <<sock, writing, frame, timer, reqId, out, calls, answers, faults>>

\* The client gets the header that header_ holds when the bytes leave.
WriteDone(ok) ==
  /\ writing # <<>> /\ sock # "closed" /\ (~ok => sock = "broken")
  /\ writing' = Tail(writing)
  /\ ready' = Append(ready, Done("write", NoMsg, ok))
  /\ IF ok /\ sock = "up"
       THEN \E h \in {Head(writing), header} :
              answers' = [r \in Requests |-> IF r = h.to THEN answers[r] + 1 ELSE answers[r]]
       ELSE answers' = answers
  /\ UNCHANGED <<sock, reading, frame, timer, reqId, out, calls, faults>>

Break ==
  /\ sock = "up" /\ faults < MaxFaults
  /\ sock' = "broken" /\ faults' = faults + 1
  /\ UNCHANGED <<reading, writing, frame, timer, ready, reqId, out, calls, answers>>

\* The timer expires: from now on it cannot be cancelled, nor started again in time.
Expire ==
  /\ timer /\ timer' = FALSE
  /\ ready' = Append(ready, Done("timer", NoMsg, TRUE))
  /\ UNCHANGED <<socket, reqId, out, calls, answers, faults>>

-------------------------------------------------------------------------------
(* What the handlers are made of                                               *)

\* Mutant: the header of the response before is sent again.
StartWriteUnheaded(m, queued) ==
  /\ header' = IF header = NoResponse THEN m ELSE header
  /\ IF sock # "closed"
       THEN writing' = Append(writing, m) /\ ready' = queued
       ELSE writing' = writing /\ ready' = Append(queued, Done("write", NoMsg, FALSE))

\* write(), under write_mtx_: it fails at once on a socket that is closed.
StartWrite(m, queued) ==
  /\ header' = m
  /\ IF sock # "closed"
       THEN writing' = Append(writing, m) /\ ready' = queued
       ELSE writing' = writing /\ ready' = Append(queued, Done("write", NoMsg, FALSE))

\* Mutant: every response is written at once.
ResponseAlways(m, queued) ==
  queue' = Append(queue, m) /\ StartWrite(m, queued)

Response(m, queued) ==
  /\ queue' = Append(queue, m)
  /\ IF queue = <<>> THEN StartWrite(m, queued)
                     ELSE ready' = queued /\ UNCHANGED <<header, writing>>

\* Mutant: the timer is not started.
ReadHeadUntimed == reading' = "head" /\ timer' = FALSE

\* Starting the timer cancels the wait that is running.
ReadHead == reading' = "head" /\ timer' = UseTimer

Close ==
  IF sock = "closed"
    THEN ready' = Tail(ready) /\ UNCHANGED socket
    ELSE /\ sock' = "closed" /\ reading' = "none" /\ writing' = <<>> /\ frame' = NoMsg
         /\ ready' = Tail(ready)
              \o (IF reading = "none" THEN <<>> ELSE <<Done(reading, NoMsg, FALSE)>>)
              \o [i \in DOMAIN writing |-> Done("write", NoMsg, FALSE)]

-------------------------------------------------------------------------------
(* The handlers, in the order in which their operations completed              *)

Handles(kind) == ready # <<>> /\ Head(ready).op = kind

\* An error, or a head that cannot be read on from.
HeadFailed == Close

OnHead ==
  /\ Handles("head")
  /\ LET r == Head(ready).msg IN
       \/ /\ sock = "closed"
          /\ ready' = Tail(ready)
          /\ UNCHANGED <<socket, timer, reqId>>
       \/ /\ sock # "closed" /\ (Head(ready).ok => Kind[r] = "bad")
          /\ HeadFailed
          /\ reqId' \in IF Head(ready).ok THEN {reqId, r} ELSE {reqId}
          /\ UNCHANGED timer
       \/ /\ sock # "closed" /\ Head(ready).ok /\ Kind[r] = "heartbeat"
          /\ ready' = Tail(ready) /\ reqId' = r
          /\ ReadHead /\ frame' = NoMsg
          /\ UNCHANGED <<sock, writing>>
       \/ /\ sock # "closed" /\ Head(ready).ok /\ Kind[r] \notin {"heartbeat", "bad"}
          /\ ready' = Tail(ready) /\ reqId' = r
          /\ reading' = "body"
          /\ UNCHANGED <<sock, writing, frame, timer>>
  /\ UNCHANGED <<out, calls, answers, faults>>

\* Mutant: an asynchronous request is answered by route as well.
RouteAgain(r) ==
  /\ executed' = [executed EXCEPT ![r] = @ + 1]
  /\ pc' = [pc EXCEPT ![r] = "asked"]
  /\ taken' = [taken EXCEPT ![r] = reqId]
  /\ Response([to |-> reqId, of |-> r], Tail(ready))

\* route: the id of the answer is what the connection holds now.
Route(r) ==
  /\ executed' = [executed EXCEPT ![r] = @ + 1]
  /\ IF Kind[r] = "sync"
       THEN /\ pc' = [pc EXCEPT ![r] = "done"]
            /\ Response([to |-> reqId, of |-> r], Tail(ready))
            /\ taken' = taken
       ELSE /\ pc' = [pc EXCEPT ![r] = "asked"]
            /\ taken' = [taken EXCEPT ![r] = reqId]
            /\ ready' = Tail(ready)
            /\ UNCHANGED <<out, writing>>

\* A failed read of a body is reported and no more.
OnBody ==
  /\ Handles("body")
  /\ LET r == Head(ready).msg IN
       \/ /\ sock = "closed" \/ ~Head(ready).ok
          /\ timer' = FALSE /\ ready' = Tail(ready)
          /\ UNCHANGED <<reading, frame, writing, out, calls>>
       \/ /\ sock # "closed" /\ Head(ready).ok
          /\ ReadHead /\ frame' = NoMsg
          /\ \/ /\ Kind[r] = "subscribe"
                /\ subscribed' = TRUE /\ pc' = [pc EXCEPT ![r] = "done"]
                /\ ready' = Tail(ready)
                /\ UNCHANGED <<taken, executed, out, writing>>
             \/ /\ Kind[r] \in {"sync", "async"}
                /\ Route(r)
                /\ subscribed' = subscribed
  /\ UNCHANGED <<sock, reqId, answers, faults>>

\* Mutant: the last response is left for the next one to send.
WriteNextOfTwo ==
  IF Len(queue) > 2 THEN StartWrite(queue[2], Tail(ready))
                    ELSE ready' = Tail(ready) /\ UNCHANGED <<header, writing>>

WriteNext ==
  IF Len(queue) > 1 THEN StartWrite(queue[2], Tail(ready))
                    ELSE ready' = Tail(ready) /\ UNCHANGED <<header, writing>>

OnWrite ==
  /\ Handles("write")
  /\ \/ /\ ~Head(ready).ok
        /\ Close
        /\ UNCHANGED out
     \/ /\ Head(ready).ok /\ sock = "closed"
        /\ ready' = Tail(ready)
        /\ UNCHANGED <<socket, out>>
     \/ /\ Head(ready).ok /\ sock # "closed"
        /\ queue' = Tail(queue)
        /\ WriteNext
        /\ UNCHANGED <<sock, reading, frame>>
  /\ UNCHANGED <<timer, reqId, calls, answers, faults>>

OnTimer ==
  /\ Handles("timer")
  /\ Close
  /\ UNCHANGED <<timer, reqId, out, calls, answers, faults>>

-------------------------------------------------------------------------------
(* Other threads of the server                                                 *)

\* Mutant: the id is asked for when the answer is ready.
RespondLate(r) ==
  /\ pc[r] = "asked"
  /\ pc' = [pc EXCEPT ![r] = "done"]
  /\ Response([to |-> reqId, of |-> r], ready)
  /\ UNCHANGED <<sock, reading, frame, timer, reqId, taken, subscribed, executed, answers, faults>>

Respond(r) ==
  /\ pc[r] = "asked"
  /\ pc' = [pc EXCEPT ![r] = "done"]
  /\ Response([to |-> taken[r], of |-> r], ready)
  /\ UNCHANGED <<sock, reading, frame, timer, reqId, taken, subscribed, executed, answers, faults>>

Publish(p) ==
  /\ subscribed /\ pc[p] = "unsent"
  /\ pc' = [pc EXCEPT ![p] = "done"]
  /\ Response([to |-> NoMsg, of |-> p], ready)
  /\ UNCHANGED <<sock, reading, frame, timer, reqId, taken, subscribed, executed, answers, faults>>

-------------------------------------------------------------------------------
Reactor == HeadDone \/ BodyDone \/ ReadFails \/ \E ok \in BOOLEAN : WriteDone(ok)
Handler == OnHead \/ OnBody \/ OnWrite \/ OnTimer
Answering == \E r \in Requests : Respond(r)

Next ==
  \/ Reactor \/ Handler \/ Answering \/ Break \/ Expire
  \/ \E r \in Requests : Send(r)
  \/ \E p \in Pubs : Publish(p)

Spec == Init /\ [][Next]_vars

\* The io thread runs its handlers, operations complete, and an asynchronous handler
\* answers in the end.
FairSpec == Spec /\ WF_vars(Reactor) /\ WF_vars(Handler) /\ WF_vars(Answering)

-------------------------------------------------------------------------------
(* Properties                                                                  *)

\* The response being written is the first of the queue and the only one, and
\* header_ is its own, although handlers on other threads append and start writes
\* (response and on_write, connection.h:47-60, 250-270).
WriteOwnsFront ==
  \A i \in DOMAIN writing : i = 1 /\ queue # <<>> /\ writing[i] = queue[1] /\ header = queue[1]

\* Every response carries the id of the request that it answers, although the next
\* head may be read before it is made (connection.h:164, 209; router.h:58).
OwnId == \A i \in DOMAIN queue : queue[i].of \in Requests => queue[i].to = queue[i].of

\* The connection keeps, at its end, what RpcClient promises at the other: a request
\* is executed at most once, and answered at most once and after its execution.
Promise == INSTANCE RpcPromise WITH
  Calls <- Requests, executed <- executed, answers <- answers,
  got <- [r \in Requests |-> IF answers[r] = 0 THEN "none" ELSE "reply"]
PromiseSpec == Promise!Spec

\* A request that has been read is answered while the connection lives.
Served ==
  \A r \in Requests :
    pc[r] = "read" /\ Kind[r] \in {"sync", "async"} ~> answers[r] = 1 \/ sock # "up"

\* When timers expire, a silent client is cut off, whatever it has sent before
\* (reset_timer, cancel_timer, connection.h:144, 176, 199, 209).
IdleCloses == UseTimer /\ WF_vars(Expire) => (sock = "up" ~> sock # "up")
==============================================================================
