---------------------------- MODULE RpcClientProofs ----------------------------
(* Proofs about RpcClient: for any number of calls, callbacks, subscriptions,  *)
(* publications, heartbeats and faults its types, that no reply comes of a     *)
(* call the server never received and that nothing follows one, and, without   *)
(* automatic reconnection, its safety and that it implements RpcPromise.       *)
EXTENDS RpcClient, FiniteSetTheorems, SequenceTheorems, TLAPS

--------------------------------------------------------------------------------
(* The inductive invariant                                                     *)

Completed == [op : {"connect", "write", "head", "body"},
              msg : Msgs \union Pubs \union {NoMsg}, ok : BOOLEAN]
Connects == {x \in Completed : x.op = "connect"}
Reads    == {x \in Completed : x.op \in {"head", "body"}}
Written  == {x \in Completed : x.op = "write" /\ x.ok}

\* Of the handlers that wait none, or at most one, is in K.
Elements(s) == {s[i] : i \in DOMAIN s}
None(s, K)  == \A x \in Elements(s) : x \notin K
One(s, K)   == \A i, j \in DOMAIN s : s[i] \in K /\ s[j] \in K => i = j

\* A client connects once, and a closed one stays closed.
ClosePlaces == {"idle", "close", "clearFlag", "closeSocket", "clearOutbox", "clearMaps",
                "error", "closed"}
Clearing == {"clearOutbox", "clearMaps"}
Sockets ==
  /\ One(ready, Connects)
  /\ \A x \in Elements(ready) : x.op = "connect" =>
       ~connected /\ sock \in IF x.ok THEN {"up", "broken"} ELSE {"open"}
  /\ connected => sock \in {"up", "broken"}
  /\ conn = "no" => sock = "closed" /\ \A x \in Elements(ready) : x.op = "write" /\ ~x.ok
  /\ sock = "closed" => reading = <<>> /\ writing = <<>>
  /\ sock # "up" => wire = {}
  /\ \A t \in Closers : cpc[t] \in Clearing => sock = "closed" /\ conn # "no"

\* There is one write, which waits or has succeeded; until then, and until its
\* handler has run, its message is the first of the outbox.
Writes ==
  /\ writing # <<>> => /\ outbox # <<>> /\ writing = <<outbox[1]>> /\ header = outbox[1]
                       /\ None(ready, Written)
  /\ sock # "closed" => One(ready, Written) /\ (~None(ready, Written) => outbox # <<>>)

\* There is one read, which waits or is completed.
Idle    == reading = <<>> /\ None(ready, Reads)
ReadOps == {Op("head", NoMsg)} \union {Op("body", m) : m \in Replies}
Failing == {"close", "clearFlag", "closeSocket", "clearOutbox", "clearMaps"}
Reading ==
  /\ One(ready, Reads)
  /\ reading # <<>> => None(ready, Reads) /\ \E o \in ReadOps : reading = <<o>>
  /\ ~Idle => sock \in {"up", "broken", "closed"} /\ conn # "no" /\ None(ready, Connects)
  /\ \A x \in Elements(ready) : x.op \in {"head", "body"} =>
       /\ x.msg \in IF x.op = "body" \/ x.ok THEN Replies ELSE {NoMsg}
       /\ x.ok \/ sock \in {"broken", "closed"}
  /\ cpc["io"] \in Failing => Idle

\* A reply is on its way once, to a call that was sent and that is registered as
\* long as no user closes.
InRead(c) == \/ reading = <<Op("body", c)>>
             \/ \E x \in Elements(ready) : x.op \in {"head", "body"} /\ x.msg = c
Replying ==
  \A c \in Calls :
    /\ InRead(c) => c \notin wire
    /\ InRead(c) \/ c \in wire => sent[c] = 1 /\ (cpc["user"] = "idle" => c \in pending)

\* How far a call has come.  Only a connection that has failed leaves calls that are
\* registered although they have got a result: the callbacks.
Alive == conn = "no" \/ sock \in {"connecting", "open", "up"}
Erred == conn # "no" /\ sock \in {"broken", "closed"} /\ None(ready, Connects) /\ Idle
Calling ==
  \A c \in Calls :
    /\ sent[c] \in 0..1 /\ (sent[c] = 1 => pc[c] = "done")
    /\ pc[c] \in {"idle", "checked"} => result[c] = "none"
    /\ result[c] = "notConnected" => pc[c] = "done"
    /\ c \in pending => /\ pc[c] \in {"registered", "done"}
                        /\ result[c] = "none" \/ (c \in Callbacks /\ Erred)
    /\ Alive /\ pc[c] \in {"registered", "done"} /\ sent[c] = 0 =>
         c \in pending \/ result[c] = "notConnected"

\* A call is put into the outbox once, and while it can still be sent only the first
\* one may have been.
Outboxed ==
  /\ \A i \in DOMAIN outbox : outbox[i] \in Calls =>
       /\ pc[outbox[i]] = "done" /\ result[outbox[i]] # "notConnected"
       /\ Alive /\ sent[outbox[i]] = 1 => i = 1 /\ writing = <<>>
  /\ \A i, j \in DOMAIN outbox : outbox[i] \in Calls /\ outbox[i] = outbox[j] => i = j

\* Once one has found the client connected, two closers may be on their way to the socket:
\* it does not connect again.
Leaving == {"clearFlag", "closeSocket"}
Settled == conn # "no" /\ sock \in {"up", "broken", "closed"} /\ None(ready, Connects)
Leaves  ==
  \A t \in Closers : /\ cpc[t] \in Leaving => Settled
                     /\ cpc[t] = "closeSocket" => ~connected

Types == TypeOK /\ IsFiniteSet(kept)
IInv  == /\ Types /\ Sockets /\ Writes /\ Reading /\ Replying /\ Calling /\ Outboxed
         /\ RepliesExpected

--------------------------------------------------------------------------------
(* Lemmas about the queue of completed operations                              *)

LEMMA Appended ==
  ASSUME NEW S, NEW s \in Seq(S), NEW x \in S, NEW K
  PROVE  /\ Append(s, x) \in Seq(S)
         /\ Elements(Append(s, x)) = Elements(s) \cup {x}
         /\ None(s, K) => One(Append(s, x), K)
         /\ None(s, K) /\ x \notin K => None(Append(s, x), K)
         /\ One(s, K) /\ x \notin K => One(Append(s, x), K)
<1>1. /\ Append(s, x) \in Seq(S)
      /\ DOMAIN Append(s, x) = 1..(Len(s) + 1) /\ DOMAIN s = 1..Len(s) /\ Len(s) \in Nat
      /\ \A i \in 1..Len(s) : Append(s, x)[i] = s[i]
      /\ Append(s, x)[Len(s) + 1] = x
  OBVIOUS
<1>2. \A i \in DOMAIN Append(s, x) : i = Len(s) + 1 \/ i \in DOMAIN s
  BY <1>1
<1>3. Elements(Append(s, x)) = Elements(s) \cup {x}
  <2>1. ASSUME NEW y \in Elements(s) PROVE y \in Elements(Append(s, x))
    <3>1. PICK i \in DOMAIN s : y = s[i]
      BY DEF Elements
    <3>2. i \in DOMAIN Append(s, x) /\ Append(s, x)[i] = y
      BY <1>1, <3>1
    <3> QED
      BY <3>2 DEF Elements
  <2>2. x \in Elements(Append(s, x))
    <3>1. Len(s) + 1 \in DOMAIN Append(s, x)
      BY <1>1
    <3> QED
      BY <1>1, <3>1 DEF Elements
  <2>3. ASSUME NEW y \in Elements(Append(s, x)) PROVE y = x \/ y \in Elements(s)
    <3>1. PICK i \in DOMAIN Append(s, x) : y = Append(s, x)[i]
      BY DEF Elements
    <3>2. CASE i = Len(s) + 1
      BY <1>1, <3>1, <3>2
    <3>3. CASE i \in DOMAIN s
      BY <1>1, <3>1, <3>3 DEF Elements
    <3> QED
      BY <1>2, <3>2, <3>3
  <2> QED
    BY <2>1, <2>2, <2>3
<1>4. None(s, K) => One(Append(s, x), K)
  <2>1. None(s, K) => \A i \in DOMAIN s : s[i] \notin K
    BY DEF None, Elements
  <2> QED
    BY <1>1, <1>2, <2>1 DEF One
<1>5. One(s, K) /\ x \notin K => One(Append(s, x), K)
  BY <1>1, <1>2 DEF One
<1> QED
  BY <1>1, <1>3, <1>4, <1>5 DEF None

LEMMA Removed ==
  ASSUME NEW S, NEW s \in Seq(S), s # <<>>, NEW K
  PROVE  /\ Head(s) \in S /\ Head(s) \in Elements(s) /\ Tail(s) \in Seq(S)
         /\ Elements(Tail(s)) \subseteq Elements(s)
         /\ None(s, K) => None(Tail(s), K)
         /\ One(s, K) => One(Tail(s), K)
         /\ One(s, K) /\ Head(s) \in K => None(Tail(s), K)
<1>1. /\ Head(s) \in S /\ Tail(s) \in Seq(S)
      /\ Len(s) \in Nat /\ Len(s) > 0 /\ DOMAIN s = 1..Len(s) /\ Head(s) = s[1]
      /\ DOMAIN Tail(s) = 1..(Len(s) - 1)
      /\ \A i \in 1..(Len(s) - 1) : Tail(s)[i] = s[i + 1]
  BY HeadTailProperties, EmptySeq
<1>2. \A i \in DOMAIN Tail(s) : i + 1 \in DOMAIN s /\ i + 1 # 1 /\ Tail(s)[i] = s[i + 1]
  BY <1>1
<1>3. 1 \in DOMAIN s
  BY <1>1
<1>4. Elements(Tail(s)) \subseteq Elements(s)
  BY <1>2 DEF Elements
<1>5. One(s, K) => One(Tail(s), K)
  <2> SUFFICES ASSUME One(s, K), NEW i \in DOMAIN Tail(s), NEW j \in DOMAIN Tail(s),
                      Tail(s)[i] \in K, Tail(s)[j] \in K
               PROVE  i = j
    BY DEF One
  <2>1. i + 1 = j + 1
    BY <1>2 DEF One
  <2> QED
    BY <1>1, <2>1
<1>6. One(s, K) /\ Head(s) \in K => None(Tail(s), K)
  BY <1>1, <1>2, <1>3 DEF One, None, Elements
<1> QED
  BY <1>1, <1>3, <1>4, <1>5, <1>6 DEF None, Elements

LEMMA Joined ==
  ASSUME NEW S, NEW s \in Seq(S), NEW u \in Seq(S), NEW K
  PROVE  /\ s \o u \in Seq(S)
         /\ Elements(s \o u) = Elements(s) \cup Elements(u)
         /\ None(s, K) /\ None(u, K) => None(s \o u, K)
         /\ One(s, K) /\ None(u, K) => One(s \o u, K)
         /\ None(s, K) /\ One(u, K) => One(s \o u, K)
<1>1. /\ s \o u \in Seq(S) /\ Len(s) \in Nat /\ Len(u) \in Nat
      /\ DOMAIN s = 1..Len(s) /\ DOMAIN u = 1..Len(u)
      /\ DOMAIN (s \o u) = 1..(Len(s) + Len(u))
      /\ \A i \in 1..(Len(s) + Len(u)) :
           (s \o u)[i] = IF i <= Len(s) THEN s[i] ELSE u[i - Len(s)]
  BY ConcatProperties
<1>2. \A i \in DOMAIN (s \o u) : \/ i \in DOMAIN s /\ (s \o u)[i] = s[i]
                                 \/ i - Len(s) \in DOMAIN u /\ (s \o u)[i] = u[i - Len(s)]
  BY <1>1
<1>3. \A i \in DOMAIN s : i \in DOMAIN (s \o u) /\ (s \o u)[i] = s[i]
  BY <1>1
<1>4. \A i \in DOMAIN u : i + Len(s) \in DOMAIN (s \o u) /\ (s \o u)[i + Len(s)] = u[i]
  BY <1>1
<1>5. Elements(s \o u) = Elements(s) \cup Elements(u)
  <2>1. Elements(s \o u) \subseteq Elements(s) \cup Elements(u)
    BY <1>2 DEF Elements
  <2>2. Elements(s) \subseteq Elements(s \o u)
    BY <1>3 DEF Elements
  <2>3. Elements(u) \subseteq Elements(s \o u)
    BY <1>4 DEF Elements
  <2> QED
    BY <2>1, <2>2, <2>3
<1>6. One(s, K) /\ None(u, K) => One(s \o u, K)
  <2> SUFFICES ASSUME One(s, K), None(u, K), NEW i \in DOMAIN (s \o u), NEW j \in DOMAIN (s \o u),
                      (s \o u)[i] \in K, (s \o u)[j] \in K
               PROVE  i = j
    BY DEF One
  <2>1. \A k \in DOMAIN u : u[k] \notin K
    BY DEF None, Elements
  <2>2. i \in DOMAIN s /\ (s \o u)[i] = s[i] /\ j \in DOMAIN s /\ (s \o u)[j] = s[j]
    BY <1>2, <2>1
  <2> QED
    BY <2>2 DEF One
<1>7. None(s, K) /\ One(u, K) => One(s \o u, K)
  <2> SUFFICES ASSUME None(s, K), One(u, K), NEW i \in DOMAIN (s \o u), NEW j \in DOMAIN (s \o u),
                      (s \o u)[i] \in K, (s \o u)[j] \in K
               PROVE  i = j
    BY DEF One
  <2>1. \A k \in DOMAIN s : s[k] \notin K
    BY DEF None, Elements
  <2>2. /\ i - Len(s) \in DOMAIN u /\ (s \o u)[i] = u[i - Len(s)]
        /\ j - Len(s) \in DOMAIN u /\ (s \o u)[j] = u[j - Len(s)]
    BY <1>2, <2>1
  <2>3. i - Len(s) = j - Len(s)
    BY <2>2 DEF One
  <2> QED
    BY <1>1, <2>3
<1> QED
  BY <1>1, <1>5, <1>6, <1>7 DEF None

LEMMA Single ==
  ASSUME NEW o
  PROVE  DOMAIN <<o>> = 1..1 /\ <<o>>[1] = o
OBVIOUS

\* A function of the members of a sequence is a sequence of its values.
LEMMA Mapped ==
  ASSUME NEW S, NEW s \in Seq(S), NEW U, NEW f, DOMAIN f = DOMAIN s,
         f = [i \in DOMAIN s |-> f[i]], \A i \in DOMAIN s : f[i] \in U
  PROVE  f \in Seq(U)
<1>1. Len(s) \in Nat /\ DOMAIN s = 1..Len(s)
  OBVIOUS
<1>2. f \in [1..Len(s) -> U]
  BY <1>1
<1>3. [1..Len(s) -> U] \in {[1..n -> U] : n \in Nat}
  BY <1>1
<1> QED
  BY <1>2, <1>3, SeqDef, Zenon

LEMMA ReadyType == TypeOK => ready \in Seq(Completed)
  BY DEF TypeOK, Completed

\* A handler is queued.
LEMMA Pushed ==
  ASSUME NEW q \in Seq(Completed), NEW x \in Completed
  PROVE  /\ Append(q, x) \in Seq(Completed)
         /\ Elements(Append(q, x)) = Elements(q) \cup {x}
         /\ None(q, Connects) => One(Append(q, x), Connects)
         /\ None(q, Reads) => One(Append(q, x), Reads)
         /\ None(q, Written) => One(Append(q, x), Written)
         /\ x.op # "connect" => /\ One(q, Connects) => One(Append(q, x), Connects)
                                /\ None(q, Connects) => None(Append(q, x), Connects)
         /\ x.op \notin {"head", "body"} => /\ One(q, Reads) => One(Append(q, x), Reads)
                                            /\ None(q, Reads) => None(Append(q, x), Reads)
         /\ x.op # "write" \/ ~x.ok => /\ One(q, Written) => One(Append(q, x), Written)
                                       /\ None(q, Written) => None(Append(q, x), Written)
<1>1. /\ Append(q, x) \in Seq(Completed) /\ Elements(Append(q, x)) = Elements(q) \cup {x}
      /\ None(q, Connects) => One(Append(q, x), Connects)
      /\ x \notin Connects => /\ One(q, Connects) => One(Append(q, x), Connects)
                              /\ None(q, Connects) => None(Append(q, x), Connects)
  BY Appended
<1>2. /\ None(q, Reads) => One(Append(q, x), Reads)
      /\ x \notin Reads => /\ One(q, Reads) => One(Append(q, x), Reads)
                           /\ None(q, Reads) => None(Append(q, x), Reads)
  BY Appended
<1>3. /\ None(q, Written) => One(Append(q, x), Written)
      /\ x \notin Written => /\ One(q, Written) => One(Append(q, x), Written)
                             /\ None(q, Written) => None(Append(q, x), Written)
  BY Appended
<1>4. /\ x.op # "connect" => x \notin Connects
      /\ x.op \notin {"head", "body"} => x \notin Reads
      /\ x.op # "write" \/ ~x.ok => x \notin Written
  BY DEF Connects, Reads, Written
<1> QED
  BY <1>1, <1>2, <1>3, <1>4

\* The first handler that waits is taken.
LEMMA Taken ==
  ASSUME IInv, ready # <<>>
  PROVE  /\ Head(ready) \in Completed /\ Head(ready) \in Elements(ready)
         /\ Tail(ready) \in Seq(Completed) /\ Elements(Tail(ready)) \subseteq Elements(ready)
         /\ One(Tail(ready), Connects) /\ One(Tail(ready), Reads)
         /\ One(ready, Written) => One(Tail(ready), Written)
         /\ None(ready, Connects) => None(Tail(ready), Connects)
         /\ None(ready, Reads) => None(Tail(ready), Reads)
         /\ None(ready, Written) => None(Tail(ready), Written)
         /\ Head(ready).op = "connect" => None(Tail(ready), Connects) /\ Head(ready) \in Connects
         /\ Head(ready).op \in {"head", "body"} => None(Tail(ready), Reads) /\ ~None(ready, Reads)
         /\ Head(ready).op = "write" /\ Head(ready).ok /\ One(ready, Written) =>
              None(Tail(ready), Written)
         /\ Head(ready).op = "write" /\ Head(ready).ok => ~None(ready, Written)
<1>1. ready \in Seq(Completed)
  BY ReadyType DEF IInv, Types
<1>2. /\ Head(ready) \in Completed /\ Head(ready) \in Elements(ready)
      /\ Tail(ready) \in Seq(Completed) /\ Elements(Tail(ready)) \subseteq Elements(ready)
      /\ None(ready, Connects) => None(Tail(ready), Connects)
      /\ One(ready, Connects) => One(Tail(ready), Connects)
      /\ One(ready, Connects) /\ Head(ready) \in Connects => None(Tail(ready), Connects)
  BY <1>1, Removed
<1>3. /\ None(ready, Reads) => None(Tail(ready), Reads)
      /\ One(ready, Reads) => One(Tail(ready), Reads)
      /\ One(ready, Reads) /\ Head(ready) \in Reads => None(Tail(ready), Reads)
  BY <1>1, Removed
<1>4. /\ None(ready, Written) => None(Tail(ready), Written)
      /\ One(ready, Written) => One(Tail(ready), Written)
      /\ One(ready, Written) /\ Head(ready) \in Written => None(Tail(ready), Written)
  BY <1>1, Removed
<1>5. One(ready, Connects) /\ One(ready, Reads)
  BY DEF IInv, Sockets, Reading
<1>6. /\ Head(ready).op = "connect" => Head(ready) \in Connects
      /\ Head(ready).op \in {"head", "body"} => Head(ready) \in Reads
      /\ Head(ready).op = "write" /\ Head(ready).ok => Head(ready) \in Written
  BY <1>2 DEF Connects, Reads, Written
<1> QED
  BY <1>2, <1>3, <1>4, <1>5, <1>6 DEF None

\* The handlers of what is aborted when the socket is closed or replaced.
LEMMA AbortedOps ==
  ASSUME IInv
  PROVE  /\ Aborted \in Seq(Completed) /\ One(Aborted, Reads) /\ None(Aborted, Written)
         /\ \A x \in Elements(Aborted) :
              /\ ~x.ok /\ (x.op = "connect" => sock = "connecting")
              /\ x.op \in {"head", "body"} => reading = <<Op(x.op, x.msg)>> /\ Op(x.op, x.msg) \in ReadOps
<1> DEFINE a == [i \in DOMAIN reading |-> Done(reading[i], FALSE)]
           b == IF sock = "connecting" THEN <<Done(Op("connect", NoMsg), FALSE)>> ELSE <<>>
           c == [i \in DOMAIN writing |-> Done(Op("write", writing[i]), FALSE)]
<1>1. /\ a \in Seq(Completed) /\ One(a, Reads)
      /\ \A x \in Elements(a) : /\ ~x.ok /\ x.op \in {"head", "body"}
                               /\ reading = <<Op(x.op, x.msg)>> /\ Op(x.op, x.msg) \in ReadOps
  <2>1. CASE reading = <<>>
    <3>1. a = <<>>
      BY <2>1
    <3> QED
      BY <3>1 DEF One, Elements
  <2>2. CASE reading # <<>>
    <3>1. PICK o \in ReadOps : reading = <<o>>
      BY <2>2 DEF IInv, Reading
    <3>2. DOMAIN a = {1} /\ a[1] = Done(o, FALSE)
      <4>1. DOMAIN reading = {1} /\ reading[1] = o
        BY <3>1, Single
      <4> QED
        BY <4>1
    <3>3. Done(o, FALSE) \in Completed /\ o = Op(o.op, o.msg) /\ o.op \in {"head", "body"}
      BY <3>1 DEF ReadOps, Op, Done, Completed, Replies, Msgs
    <3>4. Done(o, FALSE).op = o.op /\ Done(o, FALSE).msg = o.msg /\ ~Done(o, FALSE).ok
      BY DEF Done
    <3>5. Elements(a) = {Done(o, FALSE)} /\ One(a, Reads)
      BY <3>2 DEF Elements, One
    <3>6. a \in Seq(Completed)
      <4>1. reading \in Seq([op : {"head", "body"}, msg : Replies \union {NoMsg}])
        BY DEF IInv, Types, TypeOK
      <4>2. DOMAIN a = DOMAIN reading /\ a = [i \in DOMAIN reading |-> a[i]]
        OBVIOUS
      <4>3. \A i \in DOMAIN reading : a[i] \in Completed
        BY <3>2, <3>3
      <4> HIDE DEF a
      <4> QED
        BY <4>1, <4>2, <4>3, Mapped
    <3> QED
      BY <3>1, <3>3, <3>4, <3>5, <3>6
  <2> QED
    BY <2>1, <2>2
<1>2. /\ b \in Seq(Completed)
      /\ \A x \in Elements(b) : ~x.ok /\ x.op = "connect" /\ sock = "connecting"
  <2>1. Done(Op("connect", NoMsg), FALSE) \in Completed
    BY DEF Done, Op, Completed
  <2> QED
    BY <2>1 DEF Elements, Done, Op
<1>3. /\ c \in Seq(Completed)
      /\ \A x \in Elements(c) : ~x.ok /\ x.op = "write"
  <2>1. writing \in Seq(Msgs)
    BY DEF IInv, Types, TypeOK
  <2>2. /\ Len(writing) \in Nat /\ DOMAIN writing = 1..Len(writing)
        /\ \A i \in 1..Len(writing) : writing[i] \in Msgs
    BY <2>1
  <2>3. \A i \in 1..Len(writing) : Done(Op("write", writing[i]), FALSE) \in Completed
    BY <2>2 DEF Done, Op, Completed
  <2>4. c \in Seq(Completed)
    <3>1. DOMAIN c = DOMAIN writing /\ c = [i \in DOMAIN writing |-> c[i]]
      OBVIOUS
    <3>2. \A i \in DOMAIN writing : c[i] \in Completed
      BY <2>2, <2>3
    <3> HIDE DEF c
    <3> QED
      BY <2>1, <3>1, <3>2, Mapped
  <2>5. \A i \in DOMAIN c : ~c[i].ok /\ c[i].op = "write"
    BY <2>2 DEF Done, Op
  <2> QED
    BY <2>4, <2>5 DEF Elements
<1> HIDE DEF a, b, c
<1>4. /\ None(b, Reads) /\ None(c, Reads) /\ None(a, Written) /\ None(b, Written) /\ None(c, Written)
  BY <1>1, <1>2, <1>3 DEF None, Reads, Written
<1>5. /\ a \o b \in Seq(Completed) /\ Elements(a \o b) = Elements(a) \cup Elements(b)
      /\ One(a \o b, Reads)
  BY <1>1, <1>2, <1>4, Joined
<1>6. None(a \o b, Written)
  BY <1>1, <1>2, <1>4, Joined
<1> DEFINE d == a \o b
<1>9. Aborted = d \o c
  BY DEF Aborted, a, b, c
<1> HIDE DEF d
<1>7. d \o c \in Seq(Completed) /\ Elements(d \o c) = Elements(d) \cup Elements(c) /\ One(d \o c, Reads)
  <2>1. d \in Seq(Completed) /\ One(d, Reads)
    BY <1>5 DEF d
  <2> QED
    BY <1>3, <1>4, <2>1, Joined
<1>8. None(d \o c, Written) /\ Elements(d) = Elements(a) \cup Elements(b)
  <2>1. d \in Seq(Completed) /\ None(d, Written) /\ Elements(d) = Elements(a) \cup Elements(b)
    BY <1>5, <1>6 DEF d
  <2> QED
    BY <1>3, <1>4, <2>1, Joined
<1> QED
  BY <1>1, <1>2, <1>3, <1>7, <1>8, <1>9

--------------------------------------------------------------------------------
(* What a step leaves alone it does not harm                                   *)

LEMMA SocketsFrame ==
  ASSUME Sockets, UNCHANGED <<ready, sock, reading, writing, wire>>, connected' => connected,
         conn' = "no" <=> conn = "no",
         \A t \in Closers : cpc'[t] \in Clearing => cpc[t] \in Clearing
  PROVE  Sockets'
BY DEF Sockets

LEMMA WritesFrame ==
  ASSUME Writes, UNCHANGED <<outbox, header, writing>>,
         None(ready, Written) => None(ready', Written),
         sock' # "closed" => One(ready', Written) /\ sock # "closed"
  PROVE  Writes'
BY DEF Writes

LEMMA ReadingFrame ==
  ASSUME Reading, UNCHANGED <<ready, reading, sock>>,
         conn' = "no" <=> conn = "no",
         cpc'["io"] \in Failing => cpc["io"] \in Failing
  PROVE  Reading'
BY DEF Reading, Idle

LEMMA ReplyingFrame ==
  ASSUME Replying, UNCHANGED <<ready, reading, wire, sent>>,
         pending \subseteq pending', cpc'["user"] = "idle" => cpc["user"] = "idle"
  PROVE  Replying'
BY DEF Replying, InRead

LEMMA CallingFrame ==
  ASSUME Calling, UNCHANGED <<sent, result, pending>>,
         \A c \in Calls : pc'[c] = pc[c],
         Alive' => Alive, Erred => Erred'
  PROVE  Calling'
BY DEF Calling

LEMMA OutboxedFrame ==
  ASSUME Outboxed, UNCHANGED <<outbox, sent, result>>,
         \A c \in Calls : pc'[c] = pc[c],
         Alive' => Alive, writing = <<>> => writing' = <<>>
  PROVE  Outboxed'
BY DEF Outboxed

LEMMA AliveFrame ==
  ASSUME UNCHANGED <<sock, ready, reading>>, conn' = "no" <=> conn = "no"
  PROVE  (Alive' <=> Alive) /\ (Erred' <=> Erred)
BY DEF Alive, Erred, Idle

\* Kinds of messages are disjoint.
LEMMA Kinds ==
  /\ \A c \in Calls : c \notin Subs /\ c \notin Pubs /\ c \notin Beats /\ c # NoMsg /\ c \in Msgs
  /\ Callbacks \subseteq Calls
<1> DEFINE kinds == <<Calls, Subs, Pubs, Beats, {NoMsg}>>
<1>1. \A i, j \in DOMAIN kinds : i # j => kinds[i] \cap kinds[j] = {}
  BY CallsAssumption
<1>2. DOMAIN kinds = 1..5
  OBVIOUS
<1>3. Calls \cap Subs = {} /\ Calls \cap Pubs = {} /\ Calls \cap Beats = {} /\ Calls \cap {NoMsg} = {}
  <2>1. 1 \in DOMAIN kinds /\ 2 \in DOMAIN kinds /\ 3 \in DOMAIN kinds /\ 4 \in DOMAIN kinds /\ 5 \in DOMAIN kinds
    BY <1>2
  <2>2. kinds[1] = Calls /\ kinds[2] = Subs /\ kinds[3] = Pubs /\ kinds[4] = Beats /\ kinds[5] = {NoMsg}
    OBVIOUS
  <2> HIDE DEF kinds
  <2>3. kinds[1] \cap kinds[2] = {} /\ kinds[1] \cap kinds[3] = {}
    BY <1>1, <2>1
  <2>4. kinds[1] \cap kinds[4] = {} /\ kinds[1] \cap kinds[5] = {}
    BY <1>1, <2>1
  <2> QED
    BY <2>2, <2>3, <2>4
<1> QED
  BY <1>3, CallsAssumption DEF Msgs

\* A step that touches neither the operations of the socket nor the calls.
LEMMA AsideIInv ==
  ASSUME IInv, Types', connected' => connected,
         UNCHANGED <<outbox, header, pending, sock, reading, writing, wire, ready, sent, result,
                     crashed>>,
         \A c \in Calls : pc'[c] = pc[c],
         conn' = "no" <=> conn = "no",
         \A t \in Closers : cpc'[t] \in Clearing => cpc[t] \in Clearing,
         cpc'["io"] \in Failing => cpc["io"] \in Failing,
         cpc'["user"] = "idle" => cpc["user"] = "idle"
  PROVE  IInv'
<1>1. Sockets'
  BY SocketsFrame DEF IInv
<1>2. Writes'
  BY WritesFrame DEF IInv, Writes
<1>3. Reading'
  BY ReadingFrame DEF IInv
<1>4. Replying'
  BY ReplyingFrame DEF IInv
<1>5. Calling' /\ Outboxed'
  BY AliveFrame, CallingFrame, OutboxedFrame DEF IInv
<1>6. RepliesExpected'
  BY DEF IInv, RepliesExpected
<1> QED
  BY <1>1, <1>2, <1>3, <1>4, <1>5, <1>6 DEF IInv

LEMMA InitIInv == Init => IInv
<1> SUFFICES ASSUME Init PROVE IInv
  OBVIOUS
<1> USE DEF Init
<1>1. Types
  <2>1. retries \in 0..Reconnects /\ faults \in 0..MaxFaults
    BY ModesAssumption
  <2>2. /\ outbox \in Seq(Msgs) /\ writing \in Seq(Msgs)
        /\ reading \in Seq([op : {"head", "body"}, msg : Replies \union {NoMsg}])
        /\ ready \in Seq([op : {"connect", "write", "head", "body"},
                          msg : Msgs \union Pubs \union {NoMsg}, ok : BOOLEAN])
    OBVIOUS
  <2>3. /\ pc \in [Msgs \union Pubs -> {"idle", "checked", "registered", "sent", "done"}]
        /\ cpc \in [Closers -> ClosePlaces]
        /\ result \in [Calls -> Results]
    BY DEF Results, ClosePlaces
  <2>4. sent \in [Calls -> Nat] /\ answers \in [Calls -> Nat]
    OBVIOUS
  <2>5. IsFiniteSet(kept)
    BY FS_EmptySet
  <2> QED
    BY <2>1, <2>2, <2>3, <2>4, <2>5 DEF Types, TypeOK
<1>2. Elements(ready) = {} /\ One(ready, Connects) /\ One(ready, Reads) /\ One(ready, Written)
  BY DEF Elements, One
<1>3. Sockets
  BY <1>2 DEF Sockets, Closers, Clearing
<1>4. Writes
  BY DEF Writes
<1>5. Reading
  BY <1>2 DEF Reading, Idle, None, Failing, Closers
<1>6. Replying
  BY <1>2 DEF Replying, InRead
<1>7. Calling
  BY Kinds DEF Calling
<1>8. Outboxed
  BY DEF Outboxed
<1>9. RepliesExpected
  BY Kinds DEF RepliesExpected
<1> QED
  BY <1>1, <1>3, <1>4, <1>5, <1>6, <1>7, <1>8, <1>9 DEF IInv

--------------------------------------------------------------------------------
(* The steps aside                                                             *)

LEMMA BeatChecksIInv ==
  ASSUME IInv, NEW b \in Beats, BeatChecks(b)
  PROVE  IInv'
<1> USE DEF BeatChecks, link, out, maps, socket, given
<1>1. pc' \in [Msgs \union Pubs -> {"idle", "checked", "registered", "sent", "done"}]
  BY DEF IInv, Types, TypeOK
<1>2. Types'
  BY <1>1 DEF IInv, Types, TypeOK
<1>3. \A c \in Calls : pc'[c] = pc[c]
  BY Kinds DEF IInv, Types, TypeOK
<1> QED
  BY <1>2, <1>3, AsideIInv

LEMMA KeepSubscriptionIInv ==
  ASSUME IInv, NEW s \in Subs, KeepSubscription(s)
  PROVE  IInv'
<1> USE DEF KeepSubscription, link, out, socket, given
<1>1. pc' \in [Msgs \union Pubs -> {"idle", "checked", "registered", "sent", "done"}]
  BY DEF IInv, Types, TypeOK
<1>2. kept' \subseteq Subs /\ IsFiniteSet(kept')
  BY FS_AddElement DEF IInv, Types, TypeOK
<1>3. Types'
  BY <1>1, <1>2 DEF IInv, Types, TypeOK
<1>4. \A c \in Calls : pc'[c] = pc[c]
  BY Kinds DEF IInv, Types, TypeOK
<1> QED
  BY <1>3, <1>4, AsideIInv

LEMMA ConnectReturnsIInv ==
  ASSUME IInv, ConnectReturns
  PROVE  IInv'
<1> USE DEF ConnectReturns, link, out, maps, socket, given
<1>1. Types'
  BY DEF IInv, Types, TypeOK
<1> QED
  BY <1>1, AsideIInv

LEMMA CloseIInv ==
  ASSUME IInv, Close
  PROVE  IInv'
<1> USE DEF Close, link, out, maps, socket, given
<1>1. /\ cpc' \in [Closers -> ClosePlaces]
      /\ cpc'["user"] = "close" /\ \A t \in Closers : t # "user" => cpc'[t] = cpc[t]
  BY DEF IInv, Types, TypeOK, Closers, ClosePlaces
<1>2. Types'
  BY <1>1 DEF IInv, Types, TypeOK, ClosePlaces
<1> QED
  BY <1>1, <1>2, AsideIInv DEF Clearing, Closers

LEMMA ErrorCallbackIInv ==
  ASSUME ~AutoReconnect, IInv, ErrorCallback
  PROVE  IInv'
<1> USE DEF ErrorCallback, link, out, maps, socket, given
<1>1. /\ cpc' \in [Closers -> ClosePlaces]
      /\ cpc'["io"] = "idle" /\ \A t \in Closers : t # "io" => cpc'[t] = cpc[t]
  BY DEF IInv, Types, TypeOK, Closers, ClosePlaces
<1>2. Types'
  BY <1>1 DEF IInv, Types, TypeOK, ClosePlaces
<1> QED
  BY <1>1, <1>2, AsideIInv DEF Clearing, Failing, Closers

LEMMA ExpireIInv ==
  ASSUME IInv, NEW c \in Calls, Expire(c)
  PROVE  IInv'
<1> USE DEF Expire, link, out, socket, given, threads
<1>1. Types'
  BY DEF IInv, Types, TypeOK
<1> QED
  BY <1>1, AsideIInv

--------------------------------------------------------------------------------
(* The connection and what completes                                           *)

LEMMA ConnectIInv ==
  ASSUME IInv, Connect
  PROVE  IInv'
<1> USE DEF Connect, link, out, maps, given
<1>1. Types'
  BY DEF IInv, Types, TypeOK
<1>2. /\ conn = "no" /\ conn' = "waiting" /\ sock = "closed" /\ sock' = "connecting"
      /\ reading = <<>> /\ writing = <<>>
      /\ \A x \in Elements(ready) : x.op = "write" /\ ~x.ok
  BY DEF IInv, Sockets
<1>3. None(ready, Connects) /\ None(ready, Reads) /\ None(ready, Written)
  BY <1>2 DEF None, Connects, Reads, Written
<1>4. One(ready, Written)
  BY <1>3 DEF None, One, Elements
<1>5. Sockets'
  BY <1>2 DEF IInv, Sockets
<1>6. Writes'
  BY <1>2, <1>3, <1>4 DEF IInv, Writes
<1>7. Reading'
  BY <1>2, <1>3 DEF IInv, Reading, Idle
<1>8. Replying'
  BY ReplyingFrame DEF IInv
<1>9. Calling' /\ Outboxed'
  BY <1>2, CallingFrame, OutboxedFrame DEF IInv, Alive, Erred
<1>10. RepliesExpected'
  BY DEF IInv, RepliesExpected
<1> QED
  BY <1>1, <1>5, <1>6, <1>7, <1>8, <1>9, <1>10 DEF IInv

LEMMA ConnectDoneIInv ==
  ASSUME IInv, NEW ok \in BOOLEAN, ConnectDone(ok)
  PROVE  IInv'
<1> USE DEF ConnectDone, link, out, maps, threads, given
<1> DEFINE x == Done(Op("connect", NoMsg), ok)
<1>1. sock = "connecting" /\ ready' = Append(ready, x) /\ sock' \in {"up", "open"}
      /\ (ok => sock' = "up") /\ (~ok => sock' = "open")
  OBVIOUS
<1>2. x \in Completed /\ x.op = "connect" /\ x.ok = ok
  BY DEF Done, Op, Completed
<1> HIDE DEF x
<1>3. /\ ~connected /\ conn # "no" /\ wire = {} /\ Idle /\ None(ready, Connects)
      /\ \A t \in Closers : cpc[t] \notin Clearing
  BY <1>1 DEF IInv, Sockets, Reading, None, Connects
<1>4. /\ ready' \in Seq(Completed) /\ Elements(ready') = Elements(ready) \cup {x}
      /\ One(ready', Connects) /\ None(ready', Reads) /\ One(ready', Reads)
      /\ One(ready, Written) => One(ready', Written)
      /\ None(ready, Written) <=> None(ready', Written)
  <2>1. ready \in Seq(Completed) /\ None(ready, Reads) /\ One(ready, Reads)
    BY <1>3, ReadyType DEF IInv, Types, Idle, Reading
  <2>2. Elements(ready') = Elements(ready) \cup {x}
    BY <1>1, <1>2, <2>1, Pushed
  <2> QED
    BY <1>1, <1>2, <1>3, <2>1, <2>2, Pushed DEF None
<1>5. Types'
  <2>1. faults' \in 0..MaxFaults
    BY ModesAssumption DEF Fault, IInv, Types, TypeOK
  <2> QED
    BY <1>1, <1>4, <2>1 DEF IInv, Types, TypeOK, Completed
<1>6. Sockets'
  <2>1. \A y \in Elements(ready) : y.op # "connect"
    BY <1>3, ReadyType DEF IInv, Sockets, ConnectDone
  <2> QED
    BY <1>1, <1>2, <1>3, <1>4, <2>1 DEF IInv, Sockets
<1>7. Writes'
  BY <1>1, <1>4 DEF IInv, Writes
<1>8. Reading'
  <2>1. Idle'
    BY <1>3, <1>4 DEF Idle
  <2>2. \A y \in Elements(ready) : y.op \in {"head", "body"} => y.ok
    BY <1>1 DEF IInv, Reading
  <2> QED
    BY <1>2, <1>3, <1>4, <2>1, <2>2 DEF IInv, Reading, Idle
<1>9. Replying'
  BY <1>2, <1>4 DEF IInv, Replying, InRead
<1>10. Calling' /\ Outboxed'
  BY <1>1, CallingFrame, OutboxedFrame DEF IInv, Alive, Erred
<1>11. RepliesExpected'
  BY DEF IInv, RepliesExpected
<1> QED
  BY <1>5, <1>6, <1>7, <1>8, <1>9, <1>10, <1>11 DEF IInv

LEMMA BreakIInv ==
  ASSUME IInv, Break
  PROVE  IInv'
<1> USE DEF Break, link, out, maps, threads, given
<1>1. sock = "up" /\ sock' = "broken" /\ wire' = {}
  OBVIOUS
<1>2. Types'
  <2>1. faults' \in 0..MaxFaults
    BY ModesAssumption DEF Fault, IInv, Types, TypeOK
  <2> QED
    BY <1>1, <2>1 DEF IInv, Types, TypeOK
<1>3. Sockets'
  BY <1>1 DEF IInv, Sockets
<1>4. Writes'
  BY <1>1 DEF IInv, Writes
<1>5. Reading'
  BY <1>1 DEF IInv, Reading, Idle
<1>6. Replying'
  BY <1>1 DEF IInv, Replying, InRead
<1>7. Calling' /\ Outboxed'
  BY <1>1, CallingFrame, OutboxedFrame DEF IInv, Alive, Erred
<1>8. RepliesExpected'
  BY DEF IInv, RepliesExpected
<1> QED
  BY <1>2, <1>3, <1>4, <1>5, <1>6, <1>7, <1>8 DEF IInv

LEMMA PublishIInv ==
  ASSUME IInv, NEW p \in Pubs, Publish(p)
  PROVE  IInv'
<1> USE DEF Publish, link, out, maps, given
<1>1. pc' \in [Msgs \union Pubs -> {"idle", "checked", "registered", "sent", "done"}]
  BY DEF IInv, Types, TypeOK
<1>2. \A c \in Calls : pc'[c] = pc[c] /\ (c \in wire' => c \in wire)
  BY Kinds DEF IInv, Types, TypeOK
<1>3. Types'
  BY <1>1 DEF IInv, Types, TypeOK, Replies
<1>4. Sockets'
  BY DEF IInv, Sockets
<1>5. Writes'
  BY DEF IInv, Writes
<1>6. Reading'
  BY DEF IInv, Reading, Idle
<1>7. Replying'
  BY <1>2 DEF IInv, Replying, InRead
<1>8. Calling' /\ Outboxed'
  BY <1>2, AliveFrame, CallingFrame, OutboxedFrame DEF IInv
<1>9. RepliesExpected'
  BY DEF IInv, RepliesExpected
<1> QED
  BY <1>3, <1>4, <1>5, <1>6, <1>7, <1>8, <1>9 DEF IInv

\* The read that waits completes.
LEMMA ReadPushed ==
  ASSUME IInv, Types', reading # <<>>, reading' = <<>>, sock \in {"up", "broken"},
         NEW x \in Completed, x.op \in {"head", "body"}, ready' = Append(ready, x),
         x.msg \in IF x.op = "body" \/ x.ok THEN Replies ELSE {NoMsg},
         x.ok \/ sock = "broken",
         wire' \subseteq wire,
         \A c \in Calls : x.msg = c => c \notin wire' /\ (InRead(c) \/ c \in wire),
         UNCHANGED <<link, out, maps, sock, writing, threads, given>>
  PROVE  IInv'
<1> USE DEF link, out, maps, threads, given
<1>1. ready \in Seq(Completed) /\ None(ready, Reads) /\ ~Idle /\ conn # "no" /\ None(ready, Connects)
  BY ReadyType DEF IInv, Types, Reading, Idle
<1>2. /\ Elements(ready') = Elements(ready) \cup {x}
      /\ One(ready', Reads) /\ None(ready', Connects)
      /\ One(ready, Connects) => One(ready', Connects)
      /\ One(ready, Written) => One(ready', Written)
      /\ None(ready, Written) => None(ready', Written)
      /\ ~None(ready', Written) => ~None(ready, Written)
  BY <1>1, Pushed
<1>3. \A y \in Elements(ready) : y.op \notin {"head", "body"}
  <2>1. Elements(ready) \subseteq Completed
    BY <1>1 DEF Elements
  <2> QED
    BY <1>1, <2>1 DEF None, Reads
<1>4. Sockets'
  BY <1>1, <1>2 DEF IInv, Sockets
<1>5. Writes'
  BY <1>2 DEF IInv, Writes
<1>6. Reading'
  <2>1. cpc["io"] \notin Failing
    BY <1>1 DEF IInv, Reading
  <2> QED
    BY <1>1, <1>2, <1>3, <2>1 DEF IInv, Reading
<1>7. Replying'
  <2> SUFFICES ASSUME NEW c \in Calls
               PROVE  /\ InRead(c)' => c \notin wire'
                      /\ InRead(c)' \/ c \in wire' =>
                           sent'[c] = 1 /\ (cpc'["user"] = "idle" => c \in pending')
    BY DEF Replying
  <2>1. InRead(c)' => x.msg = c
    BY <1>2, <1>3 DEF InRead
  <2> QED
    BY <2>1 DEF IInv, Replying
<1>8. Calling' /\ Outboxed'
  <2>1. ~Erred
    BY <1>1 DEF Erred
  <2> QED
    BY <2>1, CallingFrame, OutboxedFrame DEF IInv, Alive
<1>9. RepliesExpected'
  BY DEF IInv, RepliesExpected
<1> QED
  BY <1>4, <1>5, <1>6, <1>7, <1>8, <1>9 DEF IInv

LEMMA ReadTypes ==
  ASSUME Types, ready' \in Seq(Completed), reading' = <<>>, frame' \in Replies \union {NoMsg},
         wire' \subseteq wire,
         UNCHANGED <<link, out, maps, sock, writing, told, threads, given, faults>>
  PROVE  Types'
<1>1. reading' \in Seq([op : {"head", "body"}, msg : Replies \union {NoMsg}])
  OBVIOUS
<1>2. wire' \subseteq Replies
  BY DEF Types, TypeOK
<1> QED
  BY <1>1, <1>2 DEF Types, TypeOK, Completed, link, out, maps, threads, given

LEMMA HeadDoneIInv ==
  ASSUME IInv, HeadDone
  PROVE  IInv'
<1> USE DEF HeadDone
<1>1. PICK m \in wire : /\ wire' = wire \ {m} /\ frame' = m
                        /\ ready' = Append(ready, Done(Op("head", m), TRUE))
  OBVIOUS
<1>2. PICK o \in ReadOps : reading = <<o>>
  BY DEF IInv, Reading
<1>3. reading' = <<>>
  BY <1>2
<1>4. m \in Replies
  BY <1>1 DEF IInv, Types, TypeOK
<1> DEFINE x == Done(Op("head", m), TRUE)
<1>5. x \in Completed /\ x.op = "head" /\ x.ok /\ x.msg = m
  BY <1>4 DEF Done, Op, Completed, Replies, Msgs
<1>6. ready' \in Seq(Completed)
  BY <1>1, <1>5, ReadyType, Pushed DEF IInv, Types
<1>7. Types'
  <2>1. UNCHANGED <<link, out, maps, sock, writing, told, threads, given, faults>>
    OBVIOUS
  <2> QED
    BY <1>1, <1>3, <1>4, <1>6, <2>1, ReadTypes DEF IInv
<1> HIDE DEF x
<1> QED
  BY <1>1, <1>3, <1>4, <1>5, <1>7, ReadPushed DEF x

LEMMA BodyDoneIInv ==
  ASSUME IInv, BodyDone
  PROVE  IInv'
<1> USE DEF BodyDone
<1>1. PICK o \in ReadOps : reading = <<o>>
  BY DEF IInv, Reading
<1>2. reading' = <<>> /\ Head(reading) = o /\ o = Op("body", frame)
  BY <1>1
<1>3. frame \in Replies
  <2>1. o.op = "body" /\ o.msg = frame
    BY <1>2 DEF Op
  <2>2. o.op = "body" => o.msg \in Replies
    BY DEF ReadOps, Op
  <2> QED
    BY <2>1, <2>2
<1> DEFINE x == Done(o, TRUE)
<1>4. x \in Completed /\ x.op = "body" /\ x.ok /\ x.msg = frame
  BY <1>2, <1>3 DEF Done, Op, Completed, Replies, Msgs
<1>5. ready' = Append(ready, x) /\ ready' \in Seq(Completed)
  BY <1>2, <1>4, ReadyType, Pushed DEF IInv, Types
<1>6. Types'
  <2>1. UNCHANGED <<link, out, maps, sock, writing, wire, told, threads, given, faults>> /\ frame' = NoMsg
    OBVIOUS
  <2> QED
    BY <1>2, <1>5, <2>1, ReadTypes DEF IInv
<1>7. \A c \in Calls : x.msg = c => InRead(c) /\ c \notin wire'
  <2>1. \A c \in Calls : x.msg = c => InRead(c)
    BY <1>1, <1>2, <1>4 DEF InRead
  <2> QED
    BY <2>1 DEF IInv, Replying
<1> HIDE DEF x
<1> QED
  BY <1>1, <1>2, <1>3, <1>4, <1>5, <1>6, <1>7, ReadPushed

LEMMA ReadFailsIInv ==
  ASSUME IInv, ReadFails
  PROVE  IInv'
<1> USE DEF ReadFails
<1>1. PICK o \in ReadOps : reading = <<o>>
  BY DEF IInv, Reading
<1>2. reading' = <<>> /\ Head(reading) = o /\ sock = "broken"
  BY <1>1 DEF IInv, Reading, Idle
<1> DEFINE x == Done(o, FALSE)
<1>3. /\ x \in Completed /\ ~x.ok
      /\ \/ x.op = "head" /\ x.msg = NoMsg
         \/ x.op = "body" /\ x.msg \in Replies /\ o = Op("body", x.msg)
  <2>1. CASE o = Op("head", NoMsg)
    BY <2>1 DEF Done, Op, Completed
  <2>2. CASE \E m \in Replies : o = Op("body", m)
    BY <2>2 DEF Done, Op, Completed, Replies, Msgs
  <2> QED
    BY <2>1, <2>2 DEF ReadOps
<1>4. ready' = Append(ready, x) /\ ready' \in Seq(Completed)
  BY <1>2, <1>3, ReadyType, Pushed DEF IInv, Types
<1>5. Types'
  <2>1. UNCHANGED <<link, out, maps, sock, writing, frame, wire, told, threads, given, faults>>
    OBVIOUS
  <2>2. frame \in Replies \union {NoMsg}
    BY DEF IInv, Types, TypeOK
  <2> QED
    BY <1>2, <1>4, <2>1, <2>2, ReadTypes DEF IInv
<1>6. \A c \in Calls : x.msg = c => InRead(c) /\ c \notin wire'
  <2>1. \A c \in Calls : x.msg = c => InRead(c)
    BY <1>1, <1>3, Kinds DEF InRead
  <2> QED
    BY <2>1 DEF IInv, Replying
<1> HIDE DEF x
<1> QED
  BY <1>1, <1>2, <1>3, <1>4, <1>5, <1>6, ReadPushed

\* The bytes that leave are those of the first message, a call among them has not been
\* sent before and its caller waits for an answer.
LEMMA WriteDoneIInv ==
  ASSUME IInv, NEW ok \in BOOLEAN, WriteDone(ok)
  PROVE  /\ IInv'
         /\ \/ sent' = sent
            \/ \E c \in Calls : /\ sent[c] = 0 /\ result[c] = "none"
                                /\ sent' = [sent EXCEPT ![c] = 1]
<1> DEFINE m == outbox[1]
           x == Done(Op("write", m), ok)
<1>1. /\ outbox # <<>> /\ writing = <<m>> /\ header = m /\ None(ready, Written)
      /\ sock # "closed" /\ conn # "no" /\ writing # <<>>
  BY DEF IInv, Writes, Sockets, WriteDone
<1>2. Head(writing) = m /\ writing' = <<>> /\ ready' = Append(ready, x)
  <2>1. Head(writing) = m /\ Tail(writing) = <<>>
    BY <1>1
  <2> QED
    BY <2>1 DEF WriteDone
<1>3. \/ UNCHANGED <<wire, told, sent>>
      \/ /\ ok /\ sock = "up"
         /\ wire' = wire \union ({m} \intersect Calls)
         /\ told' = told \union ({m} \intersect Subs)
         /\ sent' = [c \in Calls |-> IF c = m THEN sent[c] + 1 ELSE sent[c]]
  BY <1>1, <1>2 DEF WriteDone
<1>4. UNCHANGED <<link, out, maps, sock, reading, frame, threads, result, answers, faults>>
  BY DEF WriteDone
<1>5. m \in Msgs /\ 1 \in DOMAIN outbox
  <2>1. outbox \in Seq(Msgs)
    BY DEF IInv, Types, TypeOK
  <2> QED
    BY <1>1, <2>1
<1> HIDE DEF m
<1>6. x \in Completed /\ x.op = "write" /\ x.msg = m
  BY <1>5 DEF Done, Op, Completed
<1> HIDE DEF x
<1>7. /\ ready' \in Seq(Completed) /\ Elements(ready') = Elements(ready) \cup {x}
      /\ One(ready', Connects) /\ One(ready', Reads) /\ One(ready', Written)
      /\ None(ready', Reads) <=> None(ready, Reads)
      /\ None(ready', Connects) <=> None(ready, Connects)
  <2>1. ready \in Seq(Completed) /\ One(ready, Connects) /\ One(ready, Reads)
    BY ReadyType DEF IInv, Types, Sockets, Reading
  <2>2. Elements(ready') = Elements(ready) \cup {x}
    BY <1>2, <1>6, <2>1, Pushed
  <2> QED
    BY <1>1, <1>2, <1>6, <2>1, <2>2, Pushed DEF None
<1>8. ASSUME sock = "up", m \in Calls
      PROVE  sent[m] = 0 /\ m \in pending /\ result[m] = "none" /\ pc[m] = "done"
             /\ ~InRead(m) /\ m \notin wire
  <2>1. Alive
    BY <1>8 DEF Alive
  <2>2. pc[m] = "done" /\ result[m] # "notConnected" /\ sent[m] # 1
    BY <1>1, <1>5, <1>8, <2>1 DEF IInv, Outboxed, m
  <2>3. sent[m] = 0
    BY <1>8, <2>2 DEF IInv, Calling
  <2>4. m \in pending
    BY <1>8, <2>1, <2>2, <2>3 DEF IInv, Calling
  <2>5. result[m] = "none"
    BY <1>8, <2>4 DEF IInv, Calling, Erred
  <2>6. ~InRead(m) /\ m \notin wire
    BY <1>8, <2>3 DEF IInv, Replying
  <2> QED
    BY <2>2, <2>3, <2>4, <2>5, <2>6
<1>9. \/ UNCHANGED <<wire, sent>>
      \/ sock = "up" /\ m \notin Calls /\ UNCHANGED <<wire, sent>>
      \/ /\ sock = "up" /\ m \in Calls /\ wire' = wire \union {m}
         /\ sent' = [sent EXCEPT ![m] = 1]
  <2>1. sent \in [Calls -> Nat]
    BY DEF IInv, Types, TypeOK
  <2>2. CASE m \notin Calls
    BY <1>3, <2>1, <2>2
  <2>3. CASE m \in Calls /\ sock = "up" /\ sent' = [c \in Calls |-> IF c = m THEN sent[c] + 1 ELSE sent[c]]
    <3>1. sent' = [c \in Calls |-> IF c = m THEN 1 ELSE sent[c]]
      BY <1>8, <2>3
    <3> QED
      BY <1>3, <1>8, <2>1, <2>3, <3>1
  <2> QED
    BY <1>3, <2>2, <2>3
<1>10. \A c \in Calls : sent'[c] = sent[c] \/ (c = m /\ sock = "up" /\ sent'[c] = 1)
  BY <1>9 DEF IInv, Types, TypeOK
<1>11. Types'
  <2>1. sent' \in [Calls -> Nat]
    <3>1. CASE UNCHANGED <<wire, sent>>
      BY <3>1 DEF IInv, Types, TypeOK
    <3>2. CASE sent' = [sent EXCEPT ![m] = 1]
      BY <3>2 DEF IInv, Types, TypeOK
    <3> QED
      BY <1>9, <3>1, <3>2
  <2>2. wire' \subseteq Replies /\ told' \subseteq Subs
    BY <1>3 DEF IInv, Types, TypeOK, Replies
  <2>3. writing' \in Seq(Msgs)
    <3>1. <<>> \in Seq(Msgs)
      OBVIOUS
    <3> QED
      BY <1>2, <3>1
  <2> QED
    BY <1>4, <1>7, <2>1, <2>2, <2>3 DEF IInv, Types, TypeOK, Completed, link, out, maps, threads
<1>12. Sockets'
  <2>1. \A y \in Elements(ready') : y.op = "connect" => y \in Elements(ready)
    BY <1>6, <1>7
  <2>2. sock' # "up" => wire' = {}
    BY <1>4, <1>9 DEF IInv, Sockets
  <2> QED
    BY <1>1, <1>2, <1>4, <1>7, <2>1, <2>2 DEF IInv, Sockets, link, threads
<1>13. Writes'
  BY <1>1, <1>2, <1>4, <1>7 DEF IInv, Writes, out
<1>14. Reading'
  <2>1. \A y \in Elements(ready') : y.op \in {"head", "body"} => y \in Elements(ready)
    BY <1>6, <1>7
  <2>2. Idle' <=> Idle
    BY <1>4, <1>7 DEF Idle
  <2> QED
    BY <1>4, <1>7, <2>1, <2>2 DEF IInv, Reading, Idle, threads
<1>15. Replying'
  <2> SUFFICES ASSUME NEW c \in Calls
               PROVE  /\ InRead(c)' => c \notin wire'
                      /\ InRead(c)' \/ c \in wire' =>
                           sent'[c] = 1 /\ (cpc'["user"] = "idle" => c \in pending')
    BY DEF Replying
  <2>1. InRead(c)' => InRead(c)
    BY <1>4, <1>6, <1>7 DEF InRead
  <2>2. cpc' = cpc /\ pending' = pending
    BY <1>4 DEF threads, maps
  <2>3. CASE UNCHANGED <<wire, sent>>
    BY <2>1, <2>2, <2>3 DEF IInv, Replying
  <2>4. CASE sock = "up" /\ m \in Calls /\ wire' = wire \union {m} /\ sent' = [sent EXCEPT ![m] = 1]
    <3>1. CASE c = m
      BY <1>8, <2>1, <2>2, <2>4, <3>1 DEF IInv, Types, TypeOK
    <3>2. CASE c # m
      BY <2>1, <2>2, <2>4, <3>2 DEF IInv, Replying, Types, TypeOK
    <3> QED
      BY <3>1, <3>2
  <2> QED
    BY <1>9, <2>3, <2>4
<1>16. Calling'
  <2>1. (Alive' <=> Alive) /\ (Erred' <=> Erred)
    BY <1>4, <1>7 DEF Alive, Erred, Idle, threads
  <2>2. UNCHANGED <<pc, result, pending>>
    BY <1>4 DEF threads, maps
  <2> SUFFICES ASSUME NEW c \in Calls
               PROVE  /\ sent'[c] \in 0..1 /\ (sent'[c] = 1 => pc[c] = "done")
                      /\ Alive /\ pc[c] \in {"registered", "done"} /\ sent'[c] = 0 =>
                           c \in pending \/ result[c] = "notConnected"
    BY <2>1, <2>2 DEF IInv, Calling
  <2> QED
    BY <1>8, <1>10 DEF IInv, Calling
<1>17. Outboxed'
  <2>1. Alive' <=> Alive
    BY <1>4 DEF Alive, threads
  <2>2. UNCHANGED <<pc, result, outbox>>
    BY <1>4 DEF threads, out
  <2>3. ASSUME NEW i \in DOMAIN outbox, outbox[i] \in Calls, Alive, sent'[outbox[i]] = 1
        PROVE  i = 1
    <3>1. sent[outbox[i]] # 1
      BY <1>1, <2>3 DEF IInv, Outboxed
    <3>2. outbox[i] = m
      BY <1>10, <2>3, <3>1
    <3> QED
      BY <1>5, <2>3, <3>2 DEF IInv, Outboxed, m
  <2> QED
    BY <1>2, <2>1, <2>2, <2>3 DEF IInv, Outboxed
<1>18. RepliesExpected'
  BY <1>4 DEF IInv, RepliesExpected, threads
<1> QED
  BY <1>8, <1>9, <1>11, <1>12, <1>13, <1>14, <1>15, <1>16, <1>17, <1>18 DEF IInv

--------------------------------------------------------------------------------
(* close()                                                                     *)

LEMMA LeavesAt ==
  ASSUME Leaves, NEW t \in Closers
  PROVE  /\ cpc[t] \in Leaving => Settled
         /\ cpc[t] = "closeSocket" => Settled /\ ~connected
<1>1. cpc[t] = "closeSocket" => cpc[t] \in Leaving
  BY DEF Leaving
<1> QED
  BY <1>1, Zenon DEF Leaves

LEMMA TestConnectedIInv ==
  ASSUME IInv, NEW t \in Closers, TestConnected(t)
  PROVE  IInv'
<1> USE DEF TestConnected, link, out, maps, socket, given
<1>1. /\ cpc' \in [Closers -> ClosePlaces]
      /\ \A u \in Closers : u # t => cpc'[u] = cpc[u]
      /\ cpc[t] = "close" /\ cpc'[t] \in {"clearFlag", "error", "closed"}
  BY DEF IInv, Types, TypeOK, AfterClose, ClosePlaces
<1>2. Types'
  BY <1>1 DEF IInv, Types, TypeOK, ClosePlaces
<1> QED
  BY <1>1, <1>2, AsideIInv DEF Clearing, Failing, Closers

LEMMA ClearConnectedIInv ==
  ASSUME IInv, NEW t \in Closers, ClearConnected(t)
  PROVE  IInv'
<1> USE DEF ClearConnected, out, maps, socket, given
<1>1. /\ cpc' \in [Closers -> ClosePlaces]
      /\ \A u \in Closers : u # t => cpc'[u] = cpc[u]
      /\ cpc[t] = "clearFlag" /\ cpc'[t] = "closeSocket"
  BY DEF IInv, Types, TypeOK, ClosePlaces
<1>2. Types'
  BY <1>1 DEF IInv, Types, TypeOK, ClosePlaces
<1> QED
  BY <1>1, <1>2, AsideIInv DEF Clearing, Failing, Closers

\* What close() leaves: no socket, and the aborted handlers at the end of the queue.
LEMMA CloseSocketIInv ==
  ASSUME IInv, Leaves, NEW t \in Closers, CloseSocket(t)
  PROVE  IInv'
<1> USE DEF CloseSocket, link, out, maps, given
<1>1. /\ cpc' \in [Closers -> ClosePlaces]
      /\ \A u \in Closers : u # t => cpc'[u] = cpc[u]
      /\ cpc[t] = "closeSocket" /\ cpc'[t] = "clearOutbox"
  BY DEF IInv, Types, TypeOK, ClosePlaces
<1>2. /\ ready' = ready \o Aborted
      /\ sock' = "closed" /\ reading' = <<>> /\ writing' = <<>> /\ frame' = NoMsg
      /\ wire' = {} /\ told' = {}
  BY DEF LeaveSocket
<1>3. Settled /\ ~connected
  BY <1>1, LeavesAt
<1>4. /\ sock \in {"up", "broken", "closed"} /\ conn # "no" /\ ~connected /\ ~connected'
      /\ \A x \in Elements(ready) : x.op # "connect"
  <2>1. Elements(ready) \subseteq Completed
    BY ReadyType DEF IInv, Types, Elements
  <2> QED
    BY <1>3, <2>1 DEF Settled, None, Connects
<1>5. UNCHANGED <<connected, outbox, header, pending, pc, conn, crashed, sent, result, retries, late, kept, answers, faults>>
  OBVIOUS
<1> HIDE DEF CloseSocket
<1>6. ready \in Seq(Completed)
  BY ReadyType DEF IInv, Types
<1>7. /\ Aborted \in Seq(Completed) /\ One(Aborted, Reads)
      /\ \A x \in Elements(Aborted) :
           /\ ~x.ok /\ x.op # "connect"
           /\ x.op \in {"head", "body"} => reading = <<Op(x.op, x.msg)>> /\ Op(x.op, x.msg) \in ReadOps
  BY <1>4, AbortedOps
<1>8. ready' \in Seq(Completed) /\ Elements(ready') = Elements(ready) \cup Elements(Aborted)
  BY <1>2, <1>6, <1>7, Joined
<1>9. None(ready', Connects) /\ One(ready', Connects)
  <2>1. None(ready', Connects)
    BY <1>4, <1>7, <1>8 DEF None, Connects
  <2> QED
    BY <2>1 DEF None, One, Elements
<1>10. One(ready', Reads)
  <2>1. CASE reading = <<>>
    <3>1. None(Aborted, Reads)
      <4>1. \A x \in Elements(Aborted) : x.op \notin {"head", "body"}
        <5>1. \A o : <<o>> # <<>>
          OBVIOUS
        <5> QED
          BY <1>7, <2>1, <5>1
      <4> QED
        BY <4>1 DEF None, Reads
    <3> QED
      BY <1>2, <1>6, <1>7, <3>1, Joined DEF IInv, Reading
  <2>2. CASE reading # <<>>
    BY <1>2, <1>6, <1>7, <2>2, Joined DEF IInv, Reading
  <2> QED
    BY <2>1, <2>2
<1>11. Types'
  <2>1. reading' \in Seq([op : {"head", "body"}, msg : Replies \union {NoMsg}]) /\ writing' \in Seq(Msgs)
    <3>1. <<>> \in Seq([op : {"head", "body"}, msg : Replies \union {NoMsg}]) /\ <<>> \in Seq(Msgs)
      OBVIOUS
    <3> QED
      BY <1>2, <3>1
  <2> QED
    BY <1>1, <1>2, <1>5, <1>8, <2>1 DEF IInv, Types, TypeOK, Completed, ClosePlaces
<1>12. Sockets'
  BY <1>2, <1>4, <1>5, <1>7, <1>8, <1>9 DEF IInv, Sockets
<1>13. Writes'
  BY <1>2 DEF Writes
<1>14. Reading'
  <2>1. \A x \in Elements(Aborted) : x.op \in {"head", "body"} =>
          x.msg \in IF x.op = "body" \/ x.ok THEN Replies ELSE {NoMsg}
    <3>1. \A x : Op(x.op, x.msg) \in ReadOps =>
            \/ x.op = "head" /\ x.msg = NoMsg
            \/ x.op = "body" /\ x.msg \in Replies
      <4> SUFFICES ASSUME NEW x, Op(x.op, x.msg) \in ReadOps
                   PROVE  \/ x.op = "head" /\ x.msg = NoMsg
                          \/ x.op = "body" /\ x.msg \in Replies
        OBVIOUS
      <4>1. Op(x.op, x.msg).op = x.op /\ Op(x.op, x.msg).msg = x.msg
        BY DEF Op
      <4>2. \A o \in ReadOps : (o.op = "head" /\ o.msg = NoMsg) \/ (o.op = "body" /\ o.msg \in Replies)
        BY DEF ReadOps, Op
      <4> QED
        BY <4>1, <4>2
    <3> QED
      BY <1>7, <3>1
  <2>2. cpc'["io"] \in Failing => Idle'
    <3>1. ASSUME cpc'["io"] \in Failing PROVE cpc["io"] \in Failing
      BY <1>1, <3>1 DEF Failing, Closers
    <3>2. ASSUME Idle PROVE None(ready', Reads)
      <4>1. \A x \in Elements(Aborted) : x.op \notin {"head", "body"}
        <5>1. \A o : <<o>> # <<>>
          OBVIOUS
        <5> QED
          BY <1>7, <3>2, <5>1 DEF Idle
      <4> QED
        BY <1>8, <3>2, <4>1 DEF Idle, None, Reads
    <3> QED
      BY <1>2, <3>1, <3>2 DEF IInv, Reading, Idle
  <2>3. \A x \in Elements(ready') : x.op \in {"head", "body"} =>
           x.msg \in IF x.op = "body" \/ x.ok THEN Replies ELSE {NoMsg}
    BY <1>8, <2>1 DEF IInv, Reading
  <2> QED
    BY <1>2, <1>4, <1>5, <1>9, <1>10, <2>2, <2>3 DEF Reading
<1>15. Replying'
  <2> SUFFICES ASSUME NEW c \in Calls, InRead(c)'
               PROVE  sent'[c] = 1 /\ (cpc'["user"] = "idle" => c \in pending')
    BY <1>2 DEF Replying
  <2>1. PICK x \in Elements(ready') : x.op \in {"head", "body"} /\ x.msg = c
    <3>1. reading' # <<Op("body", c)>>
      BY <1>2
    <3> QED
      BY <3>1 DEF InRead
  <2>2. InRead(c)
    <3>1. CASE x \in Elements(ready)
      BY <2>1, <3>1 DEF InRead
    <3>2. CASE x \in Elements(Aborted)
      <4>1. reading = <<Op(x.op, c)>> /\ Op(x.op, c) \in ReadOps
        BY <1>7, <2>1, <3>2
      <4>2. x.op = "body"
        <5>1. \A o \in ReadOps : o.op = "head" => o.msg = NoMsg
          BY DEF ReadOps, Op
        <5>2. Op(x.op, c).op = x.op /\ Op(x.op, c).msg = c
          BY DEF Op
        <5> QED
          BY <2>1, <4>1, <5>1, <5>2, Kinds
      <4> QED
        BY <4>1, <4>2 DEF InRead
    <3> QED
      BY <1>8, <3>1, <3>2
  <2>3. cpc'["user"] = "idle" => cpc["user"] = "idle"
    BY <1>1 DEF Closers
  <2> QED
    BY <1>5, <2>2, <2>3 DEF IInv, Replying
<1>16. Calling' /\ Outboxed'
  <2>1. ~Alive'
    BY <1>2, <1>4, <1>5 DEF Alive
  <2>2. Erred => Erred'
    <3> SUFFICES ASSUME Erred PROVE Erred'
      OBVIOUS
    <3>1. \A x \in Elements(Aborted) : x.op \notin {"head", "body"}
      <4>1. \A o : <<o>> # <<>>
        OBVIOUS
      <4> QED
        BY <1>7, <4>1 DEF Erred, Idle
    <3>2. None(ready', Reads)
      BY <1>8, <3>1 DEF Erred, Idle, None, Reads
    <3> QED
      BY <1>2, <1>5, <1>9, <3>2 DEF Erred, Idle
  <2> QED
    BY <1>2, <1>5, <2>1, <2>2, CallingFrame, OutboxedFrame DEF IInv
<1>17. RepliesExpected'
  <2>1. cpc["user"] # "idle" => cpc'["user"] # "idle"
    BY <1>1 DEF Closers
  <2> QED
    BY <1>5, <2>1 DEF IInv, RepliesExpected
<1> QED
  BY <1>11, <1>12, <1>13, <1>14, <1>15, <1>16, <1>17 DEF IInv

LEMMA ClearOutboxIInv ==
  ASSUME IInv, NEW t \in Closers, ClearOutbox(t)
  PROVE  IInv'
<1> USE DEF ClearOutbox, link, maps, socket, given
<1>1. /\ cpc' \in [Closers -> ClosePlaces]
      /\ \A u \in Closers : u # t => cpc'[u] = cpc[u]
      /\ cpc[t] = "clearOutbox" /\ cpc'[t] = "clearMaps"
  BY DEF IInv, Types, TypeOK, ClosePlaces
<1>2. sock = "closed" /\ writing = <<>> /\ conn # "no"
  BY <1>1 DEF IInv, Sockets, Clearing
<1>3. Types'
  <2>1. outbox' \in Seq(Msgs)
    OBVIOUS
  <2> QED
    BY <1>1, <2>1 DEF IInv, Types, TypeOK, ClosePlaces
<1>4. Sockets'
  BY <1>1, <1>2 DEF IInv, Sockets
<1>5. Writes'
  BY <1>2 DEF Writes
<1>6. Reading'
  BY <1>1, ReadingFrame DEF IInv, Failing, Closers
<1>7. Replying'
  BY <1>1, ReplyingFrame DEF IInv, Closers
<1>8. Calling' /\ Outboxed'
  <2>1. Outboxed'
    BY DEF Outboxed
  <2> QED
    BY <2>1, AliveFrame, CallingFrame DEF IInv
<1>9. RepliesExpected'
  BY <1>1 DEF IInv, RepliesExpected, Closers
<1> QED
  BY <1>3, <1>4, <1>5, <1>6, <1>7, <1>8, <1>9 DEF IInv

LEMMA ClearMapsIInv ==
  ASSUME IInv, NEW t \in Closers, ClearMaps(t)
  PROVE  IInv'
<1> USE DEF ClearMaps, link, out, socket
<1>1. /\ cpc' \in [Closers -> ClosePlaces]
      /\ \A u \in Closers : u # t => cpc'[u] = cpc[u]
      /\ cpc[t] = "clearMaps" /\ cpc'[t] \in {"error", "closed"}
      /\ cpc'["user"] = "idle" => t = "io"
  BY DEF IInv, Types, TypeOK, AfterClose, Closers, ClosePlaces
<1>2. sock = "closed" /\ conn # "no" /\ wire = {}
  BY <1>1 DEF IInv, Sockets, Clearing
<1>3. ~Alive /\ ~Alive'
  BY <1>2 DEF Alive
<1>4. Types'
  <2>1. result' \in [Calls -> Results]
    BY DEF IInv, Types, TypeOK, Results
  <2> QED
    BY <1>1, <2>1 DEF IInv, Types, TypeOK, ClosePlaces
<1>5. Sockets'
  BY <1>1, SocketsFrame DEF IInv, Clearing
<1>6. Writes'
  BY WritesFrame DEF IInv, Writes
<1>7. Reading'
  BY <1>1, ReadingFrame DEF IInv, Failing, Closers
<1>8. Replying'
  <2>1. \A c \in Calls : InRead(c)' <=> InRead(c)
    BY DEF InRead
  <2>2. CASE cpc'["user"] = "idle"
    <3>1. Idle
      BY <1>1, <2>2 DEF IInv, Reading, Failing
    <3>2. \A x \in Elements(ready) : x.op \notin {"head", "body"}
      <4>1. Elements(ready) \subseteq Completed
        BY ReadyType DEF IInv, Types, Elements
      <4> QED
        BY <3>1, <4>1 DEF Idle, None, Reads
    <3>3. \A c \in Calls : ~InRead(c)
      BY <3>1, <3>2 DEF InRead, Idle
    <3> QED
      BY <1>2, <2>1, <3>3 DEF Replying
  <2>3. CASE cpc'["user"] # "idle"
    BY <1>2, <2>1, <2>3 DEF IInv, Replying
  <2> QED
    BY <2>2, <2>3
<1>9. Calling'
  BY <1>3 DEF IInv, Calling
<1>10. Outboxed'
  BY <1>3 DEF IInv, Outboxed, Calling
<1>11. RepliesExpected'
  BY <1>1 DEF IInv, RepliesExpected, Closers
<1> QED
  BY <1>4, <1>5, <1>6, <1>7, <1>8, <1>9, <1>10, <1>11 DEF IInv

--------------------------------------------------------------------------------
(* The user's calls                                                            *)

LEMMA CheckConnectedIInv ==
  ASSUME IInv, NEW c \in Calls, CheckConnected(c)
  PROVE  /\ IInv'
         /\ \/ UNCHANGED <<result, answers>>
            \/ /\ result[c] = "none"
               /\ result' = [d \in Calls |-> IF d \in {c} THEN "notConnected" ELSE result[d]]
               /\ answers' = [d \in Calls |-> IF d \in {c} THEN answers[d] + 1 ELSE answers[d]]
<1> USE DEF CheckConnected, link, out, maps, socket
<1>1. pc[c] = "idle" /\ result[c] = "none" /\ c \notin pending /\ sent[c] = 0
  BY DEF IInv, Calling
<1>2. /\ pc \in [Msgs \union Pubs -> {"idle", "checked", "registered", "sent", "done"}]
      /\ result \in [Calls -> Results] /\ c \in Msgs \union Pubs
  BY Kinds DEF IInv, Types, TypeOK
<1>3. \/ /\ pc' = [pc EXCEPT ![c] = "checked"] /\ UNCHANGED <<result, answers>>
      \/ /\ pc' = [pc EXCEPT ![c] = "done"]
         /\ result' = [d \in Calls |-> IF d \in {c} THEN "notConnected" ELSE result[d]]
         /\ answers' = [d \in Calls |-> IF d \in {c} THEN answers[d] + 1 ELSE answers[d]]
  BY DEF Answer
<1>4. /\ \A d \in Calls : d # c => pc'[d] = pc[d] /\ result'[d] = result[d]
      /\ \/ pc'[c] = "checked" /\ result'[c] = "none"
         \/ pc'[c] = "done" /\ result'[c] = "notConnected"
  <2>1. CASE pc' = [pc EXCEPT ![c] = "checked"] /\ UNCHANGED <<result, answers>>
    BY <1>1, <1>2, <2>1, Kinds
  <2>2. CASE /\ pc' = [pc EXCEPT ![c] = "done"]
             /\ result' = [d \in Calls |-> IF d \in {c} THEN "notConnected" ELSE result[d]]
    BY <1>2, <2>2, Kinds
  <2> QED
    BY <1>3, <2>1, <2>2
<1>5. UNCHANGED <<connected, outbox, header, pending, sock, reading, writing, wire, ready, sent, crashed, conn, cpc>>
  OBVIOUS
<1> HIDE DEF CheckConnected
<1>6. Types'
  <2>1. pc' \in [Msgs \union Pubs -> {"idle", "checked", "registered", "sent", "done"}]
    BY <1>2, <1>3
  <2>2. result' \in [Calls -> Results] /\ answers' \in [Calls -> Nat]
    <3>1. answers \in [Calls -> Nat]
      BY DEF IInv, Types, TypeOK
    <3> QED
      BY <1>2, <1>3, <3>1 DEF Results
  <2>3. UNCHANGED <<retries, faults, late, kept, frame, told>>
    BY DEF CheckConnected
  <2> QED
    BY <1>5, <2>1, <2>2, <2>3 DEF IInv, Types, TypeOK
<1>7. Sockets' /\ Writes'
  BY <1>5, SocketsFrame DEF IInv, Writes
<1>8. Reading'
  BY <1>5, ReadingFrame DEF IInv
<1>9. Replying'
  BY <1>5, ReplyingFrame DEF IInv
<1>10. Calling'
  <2>1. (Alive' <=> Alive) /\ (Erred' <=> Erred)
    BY <1>5, AliveFrame
  <2> QED
    BY <1>1, <1>4, <1>5, <2>1 DEF IInv, Calling
<1>11. Outboxed'
  <2>1. \A i \in DOMAIN outbox : outbox[i] # c
    BY <1>1 DEF IInv, Outboxed
  <2>2. Alive' <=> Alive
    BY <1>5, AliveFrame
  <2> QED
    BY <1>4, <1>5, <2>1, <2>2 DEF IInv, Outboxed
<1>12. RepliesExpected'
  BY <1>5 DEF IInv, RepliesExpected
<1> QED
  BY <1>1, <1>3, <1>6, <1>7, <1>8, <1>9, <1>10, <1>11, <1>12 DEF IInv

LEMMA RegisterIInv ==
  ASSUME IInv, NEW c \in Calls, Register(c)
  PROVE  IInv'
<1> USE DEF Register, link, out, socket, given
<1>1. pc[c] = "checked" /\ result[c] = "none" /\ sent[c] = 0
  BY DEF IInv, Calling
<1>2. pc' \in [Msgs \union Pubs -> {"idle", "checked", "registered", "sent", "done"}]
  BY DEF IInv, Types, TypeOK
<1>3. pc'[c] = "registered" /\ \A d \in Calls : d # c => pc'[d] = pc[d]
  BY Kinds DEF IInv, Types, TypeOK
<1>4. Types'
  BY <1>2 DEF IInv, Types, TypeOK
<1>5. Sockets' /\ Writes'
  BY SocketsFrame DEF IInv, Writes
<1>6. Reading'
  BY ReadingFrame DEF IInv
<1>7. Replying'
  BY ReplyingFrame DEF IInv
<1>8. (Alive' <=> Alive) /\ (Erred' <=> Erred)
  BY AliveFrame
<1>9. Calling'
  BY <1>1, <1>3, <1>8 DEF IInv, Calling
<1>10. Outboxed'
  <2>1. \A i \in DOMAIN outbox : outbox[i] # c
    BY <1>1 DEF IInv, Outboxed
  <2> QED
    BY <1>3, <1>8, <2>1 DEF IInv, Outboxed
<1>11. RepliesExpected'
  BY DEF IInv, RepliesExpected
<1> QED
  BY <1>4, <1>5, <1>6, <1>7, <1>9, <1>10, <1>11 DEF IInv

\* A message is appended to the outbox, and written when it is the first.
LEMMA EnqueueIInv ==
  ASSUME IInv, NEW m \in Msgs, NEW next \in {"sent", "done"}, Enqueue(m, next),
         m \in Calls => pc[m] = "registered" /\ next = "done"
  PROVE  IInv'
<1> USE DEF Enqueue, link, maps, given
<1> DEFINE x == Done(Op("write", m), FALSE)
<1>1. UNCHANGED <<connected, pending, sock, reading, wire, sent, result, crashed, conn, cpc>>
  OBVIOUS
<1>2. /\ outbox \in Seq(Msgs) /\ Len(outbox) \in Nat /\ DOMAIN outbox = 1..Len(outbox)
      /\ outbox' = Append(outbox, m) /\ outbox' \in Seq(Msgs)
      /\ DOMAIN outbox' = 1..(Len(outbox) + 1)
      /\ outbox'[Len(outbox) + 1] = m
      /\ \A i \in DOMAIN outbox : i \in DOMAIN outbox' /\ outbox'[i] = outbox[i]
      /\ \A i \in DOMAIN outbox' : i \in DOMAIN outbox \/ i = Len(outbox) + 1
      /\ outbox' # <<>>
  <2>1. outbox \in Seq(Msgs)
    BY DEF IInv, Types, TypeOK
  <2>2. outbox' = Append(outbox, m)
    OBVIOUS
  <2> HIDE DEF Enqueue
  <2> QED
    BY <2>1, <2>2
<1>3. /\ outbox = <<>> => outbox'[1] = m /\ DOMAIN outbox = {} /\ writing = <<>>
      /\ outbox # <<>> => outbox'[1] = outbox[1] /\ 1 \in DOMAIN outbox
  <2>1. outbox = <<>> => writing = <<>>
    BY DEF IInv, Writes
  <2>2. outbox = <<>> => Len(outbox) = 0
    OBVIOUS
  <2>3. outbox # <<>> => Len(outbox) > 0
    BY <1>2, EmptySeq
  <2> HIDE DEF Enqueue
  <2> QED
    BY <1>2, <2>1, <2>2, <2>3
<1>4. \/ outbox # <<>> /\ UNCHANGED <<header, writing, ready>>
      \/ /\ outbox = <<>> /\ CanWait /\ header' = m /\ writing' = <<m>> /\ ready' = ready
      \/ /\ outbox = <<>> /\ ~CanWait /\ header' = m /\ writing' = writing /\ ready' = Append(ready, x)
  <2>1. outbox = <<>> => Append(writing, m) = <<m>>
    BY <1>3
  <2> QED
    BY <2>1 DEF StartWrite
<1>5. x \in Completed /\ x.op = "write" /\ ~x.ok
  BY DEF Done, Op, Completed
<1>6. /\ pc' \in [Msgs \union Pubs -> {"idle", "checked", "registered", "sent", "done"}]
      /\ m \in Calls => pc'[m] = "done"
      /\ \A d \in Calls : d # m => pc'[d] = pc[d]
  BY DEF IInv, Types, TypeOK
<1>7. UNCHANGED <<retries, late, kept, frame, told, faults, answers>>
  OBVIOUS
<1> HIDE DEF x, Enqueue
<1>8. /\ ready' \in Seq(Completed)
      /\ \A y \in Elements(ready') : y \in Elements(ready) \/ y = x
      /\ Elements(ready) \subseteq Elements(ready')
      /\ One(ready', Connects) /\ One(ready', Reads)
      /\ (One(ready, Written) => One(ready', Written))
      /\ None(ready', Written) <=> None(ready, Written)
      /\ None(ready', Reads) <=> None(ready, Reads)
      /\ None(ready', Connects) <=> None(ready, Connects)
  <2>1. ready \in Seq(Completed) /\ One(ready, Connects) /\ One(ready, Reads)
    BY ReadyType DEF IInv, Types, Sockets, Reading
  <2>2. CASE ready' = ready
    BY <2>1, <2>2
  <2>3. CASE ready' = Append(ready, x)
    <3>1. Elements(ready') = Elements(ready) \cup {x}
      BY <1>5, <2>1, <2>3, Pushed
    <3> QED
      BY <1>5, <2>1, <2>3, <3>1, Pushed DEF None
  <2> QED
    BY <1>4, <2>2, <2>3
<1>9. Types'
  <2>1. header' \in Msgs \union {NoMsg} /\ writing' \in Seq(Msgs)
    <3>1. <<m>> \in Seq(Msgs)
      OBVIOUS
    <3> QED
      BY <1>4, <3>1 DEF IInv, Types, TypeOK
  <2> QED
    BY <1>1, <1>2, <1>6, <1>7, <1>8, <2>1 DEF IInv, Types, TypeOK, Completed
<1>10. Sockets'
  <2>1. sock = "closed" => writing' = writing
    BY <1>4 DEF CanWait
  <2> QED
    BY <1>1, <1>5, <1>8, <2>1 DEF IInv, Sockets
<1>11. Writes'
  <2>1. CASE outbox # <<>> /\ UNCHANGED <<header, writing, ready>>
    BY <1>1, <1>2, <1>3, <2>1 DEF IInv, Writes
  <2>2. CASE outbox = <<>> /\ CanWait /\ header' = m /\ writing' = <<m>> /\ ready' = ready
    <3>1. sock # "closed"
      BY <2>2 DEF CanWait
    <3> QED
      BY <1>1, <1>2, <1>3, <2>2, <3>1 DEF IInv, Writes
  <2>3. CASE outbox = <<>> /\ ~CanWait /\ header' = m /\ writing' = writing /\ ready' = Append(ready, x)
    BY <1>1, <1>2, <1>3, <1>8, <2>3 DEF IInv, Writes
  <2> QED
    BY <1>4, <2>1, <2>2, <2>3
<1>12. Reading'
  <2>1. Idle' <=> Idle
    BY <1>1, <1>8 DEF Idle
  <2>2. \A y \in Elements(ready') : y.op \in {"head", "body"} => y \in Elements(ready)
    BY <1>5, <1>8
  <2> QED
    BY <1>1, <1>8, <2>1, <2>2 DEF IInv, Reading
<1>13. Replying'
  <2>1. \A c \in Calls : InRead(c)' => InRead(c)
    BY <1>1, <1>5, <1>8 DEF InRead
  <2> QED
    BY <1>1, <2>1 DEF IInv, Replying
<1>14. (Alive' <=> Alive) /\ (Erred' <=> Erred)
  BY <1>1, <1>8 DEF Alive, Erred, Idle
<1>15. Calling'
  BY <1>1, <1>6, <1>14 DEF IInv, Calling
<1>16. Outboxed'
  <2>1. m \in Calls => sent[m] = 0 /\ result[m] # "notConnected" /\ \A i \in DOMAIN outbox : outbox[i] # m
    BY DEF IInv, Calling, Outboxed
  <2>2. ASSUME NEW i \in DOMAIN outbox', outbox'[i] \in Calls
        PROVE  /\ pc'[outbox'[i]] = "done" /\ result'[outbox'[i]] # "notConnected"
               /\ Alive' /\ sent'[outbox'[i]] = 1 => i = 1 /\ writing' = <<>>
    <3>1. CASE i = Len(outbox) + 1
      BY <1>1, <1>2, <1>6, <2>1, <2>2, <3>1
    <3>2. CASE i \in DOMAIN outbox
      <4>1. outbox'[i] = outbox[i] /\ outbox # <<>> /\ writing' = writing
        BY <1>2, <1>3, <1>4, <3>2
      <4>2. pc'[outbox[i]] = pc[outbox[i]]
        BY <1>6, <2>1, <2>2, <3>2, <4>1
      <4> QED
        BY <1>1, <1>14, <2>2, <3>2, <4>1, <4>2 DEF IInv, Outboxed
    <3> QED
      BY <1>2, <3>1, <3>2
  <2>3. ASSUME NEW i \in DOMAIN outbox', NEW j \in DOMAIN outbox', outbox'[i] \in Calls, outbox'[i] = outbox'[j]
        PROVE  i = j
    <3>1. CASE i = Len(outbox) + 1 \/ j = Len(outbox) + 1
      BY <1>2, <2>1, <2>3, <3>1
    <3>2. CASE i \in DOMAIN outbox /\ j \in DOMAIN outbox
      BY <1>2, <2>3, <3>2 DEF IInv, Outboxed
    <3> QED
      BY <1>2, <3>1, <3>2
  <2> QED
    BY <2>2, <2>3 DEF Outboxed
<1>17. RepliesExpected'
  BY <1>1 DEF IInv, RepliesExpected
<1> QED
  BY <1>9, <1>10, <1>11, <1>12, <1>13, <1>15, <1>16, <1>17 DEF IInv

\* A call, a subscription or a heartbeat is written.
LEMMA WritesIInv ==
  /\ \A c \in Calls : IInv /\ Write(c) => IInv'
  /\ \A s \in Subs : IInv /\ Subscribe(s) => IInv'
  /\ \A b \in Beats : IInv /\ BeatWrites(b) => IInv'
<1>1. ASSUME NEW c \in Calls, IInv, Write(c) PROVE IInv'
  BY <1>1, EnqueueIInv DEF Write, Msgs
<1>2. ASSUME NEW s \in Subs, IInv, Subscribe(s) PROVE IInv'
  <2>1. s \in Msgs /\ s \notin Calls
    BY Kinds DEF Msgs
  <2> QED
    BY <1>2, <2>1, EnqueueIInv DEF Subscribe
<1>3. ASSUME NEW b \in Beats, IInv, BeatWrites(b) PROVE IInv'
  <2>1. b \in Msgs /\ b \notin Calls
    BY Kinds DEF Msgs
  <2> QED
    BY <1>3, <2>1, EnqueueIInv DEF BeatWrites
<1> QED
  BY <1>1, <1>2, <1>3

--------------------------------------------------------------------------------
(* The handlers                                                                *)

\* The connect failed: it is given up, or the next one begins.
LEMMA ConnectFailedIInv ==
  ASSUME ~AutoReconnect, IInv, OnConnect, ~Head(ready).ok
  PROVE  IInv'
<1> USE DEF threads, given
<1> DEFINE q == Tail(ready)
<1>1. /\ ready # <<>> /\ Head(ready).op = "connect" /\ cpc["io"] = "idle"
      /\ UNCHANGED <<maps, threads, given, faults>>
  BY DEF OnConnect, Handles, IoFree
<1>2. /\ q \in Seq(Completed) /\ Elements(q) \subseteq Elements(ready)
      /\ One(q, Connects) /\ None(q, Connects) /\ One(q, Reads)
      /\ (One(ready, Written) => One(q, Written))
      /\ (None(ready, Reads) => None(q, Reads))
      /\ (None(ready, Written) => None(q, Written))
      /\ Head(ready) \in Elements(ready) /\ ~None(ready, Connects)
  BY <1>1, Taken DEF None
<1>3. ~connected /\ sock = "open" /\ conn # "no"
  BY <1>1, <1>2 DEF IInv, Sockets
<1>4. Idle
  BY <1>2 DEF IInv, Reading
<1>5. /\ ConnectFailed /\ UNCHANGED <<connected, out>>
  BY <1>3 DEF OnConnect
<1>6. \A x \in Elements(ready) : x.op \notin {"head", "body"}
  <2>1. Elements(ready) \subseteq Completed
    BY ReadyType DEF IInv, Types, Elements
  <2> QED
    BY <1>4, <2>1 DEF Idle, None, Reads
<1>7. ~Erred
  BY <1>3 DEF Erred
<1>8. CASE ready' = q /\ UNCHANGED <<retries, socket>>
  <2> USE DEF socket
  <2>1. Types'
    BY <1>1, <1>2, <1>5, <1>8 DEF IInv, Types, TypeOK, Completed, maps, out
  <2>2. Sockets'
    BY <1>1, <1>2, <1>3, <1>5, <1>8 DEF IInv, Sockets
  <2>3. Writes'
    BY <1>2, <1>5, <1>8 DEF IInv, Writes, out
  <2>4. Reading'
    BY <1>1, <1>2, <1>4, <1>6, <1>8 DEF IInv, Reading, Idle
  <2>5. Replying'
    BY <1>1, <1>2, <1>6, <1>8 DEF IInv, Replying, InRead, maps
  <2>6. Calling' /\ Outboxed'
    BY <1>1, <1>5, <1>7, <1>8, CallingFrame, OutboxedFrame DEF IInv, Alive, maps, out
  <2>7. RepliesExpected'
    BY <1>1 DEF IInv, RepliesExpected
  <2> QED
    BY <2>1, <2>2, <2>3, <2>4, <2>5, <2>6, <2>7 DEF IInv
<1>9. CASE retries # 0 /\ retries' = retries - 1 /\ LeaveSocket("connecting", q)
  <2>1. /\ ready' = q \o Aborted /\ sock' = "connecting" /\ reading' = <<>> /\ writing' = <<>>
        /\ frame' = NoMsg /\ wire' = {} /\ told' = {}
    BY <1>9 DEF LeaveSocket
  <2>2. /\ Aborted \in Seq(Completed) /\ None(Aborted, Written)
        /\ \A x \in Elements(Aborted) : ~x.ok /\ x.op \notin {"connect", "head", "body"}
    <3>1. \A o : <<o>> # <<>>
      OBVIOUS
    <3> QED
      BY <1>3, <1>4, <3>1, AbortedOps DEF Idle
  <2>3. None(Aborted, Connects) /\ None(Aborted, Reads)
    BY <2>2 DEF None, Connects, Reads
  <2>4. ready' \in Seq(Completed) /\ Elements(ready') = Elements(q) \cup Elements(Aborted)
        /\ One(ready', Connects) /\ None(ready', Connects)
    BY <1>2, <2>1, <2>2, <2>3, Joined
  <2>5. One(ready', Reads) /\ None(ready', Reads)
    BY <1>2, <1>4, <2>1, <2>2, <2>3, Joined DEF Idle
  <2>6. /\ One(ready, Written) => One(ready', Written)
        /\ None(ready, Written) => None(ready', Written)
    BY <1>2, <2>1, <2>2, Joined
  <2>7. Types'
    <3>1. reading' \in Seq([op : {"head", "body"}, msg : Replies \union {NoMsg}]) /\ writing' \in Seq(Msgs)
      <4>1. <<>> \in Seq([op : {"head", "body"}, msg : Replies \union {NoMsg}]) /\ <<>> \in Seq(Msgs)
        OBVIOUS
      <4> QED
        BY <2>1, <4>1
    <3>2. retries' \in 0..Reconnects
      BY <1>9, ModesAssumption DEF IInv, Types, TypeOK
    <3> QED
      BY <1>1, <1>5, <2>1, <2>4, <3>1, <3>2 DEF IInv, Types, TypeOK, Completed, maps, out
  <2>8. Sockets'
    <3>1. \A x \in Elements(ready') : x.op # "connect"
      <4>1. \A x \in Elements(q) : x.op # "connect"
        <5>1. Elements(q) \subseteq Completed
          BY <1>2 DEF Elements
        <5> QED
          BY <1>2, <5>1 DEF None, Connects
      <4> QED
        BY <2>2, <2>4, <4>1
    <3> QED
      BY <1>1, <1>3, <1>5, <2>1, <2>4, <3>1 DEF IInv, Sockets
  <2>9. Writes'
    BY <1>3, <1>5, <2>1, <2>6 DEF IInv, Writes, out
  <2>10. Reading'
    <3>1. \A x \in Elements(ready') : x.op \notin {"head", "body"}
      BY <1>2, <1>6, <2>2, <2>4
    <3> QED
      BY <1>1, <2>1, <2>5, <3>1 DEF Reading, Idle
  <2>11. Replying'
    <3>1. \A x \in Elements(ready') : x.op \notin {"head", "body"}
      BY <1>2, <1>6, <2>2, <2>4
    <3>2. \A c \in Calls : ~InRead(c)'
      BY <2>1, <3>1 DEF InRead
    <3> QED
      BY <2>1, <3>2 DEF Replying
  <2>12. Calling' /\ Outboxed'
    BY <1>1, <1>3, <1>5, <1>7, <2>1, CallingFrame, OutboxedFrame DEF IInv, Alive, maps, out
  <2>13. RepliesExpected'
    BY <1>1 DEF IInv, RepliesExpected
  <2> QED
    BY <2>7, <2>8, <2>9, <2>10, <2>11, <2>12, <2>13 DEF IInv
<1> QED
  BY <1>5, <1>8, <1>9 DEF ConnectFailed

\* The connection is up: the first read begins, the subscriptions are sent again.
LEMMA ConnectedIInv ==
  ASSUME IInv, OnConnect, Head(ready).ok
  PROVE  IInv'
<1> USE DEF threads, given
<1> DEFINE q == Tail(ready)
           head == Op("head", NoMsg)
           send == outbox = <<>> /\ kept # {}
<1>1. /\ ready # <<>> /\ Head(ready).op = "connect" /\ cpc["io"] = "idle"
      /\ UNCHANGED <<maps, threads, given, faults>>
  BY DEF OnConnect, Handles, IoFree
<1>2. /\ q \in Seq(Completed) /\ Elements(q) \subseteq Elements(ready)
      /\ One(q, Connects) /\ None(q, Connects) /\ One(q, Reads)
      /\ (One(ready, Written) => One(q, Written))
      /\ (None(ready, Reads) => None(q, Reads))
      /\ (None(ready, Written) => None(q, Written))
      /\ Head(ready) \in Elements(ready) /\ ~None(ready, Connects)
  BY <1>1, Taken DEF None
<1>3. ~connected /\ sock \in {"up", "broken"} /\ conn # "no"
  BY <1>1, <1>2 DEF IInv, Sockets
<1>4. reading = <<>> /\ None(ready, Reads)
  BY <1>2 DEF IInv, Reading, Idle
<1>5. OnConnected
  BY <1>3 DEF OnConnect
<1>6. PICK order \in [1..Cardinality(kept) -> kept] :
        /\ connected' = TRUE /\ outbox' = outbox \o order
        /\ reading' = Append(reading, head)
        /\ writing' = IF send THEN Append(writing, order[1]) ELSE writing
        /\ ready' = q
        /\ header' = IF send THEN order[1] ELSE header
        /\ UNCHANGED <<retries, sock, frame, wire, told>>
  BY <1>3, <1>5 DEF OnConnected, CanWait
<1>7. reading' = <<head>>
  BY <1>4, <1>6
<1>8. Cardinality(kept) \in Nat /\ (kept # {} => Cardinality(kept) > 0) /\ kept \subseteq Msgs
      /\ \A s \in kept : s \notin Calls
  <2>1. IsFiniteSet(kept) /\ kept \subseteq Subs
    BY DEF IInv, Types, TypeOK
  <2>2. kept # {} => Cardinality(kept) # 0
    BY <2>1, FS_EmptySet
  <2>3. Cardinality(kept) \in Nat
    BY <2>1, FS_CardinalityType
  <2> QED
    BY <2>1, <2>2, <2>3, Kinds DEF Msgs
<1>9. /\ order \in Seq(Msgs) /\ DOMAIN order = 1..Cardinality(kept) /\ Len(order) = Cardinality(kept)
      /\ \A i \in DOMAIN order : order[i] \in Msgs /\ order[i] \notin Calls
      /\ kept # {} => 1 \in DOMAIN order
  <2>1. order \in [1..Cardinality(kept) -> Msgs] /\ \A i \in DOMAIN order : order[i] \in kept
    BY <1>8
  <2>2. order \in Seq(Msgs)
    <3>1. [1..Cardinality(kept) -> Msgs] \in {[1..n -> Msgs] : n \in Nat}
      BY <1>8
    <3> QED
      BY <2>1, <3>1, SeqDef, Zenon
  <2>3. DOMAIN order = 1..Cardinality(kept)
    BY <2>1
  <2>4. Len(order) = Cardinality(kept)
    BY <1>8, <2>2, <2>3
  <2>5. kept # {} => 1 \in DOMAIN order
    BY <1>8, <2>3
  <2> QED
    BY <1>8, <2>1, <2>2, <2>3, <2>4, <2>5
<1>10. /\ outbox \in Seq(Msgs) /\ Len(outbox) \in Nat /\ DOMAIN outbox = 1..Len(outbox)
       /\ outbox' \in Seq(Msgs)
       /\ DOMAIN outbox' = 1..(Len(outbox) + Len(order)) /\ Len(order) \in Nat
       /\ \A i \in DOMAIN outbox : i \in DOMAIN outbox' /\ outbox'[i] = outbox[i]
       /\ \A i \in DOMAIN outbox' : i \in DOMAIN outbox \/ outbox'[i] \notin Calls
  <2>1. outbox \in Seq(Msgs)
    BY DEF IInv, Types, TypeOK
  <2>2. /\ Len(outbox) \in Nat /\ DOMAIN outbox = 1..Len(outbox)
        /\ outbox' \in Seq(Msgs) /\ DOMAIN outbox' = 1..(Len(outbox) + Len(order)) /\ Len(order) \in Nat
        /\ \A i \in 1..(Len(outbox) + Len(order)) :
             outbox'[i] = IF i <= Len(outbox) THEN outbox[i] ELSE order[i - Len(outbox)]
    BY <1>6, <1>9, <2>1, ConcatProperties
  <2>3. DOMAIN order = 1..Len(order)
    BY <1>9
  <2>4. ASSUME NEW i \in DOMAIN outbox', i \notin DOMAIN outbox PROVE outbox'[i] \notin Calls
    <3>1. i - Len(outbox) \in DOMAIN order /\ outbox'[i] = order[i - Len(outbox)]
      BY <2>2, <2>3, <2>4
    <3> QED
      BY <1>9, <3>1
  <2> QED
    BY <2>1, <2>2, <2>4
<1>11. /\ outbox # <<>> => /\ 1 \in DOMAIN outbox /\ outbox' # <<>> /\ outbox'[1] = outbox[1]
                           /\ writing' = writing /\ header' = header
       /\ outbox = <<>> => writing = <<>> /\ None(ready, Written) /\ DOMAIN outbox = {}
       /\ send => /\ outbox' # <<>> /\ outbox'[1] = order[1] /\ writing' = <<order[1]>>
                  /\ header' = order[1] /\ order[1] \in Msgs
       /\ ~send => writing' = writing /\ header' = header
  <2>1. outbox # <<>> => /\ 1 \in DOMAIN outbox /\ outbox' # <<>> /\ outbox'[1] = outbox[1]
                         /\ writing' = writing /\ header' = header
    <3>1. outbox # <<>> => 1 \in DOMAIN outbox
      BY <1>10, EmptySeq
    <3>2. DOMAIN <<>> = {}
      OBVIOUS
    <3> QED
      BY <1>6, <1>10, <3>1, <3>2
  <2>2. outbox = <<>> => writing = <<>> /\ None(ready, Written) /\ DOMAIN outbox = {}
    BY <1>3 DEF IInv, Writes
  <2>3. ASSUME send
        PROVE  /\ outbox' # <<>> /\ outbox'[1] = order[1] /\ writing' = <<order[1]>>
               /\ header' = order[1] /\ order[1] \in Msgs
    <3>1. writing' = <<order[1]>> /\ header' = order[1] /\ order[1] \in Msgs
      BY <1>6, <1>9, <2>2, <2>3
    <3>2. outbox' = order
      BY <1>6, <1>9, <2>3, ConcatEmptySeq
    <3>3. order # <<>>
      BY <1>9, <2>3
    <3> QED
      BY <3>1, <3>2, <3>3
  <2> QED
    BY <1>6, <2>1, <2>2, <2>3
<1> HIDE DEF head
<1>12. Types'
  <2>1. reading' \in Seq([op : {"head", "body"}, msg : Replies \union {NoMsg}])
    BY <1>7 DEF head, Op
  <2>2. header' \in Msgs \union {NoMsg} /\ writing' \in Seq(Msgs)
    <3>1. CASE send
      <4>1. header' \in Msgs /\ writing' = <<header'>>
        BY <1>11, <3>1
      <4> HIDE DEF send
      <4> QED
        BY <4>1
    <3>2. CASE ~send
      BY <1>11, <3>2 DEF IInv, Types, TypeOK
    <3> QED
      BY <3>1, <3>2
  <2>3. UNCHANGED <<pending, late, kept, crashed, pc, conn, cpc, sent, result, answers, faults>>
    BY <1>1 DEF maps
  <2> HIDE DEF send
  <2> QED
    BY <1>2, <1>6, <1>10, <2>1, <2>2, <2>3 DEF IInv, Types, TypeOK, Completed
<1>13. \A x \in Elements(ready) : x.op \notin {"head", "body"}
  <2>1. Elements(ready) \subseteq Completed
    BY ReadyType DEF IInv, Types, Elements
  <2> QED
    BY <1>4, <2>1 DEF None, Reads
<1>14. Sockets'
  <2>1. \A x \in Elements(q) : x.op # "connect"
    <3>1. Elements(q) \subseteq Completed
      BY <1>2 DEF Elements
    <3> QED
      BY <1>2, <3>1 DEF None, Connects
  <2> QED
    BY <1>1, <1>2, <1>3, <1>6, <2>1 DEF IInv, Sockets
<1>15. Writes'
  <2>1. CASE outbox # <<>>
    BY <1>2, <1>6, <1>11, <2>1 DEF IInv, Writes
  <2>2. CASE send
    BY <1>2, <1>3, <1>6, <1>11, <2>2 DEF IInv, Writes
  <2>3. CASE outbox = <<>> /\ ~send
    BY <1>2, <1>3, <1>6, <1>11, <2>3 DEF IInv, Writes
  <2> QED
    BY <2>1, <2>2, <2>3
<1>16. Reading'
  <2>1. None(q, Reads) /\ head \in ReadOps
    BY <1>2, <1>4 DEF head, ReadOps
  <2>2. cpc'["io"] \notin Failing
    BY <1>1 DEF Failing
  <2> QED
    BY <1>1, <1>2, <1>3, <1>6, <1>7, <1>13, <2>1, <2>2 DEF Reading
<1>17. Replying'
  <2>1. \A c \in Calls : ~InRead(c)'
    <3>1. \A c \in Calls : <<head>> # <<Op("body", c)>>
      <4>1. \A c \in Calls : head # Op("body", c)
        BY DEF head, Op
      <4> QED
        BY <4>1
    <3> QED
      BY <1>2, <1>6, <1>7, <1>13, <3>1 DEF InRead
  <2> QED
    BY <1>1, <1>6, <2>1 DEF IInv, Replying, maps
<1>18. ~Erred /\ (Alive' <=> Alive)
  BY <1>1, <1>2, <1>6 DEF Erred, Alive
<1>19. Calling'
  BY <1>1, <1>18, CallingFrame DEF IInv, maps
<1>20. Outboxed'
  <2>1. ASSUME NEW i \in DOMAIN outbox', outbox'[i] \in Calls
        PROVE  i \in DOMAIN outbox /\ outbox'[i] = outbox[i] /\ writing' = writing
    BY <1>10, <1>11, <2>1
  <2>2. UNCHANGED <<pc, result, sent>>
    BY <1>1
  <2>3. \A i \in DOMAIN outbox' : outbox'[i] \in Calls =>
          /\ pc'[outbox'[i]] = "done" /\ result'[outbox'[i]] # "notConnected"
          /\ Alive' /\ sent'[outbox'[i]] = 1 => i = 1 /\ writing' = <<>>
    BY <1>18, <2>1, <2>2 DEF IInv, Outboxed
  <2>4. \A i, j \in DOMAIN outbox' : outbox'[i] \in Calls /\ outbox'[i] = outbox'[j] => i = j
    <3> SUFFICES ASSUME NEW i \in DOMAIN outbox', NEW j \in DOMAIN outbox', outbox'[i] \in Calls,
                        outbox'[i] = outbox'[j]
                 PROVE  i = j
      OBVIOUS
    <3>1. i \in DOMAIN outbox /\ outbox'[i] = outbox[i] /\ j \in DOMAIN outbox /\ outbox'[j] = outbox[j]
      BY <2>1
    <3> QED
      BY <3>1 DEF IInv, Outboxed
  <2> QED
    BY <2>3, <2>4 DEF Outboxed
<1>21. RepliesExpected'
  BY <1>1 DEF IInv, RepliesExpected
<1> QED
  BY <1>12, <1>14, <1>15, <1>16, <1>17, <1>19, <1>20, <1>21 DEF IInv

\* A write has failed: what is in the outbox stays there.
LEMMA WriteFailedIInv ==
  ASSUME IInv, OnWrite, ~Head(ready).ok
  PROVE  IInv'
<1> USE DEF maps, given, out
<1> DEFINE q == Tail(ready)
<1>1. /\ ready # <<>> /\ connected' = FALSE /\ ready' = q
      /\ cpc' = [cpc EXCEPT !["io"] = "error"]
      /\ UNCHANGED <<out, writing, retries, maps, sock, reading, frame, wire, told, pc, conn,
                     crashed, given, faults>>
  BY DEF OnWrite, Handles
<1>2. /\ q \in Seq(Completed) /\ Elements(q) \subseteq Elements(ready)
      /\ One(q, Connects) /\ One(q, Reads)
      /\ (One(ready, Written) => One(q, Written))
      /\ (None(ready, Connects) => None(q, Connects))
      /\ (None(ready, Reads) => None(q, Reads))
      /\ (None(ready, Written) => None(q, Written))
  BY <1>1, Taken
<1>3. /\ cpc' \in [Closers -> ClosePlaces]
      /\ cpc'["io"] = "error" /\ \A t \in Closers : t # "io" => cpc'[t] = cpc[t]
  BY <1>1 DEF IInv, Types, TypeOK, Closers, ClosePlaces
<1>4. Types'
  BY <1>1, <1>2, <1>3 DEF IInv, Types, TypeOK, Completed
<1>5. Sockets'
  <2>1. \A t \in Closers : cpc'[t] \in Clearing => cpc[t] \in Clearing
    BY <1>3 DEF Clearing
  <2> QED
    BY <1>1, <1>2, <2>1 DEF IInv, Sockets
<1>6. Writes'
  <2>1. ~None(q, Written) => ~None(ready, Written)
    BY <1>2
  <2> QED
    BY <1>1, <1>2, <2>1 DEF IInv, Writes
<1>7. Reading'
  <2>1. cpc'["io"] \notin Failing
    BY <1>3 DEF Failing
  <2> QED
    BY <1>1, <1>2, <2>1 DEF IInv, Reading, Idle
<1>8. Replying'
  <2>1. \A c \in Calls : InRead(c)' => InRead(c)
    BY <1>1, <1>2 DEF InRead
  <2> QED
    BY <1>1, <1>3, <2>1 DEF IInv, Replying, Closers
<1>9. Calling' /\ Outboxed'
  BY <1>1, <1>2, CallingFrame, OutboxedFrame DEF IInv, Alive, Erred, Idle
<1>10. RepliesExpected'
  BY <1>1, <1>3 DEF IInv, RepliesExpected, Closers
<1> QED
  BY <1>4, <1>5, <1>6, <1>7, <1>8, <1>9, <1>10 DEF IInv

\* A write has succeeded: its message is popped and the next one is written.
LEMMA WrittenIInv ==
  ASSUME IInv, OnWrite, Head(ready).ok
  PROVE  IInv'
<1> USE DEF maps, given, link
<1> DEFINE q == Tail(ready)
           m == outbox[2]
           x == Done(Op("write", m), FALSE)
<1>1. /\ ready # <<>> /\ Head(ready).op = "write" /\ cpc["io"] = "idle"
      /\ outbox' = (IF outbox = <<>> THEN <<>> ELSE Tail(outbox)) /\ WriteNext
      /\ UNCHANGED <<link, maps, sock, reading, frame, wire, told, pc, conn, cpc, crashed,
                     given, faults>>
  BY DEF OnWrite, Handles, IoFree
<1>2. /\ q \in Seq(Completed) /\ Elements(q) \subseteq Elements(ready)
      /\ One(q, Connects) /\ One(q, Reads)
      /\ (One(ready, Written) => One(q, Written) /\ None(q, Written))
      /\ (None(ready, Connects) => None(q, Connects))
      /\ (None(ready, Reads) => None(q, Reads))
      /\ ~None(ready, Written) /\ Head(ready) \in Elements(ready)
  BY <1>1, Taken
<1>3. /\ conn # "no" /\ writing = <<>>
      /\ sock # "closed" => One(ready, Written) /\ outbox # <<>>
  BY <1>2 DEF IInv, Sockets, Writes
<1>4. /\ outbox \in Seq(Msgs) /\ Len(outbox) \in Nat /\ DOMAIN outbox = 1..Len(outbox)
      /\ outbox' \in Seq(Msgs)
      /\ \A i \in DOMAIN outbox' : i \in Nat /\ i + 1 \in DOMAIN outbox /\ outbox'[i] = outbox[i + 1]
      /\ Len(outbox) > 1 => outbox' # <<>> /\ outbox'[1] = m /\ m \in Msgs
  <2>1. outbox \in Seq(Msgs)
    BY DEF IInv, Types, TypeOK
  <2>2. CASE outbox = <<>>
    BY <1>1, <2>1, <2>2
  <2>3. CASE outbox # <<>>
    <3>1. /\ outbox' \in Seq(Msgs) /\ Len(outbox) \in Nat /\ DOMAIN outbox = 1..Len(outbox)
          /\ Len(outbox) > 0 /\ DOMAIN outbox' = 1..(Len(outbox) - 1)
          /\ \A i \in 1..(Len(outbox) - 1) : outbox'[i] = outbox[i + 1]
      BY <1>1, <2>1, <2>3, HeadTailProperties, EmptySeq
    <3>2. Len(outbox) > 1 => 1 \in DOMAIN outbox' /\ outbox'[1] = outbox[2] /\ outbox[2] \in Msgs
      BY <2>1, <3>1
    <3>3. DOMAIN <<>> = {}
      OBVIOUS
    <3> QED
      BY <2>1, <3>1, <3>2, <3>3
  <2> QED
    BY <2>2, <2>3
<1>5. \/ /\ Len(outbox) > 1 /\ CanWait /\ header' = m /\ writing' = <<m>> /\ ready' = q
      \/ /\ Len(outbox) > 1 /\ ~CanWait /\ header' = m /\ writing' = <<>> /\ ready' = Append(q, x)
      \/ header' = header /\ writing' = <<>> /\ ready' = q
  <2>1. Append(writing, m) = <<m>>
    BY <1>3
  <2> QED
    BY <1>1, <1>3, <2>1 DEF WriteNext, StartWrite
<1>6. Len(outbox) > 1 => x \in Completed /\ x.op = "write" /\ ~x.ok
  BY <1>4 DEF Done, Op, Completed
<1> HIDE DEF x, m
<1>7. /\ ready' \in Seq(Completed)
      /\ \A y \in Elements(ready') : y \in Elements(ready) \/ (y.op = "write" /\ ~y.ok)
      /\ One(ready', Connects) /\ One(ready', Reads)
      /\ (None(ready, Connects) => None(ready', Connects))
      /\ (None(ready, Reads) => None(ready', Reads))
      /\ (sock # "closed" => One(ready', Written) /\ None(ready', Written))
  <2>1. CASE ready' = q
    <3>1. Elements(ready') \subseteq Elements(ready)
      BY <1>2, <2>1
    <3>2. sock # "closed" => One(ready', Written) /\ None(ready', Written)
      BY <1>2, <1>3, <2>1
    <3> QED
      BY <1>2, <2>1, <3>1, <3>2
  <2>2. CASE ready' = Append(q, x) /\ Len(outbox) > 1
    <3>1. Elements(ready') = Elements(q) \cup {x}
      BY <1>2, <1>6, <2>2, Pushed
    <3>2. \A y \in Elements(ready') : y \in Elements(ready) \/ (y.op = "write" /\ ~y.ok)
      BY <1>2, <1>6, <2>2, <3>1
    <3>3. sock # "closed" => One(ready', Written) /\ None(ready', Written)
      BY <1>2, <1>3, <1>6, <2>2, Pushed
    <3> QED
      BY <1>2, <1>6, <2>2, <3>2, <3>3, Pushed
  <2> QED
    BY <1>5, <2>1, <2>2
<1>8. Types'
  <2>1. header' \in Msgs \union {NoMsg} /\ writing' \in Seq(Msgs)
    <3>1. CASE Len(outbox) > 1 /\ header' = m /\ writing' = <<m>>
      BY <1>4, <3>1
    <3>2. CASE writing' = <<>>
      BY <1>4, <1>5, <3>2 DEF IInv, Types, TypeOK
    <3> QED
      BY <1>5, <3>1, <3>2
  <2> QED
    BY <1>1, <1>4, <1>7, <2>1 DEF IInv, Types, TypeOK, Completed
<1>9. Sockets'
  <2>1. sock = "closed" => writing' = <<>>
    BY <1>5 DEF CanWait
  <2>2. \A y \in Elements(ready') : y.op = "connect" => y \in Elements(ready)
    BY <1>7
  <2> QED
    BY <1>1, <1>3, <1>7, <2>1, <2>2 DEF IInv, Sockets
<1>10. Writes'
  <2>1. CASE Len(outbox) > 1 /\ CanWait /\ header' = m /\ writing' = <<m>> /\ ready' = q
    <3>1. sock # "closed" /\ writing' = <<outbox'[1]>> /\ header' = outbox'[1] /\ outbox' # <<>>
      BY <1>4, <2>1 DEF CanWait
    <3> QED
      BY <1>1, <1>7, <3>1 DEF Writes
  <2>2. CASE writing' = <<>>
    BY <1>1, <1>7, <2>2 DEF Writes
  <2> QED
    BY <1>5, <2>1, <2>2
<1>11. Reading'
  <2>1. cpc'["io"] \notin Failing
    BY <1>1 DEF Failing
  <2>2. \A y \in Elements(ready') : y.op \in {"head", "body"} => y \in Elements(ready)
    BY <1>7
  <2>3. Idle => Idle'
    BY <1>1, <1>7 DEF Idle
  <2> QED
    BY <1>1, <1>7, <2>1, <2>2, <2>3 DEF IInv, Reading
<1>12. Replying'
  <2>1. \A c \in Calls : InRead(c)' => InRead(c)
    BY <1>1, <1>7 DEF InRead
  <2> QED
    BY <1>1, <2>1 DEF IInv, Replying
<1>13. (Alive' <=> Alive) /\ (Erred => Erred')
  BY <1>1, <1>7 DEF Alive, Erred, Idle
<1>14. Calling'
  BY <1>1, <1>13, CallingFrame DEF IInv
<1>15. Outboxed'
  <2>1. ASSUME NEW i \in DOMAIN outbox', outbox'[i] \in Calls
        PROVE  /\ pc'[outbox'[i]] = "done" /\ result'[outbox'[i]] # "notConnected"
               /\ ~(Alive' /\ sent'[outbox'[i]] = 1)
    <3>1. i + 1 \in DOMAIN outbox /\ i + 1 # 1 /\ outbox'[i] = outbox[i + 1]
      <4>1. i \in DOMAIN outbox' /\ i \in Nat /\ i + 1 \in DOMAIN outbox /\ outbox'[i] = outbox[i + 1]
        BY <1>4
      <4>2. i # 0
        <5>1. \A j \in DOMAIN outbox' : j \in 1..Len(outbox')
          BY <1>4
        <5> QED
          BY <5>1
      <4> QED
        BY <4>1, <4>2
    <3> QED
      BY <1>1, <1>13, <2>1, <3>1 DEF IInv, Outboxed
  <2>2. ASSUME NEW i \in DOMAIN outbox', NEW j \in DOMAIN outbox', outbox'[i] \in Calls, outbox'[i] = outbox'[j]
        PROVE  i = j
    <3>1. /\ i + 1 \in DOMAIN outbox /\ outbox'[i] = outbox[i + 1] /\ i \in Nat
          /\ j + 1 \in DOMAIN outbox /\ outbox'[j] = outbox[j + 1] /\ j \in Nat
      BY <1>4
    <3>2. i + 1 = j + 1
      BY <2>2, <3>1 DEF IInv, Outboxed
    <3> QED
      BY <3>1, <3>2
  <2> QED
    BY <2>1, <2>2 DEF Outboxed
<1>16. RepliesExpected'
  BY <1>1 DEF IInv, RepliesExpected
<1> QED
  BY <1>8, <1>9, <1>10, <1>11, <1>12, <1>14, <1>15, <1>16 DEF IInv

\* The handler of a read runs: it was the only read, and nothing has failed before.
LEMMA ReadTaken ==
  ASSUME IInv, ready # <<>>, Head(ready).op \in {"head", "body"}
  PROVE  /\ reading = <<>> /\ conn # "no" /\ sock \in {"up", "broken", "closed"} /\ ~Erred
         /\ cpc["io"] \notin Failing
         /\ Head(ready).msg \in IF Head(ready).op = "body" \/ Head(ready).ok THEN Replies ELSE {NoMsg}
         /\ Head(ready).ok \in BOOLEAN /\ (Head(ready).ok \/ sock \in {"broken", "closed"})
         /\ Tail(ready) \in Seq(Completed) /\ Elements(Tail(ready)) \subseteq Elements(ready)
         /\ \A x \in Elements(Tail(ready)) : x.op \notin {"head", "body"}
         /\ One(Tail(ready), Connects) /\ None(Tail(ready), Connects)
         /\ One(Tail(ready), Reads) /\ None(Tail(ready), Reads)
         /\ One(ready, Written) => One(Tail(ready), Written)
         /\ None(ready, Written) => None(Tail(ready), Written)
         /\ \A c \in Calls : Head(ready).msg = c => InRead(c)
<1>1. /\ Head(ready) \in Completed /\ Head(ready) \in Elements(ready)
      /\ Tail(ready) \in Seq(Completed) /\ Elements(Tail(ready)) \subseteq Elements(ready)
      /\ One(Tail(ready), Connects) /\ One(Tail(ready), Reads) /\ None(Tail(ready), Reads)
      /\ ~None(ready, Reads)
      /\ None(ready, Connects) => None(Tail(ready), Connects)
      /\ One(ready, Written) => One(Tail(ready), Written)
      /\ None(ready, Written) => None(Tail(ready), Written)
  BY Taken
<1>2. ~Idle
  BY <1>1 DEF Idle
<1>3. /\ reading = <<>> /\ conn # "no" /\ sock \in {"up", "broken", "closed"} /\ None(ready, Connects)
      /\ cpc["io"] \notin Failing
      /\ Head(ready).msg \in IF Head(ready).op = "body" \/ Head(ready).ok THEN Replies ELSE {NoMsg}
      /\ Head(ready).ok \/ sock \in {"broken", "closed"}
  BY <1>1, <1>2 DEF IInv, Reading
<1>4. \A x \in Elements(Tail(ready)) : x.op \notin {"head", "body"}
  <2>1. Elements(Tail(ready)) \subseteq Completed
    BY <1>1 DEF Elements
  <2> QED
    BY <1>1, <2>1 DEF None, Reads
<1>5. \A c \in Calls : Head(ready).msg = c => InRead(c)
  BY <1>1 DEF InRead
<1>6. Head(ready).ok \in BOOLEAN
  BY <1>1 DEF Completed
<1>7. ~Erred
  BY <1>2 DEF Erred
<1> QED
  BY <1>1, <1>3, <1>4, <1>5, <1>6, <1>7

\* The head of a reply has been read, or could not be: every callback that waits is
\* told, once.
LEMMA OnHeadIInv ==
  ASSUME IInv, OnHead
  PROVE  /\ IInv'
         /\ \/ UNCHANGED <<result, answers>>
            \/ /\ \A c \in pending \cap Callbacks : result[c] = "none"
               /\ result' = [d \in Calls |-> IF d \in pending \cap Callbacks THEN "error" ELSE result[d]]
               /\ answers' = [d \in Calls |-> IF d \in pending \cap Callbacks THEN answers[d] + 1
                                                                          ELSE answers[d]]
<1> USE DEF out, maps
<1> DEFINE q == Tail(ready)
           m == Head(ready).msg
           body == Op("body", m)
           Told == /\ result' = [d \in Calls |-> IF d \in pending \cap Callbacks THEN "error" ELSE result[d]]
                   /\ answers' = [d \in Calls |-> IF d \in pending \cap Callbacks THEN answers[d] + 1
                                                                              ELSE answers[d]]
<1>1. /\ ready # <<>> /\ Head(ready).op = "head"
      /\ UNCHANGED <<retries, out, maps, sock, writing, frame, wire, told, pc, conn, crashed,
                     sent, faults>>
  BY DEF OnHead, Handles
<1>2. /\ reading = <<>> /\ conn # "no" /\ sock \in {"up", "broken", "closed"} /\ ~Erred
      /\ m \in IF Head(ready).ok THEN Replies ELSE {NoMsg}
      /\ Head(ready).ok \/ sock \in {"broken", "closed"}
      /\ q \in Seq(Completed) /\ Elements(q) \subseteq Elements(ready)
      /\ \A x \in Elements(q) : x.op \notin {"head", "body"}
      /\ One(q, Connects) /\ None(q, Connects) /\ One(q, Reads) /\ None(q, Reads)
      /\ One(ready, Written) => One(q, Written)
      /\ None(ready, Written) => None(q, Written)
      /\ \A c \in Calls : m = c => InRead(c)
      /\ cpc["io"] \notin Failing
  BY <1>1, ReadTaken
<1>3. \/ /\ sock = "closed" /\ connected' = FALSE /\ ready' = q
         /\ UNCHANGED <<reading, cpc, result, answers>>
      \/ /\ sock # "closed" /\ Head(ready).ok /\ reading' = <<body>> /\ ready' = q
         /\ UNCHANGED <<connected, cpc, result, answers>>
      \/ /\ sock = "broken" /\ Told /\ ready' = q /\ cpc' = [cpc EXCEPT !["io"] = "close"]
         /\ UNCHANGED <<connected, reading>>
  <2>1. CanWait \/ sock = "closed"
    BY <1>2 DEF CanWait
  <2>2. Append(reading, body) = <<body>>
    BY <1>2
  <2> QED
    BY <1>2, <2>1, <2>2 DEF OnHead, StartRead, Answer
<1> HIDE DEF q, m, body
<1>4. ready' = q
  BY <1>3
<1>5. /\ cpc' \in [Closers -> ClosePlaces]
      /\ cpc'["user"] = cpc["user"] /\ \A t \in Closers : cpc'[t] \in Clearing => cpc[t] \in Clearing
      /\ connected' => connected
  BY <1>3 DEF IInv, Types, TypeOK, Closers, Clearing, ClosePlaces
<1>6. /\ \A c \in pending \cap Callbacks : result[c] = "none"
      /\ \A c \in Calls : \/ result'[c] = result[c]
                          \/ c \in pending \cap Callbacks /\ result'[c] = "error" /\ sock = "broken"
  <2>1. \A c \in pending \cap Callbacks : result[c] = "none"
    BY <1>2, Kinds DEF IInv, Calling
  <2> QED
    BY <1>3, <2>1
<1>7. Types'
  <2>1. result' \in [Calls -> Results] /\ answers' \in [Calls -> Nat]
    <3>1. result \in [Calls -> Results] /\ answers \in [Calls -> Nat]
      BY DEF IInv, Types, TypeOK
    <3>2. Told \/ UNCHANGED <<result, answers>>
      BY <1>3
    <3> QED
      BY <3>1, <3>2 DEF Results
  <2>2. reading' \in Seq([op : {"head", "body"}, msg : Replies \union {NoMsg}])
    <3>1. CASE Head(ready).ok /\ reading' = <<body>>
      <4>1. body \in [op : {"head", "body"}, msg : Replies \union {NoMsg}]
        BY <1>2, <3>1 DEF body, Op
      <4> QED
        BY <3>1, <4>1
    <3>2. CASE reading' = reading
      BY <3>2 DEF IInv, Types, TypeOK
    <3> QED
      BY <1>3, <3>1, <3>2
  <2>3. connected' \in BOOLEAN
    BY <1>3 DEF IInv, Types, TypeOK
  <2> QED
    BY <1>1, <1>2, <1>4, <1>5, <2>1, <2>2, <2>3 DEF IInv, Types, TypeOK, Completed, ClosePlaces
<1>8. Sockets'
  <2>1. sock = "closed" => reading' = <<>>
    BY <1>2, <1>3
  <2>2. \A x \in Elements(q) : x.op = "connect" => ~connected' /\ sock \in IF x.ok THEN {"up", "broken"} ELSE {"open"}
    BY <1>2, <1>5 DEF IInv, Sockets
  <2> QED
    BY <1>1, <1>2, <1>4, <1>5, <2>1, <2>2 DEF IInv, Sockets
<1>9. Writes'
  BY <1>1, <1>2, <1>4 DEF IInv, Writes
<1>10. Reading'
  <2>1. CASE reading' = <<body>> /\ Head(ready).ok /\ UNCHANGED cpc
    <3>1. body \in ReadOps
      BY <1>2, <2>1 DEF body, ReadOps
    <3> QED
      BY <1>1, <1>2, <1>4, <2>1, <3>1 DEF Reading
  <2>2. CASE UNCHANGED reading
    BY <1>1, <1>2, <1>4, <2>2 DEF Reading, Idle
  <2> QED
    BY <1>3, <2>1, <2>2
<1>11. Replying'
  <2>1. \A c \in Calls : InRead(c)' => InRead(c)
    <3> SUFFICES ASSUME NEW c \in Calls, InRead(c)' PROVE InRead(c)
      OBVIOUS
    <3>1. reading' = <<Op("body", c)>>
      BY <1>2, <1>4 DEF InRead
    <3>2. reading' = <<body>>
      BY <1>2, <1>3, <3>1
    <3>3. body = Op("body", c)
      BY <3>1, <3>2, Single
    <3>4. m = c
      BY <3>3 DEF body, Op
    <3> QED
      BY <1>2, <3>4
  <2> QED
    BY <1>1, <1>5, <2>1 DEF IInv, Replying
<1>12. Calling'
  <2>1. CASE UNCHANGED result
    BY <1>1, <1>2, <2>1, CallingFrame DEF IInv, Alive
  <2>2. CASE sock = "broken" /\ UNCHANGED reading
    <3>1. Erred' /\ ~Alive'
      BY <1>1, <1>2, <1>4, <2>2 DEF Erred, Alive, Idle
    <3> SUFFICES ASSUME NEW c \in Calls
                 PROVE  /\ sent'[c] \in 0..1 /\ (sent'[c] = 1 => pc'[c] = "done")
                        /\ pc'[c] \in {"idle", "checked"} => result'[c] = "none"
                        /\ result'[c] = "notConnected" => pc'[c] = "done"
                        /\ c \in pending' => /\ pc'[c] \in {"registered", "done"}
                                             /\ result'[c] = "none" \/ c \in Callbacks
      BY <3>1 DEF Calling
    <3> QED
      BY <1>1, <1>2, <1>6 DEF IInv, Calling
  <2> QED
    BY <1>3, <2>1, <2>2
<1>13. Outboxed'
  <2>1. Alive' => Alive
    BY <1>1 DEF Alive
  <2>2. \A i \in DOMAIN outbox : outbox[i] \in Calls =>
          /\ pc'[outbox[i]] = "done" /\ result'[outbox[i]] # "notConnected"
          /\ Alive' /\ sent'[outbox[i]] = 1 => i = 1 /\ writing' = <<>>
    BY <1>1, <1>6, <2>1 DEF IInv, Outboxed
  <2> QED
    BY <1>1, <2>2 DEF IInv, Outboxed
<1>14. RepliesExpected'
  BY <1>1, <1>5 DEF IInv, RepliesExpected
<1>15. UNCHANGED <<result, answers>> \/ Told
  BY <1>3
<1> QED
  BY <1>6, <1>7, <1>8, <1>9, <1>10, <1>11, <1>12, <1>13, <1>14, <1>15 DEF IInv

\* The body of a reply has been read, or could not be: its call gets its one answer.
LEMMA OnBodyIInv ==
  ASSUME IInv, OnBody
  PROVE  /\ IInv'
         /\ \/ UNCHANGED <<result, answers>>
            \/ \E c \in Calls, r \in {"reply", "error", "timeout"} :
                 /\ result[c] = "none" /\ sent[c] = 1
                 /\ result' = [d \in Calls |-> IF d \in {c} THEN r ELSE result[d]]
                 /\ answers' = [d \in Calls |-> IF d \in {c} THEN answers[d] + 1 ELSE answers[d]]
<1> USE DEF out
<1> DEFINE q == Tail(ready)
           m == Head(ready).msg
           head == Op("head", NoMsg)
<1>1. /\ ready # <<>> /\ Head(ready).op = "body"
      /\ UNCHANGED <<retries, out, late, kept, sock, writing, frame, wire, told, pc, conn, sent,
                     faults>>
  BY DEF OnBody, Handles
<1>2. /\ reading = <<>> /\ conn # "no" /\ sock \in {"up", "broken", "closed"} /\ ~Erred
      /\ m \in Replies
      /\ q \in Seq(Completed) /\ Elements(q) \subseteq Elements(ready)
      /\ \A x \in Elements(q) : x.op \notin {"head", "body"}
      /\ One(q, Connects) /\ None(q, Connects) /\ One(q, Reads) /\ None(q, Reads)
      /\ One(ready, Written) => One(q, Written)
      /\ None(ready, Written) => None(q, Written)
      /\ \A c \in Calls : m = c => InRead(c)
      /\ cpc["io"] \notin Failing
  BY <1>1, ReadTaken
<1>3. \/ /\ ready' = q /\ UNCHANGED <<connected, reading, cpc>>
      \/ /\ sock # "closed" /\ reading' = <<head>> /\ ready' = q /\ UNCHANGED <<connected, cpc>>
      \/ /\ connected' = FALSE /\ ready' = q
         /\ cpc' = [cpc EXCEPT !["io"] = "error"] /\ UNCHANGED reading
  <2>1. CanWait \/ sock = "closed"
    BY <1>2 DEF CanWait
  <2>2. Append(reading, head) = <<head>>
    BY <1>2
  <2> QED
    BY <2>1, <2>2 DEF OnBody, StartRead
<1>4. \/ UNCHANGED <<pending, result, answers, crashed>>
      \/ /\ m \in pending /\ pending' = pending \ {m} /\ crashed' = crashed
         /\ \E r \in {"reply", "error", "timeout"} :
              /\ result' = [d \in Calls |-> IF d \in {m} THEN r ELSE result[d]]
              /\ answers' = [d \in Calls |-> IF d \in {m} THEN answers[d] + 1 ELSE answers[d]]
      \/ /\ m \notin pending /\ crashed' = m /\ UNCHANGED <<pending, result, answers>>
  <2>1. CASE UNCHANGED <<pending, result, answers, crashed>>
    BY <2>1
  <2>2. ASSUME NEW ok \in BOOLEAN, CallBack(m, ok), m \in pending
        PROVE  /\ pending' = pending \ {m} /\ crashed' = crashed
               /\ \E r \in {"reply", "error", "timeout"} :
                    /\ result' = [d \in Calls |-> IF d \in {m} THEN r ELSE result[d]]
                    /\ answers' = [d \in Calls |-> IF d \in {m} THEN answers[d] + 1 ELSE answers[d]]
    <3> DEFINE res == [d \in Calls |-> IF d \in late THEN "timeout" ELSE IF ok THEN "reply" ELSE "error"]
    <3>1. pending' = pending \ {m} /\ crashed' = crashed /\ Answer({m}, res)
      BY <2>2 DEF CallBack
    <3>2. m \in Calls /\ res[m] \in {"reply", "error", "timeout"}
      BY <2>2 DEF IInv, Types, TypeOK
    <3>3. \A d \in {m} : res[d] = res[m]
      OBVIOUS
    <3> HIDE DEF res
    <3>4. result' = [d \in Calls |-> IF d \in {m} THEN res[m] ELSE result[d]]
      BY <3>1, <3>3 DEF Answer
    <3> QED
      BY <3>1, <3>2, <3>4 DEF Answer
  <2>3. ASSUME NEW ok \in BOOLEAN, CallBack(m, ok), m \notin pending
        PROVE  crashed' = m /\ UNCHANGED <<pending, result, answers>>
    BY <2>3 DEF CallBack
  <2>4. \/ UNCHANGED <<pending, result, answers, crashed>>
        \/ \E ok \in BOOLEAN : CallBack(m, ok)
    <3>1. (Head(ready).ok /\ sock # "closed") \in BOOLEAN
      OBVIOUS
    <3> QED
      BY <3>1 DEF OnBody
  <2> QED
    BY <2>1, <2>2, <2>3, <2>4
<1> HIDE DEF q, m, head
<1>5. /\ ready' = q /\ connected' \in {connected, FALSE}
      /\ reading' \in {<<>>, <<head>>} /\ (sock = "closed" => reading' = <<>>)
  BY <1>2, <1>3
<1>6. /\ cpc' \in [Closers -> ClosePlaces]
      /\ cpc'["user"] = cpc["user"] /\ \A t \in Closers : cpc'[t] \in Clearing => cpc[t] \in Clearing
      /\ cpc'["io"] \notin Failing
  BY <1>2, <1>3 DEF IInv, Types, TypeOK, Closers, Clearing, Failing, ClosePlaces
<1>7. /\ pending \in SUBSET Calls /\ result \in [Calls -> Results] /\ answers \in [Calls -> Nat]
      /\ m \in Calls => InRead(m) /\ sent[m] = 1 /\ pc[m] = "done" /\ m \notin wire
                        /\ (cpc["user"] = "idle" => m \in pending)
      /\ m \in pending => m \in Calls /\ result[m] = "none"
  <2>1. pending \in SUBSET Calls /\ result \in [Calls -> Results] /\ answers \in [Calls -> Nat]
    BY DEF IInv, Types, TypeOK
  <2>2. m \in Calls => InRead(m) /\ sent[m] = 1 /\ m \notin wire /\ (cpc["user"] = "idle" => m \in pending)
    BY <1>2 DEF IInv, Replying
  <2>3. m \in Calls => (sent[m] = 1 => pc[m] = "done")
    BY DEF IInv, Calling
  <2>4. m \in pending => m \in Calls /\ result[m] = "none"
    BY <1>2, <2>1 DEF IInv, Calling
  <2> QED
    BY <2>1, <2>2, <2>3, <2>4
<1>8. /\ \A d \in Calls : d # m => result'[d] = result[d] /\ (d \in pending' <=> d \in pending)
      /\ \/ UNCHANGED <<pending, result>>
         \/ m \in pending /\ m \notin pending' /\ result'[m] \in {"reply", "error", "timeout"}
      /\ pending' \subseteq pending
  <2>1. CASE UNCHANGED <<pending, result>>
    BY <2>1
  <2>2. ASSUME m \in pending, pending' = pending \ {m}, NEW r \in {"reply", "error", "timeout"},
               result' = [d \in Calls |-> IF d \in {m} THEN r ELSE result[d]]
        PROVE  /\ \A d \in Calls : d # m => result'[d] = result[d] /\ (d \in pending' <=> d \in pending)
               /\ m \notin pending' /\ result'[m] \in {"reply", "error", "timeout"}
    BY <1>7, <2>2
  <2> QED
    BY <1>4, <2>1, <2>2
<1>9. Types'
  <2>1. result' \in [Calls -> Results] /\ answers' \in [Calls -> Nat]
    BY <1>4, <1>7 DEF Results
  <2>2. reading' \in Seq([op : {"head", "body"}, msg : Replies \union {NoMsg}])
    <3>1. head \in [op : {"head", "body"}, msg : Replies \union {NoMsg}]
      BY DEF head, Op
    <3>2. /\ <<>> \in Seq([op : {"head", "body"}, msg : Replies \union {NoMsg}])
          /\ <<head>> \in Seq([op : {"head", "body"}, msg : Replies \union {NoMsg}])
      BY <3>1
    <3> QED
      BY <1>5, <3>2
  <2>3. connected' \in BOOLEAN /\ crashed' \in Replies \union {NoMsg} /\ pending' \subseteq Calls
    BY <1>2, <1>4, <1>5, <1>7, <1>8 DEF IInv, Types, TypeOK
  <2> QED
    BY <1>1, <1>2, <1>5, <1>6, <2>1, <2>2, <2>3 DEF IInv, Types, TypeOK, Completed, ClosePlaces
<1>10. Sockets'
  <2>1. \A x \in Elements(q) : x.op = "connect" => ~connected' /\ sock \in IF x.ok THEN {"up", "broken"} ELSE {"open"}
    BY <1>2, <1>5 DEF IInv, Sockets
  <2>2. connected' => connected
    BY <1>5
  <2> QED
    BY <1>1, <1>2, <1>5, <1>6, <2>1, <2>2 DEF IInv, Sockets
<1>11. Writes'
  BY <1>1, <1>2, <1>5 DEF IInv, Writes
<1>12. Reading'
  <2>1. head \in ReadOps
    BY DEF head, ReadOps
  <2> QED
    BY <1>1, <1>2, <1>5, <1>6, <2>1 DEF Reading, Idle
<1>13. Replying'
  <2>1. \A c \in Calls : ~InRead(c)'
    <3> SUFFICES ASSUME NEW c \in Calls, InRead(c)' PROVE FALSE
      OBVIOUS
    <3>1. reading' = <<Op("body", c)>>
      BY <1>2, <1>5 DEF InRead
    <3>2. reading' = <<head>>
      BY <1>5, <3>1
    <3>3. head = Op("body", c)
      BY <3>1, <3>2, Single
    <3> QED
      BY <3>3 DEF head, Op
  <2>2. ASSUME NEW c \in Calls, c \in wire
        PROVE  sent[c] = 1 /\ (cpc["user"] = "idle" => c \in pending')
    <3>1. c # m
      BY <1>7, <2>2
    <3> QED
      BY <1>8, <2>2, <3>1 DEF IInv, Replying
  <2> QED
    BY <1>1, <1>6, <2>1, <2>2 DEF Replying
<1>14. Calling'
  <2>1. Alive' <=> Alive
    BY <1>1 DEF Alive
  <2> SUFFICES ASSUME NEW c \in Calls
               PROVE  /\ sent'[c] \in 0..1 /\ (sent'[c] = 1 => pc'[c] = "done")
                      /\ pc'[c] \in {"idle", "checked"} => result'[c] = "none"
                      /\ result'[c] = "notConnected" => pc'[c] = "done"
                      /\ c \in pending' => pc'[c] \in {"registered", "done"} /\ result'[c] = "none"
                      /\ Alive' /\ pc'[c] \in {"registered", "done"} /\ sent'[c] = 0 =>
                           c \in pending' \/ result'[c] = "notConnected"
    BY DEF Calling
  <2>2. CASE c = m
    BY <1>1, <1>2, <1>7, <1>8, <2>1, <2>2 DEF IInv, Calling
  <2>3. CASE c # m
    BY <1>1, <1>2, <1>8, <2>1, <2>3 DEF IInv, Calling
  <2> QED
    BY <2>2, <2>3
<1>15. Outboxed'
  <2>1. Alive' => Alive
    BY <1>1 DEF Alive
  <2>2. \A c \in Calls : result[c] # "notConnected" => result'[c] # "notConnected"
    BY <1>8
  <2>3. \A i \in DOMAIN outbox : outbox[i] \in Calls =>
          /\ pc'[outbox[i]] = "done" /\ result'[outbox[i]] # "notConnected"
          /\ Alive' /\ sent'[outbox[i]] = 1 => i = 1 /\ writing' = <<>>
    BY <1>1, <2>1, <2>2 DEF IInv, Outboxed
  <2> QED
    BY <1>1, <2>3 DEF IInv, Outboxed
<1>16. RepliesExpected'
  BY <1>4, <1>6, <1>7 DEF IInv, RepliesExpected
<1>17. \/ UNCHANGED <<result, answers>>
       \/ \E c \in Calls, r \in {"reply", "error", "timeout"} :
            /\ result[c] = "none" /\ sent[c] = 1
            /\ result' = [d \in Calls |-> IF d \in {c} THEN r ELSE result[d]]
            /\ answers' = [d \in Calls |-> IF d \in {c} THEN answers[d] + 1 ELSE answers[d]]
  BY <1>4, <1>7
<1> QED
  BY <1>9, <1>10, <1>11, <1>12, <1>13, <1>14, <1>15, <1>16, <1>17 DEF IInv

--------------------------------------------------------------------------------
(* Between the test of has_connected_ and the close of the socket              *)

LEMMA LeavesFrame ==
  ASSUME Leaves, Settled => Settled' /\ (connected' => connected),
         \A t \in Closers : cpc'[t] \in Leaving => cpc'[t] = cpc[t]
  PROVE  Leaves'
<1>1. ASSUME NEW t \in Closers, cpc'[t] \in Leaving
      PROVE  Settled' /\ (connected' => connected) /\ cpc'[t] = cpc[t]
  <2>1. cpc[t] \in Leaving
    BY <1>1
  <2> QED
    BY <1>1, <2>1, LeavesAt
<1>2. ASSUME NEW t \in Closers, cpc'[t] = "closeSocket" PROVE ~connected'
  <2>1. cpc'[t] \in Leaving
    BY <1>2 DEF Leaving
  <2> QED
    BY <1>1, <1>2, <2>1, LeavesAt
<1> QED
  BY <1>1, <1>2, Zenon DEF Leaves

\* Handlers are taken from the queue and others than connect's are added.
LEMMA SettledFrame ==
  ASSUME Settled, ready \in Seq(Completed),
         NEW q \in Seq(Completed), Elements(q) \subseteq Elements(ready),
         NEW x \in Completed, x.op # "connect",
         ready' \in {q, Append(q, x)},
         conn' # "no", sock' \in {"up", "broken", "closed"}
  PROVE  Settled'
<1>1. None(q, Connects)
  BY DEF Settled, None
<1>2. None(ready', Connects)
  BY <1>1, Pushed
<1> QED
  BY <1>2 DEF Settled

\* The same when nothing is added.
LEMMA SettledRest ==
  ASSUME Settled, Elements(ready') \subseteq Elements(ready),
         conn' # "no", sock' \in {"up", "broken", "closed"}
  PROVE  Settled'
BY DEF Settled, None

LEMMA NotConnecting ==
  ASSUME IInv, Settled, Handles("connect")
  PROVE  FALSE
<1>1. Head(ready) \in Connects /\ Head(ready) \in Elements(ready)
  BY Taken DEF Handles
<1> QED
  BY <1>1 DEF Settled, None

LEMMA SettledReactor ==
  ASSUME IInv, Settled, Reactor
  PROVE  Settled' /\ connected' = connected
<1> USE DEF link, threads
<1>1. ready \in Seq(Completed) /\ sock \in {"up", "broken", "closed"} /\ conn # "no"
  BY ReadyType DEF IInv, Types, Settled
<1>2. ASSUME NEW ok \in BOOLEAN, ConnectDone(ok) PROVE FALSE
  BY <1>1, <1>2 DEF ConnectDone
<1>3. ASSUME NEW ok \in BOOLEAN, WriteDone(ok) PROVE Settled' /\ connected' = connected
  <2> DEFINE x == Done(Op("write", Head(writing)), ok)
  <2>1. x \in Completed /\ x.op # "connect"
    <3>1. Head(writing) \in Msgs
      BY <1>3 DEF WriteDone, IInv, Types, TypeOK
    <3> QED
      BY <3>1 DEF Done, Op, Completed
  <2>2. ready' = Append(ready, x) /\ UNCHANGED <<connected, conn, sock>>
    BY <1>3 DEF WriteDone
  <2> QED
    BY <1>1, <2>1, <2>2, SettledFrame
<1>4. ASSUME HeadDone PROVE Settled' /\ connected' = connected
  <2>1. PICK m \in wire : ready' = Append(ready, Done(Op("head", m), TRUE))
    BY <1>4 DEF HeadDone
  <2>2. Done(Op("head", m), TRUE) \in Completed /\ Done(Op("head", m), TRUE).op # "connect"
    <3>1. m \in Msgs \union Pubs
      BY DEF IInv, Types, TypeOK, Replies, Msgs
    <3> QED
      BY <3>1 DEF Done, Op, Completed
  <2>3. UNCHANGED <<connected, conn, sock>>
    BY <1>4 DEF HeadDone
  <2> QED
    BY <1>1, <2>1, <2>2, <2>3, SettledFrame
<1>5. ASSUME BodyDone \/ ReadFails PROVE Settled' /\ connected' = connected
  <2>1. PICK ok \in BOOLEAN : ready' = Append(ready, Done(Head(reading), ok))
    BY <1>5 DEF BodyDone, ReadFails
  <2>2. Done(Head(reading), ok) \in Completed /\ Done(Head(reading), ok).op # "connect"
    <3>1. reading # <<>> /\ reading \in Seq([op : {"head", "body"}, msg : Replies \union {NoMsg}])
      BY <1>5 DEF BodyDone, ReadFails, IInv, Types, TypeOK
    <3>2. Head(reading) \in [op : {"head", "body"}, msg : Replies \union {NoMsg}]
      BY <3>1, Removed
    <3> QED
      BY <3>2 DEF Done, Completed, Replies, Msgs
  <2>3. UNCHANGED <<connected, conn, sock>>
    BY <1>5 DEF BodyDone, ReadFails
  <2> QED
    BY <1>1, <2>1, <2>2, <2>3, SettledFrame
<1> QED
  BY <1>2, <1>3, <1>4, <1>5 DEF Reactor

LEMMA SettledHandlers ==
  ASSUME IInv, Settled, OnWrite \/ OnHead \/ OnBody
  PROVE  Settled' /\ (connected' => connected)
<1> DEFINE q == Tail(ready)
<1>1. /\ ready \in Seq(Completed) /\ ready # <<>> /\ q \in Seq(Completed)
      /\ Elements(q) \subseteq Elements(ready) /\ Head(ready) \in Completed
  BY Taken, ReadyType DEF IInv, Types, OnWrite, OnHead, OnBody, Handles
<1> HIDE DEF q
<1>2. UNCHANGED <<sock, conn>> /\ (connected' => connected)
  BY DEF OnWrite, OnHead, OnBody
<1>3. ASSUME ready' = q PROVE Settled'
  BY <1>1, <1>2, <1>3, SettledRest DEF Settled
<1>4. ASSUME NEW x \in Completed, x.op # "connect", ready' \in {q, Append(q, x)} PROVE Settled'
  BY <1>1, <1>2, <1>4, SettledFrame DEF Settled
<1>5. ASSUME NEW m \in Msgs, StartWrite(m, q) PROVE Settled'
  <2>1. Done(Op("write", m), FALSE) \in Completed /\ Done(Op("write", m), FALSE).op # "connect"
    BY DEF Done, Op, Completed
  <2>2. ready' \in {q, Append(q, Done(Op("write", m), FALSE))}
    BY <1>5 DEF StartWrite
  <2> QED
    BY <1>4, <2>1, <2>2
<1>6. ASSUME NEW kind \in {"head", "body"}, NEW m \in Msgs \union Pubs \union {NoMsg},
             StartRead(Op(kind, m), q)
      PROVE  Settled'
  <2>1. Done(Op(kind, m), FALSE) \in Completed /\ Done(Op(kind, m), FALSE).op # "connect"
    BY DEF Done, Op, Completed
  <2>2. ready' \in {q, Append(q, Done(Op(kind, m), FALSE))}
    BY <1>6 DEF StartRead
  <2> QED
    BY <1>4, <2>1, <2>2
<1>7. CASE OnWrite
  <2>1. ready' = q \/ (StartWrite(outbox[2], q) /\ Len(outbox) > 1)
    BY <1>7 DEF OnWrite, WriteNext, q
  <2>2. Len(outbox) > 1 => outbox[2] \in Msgs
    BY DEF IInv, Types, TypeOK
  <2> QED
    BY <1>2, <1>3, <1>5, <2>1, <2>2
<1>8. CASE OnHead
  <2>1. ready' = q \/ StartRead(Op("body", Head(ready).msg), q)
    BY <1>8 DEF OnHead, q
  <2>2. Head(ready).msg \in Msgs \union Pubs \union {NoMsg}
    BY <1>1 DEF Completed
  <2> QED
    BY <1>2, <1>3, <1>6, <2>1, <2>2
<1>9. CASE OnBody
  <2>1. ready' = q \/ StartRead(Op("head", NoMsg), q)
    BY <1>9 DEF OnBody, q
  <2> QED
    BY <1>2, <1>3, <1>6, <2>1
<1> QED
  BY <1>2, <1>7, <1>8, <1>9

LEMMA EnqueueLeaves ==
  ASSUME IInv, Leaves, NEW m \in Msgs, NEW next, Enqueue(m, next)
  PROVE  Leaves'
<1> DEFINE x == Done(Op("write", m), FALSE)
<1>1. ready \in Seq(Completed)
  BY ReadyType DEF IInv, Types
<1>2. x \in Completed /\ x.op # "connect"
  BY DEF Done, Op, Completed
<1>3. UNCHANGED <<connected, sock, conn, cpc>> /\ ready' \in {ready, Append(ready, x)}
  BY DEF Enqueue, StartWrite, link
<1> HIDE DEF x
<1>4. Settled => Settled'
  BY <1>1, <1>2, <1>3, SettledFrame DEF Settled
<1> QED
  BY <1>3, <1>4, LeavesFrame

LEMMA CloseLeaves ==
  ASSUME IInv, Leaves, NEW t \in Closers, CloseStep(t)
  PROVE  Leaves'
<1>1. \A u \in Closers : u # t => cpc'[u] = cpc[u]
  BY DEF CloseStep, TestConnected, ClearConnected, CloseSocket, ClearOutbox, ClearMaps,
         IInv, Types, TypeOK
<1>2. CASE TestConnected(t)
  <2>1. UNCHANGED <<connected, ready, sock, conn>> /\ cpc'[t] = IF connected THEN "clearFlag" ELSE AfterClose(t)
    BY <1>2 DEF TestConnected, link, socket, IInv, Types, TypeOK
  <2>2. connected => Settled
    <3>1. ASSUME connected PROVE \A x \in Elements(ready) : x.op # "connect"
      BY <3>1 DEF IInv, Sockets
    <3>2. ASSUME connected PROVE sock \in {"up", "broken"} /\ conn # "no"
      BY <3>2 DEF IInv, Sockets
    <3> QED
      BY <3>1, <3>2 DEF Settled, None, Connects
  <2>3. Settled' <=> Settled
    BY <2>1 DEF Settled
  <2>4. cpc'[t] # "closeSocket" /\ (cpc'[t] \in Leaving => connected)
    BY <2>1 DEF Leaving, AfterClose
  <2>5. ASSUME NEW u \in Closers, cpc'[u] \in Leaving PROVE Settled'
    BY <1>1, <2>2, <2>3, <2>4, <2>5, LeavesAt
  <2>6. ASSUME NEW u \in Closers, cpc'[u] = "closeSocket" PROVE ~connected'
    BY <1>1, <2>1, <2>4, <2>6, LeavesAt
  <2> QED
    BY <2>5, <2>6, Zenon DEF Leaves
<1>3. CASE ClearConnected(t)
  <2>1. /\ UNCHANGED <<ready, sock, conn>> /\ connected' = FALSE
        /\ cpc[t] = "clearFlag"
    BY <1>3 DEF ClearConnected, socket
  <2>2. Settled
    BY <2>1, LeavesAt DEF Leaving
  <2>3. Settled'
    BY <2>1, <2>2 DEF Settled
  <2> QED
    BY <2>1, <2>3 DEF Leaves
<1>4. CASE CloseSocket(t)
  <2>1. /\ UNCHANGED <<connected, conn>> /\ cpc[t] = "closeSocket" /\ cpc'[t] = "clearOutbox"
        /\ ready' = ready \o Aborted /\ sock' = "closed"
    BY <1>4 DEF CloseSocket, LeaveSocket, link, IInv, Types, TypeOK
  <2>2. Settled
    BY <2>1, LeavesAt DEF Leaving
  <2>3. ready \in Seq(Completed) /\ Aborted \in Seq(Completed)
    BY ReadyType, AbortedOps DEF IInv, Types
  <2>4. None(Aborted, Connects)
    <3>1. \A x \in Elements(Aborted) : x.op # "connect"
      BY <2>2, AbortedOps DEF Settled
    <3> QED
      BY <3>1 DEF None, Connects
  <2>5. None(ready', Connects)
    BY <2>1, <2>2, <2>3, <2>4, Joined DEF Settled
  <2>6. Settled'
    BY <2>1, <2>2, <2>5 DEF Settled
  <2>7. \A u \in Closers : cpc'[u] \in Leaving => cpc'[u] = cpc[u]
    BY <1>1, <2>1 DEF Leaving
  <2> QED
    BY <2>1, <2>6, <2>7, LeavesFrame
<1>5. CASE ClearOutbox(t) \/ ClearMaps(t)
  <2>1. /\ UNCHANGED <<connected, ready, sock, conn>> /\ cpc'[t] \in {"clearMaps", "error", "closed"}
    BY <1>5 DEF ClearOutbox, ClearMaps, AfterClose, link, socket, IInv, Types, TypeOK
  <2>2. Settled' <=> Settled
    BY <2>1 DEF Settled
  <2>3. \A u \in Closers : cpc'[u] \in Leaving => cpc'[u] = cpc[u]
    BY <1>1, <2>1 DEF Leaving
  <2> QED
    BY <2>1, <2>2, <2>3, LeavesFrame
<1> QED
  BY <1>2, <1>3, <1>4, <1>5 DEF CloseStep

LEMMA LeavesStep ==
  ASSUME ~AutoReconnect, IInv, Leaves, [Next]_vars
  PROVE  Leaves'
<1> USE DEF link, socket, threads
<1>1. ASSUME UNCHANGED <<connected, ready, sock>>, conn' # "no" \/ conn' = conn,
             \A t \in Closers : cpc'[t] \in Leaving => cpc'[t] = cpc[t]
      PROVE  Leaves'
  <2>1. Settled => Settled'
    BY <1>1 DEF Settled
  <2> QED
    BY <1>1, <2>1, LeavesFrame
<1>2. CASE Reactor
  <2>1. UNCHANGED cpc
    BY <1>2 DEF Reactor, ConnectDone, WriteDone, HeadDone, BodyDone, ReadFails
  <2> QED
    BY <1>2, <2>1, SettledReactor, LeavesFrame
<1>3. CASE OnConnect
  <2>1. ~Settled /\ UNCHANGED cpc
    BY <1>3, NotConnecting DEF OnConnect
  <2> QED
    BY <2>1, LeavesFrame
<1>4. CASE OnWrite \/ OnHead \/ OnBody
  <2>1. \A t \in Closers : cpc'[t] \in Leaving => cpc'[t] = cpc[t]
    BY <1>4 DEF OnWrite, OnHead, OnBody, Leaving, IInv, Types, TypeOK
  <2> QED
    BY <1>4, <2>1, SettledHandlers, LeavesFrame
<1>5. CASE ErrorCallback
  <2>1. \A t \in Closers : cpc'[t] \in Leaving => cpc'[t] = cpc[t]
    BY <1>5 DEF ErrorCallback, Leaving, IInv, Types, TypeOK
  <2> QED
    BY <1>1, <1>5, <2>1 DEF ErrorCallback
<1>6. ASSUME NEW t \in Closers, CloseStep(t) PROVE Leaves'
  BY <1>6, CloseLeaves
<1>7. ASSUME NEW m \in Msgs, NEW next, Enqueue(m, next) PROVE Leaves'
  BY <1>7, EnqueueLeaves
<1>8. CASE Handler
  BY <1>3, <1>4, <1>5, <1>6, <1>7, <1>8 DEF Handler, Closers, BeatWrites, Msgs
<1>9. CASE User
  <2>1. CASE ConnectReturns
    BY <1>1, <2>1 DEF ConnectReturns
  <2>2. ASSUME NEW c \in Calls, Register(c) PROVE Leaves'
    BY <1>1, <2>2 DEF Register
  <2>3. ASSUME NEW s \in Subs, KeepSubscription(s) PROVE Leaves'
    BY <1>1, <2>3 DEF KeepSubscription
  <2> QED
    BY <1>6, <1>7, <1>9, <2>1, <2>2, <2>3 DEF User, Closers, Write, Msgs
<1>10. CASE Connect
  <2>1. ~Settled /\ UNCHANGED cpc
    BY <1>10 DEF Connect, Settled
  <2> QED
    BY <2>1, LeavesFrame
<1>11. CASE Close
  <2>1. \A t \in Closers : cpc'[t] \in Leaving => cpc'[t] = cpc[t]
    BY <1>11 DEF Close, Leaving, IInv, Types, TypeOK
  <2> QED
    BY <1>1, <1>11, <2>1 DEF Close
<1>12. CASE Break
  <2>1. UNCHANGED <<connected, ready, conn, cpc>> /\ sock' = "broken"
    BY <1>12 DEF Break
  <2>2. Settled => Settled'
    BY <2>1 DEF Settled
  <2> QED
    BY <2>1, <2>2, LeavesFrame
<1>13. ASSUME NEW c \in Calls, CheckConnected(c) \/ Expire(c) PROVE Leaves'
  BY <1>1, <1>13 DEF CheckConnected, Expire
<1>14. ASSUME NEW s \in Subs, Subscribe(s) PROVE Leaves'
  BY <1>7, <1>14 DEF Subscribe, Msgs
<1>15. CASE (\E p \in Pubs : Publish(p)) \/ (\E b \in Beats : BeatChecks(b))
  BY <1>1, <1>15 DEF Publish, BeatChecks
<1>16. CASE UNCHANGED vars
  BY <1>1, <1>16 DEF vars
<1> QED
  BY <1>2, <1>8, <1>9, <1>10, <1>11, <1>12, <1>13, <1>14, <1>15, <1>16 DEF Next

--------------------------------------------------------------------------------
(* The theorems                                                                *)

LEMMA NextIInv ==
  ASSUME ~AutoReconnect, IInv, Leaves, [Next]_vars
  PROVE  IInv'
<1>1. CASE UNCHANGED vars
  <2>1. UNCHANGED <<link, out, maps, socket, ready, threads, given, faults>>
    BY <1>1 DEF vars
  <2>2. Types'
    BY <2>1 DEF IInv, Types, TypeOK, link, out, maps, socket, threads, given
  <2> QED
    BY <2>1, <2>2, AsideIInv DEF link, out, maps, socket, threads, given
<1>2. CASE Reactor
  BY <1>2, ConnectDoneIInv, WriteDoneIInv, HeadDoneIInv, BodyDoneIInv, ReadFailsIInv DEF Reactor
<1>3. ASSUME NEW t \in Closers, CloseStep(t) PROVE IInv'
  BY <1>3, TestConnectedIInv, ClearConnectedIInv, CloseSocketIInv, ClearOutboxIInv,
     ClearMapsIInv DEF CloseStep
<1>4. CASE Handler
  <2>1. ASSUME OnConnect PROVE IInv'
    BY <2>1, ConnectFailedIInv, ConnectedIInv
  <2>2. ASSUME OnWrite PROVE IInv'
    BY <2>2, WriteFailedIInv, WrittenIInv
  <2> QED
    BY <1>3, <1>4, <2>1, <2>2, OnHeadIInv, OnBodyIInv, ErrorCallbackIInv, WritesIInv
       DEF Handler, Closers
<1>5. CASE User
  BY <1>3, <1>5, ConnectReturnsIInv, RegisterIInv, WritesIInv, KeepSubscriptionIInv
     DEF User, Closers
<1>6. CASE Connect \/ Close \/ Break
  BY <1>6, ConnectIInv, CloseIInv, BreakIInv
<1>7. CASE \/ \E c \in Calls : CheckConnected(c) \/ Expire(c)
           \/ \E s \in Subs : Subscribe(s)
           \/ \E p \in Pubs : Publish(p)
           \/ \E b \in Beats : BeatChecks(b)
  BY <1>7, CheckConnectedIInv, ExpireIInv, WritesIInv, PublishIInv, BeatChecksIInv
<1> QED
  BY <1>1, <1>2, <1>4, <1>5, <1>6, <1>7 DEF Next

\* Each step of a client that does not reconnect keeps the inductive invariant.
THEOREM Invariance == ASSUME ~AutoReconnect PROVE Spec => []IInv
<1>1. Init => Leaves
  BY DEF Init, Leaves, Leaving
<1> QED
  BY <1>1, InitIInv, NextIInv, LeavesStep, PTL DEF Spec

\* WriteOwnsFront: one message is written at a time, it is the first of the outbox,
\* and the header that goes with it is its own (write, rpc_client.hpp:438-485).
THEOREM FrontWritten == ASSUME ~AutoReconnect PROVE Spec => []WriteOwnsFront
<1>1. IInv => WriteOwnsFront
  <2> SUFFICES ASSUME IInv, NEW i \in DOMAIN writing
               PROVE  outbox # <<>> /\ writing[i] = outbox[1] /\ header = writing[i]
    BY DEF WriteOwnsFront
  <2>1. writing # <<>>
    OBVIOUS
  <2>2. outbox # <<>> /\ writing = <<outbox[1]>> /\ header = outbox[1]
    BY <2>1 DEF IInv, Writes
  <2> QED
    BY <2>2
<1> QED
  BY <1>1, Invariance, PTL

\* RepliesExpected: until a user closes the client, a reply finds its call registered
\* (the assertions of call_back, rpc_client.hpp:604, 628).
THEOREM ExpectedReplies == ASSUME ~AutoReconnect PROVE Spec => []RepliesExpected
<1>1. IInv => RepliesExpected
  BY DEF IInv
<1> QED
  BY <1>1, Invariance, PTL

\* Calls that wait get the same result.
LEMMA Answered1 ==
  ASSUME NEW cs \in SUBSET Calls,
         NEW r \in {"reply", "error", "timeout", "broken", "notConnected"},
         \A c \in cs : result[c] = "none" /\ (r \in {"reply", "timeout"} => sent[c] = 1),
         sent' = sent,
         result' = [c \in Calls |-> IF c \in cs THEN r ELSE result[c]],
         answers' = [c \in Calls |-> IF c \in cs /\ r # "broken" THEN answers[c] + 1 ELSE answers[c]]
  PROVE  Promise!Next
<1>1. Promise!Answer(cs, r)
  BY DEF Promise!Answer
<1> QED
  BY <1>1 DEF Promise!Next

\* What a step does to what the callers were promised: a call is sent, or calls that
\* wait get their answer.
LEMMA Kept ==
  ASSUME ~AutoReconnect, IInv, [Next]_vars
  PROVE  Promise!Next \/ UNCHANGED given
<1>1. ASSUME NEW ok \in BOOLEAN, WriteDone(ok) PROVE Promise!Next \/ UNCHANGED given
  <2>1. UNCHANGED <<result, answers>>
    BY <1>1 DEF WriteDone
  <2>2. CASE sent' = sent
    BY <2>1, <2>2 DEF given
  <2>3. ASSUME NEW c \in Calls, sent[c] = 0, result[c] = "none", sent' = [sent EXCEPT ![c] = 1]
        PROVE  Promise!Next
    <3>1. Promise!Execute(c)
      BY <2>1, <2>3 DEF Promise!Execute
    <3> QED
      BY <3>1 DEF Promise!Next
  <2> QED
    BY <1>1, <2>2, <2>3, WriteDoneIInv
<1>2. CASE Reactor
  <2>1. ASSUME NEW ok \in BOOLEAN, ConnectDone(ok) PROVE UNCHANGED given
    BY <2>1 DEF ConnectDone
  <2>2. CASE HeadDone \/ BodyDone \/ ReadFails
    BY <2>2 DEF HeadDone, BodyDone, ReadFails
  <2> QED
    BY <1>1, <1>2, <2>1, <2>2 DEF Reactor
<1>3. ASSUME NEW t \in Closers, CloseStep(t) PROVE Promise!Next \/ UNCHANGED given
  <2>1. CASE TestConnected(t) \/ ClearConnected(t) \/ CloseSocket(t)
    BY <2>1 DEF TestConnected, ClearConnected, CloseSocket
  <2>2. CASE ClearOutbox(t)
    BY <2>2 DEF ClearOutbox
  <2>3. CASE ClearMaps(t)
    <3>1. pending \ Callbacks \in SUBSET Calls /\ answers \in [Calls -> Nat]
      BY DEF IInv, Types, TypeOK
    <3>2. \A c \in pending \ Callbacks : result[c] = "none"
      BY <3>1 DEF IInv, Calling
    <3>3. /\ sent' = sent
          /\ result' = [c \in Calls |-> IF c \in pending \ Callbacks THEN "broken" ELSE result[c]]
          /\ answers' = [c \in Calls |-> IF c \in pending \ Callbacks /\ "broken" # "broken"
                                           THEN answers[c] + 1 ELSE answers[c]]
      BY <2>3, <3>1 DEF ClearMaps
    <3> QED
      BY <3>1, <3>2, <3>3, Answered1
  <2> QED
    BY <1>3, <2>1, <2>2, <2>3 DEF CloseStep
<1>4. CASE OnHead
  <2>1. sent' = sent
    BY <1>4 DEF OnHead
  <2>2. CASE UNCHANGED <<result, answers>>
    BY <2>1, <2>2 DEF given
  <2>3. CASE /\ \A c \in pending \cap Callbacks : result[c] = "none"
             /\ result' = [d \in Calls |-> IF d \in pending \cap Callbacks THEN "error" ELSE result[d]]
             /\ answers' = [d \in Calls |-> IF d \in pending \cap Callbacks THEN answers[d] + 1
                                                                        ELSE answers[d]]
    <3>1. pending \cap Callbacks \in SUBSET Calls
      BY Kinds
    <3>2. answers' = [d \in Calls |-> IF d \in pending \cap Callbacks /\ "error" # "broken"
                                        THEN answers[d] + 1 ELSE answers[d]]
      BY <2>3
    <3> QED
      BY <2>1, <2>3, <3>1, <3>2, Answered1
  <2> QED
    BY <1>4, <2>2, <2>3, OnHeadIInv
<1>5. CASE OnBody
  <2>1. sent' = sent
    BY <1>5 DEF OnBody
  <2>2. CASE UNCHANGED <<result, answers>>
    BY <2>1, <2>2 DEF given
  <2>3. ASSUME NEW c \in Calls, NEW r \in {"reply", "error", "timeout"},
               result[c] = "none", sent[c] = 1,
               result' = [d \in Calls |-> IF d \in {c} THEN r ELSE result[d]],
               answers' = [d \in Calls |-> IF d \in {c} THEN answers[d] + 1 ELSE answers[d]]
        PROVE  Promise!Next
    <3>1. answers' = [d \in Calls |-> IF d \in {c} /\ r # "broken" THEN answers[d] + 1 ELSE answers[d]]
      BY <2>3
    <3>2. {c} \in SUBSET Calls /\ \A d \in {c} : result[d] = "none" /\ sent[d] = 1
      BY <2>3
    <3> QED
      BY <2>1, <2>3, <3>1, <3>2, Answered1
  <2> QED
    BY <1>5, <2>2, <2>3, OnBodyIInv
<1>6. CASE Handler
  <2>1. CASE OnConnect
    BY <2>1 DEF OnConnect
  <2>2. CASE OnWrite
    BY <2>2 DEF OnWrite
  <2>3. CASE ErrorCallback
    BY <2>3 DEF ErrorCallback
  <2>4. ASSUME NEW b \in Beats, BeatWrites(b) PROVE UNCHANGED given
    BY <2>4 DEF BeatWrites, Enqueue
  <2> QED
    BY <1>3, <1>4, <1>5, <1>6, <2>1, <2>2, <2>3, <2>4 DEF Handler, Closers
<1>7. CASE User
  <2>1. CASE ConnectReturns
    BY <2>1 DEF ConnectReturns
  <2>2. ASSUME NEW c \in Calls, Register(c) \/ Write(c) PROVE UNCHANGED given
    BY <2>2 DEF Register, Write, Enqueue
  <2>3. ASSUME NEW s \in Subs, KeepSubscription(s) PROVE UNCHANGED given
    BY <2>3 DEF KeepSubscription
  <2> QED
    BY <1>3, <1>7, <2>1, <2>2, <2>3 DEF User, Closers
<1>8. ASSUME NEW c \in Calls, CheckConnected(c) PROVE Promise!Next \/ UNCHANGED given
  <2>1. sent' = sent
    BY <1>8 DEF CheckConnected
  <2>2. CASE UNCHANGED <<result, answers>>
    BY <2>1, <2>2 DEF given
  <2>3. CASE /\ result[c] = "none"
             /\ result' = [d \in Calls |-> IF d \in {c} THEN "notConnected" ELSE result[d]]
             /\ answers' = [d \in Calls |-> IF d \in {c} THEN answers[d] + 1 ELSE answers[d]]
    <3>1. answers' = [d \in Calls |-> IF d \in {c} /\ "notConnected" # "broken"
                                        THEN answers[d] + 1 ELSE answers[d]]
      BY <2>3
    <3>2. {c} \in SUBSET Calls /\ \A d \in {c} : result[d] = "none"
      BY <2>3
    <3> QED
      BY <2>1, <2>3, <3>1, <3>2, Answered1
  <2> QED
    BY <1>8, <2>2, <2>3, CheckConnectedIInv
<1>9. CASE Connect \/ Close \/ Break
  BY <1>9 DEF Connect, Close, Break
<1>10. CASE \/ \E c \in Calls : Expire(c)
            \/ \E s \in Subs : Subscribe(s)
            \/ \E p \in Pubs : Publish(p)
            \/ \E b \in Beats : BeatChecks(b)
  BY <1>10 DEF Expire, Subscribe, Enqueue, Publish, BeatChecks
<1>11. CASE UNCHANGED vars
  BY <1>11 DEF vars
<1> QED
  BY <1>2, <1>6, <1>7, <1>8, <1>9, <1>10, <1>11 DEF Next

\* PromiseSpec: over any order of breaks, closes, timeouts and replies a call is sent
\* at most once and answered at most once, with a reply only after the server got it.
THEOREM KeepsPromise == ASSUME ~AutoReconnect PROVE Spec => PromiseSpec
<1>1. Init => Promise!Init
  BY DEF Init, Promise!Init
<1>2. IInv /\ [Next]_vars => [Promise!Next]_(Promise!vars)
  BY Kept DEF given, Promise!vars
<1> QED
  BY <1>1, <1>2, Invariance, PTL DEF Spec, PromiseSpec, Promise!Spec

--------------------------------------------------------------------------------
(* What the promise comes to                                                   *)

\* RpcPromise itself keeps AtMostOnce: the arithmetic of its steps.
LEMMA PromiseOnce ==
  /\ Promise!Init => Promise!AtMostOnce
  /\ Promise!AtMostOnce /\ [Promise!Next]_(Promise!vars) => Promise!AtMostOnce'
<1>1. Promise!Init => Promise!AtMostOnce
  BY DEF Promise!Init, Promise!AtMostOnce
<1>2. ASSUME Promise!AtMostOnce, NEW c \in Calls, Promise!Execute(c)
      PROVE  Promise!AtMostOnce'
  BY <1>2 DEF Promise!AtMostOnce, Promise!Execute
<1>3. ASSUME Promise!AtMostOnce, NEW cs \in SUBSET Calls,
             NEW r \in {"reply", "error", "timeout", "broken", "notConnected"},
             Promise!Answer(cs, r)
      PROVE  Promise!AtMostOnce'
  <2>1. \A c \in cs : answers[c] = 0
    BY <1>3 DEF Promise!AtMostOnce, Promise!Answer
  <2>2. answers' \in [Calls -> 0..1]
    BY <1>3, <2>1 DEF Promise!AtMostOnce, Promise!Answer
  <2>3. ASSUME NEW c \in Calls
        PROVE  /\ result'[c] \in {"reply", "timeout"} => sent'[c] = 1
               /\ answers'[c] = 0 <=> result'[c] \in {"none", "broken"}
    <3>1. CASE c \in cs
      BY <1>3, <2>1, <3>1 DEF Promise!AtMostOnce, Promise!Answer
    <3>2. CASE c \notin cs
      BY <1>3, <3>2 DEF Promise!AtMostOnce, Promise!Answer
    <3> QED
      BY <3>1, <3>2
  <2> QED
    BY <1>3, <2>2, <2>3 DEF Promise!AtMostOnce, Promise!Answer
<1>4. ASSUME Promise!AtMostOnce, UNCHANGED Promise!vars
      PROVE  Promise!AtMostOnce'
  BY <1>4 DEF Promise!AtMostOnce, Promise!vars
<1> QED
  BY <1>1, <1>2, <1>3, <1>4 DEF Promise!Next

\* AtMostOnce of RpcPromise: a call is sent at most once and its callback or future
\* gets at most one answer, a reply or a timeout only of a call that was sent.
THEOREM AnsweredAtMostOnce == ASSUME ~AutoReconnect PROVE Spec => []Promise!AtMostOnce
BY KeepsPromise, PromiseOnce, PTL DEF PromiseSpec, Promise!Spec

\* Final of RpcPromise: the result of a call never changes, is not delivered again, and
\* a call that was reported as failed is not sent afterwards.
THEOREM ResultsFinal == ASSUME ~AutoReconnect PROVE Spec => Promise!Final
<1>1. ASSUME [Promise!Next]_(Promise!vars), NEW c \in Calls, result[c] # "none"
      PROVE  result'[c] = result[c] /\ answers'[c] = answers[c] /\ sent'[c] = sent[c]
  <2>1. ASSUME NEW d \in Calls, Promise!Execute(d)
        PROVE  result'[c] = result[c] /\ answers'[c] = answers[c] /\ sent'[c] = sent[c]
    BY <1>1, <2>1 DEF Promise!Execute
  <2>2. ASSUME NEW cs \in SUBSET Calls,
               NEW r \in {"reply", "error", "timeout", "broken", "notConnected"},
               Promise!Answer(cs, r)
        PROVE  result'[c] = result[c] /\ answers'[c] = answers[c] /\ sent'[c] = sent[c]
    BY <1>1, <2>2 DEF Promise!Answer
  <2> QED
    BY <1>1, <2>1, <2>2 DEF Promise!Next, Promise!vars
<1>2. [Promise!Next]_(Promise!vars) =>
      [\A c \in Calls : result[c] # "none" =>
         result'[c] = result[c] /\ answers'[c] = answers[c] /\ sent'[c] = sent[c]]_(Promise!vars)
  BY <1>1
<1> QED
  BY <1>2, KeepsPromise, PTL DEF PromiseSpec, Promise!Spec, Promise!Final

--------------------------------------------------------------------------------
(* With reconnection too                                                       *)

\* What the client can still hear of is what the server has received, or what it
\* publishes: on the wire, in the read that waits and in the handlers that wait.
Received    == {c \in Calls : sent[c] > 0}
Known(T)    == T \cup Pubs \cup {NoMsg}
ReadsOf(T)  == [op : {"head", "body"}, msg : Known(T)]
OpsOf(T)    == {x \in Completed : x.op \in {"head", "body"} => x.msg \in Known(T)}
Heard ==
  /\ wire \subseteq Received \cup Pubs /\ frame \in Known(Received)
  /\ reading \in Seq(ReadsOf(Received)) /\ ready \in Seq(OpsOf(Received))
  /\ GenuineReplies
HInv == Types /\ Heard

LEMMA SeqOfMore ==
  ASSUME NEW S, NEW T, S \subseteq T, NEW s \in Seq(S)
  PROVE  s \in Seq(T)
<1>1. Len(s) \in Nat /\ s \in [1..Len(s) -> T]
  <2>1. Len(s) \in Nat /\ s \in [1..Len(s) -> S]
    OBVIOUS
  <2> QED
    BY <2>1
<1> QED
  BY <1>1, SeqDef, Zenon

\* The types of what is read and completed follow from what is heard.
LEMMA HeardTypes ==
  ASSUME NEW T, T \subseteq Calls
  PROVE  /\ \A q \in Seq(OpsOf(T)) : q \in Seq(Completed)
         /\ \A q \in Seq(ReadsOf(T)) : q \in Seq([op : {"head", "body"}, msg : Replies \cup {NoMsg}])
         /\ T \cup Pubs \subseteq Replies /\ Known(T) \subseteq Replies \cup {NoMsg}
<1>1. OpsOf(T) \subseteq Completed
  BY DEF OpsOf
<1>2. T \cup Pubs \subseteq Replies /\ Known(T) \subseteq Replies \cup {NoMsg}
  BY DEF Replies, Known
<1>3. ReadsOf(T) \subseteq [op : {"head", "body"}, msg : Replies \cup {NoMsg}]
  BY <1>2 DEF ReadsOf
<1> QED
  BY <1>1, <1>2, <1>3, SeqOfMore

LEMMA ReceivedCalls == Received \subseteq Calls
BY DEF Received

\* Nothing a client hears of is forgotten by the server.
LEMMA HeardMore ==
  ASSUME NEW T, NEW U, T \subseteq U
  PROVE  /\ Known(T) \subseteq Known(U)
         /\ \A s \in Seq(ReadsOf(T)) : s \in Seq(ReadsOf(U))
         /\ \A s \in Seq(OpsOf(T)) : s \in Seq(OpsOf(U))
<1>1. Known(T) \subseteq Known(U)
  BY DEF Known
<1>2. ReadsOf(T) \subseteq ReadsOf(U) /\ OpsOf(T) \subseteq OpsOf(U)
  BY <1>1 DEF ReadsOf, OpsOf
<1> QED
  BY <1>1, <1>2, SeqOfMore

\* A write or a connect completes, whatever its message.
LEMMA WriteOp ==
  ASSUME NEW m \in Msgs \cup {NoMsg}, NEW ok \in BOOLEAN, NEW kind \in {"write", "connect"}, NEW T
  PROVE  Done(Op(kind, m), ok) \in OpsOf(T)
BY DEF Done, Op, OpsOf, Completed

LEMMA ReadOp ==
  ASSUME NEW T, T \subseteq Calls, NEW o \in ReadsOf(T), NEW ok \in BOOLEAN
  PROVE  Done(o, ok) \in OpsOf(T) /\ o = Op(o.op, o.msg) /\ o.op \in {"head", "body"} /\ o.msg \in Known(T)
BY DEF Done, OpsOf, Completed, ReadsOf, Known, Op, Msgs

LEMMA AbortedHeard ==
  ASSUME HInv
  PROVE  Aborted \in Seq(OpsOf(Received))
<1> DEFINE T == Received
           a == [i \in DOMAIN reading |-> Done(reading[i], FALSE)]
           b == IF sock = "connecting" THEN <<Done(Op("connect", NoMsg), FALSE)>> ELSE <<>>
           c == [i \in DOMAIN writing |-> Done(Op("write", writing[i]), FALSE)]
<1>0. T \subseteq Calls
  BY DEF Received
<1>1. a \in Seq(OpsOf(T))
  <2>1. reading \in Seq(ReadsOf(T))
    BY DEF HInv, Heard
  <2>2. \A i \in DOMAIN reading : reading[i] \in ReadsOf(T)
    BY <2>1
  <2>3. \A i \in DOMAIN reading : a[i] \in OpsOf(T)
    BY <1>0, <2>2, ReadOp
  <2>4. DOMAIN a = DOMAIN reading /\ a = [i \in DOMAIN reading |-> a[i]]
    OBVIOUS
  <2> HIDE DEF a
  <2> QED
    BY <2>1, <2>3, <2>4, Mapped
<1>2. b \in Seq(OpsOf(T))
  <2> DEFINE x == Done(Op("connect", NoMsg), FALSE)
             S == OpsOf(T)
  <2>1. x \in S
    BY WriteOp
  <2>2. b = IF sock = "connecting" THEN <<x>> ELSE <<>>
    OBVIOUS
  <2> HIDE DEF x, S, b
  <2>3. b \in Seq(S)
    BY <2>1, <2>2
  <2> QED
    BY <2>3 DEF S
<1>3. c \in Seq(OpsOf(T))
  <2>1. writing \in Seq(Msgs)
    BY DEF HInv, Types, TypeOK
  <2>2. \A i \in DOMAIN writing : writing[i] \in Msgs
    BY <2>1
  <2>3. \A i \in DOMAIN writing : c[i] \in OpsOf(T)
    BY <2>2, WriteOp
  <2>4. DOMAIN c = DOMAIN writing /\ c = [i \in DOMAIN writing |-> c[i]]
    OBVIOUS
  <2> HIDE DEF c
  <2> QED
    BY <2>1, <2>3, <2>4, Mapped
<1>4. Aborted = a \o b \o c
  BY DEF Aborted
<1> HIDE DEF a, b, c, T
<1> QED
  BY <1>1, <1>2, <1>3, <1>4 DEF T

\* The socket is left: what was heard of on it is gone.
LEMMA LeaveHeard ==
  ASSUME HInv, NEW new \in {"closed", "connecting"}, NEW q \in Seq(OpsOf(Received)),
         LeaveSocket(new, q), UNCHANGED <<sent, result>>
  PROVE  /\ Heard' /\ sock' \in {"closed", "connecting"}
         /\ writing' = <<>> /\ told' = {}
<1> USE DEF LeaveSocket
<1>1. Received' = Received
  BY DEF Received
<1>2. /\ reading' \in Seq(ReadsOf(Received)) /\ ready' \in Seq(OpsOf(Received))
      /\ writing' = <<>> /\ told' = {}
  BY AbortedHeard
<1>3. wire' \subseteq Received \cup Pubs /\ frame' \in Known(Received)
  BY DEF Known
<1>4. GenuineReplies'
  BY DEF HInv, Heard, GenuineReplies
<1> QED
  BY <1>1, <1>2, <1>3, <1>4 DEF Heard

\* Steps that leave alone what is heard of.
LEMMA HeardFrame ==
  ASSUME HInv, UNCHANGED <<wire, frame, reading, sent, result>>, ready' \in Seq(OpsOf(Received))
  PROVE  Heard'
<1>1. Received' = Received
  BY DEF Received
<1> QED
  BY <1>1 DEF HInv, Heard, GenuineReplies


LEMMA HInitially == Init => HInv
<1> SUFFICES ASSUME Init PROVE HInv
  OBVIOUS
<1>1. Types
  BY InitIInv DEF IInv
<1>2. GenuineReplies
  BY DEF Init, GenuineReplies
<1>3. frame \in Known(Received)
  BY DEF Init, Known
<1>4. wire = {} /\ reading = <<>> /\ ready = <<>>
  BY DEF Init
<1> QED
  BY <1>1, <1>2, <1>3, <1>4 DEF HInv, Heard

\* Steps of threads that touch neither the socket nor the calls' results.
PcType  == pc \in [Msgs \union Pubs -> {"idle", "checked", "registered", "sent", "done"}]
CpcType == cpc \in [Closers -> {"idle", "close", "clearFlag", "closeSocket", "clearOutbox",
                                "clearMaps", "error", "closed"}]

LEMMA ThreadsHInv ==
  ASSUME HInv,
         \/ ConnectReturns \/ Close \/ Connect
         \/ \E c \in Calls : Expire(c) \/ Register(c)
         \/ \E s \in Subs : KeepSubscription(s)
         \/ \E b \in Beats : BeatChecks(b)
         \/ \E t \in Closers : TestConnected(t) \/ ClearConnected(t) \/ ClearOutbox(t)
  PROVE  HInv'
<1> USE DEF link, out, maps, socket, threads, given
<1>1. Types /\ ready \in Seq(OpsOf(Received))
  BY DEF HInv, Heard
<1>2. CASE ConnectReturns \/ Close \/ Connect
  <2>1. UNCHANGED <<wire, frame, reading, sent, result, ready>>
    BY <1>2 DEF ConnectReturns, Close, Connect
  <2>2. Types'
    <3>1. CASE ConnectReturns
      BY <1>1, <3>1 DEF ConnectReturns, Types, TypeOK
    <3>2. CASE Close
      BY <1>1, <3>2 DEF Close, Types, TypeOK, Closers
    <3>3. CASE Connect
      BY <1>1, <3>3 DEF Connect, Types, TypeOK
    <3> QED
      BY <1>2, <3>1, <3>2, <3>3
  <2> QED
    BY <1>1, <2>1, <2>2, HeardFrame DEF HInv
<1>3. ASSUME NEW c \in Calls, Expire(c) \/ Register(c) PROVE HInv'
  <2>1. UNCHANGED <<wire, frame, reading, sent, result, ready>>
    BY <1>3 DEF Expire, Register
  <2>2. CASE Expire(c)
    <3>1. Types'
      BY <1>1, <2>2 DEF Expire, Types, TypeOK
    <3> QED
      BY <1>1, <2>1, <3>1, HeardFrame DEF HInv
  <2>3. CASE Register(c)
    <3>1. PcType' /\ pending' \subseteq Calls
      BY <1>1, <2>3 DEF Register, Types, TypeOK, PcType
    <3>2. Types'
      BY <1>1, <2>3, <3>1 DEF Register, Types, TypeOK, PcType
    <3> QED
      BY <1>1, <2>1, <3>2, HeardFrame DEF HInv
  <2> QED
    BY <1>3, <2>2, <2>3
<1>4. ASSUME NEW s \in Subs, KeepSubscription(s) PROVE HInv'
  <2>1. UNCHANGED <<wire, frame, reading, sent, result, ready>>
    BY <1>4 DEF KeepSubscription
  <2>2. kept' \subseteq Subs /\ IsFiniteSet(kept')
    BY <1>1, <1>4, FS_AddElement DEF KeepSubscription, Types, TypeOK
  <2>3. Types'
    BY <1>1, <1>4, <2>2 DEF KeepSubscription, Types, TypeOK
  <2> QED
    BY <1>1, <2>1, <2>3, HeardFrame DEF HInv
<1>5. ASSUME NEW b \in Beats, BeatChecks(b) PROVE HInv'
  <2>1. UNCHANGED <<wire, frame, reading, sent, result, ready>>
    BY <1>5 DEF BeatChecks
  <2>2. Types'
    BY <1>1, <1>5 DEF BeatChecks, Types, TypeOK
  <2> QED
    BY <1>1, <2>1, <2>2, HeardFrame DEF HInv
<1>6. ASSUME NEW t \in Closers, TestConnected(t) \/ ClearConnected(t) \/ ClearOutbox(t)
      PROVE  HInv'
  <2>1. UNCHANGED <<wire, frame, reading, sent, result, ready>>
    BY <1>6 DEF TestConnected, ClearConnected, ClearOutbox
  <2>2. Types'
    <3>1. CpcType'
      BY <1>1, <1>6 DEF TestConnected, ClearConnected, ClearOutbox, AfterClose, CpcType,
                        Types, TypeOK
    <3>2. CASE TestConnected(t)
      BY <1>1, <3>1, <3>2 DEF TestConnected, CpcType, Types, TypeOK
    <3>3. CASE ClearConnected(t)
      BY <1>1, <3>1, <3>3 DEF ClearConnected, CpcType, Types, TypeOK
    <3>4. CASE ClearOutbox(t)
      BY <1>1, <3>1, <3>4 DEF ClearOutbox, CpcType, Types, TypeOK
    <3> QED
      BY <1>6, <3>2, <3>3, <3>4
  <2> QED
    BY <1>1, <2>1, <2>2, HeardFrame DEF HInv
<1> QED
  BY <1>2, <1>3, <1>4, <1>5, <1>6

\* Every message that enters the outbox.
LEMMA EnqueueHInv ==
  ASSUME HInv, NEW m \in Msgs, NEW next \in {"sent", "done"}, Enqueue(m, next)
  PROVE  HInv'
<1> USE DEF Enqueue, link, maps, given
<1>1. Types /\ ready \in Seq(OpsOf(Received)) /\ writing \in Seq(Msgs) /\ outbox \in Seq(Msgs)
  BY DEF HInv, Heard, Types, TypeOK
<1> DEFINE x == Done(Op("write", m), FALSE)
<1>2. x \in OpsOf(Received)
  BY WriteOp
<1>3. \/ UNCHANGED <<header, writing, ready>>
      \/ header' = m /\ writing' = Append(writing, m) /\ ready' = ready
      \/ header' = m /\ writing' = writing /\ ready' = Append(ready, x)
  BY DEF StartWrite
<1> HIDE DEF x
<1>4. /\ ready' \in Seq(OpsOf(Received)) /\ writing' \in Seq(Msgs)
      /\ header' \in Msgs \union {NoMsg}
  <2>1. header \in Msgs \union {NoMsg}
    BY <1>1 DEF Types, TypeOK
  <2> DEFINE S == OpsOf(Received)
  <2>2. ready \in Seq(S) /\ x \in S
    BY <1>1, <1>2
  <2> HIDE DEF Enqueue, S
  <2>3. ready' \in Seq(S)
    BY <1>3, <2>2
  <2>4. writing' \in Seq(Msgs)
    BY <1>1, <1>3
  <2>5. header' \in Msgs \union {NoMsg}
    BY <1>3, <2>1
  <2> QED
    BY <2>3, <2>4, <2>5 DEF S
<1>5. outbox' \in Seq(Msgs) /\ PcType'
  BY <1>1 DEF Types, TypeOK, PcType
<1>6. UNCHANGED <<wire, frame, reading, sent, result>>
  OBVIOUS
<1>7. Heard'
  BY <1>4, <1>6, HeardFrame
<1>8. ready' \in Seq(Completed)
  BY <1>4, HeardTypes, ReceivedCalls
<1>9. Types'
  BY <1>1, <1>4, <1>5, <1>6, <1>8 DEF Types, TypeOK, Completed, PcType
<1> QED
  BY <1>7, <1>9 DEF HInv

\* What the reactor completes.
LEMMA CompletedHInv ==
  ASSUME HInv,
         \/ \E ok \in BOOLEAN : ConnectDone(ok)
         \/ HeadDone \/ BodyDone \/ ReadFails
  PROVE  HInv'
<1> USE DEF link, out, maps, threads, given
<1> DEFINE T == Received
           S == OpsOf(T)
           R == ReadsOf(T)
<1>0. T \subseteq Calls
  BY ReceivedCalls
<1>1. /\ Types /\ ready \in Seq(S) /\ reading \in Seq(R)
      /\ wire \subseteq T \cup Pubs /\ frame \in Known(T) /\ GenuineReplies
  BY DEF HInv, Heard
<1>2. ASSUME NEW ok \in BOOLEAN, ConnectDone(ok) PROVE HInv'
  <2>1. Done(Op("connect", NoMsg), ok) \in S
    BY WriteOp
  <2>2. /\ ready' = Append(ready, Done(Op("connect", NoMsg), ok)) /\ sock' \in {"up", "open"}
        /\ UNCHANGED <<wire, frame, reading, sent, result>>
    BY <1>2 DEF ConnectDone
  <2> HIDE DEF S
  <2>3. ready' \in Seq(S)
    BY <1>1, <2>1, <2>2
  <2>4. ready' \in Seq(Completed)
    BY <1>0, <2>3, HeardTypes DEF S
  <2>5. faults' \in 0..MaxFaults
    BY <1>1, <1>2, ModesAssumption DEF ConnectDone, Fault, Types, TypeOK
  <2>6. Types'
    BY <1>1, <1>2, <2>2, <2>4, <2>5 DEF ConnectDone, Types, TypeOK, Completed
  <2> QED
    BY <2>2, <2>3, <2>6, HeardFrame DEF HInv, S
<1>3. ASSUME UNCHANGED <<link, out, maps, sock, writing, told, threads, given, faults>>,
             ready' \in Seq(S), reading' \in Seq(R), wire' \subseteq T \cup Pubs, frame' \in Known(T)
      PROVE  HInv'
  <2>1. Received' = T /\ GenuineReplies'
    BY <1>1, <1>3 DEF Received, GenuineReplies
  <2>2. Heard'
    BY <1>3, <2>1 DEF Heard
  <2>3. /\ ready' \in Seq(Completed) /\ wire' \subseteq Replies /\ frame' \in Replies \cup {NoMsg}
        /\ reading' \in Seq([op : {"head", "body"}, msg : Replies \cup {NoMsg}])
    BY <1>0, <1>3, HeardTypes
  <2>4. Types'
    BY <1>1, <1>3, <2>3 DEF Types, TypeOK, Completed
  <2> QED
    BY <2>2, <2>4 DEF HInv
<1>4. reading # <<>> => /\ Head(reading) \in R /\ Tail(reading) \in Seq(R)
                        /\ \A ok \in BOOLEAN : Done(Head(reading), ok) \in S
  <2> SUFFICES ASSUME reading # <<>>
               PROVE  /\ Head(reading) \in R /\ Tail(reading) \in Seq(R)
                      /\ \A ok \in BOOLEAN : Done(Head(reading), ok) \in S
    OBVIOUS
  <2> HIDE DEF R, S, T
  <2>1. Head(reading) \in R /\ Tail(reading) \in Seq(R)
    BY <1>1
  <2> QED
    BY <1>0, <2>1, ReadOp DEF R, S
<1>5. CASE HeadDone
  <2>1. PICK m \in wire : /\ wire' = wire \ {m} /\ frame' = m
                          /\ ready' = Append(ready, Done(Op("head", m), TRUE))
    BY <1>5 DEF HeadDone
  <2>2. m \in T \cup Pubs /\ Op("head", m) \in R
    BY <1>1, <2>1 DEF ReadsOf, Known, Op
  <2>3. Done(Op("head", m), TRUE) \in S
    BY <1>0, <2>2, ReadOp
  <2>4. frame' \in Known(T) /\ wire' \subseteq T \cup Pubs
    BY <1>1, <2>1, <2>2 DEF Known
  <2>5. /\ reading' = Tail(reading) /\ reading # <<>>
        /\ UNCHANGED <<link, out, maps, sock, writing, told, threads, given, faults>>
    BY <1>5 DEF HeadDone
  <2> DEFINE x == Done(Op("head", m), TRUE)
  <2>6. ready \in Seq(S) /\ x \in S /\ ready' = Append(ready, x) /\ reading' \in Seq(R)
    BY <1>1, <1>4, <2>1, <2>3, <2>5
  <2>7. UNCHANGED <<link, out, maps, sock, writing, told, threads, given, faults>>
    BY <2>5
  <2> HIDE DEF R, S, T, x
  <2>8. ready' \in Seq(S)
    BY <2>6
  <2> HIDE DEF link, out, maps, threads, given
  <2> QED
    BY <1>3, <2>4, <2>6, <2>7, <2>8
<1>6. CASE BodyDone \/ ReadFails
  <2>1. PICK ok \in BOOLEAN : ready' = Append(ready, Done(Head(reading), ok))
    BY <1>6 DEF BodyDone, ReadFails
  <2>2. /\ reading' = Tail(reading) /\ reading # <<>>
        /\ wire' = wire /\ frame' \in {frame, NoMsg}
        /\ UNCHANGED <<link, out, maps, sock, writing, told, threads, given, faults>>
    BY <1>6 DEF BodyDone, ReadFails
  <2>3. frame' \in Known(T)
    BY <1>1, <2>2 DEF Known
  <2> HIDE DEF R, S, T
  <2>4. ready' \in Seq(S) /\ reading' \in Seq(R)
    BY <1>1, <1>4, <2>1, <2>2
  <2> QED
    BY <1>1, <1>3, <2>2, <2>3, <2>4
<1> QED
  BY <1>2, <1>5, <1>6

\* A write brings a message to the server, the one that header_ names.
LEMMA WriteDoneHInv ==
  ASSUME HInv, NEW ok \in BOOLEAN, WriteDone(ok)
  PROVE  HInv'
<1> USE DEF WriteDone, link, out, maps, threads
<1> DEFINE T == Received
           m == Head(writing)
           x == Done(Op("write", m), ok)
<1>1. /\ Types /\ ready \in Seq(OpsOf(T)) /\ reading \in Seq(ReadsOf(T))
      /\ wire \subseteq T \cup Pubs /\ frame \in Known(T) /\ GenuineReplies
  BY DEF HInv, Heard
<1>2. writing \in Seq(Msgs) /\ writing # <<>> /\ sent \in [Calls -> Nat] /\ header \in Msgs \union {NoMsg}
      /\ wire \subseteq Replies /\ told \subseteq Subs
  BY <1>1 DEF Types, TypeOK
<1>3. m \in Msgs /\ writing' = Tail(writing) /\ writing' \in Seq(Msgs)
  BY <1>2
<1>4. ready' = Append(ready, x)
  OBVIOUS
<1>5. /\ sent' \in [Calls -> Nat] /\ \A c \in Calls : sent'[c] >= sent[c]
      /\ wire' \subseteq Received' \cup Pubs /\ told' \subseteq Subs
  <2>1. CASE UNCHANGED <<wire, told, sent>>
    BY <1>1, <1>2, <2>1 DEF Received
  <2>2. ASSUME NEW id,
               wire' = wire \union ({id} \intersect Calls), told' = told \union ({id} \intersect Subs),
               sent' = [c \in Calls |-> IF c = id THEN sent[c] + 1 ELSE sent[c]]
        PROVE  /\ sent' \in [Calls -> Nat] /\ \A c \in Calls : sent'[c] >= sent[c]
               /\ wire' \subseteq Received' \cup Pubs /\ told' \subseteq Subs
    <3> HIDE DEF WriteDone
    <3>1. sent' \in [Calls -> Nat] /\ \A c \in Calls : sent'[c] >= sent[c]
      BY <1>2, <2>2
    <3>2. \A c \in Calls : c = id => sent'[c] > 0
      BY <1>2, <2>2
    <3>3. \A c \in Calls : sent[c] > 0 => sent'[c] > 0
      BY <1>2, <3>1
    <3> QED
      BY <1>1, <1>2, <2>2, <3>1, <3>2, <3>3 DEF Received
  <2> QED
    BY <2>1, <2>2
<1> HIDE DEF x, T, m, WriteDone
<1>6. T \subseteq Received' /\ Received' \subseteq Calls
  <2>1. \A c \in Calls : sent[c] > 0 => sent'[c] > 0
    BY <1>2, <1>5
  <2> QED
    BY <2>1 DEF T, Received
<1>7. x \in OpsOf(T)
  BY <1>3, WriteOp DEF x
<1>8. UNCHANGED <<link, out, maps, sock, reading, frame, threads, result, answers, faults>>
  BY DEF WriteDone
<1>9. ready' \in Seq(OpsOf(T))
  <2> DEFINE S == OpsOf(T)
  <2> HIDE DEF S
  <2>1. ready \in Seq(S) /\ x \in S
    BY <1>1, <1>7 DEF S
  <2>2. ready' \in Seq(S)
    BY <1>4, <2>1
  <2> QED
    BY <2>2 DEF S
<1>10. /\ ready' \in Seq(OpsOf(Received')) /\ reading' \in Seq(ReadsOf(Received'))
       /\ frame' \in Known(Received')
  BY <1>1, <1>6, <1>8, <1>9, HeardMore
<1>11. GenuineReplies'
  <2>1. \A c \in Calls : sent[c] > 0 => sent'[c] > 0
    BY <1>2, <1>5
  <2> QED
    BY <1>1, <1>8, <2>1 DEF GenuineReplies
<1>12. Heard'
  BY <1>5, <1>10, <1>11 DEF Heard
<1>13. ready' \in Seq(Completed) /\ wire' \subseteq Replies
  BY <1>5, <1>6, <1>10, HeardTypes
<1>14. Types'
  BY <1>1, <1>3, <1>5, <1>8, <1>13 DEF Types, TypeOK, Completed
<1> QED
  BY <1>12, <1>14 DEF HInv

\* Where the socket is left, replaced, broken or published to.
LEMMA SocketHInv ==
  ASSUME HInv,
         \/ ErrorCallback \/ Break
         \/ \E t \in Closers : CloseSocket(t)
         \/ \E p \in Pubs : Publish(p)
  PROVE  HInv'
<1> USE DEF link, out, maps, threads, given, socket
<1>1. /\ Types /\ Heard /\ ready \in Seq(OpsOf(Received)) /\ reading \in Seq(ReadsOf(Received))
      /\ wire \subseteq Received \cup Pubs /\ frame \in Known(Received) /\ GenuineReplies
  BY DEF HInv, Heard
<1>2. ASSUME Heard' PROVE /\ ready' \in Seq(Completed) /\ wire' \subseteq Replies
                          /\ frame' \in Replies \cup {NoMsg}
                          /\ reading' \in Seq([op : {"head", "body"}, msg : Replies \cup {NoMsg}])
  <2>1. Received' \subseteq Calls
    BY DEF Received
  <2>2. /\ ready' \in Seq(OpsOf(Received')) /\ wire' \subseteq Received' \cup Pubs
        /\ frame' \in Known(Received') /\ reading' \in Seq(ReadsOf(Received'))
    BY <1>2 DEF Heard
  <2> QED
    BY <2>1, <2>2, HeardTypes
<1> DEFINE left == /\ Heard' /\ sock' \in {"closed", "connecting"} /\ writing' = <<>> /\ told' = {}
<1>2b. ASSUME left, connected' \in BOOLEAN, CpcType',
             UNCHANGED <<retries, out, maps, pc, conn, crashed, given, faults>>
      PROVE  HInv'
  <2>1. writing' \in Seq(Msgs) /\ told' \subseteq Subs
    BY <1>2b
  <2>2. /\ ready' \in Seq(Completed) /\ wire' \subseteq Replies
        /\ frame' \in Replies \cup {NoMsg}
        /\ reading' \in Seq([op : {"head", "body"}, msg : Replies \cup {NoMsg}])
    BY <1>2, <1>2b
  <2>3. Types'
    BY <1>1, <1>2b, <2>1, <2>2 DEF Types, TypeOK, Completed, CpcType
  <2> QED
    BY <1>2b, <2>3 DEF HInv
<1>3. CASE ErrorCallback
  <2>1. cpc' = [cpc EXCEPT !["io"] = "idle"]
        /\ UNCHANGED <<link, out, maps, pc, conn, crashed, given, faults>>
    BY <1>3 DEF ErrorCallback
  <2>2. CASE LeaveSocket("connecting", ready)
    <3>1. /\ Heard' /\ sock' \in {"closed", "connecting"} /\ writing' = <<>> /\ told' = {}
      BY <1>1, <2>1, <2>2, LeaveHeard
    <3>2. CpcType' /\ connected' \in BOOLEAN
      BY <1>1, <2>1 DEF Types, TypeOK, CpcType
    <3> QED
      BY <1>2b, <2>1, <3>1, <3>2
  <2>3. CASE UNCHANGED <<socket, ready>>
    <3>1. Heard'
      BY <1>1, <2>1, <2>3, HeardFrame
    <3>2. Types'
      BY <1>1, <2>1, <2>3 DEF Types, TypeOK
    <3> QED
      BY <3>1, <3>2 DEF HInv
  <2> QED
    BY <1>3, <2>2, <2>3 DEF ErrorCallback
<1>4. ASSUME NEW t \in Closers, CloseSocket(t) PROVE HInv'
  <2>1. /\ CpcType' /\ connected' \in BOOLEAN
        /\ UNCHANGED <<retries, out, maps, pc, conn, crashed, given, faults>>
        /\ LeaveSocket("closed", ready)
    BY <1>1, <1>4 DEF CloseSocket, CpcType, Types, TypeOK
  <2>2. /\ Heard' /\ sock' \in {"closed", "connecting"} /\ writing' = <<>> /\ told' = {}
    BY <1>1, <2>1, LeaveHeard
  <2> QED
    BY <1>2b, <2>1, <2>2
<1>5. ASSUME UNCHANGED <<link, out, maps, reading, writing, frame, ready, conn, cpc, crashed, given>>,
             PcType', faults' \in 0..MaxFaults, sock' \in {sock, "broken"},
             told' \subseteq told, wire' \subseteq wire \cup Pubs
      PROVE  HInv'
  <2>1. Received' = Received /\ GenuineReplies'
    BY <1>1, <1>5 DEF Received, GenuineReplies
  <2>2. Heard'
    BY <1>1, <1>5, <2>1 DEF Heard
  <2>3. Types'
    BY <1>1, <1>2, <1>5, <2>2 DEF Types, TypeOK, PcType
  <2> QED
    BY <2>2, <2>3 DEF HInv
<1>6. CASE Break
  <2>1. PcType' /\ faults' \in 0..MaxFaults
    BY <1>1, <1>6, ModesAssumption DEF Break, Fault, Types, TypeOK, PcType
  <2> QED
    BY <1>5, <1>6, <2>1 DEF Break
<1>7. ASSUME NEW p \in Pubs, Publish(p) PROVE HInv'
  <2>1. PcType' /\ faults' \in 0..MaxFaults
    BY <1>1, <1>7 DEF Publish, Types, TypeOK, PcType
  <2> QED
    BY <1>5, <1>7, <2>1 DEF Publish
<1> QED
  BY <1>3, <1>4, <1>6, <1>7

\* The handler that runs is the first.
LEMMA FirstHeard ==
  ASSUME HInv, ready # <<>>
  PROVE  /\ Head(ready) \in OpsOf(Received) /\ Head(ready) \in Completed
         /\ Tail(ready) \in Seq(OpsOf(Received))
         /\ Head(ready).op \in {"head", "body"} => Head(ready).msg \in Known(Received)
<1> DEFINE S == OpsOf(Received)
<1>1. ready \in Seq(S)
  BY DEF HInv, Heard
<1> HIDE DEF S
<1>2. Head(ready) \in S /\ Tail(ready) \in Seq(S)
  BY <1>1
<1> QED
  BY <1>2 DEF S, OpsOf

\* A write of the next message starts, with or without effect.
LEMMA WriteStarts ==
  ASSUME HInv, NEW m \in Msgs, NEW q \in Seq(OpsOf(Received)), StartWrite(m, q)
  PROVE  ready' \in Seq(OpsOf(Received)) /\ writing' \in Seq(Msgs) /\ header' \in Msgs \union {NoMsg}
<1> DEFINE S == OpsOf(Received)
           x == Done(Op("write", m), FALSE)
<1>1. x \in S /\ q \in Seq(S)
  BY WriteOp
<1>2. writing \in Seq(Msgs)
  BY DEF HInv, Types, TypeOK
<1>3. /\ header' = m
      /\ \/ writing' = Append(writing, m) /\ ready' = q
         \/ writing' = writing /\ ready' = Append(q, x)
  BY DEF StartWrite
<1> HIDE DEF S, x
<1>4. ready' \in Seq(S)
  BY <1>1, <1>3
<1>5. writing' \in Seq(Msgs)
  <2>1. writing' = Append(writing, m) \/ writing' = writing
    BY <1>3
  <2> QED
    BY <1>2, <2>1
<1>6. header' \in Msgs \union {NoMsg}
  BY <1>3
<1> QED
  BY <1>4, <1>5, <1>6 DEF S

LEMMA ReadStarts ==
  ASSUME HInv, NEW o \in ReadsOf(Received), NEW q \in Seq(OpsOf(Received)), StartRead(o, q)
  PROVE  ready' \in Seq(OpsOf(Received)) /\ reading' \in Seq(ReadsOf(Received))
<1> DEFINE S == OpsOf(Received)
           R == ReadsOf(Received)
           x == Done(o, FALSE)
<1>1. x \in S /\ q \in Seq(S)
  BY ReadOp, ReceivedCalls
<1>2. reading \in Seq(R) /\ o \in R
  BY DEF HInv, Heard
<1>3. \/ reading' = Append(reading, o) /\ ready' = q
      \/ reading' = reading /\ ready' = Append(q, x)
  BY DEF StartRead
<1> HIDE DEF S, R, x
<1>4. ready' \in Seq(S)
  BY <1>1, <1>3
<1>5. reading' \in Seq(R)
  <2>1. reading' = Append(reading, o) \/ reading' = reading
    BY <1>3
  <2> QED
    BY <1>2, <2>1
<1> QED
  BY <1>4, <1>5 DEF S, R

\* A handler that reports results: to calls that it has heard of, or errors.
LEMMA ReportHInv ==
  ASSUME HInv, ready' \in Seq(OpsOf(Received)), reading' \in Seq(ReadsOf(Received)),
         UNCHANGED <<retries, out, late, kept, sock, writing, frame, wire, told, pc, conn, sent, faults>>,
         connected' \in BOOLEAN, pending' \subseteq Calls, CpcType',
         crashed' \in Replies \cup {NoMsg},
         \/ UNCHANGED <<result, answers>>
         \/ \E cs \in SUBSET Calls, res \in [Calls -> Results] :
              /\ Answer(cs, res)
              /\ \A c \in cs : res[c] \in {"reply", "timeout"} => c \in Received
  PROVE  HInv'
<1> USE DEF out
<1>1. Types /\ Heard
  BY DEF HInv
<1>2. Received' = Received
  BY DEF Received
<1>3. /\ result' \in [Calls -> Results] /\ answers' \in [Calls -> Nat]
      /\ GenuineReplies'
  <2>1. result \in [Calls -> Results] /\ answers \in [Calls -> Nat] /\ GenuineReplies
    BY <1>1 DEF Types, TypeOK, Heard
  <2>2. CASE UNCHANGED <<result, answers>>
    BY <2>1, <2>2 DEF GenuineReplies
  <2>3. ASSUME NEW cs \in SUBSET Calls, NEW res \in [Calls -> Results], Answer(cs, res),
               \A c \in cs : res[c] \in {"reply", "timeout"} => c \in Received
        PROVE  /\ result' \in [Calls -> Results] /\ answers' \in [Calls -> Nat]
               /\ GenuineReplies'
    <3>1. result' \in [Calls -> Results] /\ answers' \in [Calls -> Nat]
      BY <2>1, <2>3 DEF Answer
    <3>2. \A c \in Calls : result'[c] = IF c \in cs THEN res[c] ELSE result[c]
      BY <2>3 DEF Answer
    <3>3. GenuineReplies'
      BY <2>1, <2>3, <3>2 DEF GenuineReplies, Received
    <3> QED
      BY <3>1, <3>3
  <2> QED
    BY <2>2, <2>3
<1>4. Heard'
  BY <1>1, <1>2, <1>3 DEF Heard
<1>5. ready' \in Seq(Completed) /\ reading' \in Seq([op : {"head", "body"}, msg : Replies \cup {NoMsg}])
  BY HeardTypes, ReceivedCalls
<1>6. Types'
  BY <1>1, <1>3, <1>5 DEF Types, TypeOK, Completed, CpcType
<1> QED
  BY <1>4, <1>6 DEF HInv

\* The handlers.
LEMMA OnConnectHInv ==
  ASSUME HInv, OnConnect
  PROVE  HInv'
<1> USE DEF maps, threads, given
<1> DEFINE q == Tail(ready)
           head == Op("head", NoMsg)
           send == outbox = <<>> /\ kept # {}
           S == OpsOf(Received)
           R == ReadsOf(Received)
<1>1. /\ ready # <<>> /\ UNCHANGED <<maps, threads, given, faults>>
      /\ Types /\ Heard /\ outbox \in Seq(Msgs) /\ writing \in Seq(Msgs) /\ reading \in Seq(R)
      /\ wire \subseteq Replies /\ frame \in Replies \cup {NoMsg} /\ told \subseteq Subs
  BY DEF OnConnect, Handles, HInv, Heard, Types, TypeOK
<1>2. q \in Seq(S)
  BY <1>1, FirstHeard
<1>3. ASSUME UNCHANGED <<link, out, socket>>, ready' = q PROVE HInv'
  <2>1. Heard'
    BY <1>1, <1>2, <1>3, HeardFrame DEF socket
  <2>2. ready' \in Seq(Completed)
    BY <1>2, <1>3, HeardTypes, ReceivedCalls
  <2>3. Types'
    BY <1>1, <1>3, <2>2 DEF Types, TypeOK, Completed, link, out, socket
  <2> QED
    BY <2>1, <2>3 DEF HInv
<1>4. ASSUME ConnectFailed, UNCHANGED <<connected, out>> PROVE HInv'
  <2>1. CASE ready' = q /\ UNCHANGED <<retries, socket>>
    BY <1>3, <1>4, <2>1 DEF link
  <2>2. CASE ~(retries = 0 /\ ~AutoReconnect)
    <3>1. LeaveSocket("connecting", q) /\ retries' = IF AutoReconnect THEN retries ELSE retries - 1
      BY <1>4, <2>2 DEF ConnectFailed
    <3>2. retries' \in 0..Reconnects
      BY <1>1, <2>2, <3>1, ModesAssumption DEF Types, TypeOK
    <3> HIDE DEF q
    <3>3. Heard' /\ sock' \in {"closed", "connecting"} /\ writing' = <<>> /\ told' = {}
      BY <1>1, <1>2, <3>1, LeaveHeard DEF HInv
    <3>4. Received' \subseteq Calls
      BY DEF Received
    <3>5. /\ ready' \in Seq(Completed) /\ wire' \subseteq Replies /\ frame' \in Replies \cup {NoMsg}
          /\ reading' \in Seq([op : {"head", "body"}, msg : Replies \cup {NoMsg}])
      BY <3>3, <3>4, HeardTypes DEF Heard
    <3>6. writing' \in Seq(Msgs) /\ told' \subseteq Subs
      BY <3>3
    <3>7. Types'
      BY <1>1, <1>4, <3>2, <3>3, <3>5, <3>6 DEF Types, TypeOK, Completed, out
    <3> QED
      BY <3>3, <3>7 DEF HInv
  <2> QED
    BY <1>4, <2>1, <2>2 DEF ConnectFailed
<1>5. CASE OnConnected
  <2>1. PICK order \in [1..Cardinality(kept) -> kept] :
          /\ connected' = TRUE /\ outbox' = outbox \o order
          /\ IF CanWait
               THEN /\ reading' = Append(reading, head)
                    /\ writing' = IF send THEN Append(writing, order[1]) ELSE writing
                    /\ ready' = q
               ELSE /\ UNCHANGED <<reading, writing>>
                    /\ ready' = q \o <<Done(head, FALSE)>>
                         \o (IF send THEN <<Done(Op("write", order[1]), FALSE)>> ELSE <<>>)
          /\ header' = IF send THEN order[1] ELSE header
          /\ UNCHANGED <<retries, sock, frame, wire, told>>
    BY <1>5 DEF OnConnected
  <2>2. /\ Cardinality(kept) \in Nat /\ (kept # {} => Cardinality(kept) > 0) /\ kept \subseteq Msgs
    <3>1. IsFiniteSet(kept) /\ kept \subseteq Subs
      BY <1>1 DEF Types, TypeOK
    <3>2. kept # {} => Cardinality(kept) # 0
      BY <3>1, FS_EmptySet
    <3>3. Cardinality(kept) \in Nat
      BY <3>1, FS_CardinalityType
    <3> QED
      BY <3>1, <3>2, <3>3 DEF Msgs
  <2>3. order \in Seq(Msgs) /\ (send => order[1] \in Msgs)
    <3>1. order \in [1..Cardinality(kept) -> Msgs]
      BY <2>2
    <3>2. [1..Cardinality(kept) -> Msgs] \in {[1..n -> Msgs] : n \in Nat}
      BY <2>2
    <3>3. order \in Seq(Msgs)
      BY <3>1, <3>2, SeqDef, Zenon
    <3>4. send => 1 \in 1..Cardinality(kept)
      BY <2>2
    <3> QED
      BY <3>1, <3>3, <3>4
  <2> DEFINE x == Done(head, FALSE)
             y == Done(Op("write", order[1]), FALSE)
  <2>4. head \in R /\ x \in S /\ (send => y \in S)
    <3>1. head \in R
      BY DEF ReadsOf, Known, Op
    <3>2. x \in S
      BY <3>1, ReadOp, ReceivedCalls
    <3> QED
      BY <2>3, <3>1, <3>2, WriteOp
  <2>5. \/ /\ reading' = Append(reading, head) /\ ready' = q
           /\ writing' = IF send THEN Append(writing, order[1]) ELSE writing
        \/ /\ UNCHANGED <<reading, writing>>
           /\ ready' = q \o <<x>> \o (IF send THEN <<y>> ELSE <<>>)
    BY <2>1
  <2>6. outbox' \in Seq(Msgs)
    BY <1>1, <2>1, <2>3
  <2> HIDE DEF S, R, q, head, x, y, send
  <2>7. reading' \in Seq(R)
    <3>1. reading' = Append(reading, head) \/ reading' = reading
      BY <2>5
    <3>2. head \in R /\ reading \in Seq(R)
      BY <1>1, <2>4
    <3> QED
      BY <3>1, <3>2
  <2>8. writing' \in Seq(Msgs) /\ header' \in Msgs \cup {NoMsg}
    <3>1. writing' = writing \/ (send /\ writing' = Append(writing, order[1]))
      BY <2>5
    <3>2. header' = header \/ (send /\ header' = order[1])
      BY <2>1
    <3>3. header \in Msgs \cup {NoMsg}
      BY <1>1 DEF Types, TypeOK
    <3>4. writing' \in Seq(Msgs)
      <4> DEFINE w == order[1]
      <4>1. writing \in Seq(Msgs) /\ (send => w \in Msgs)
        BY <1>1, <2>3
      <4>2. writing' = writing \/ (send /\ writing' = Append(writing, w))
        BY <3>1
      <4> HIDE DEF w
      <4> QED
        BY <4>1, <4>2
    <3> QED
      BY <2>3, <3>2, <3>3, <3>4
  <2>9. ready' \in Seq(S)
    <3>1. <<x>> \in Seq(S) /\ (send => <<y>> \in Seq(S)) /\ <<>> \in Seq(S)
      BY <2>4
    <3>2. CASE ready' = q
      BY <1>2, <3>2
    <3>3. CASE ready' = q \o <<x>> \o (IF send THEN <<y>> ELSE <<>>)
      <4>1. q \o <<x>> \in Seq(S)
        BY <1>2, <3>1
      <4>2. (IF send THEN <<y>> ELSE <<>>) \in Seq(S)
        BY <3>1
      <4> DEFINE u == q \o <<x>>
                 v == IF send THEN <<y>> ELSE <<>>
      <4>3. u \in Seq(S) /\ v \in Seq(S) /\ ready' = u \o v
        BY <3>3, <4>1, <4>2
      <4> HIDE DEF u, v
      <4> QED
        BY <4>3
    <3> QED
      BY <2>5, <3>2, <3>3
  <2>10. Received' = Received /\ GenuineReplies'
    BY <1>1 DEF Received, Heard, GenuineReplies
  <2>11. Heard'
    BY <1>1, <2>1, <2>7, <2>9, <2>10 DEF Heard, S, R
  <2>12. ready' \in Seq(Completed) /\ reading' \in Seq([op : {"head", "body"}, msg : Replies \cup {NoMsg}])
    BY <2>7, <2>9, HeardTypes, ReceivedCalls DEF S, R
  <2>13. Types'
    BY <1>1, <2>1, <2>6, <2>8, <2>12 DEF Types, TypeOK, Completed
  <2> QED
    BY <2>11, <2>13 DEF HInv
<1> QED
  BY <1>3, <1>4, <1>5 DEF OnConnect, link, out

LEMMA OnWriteHInv ==
  ASSUME HInv, OnWrite
  PROVE  HInv'
<1> USE DEF maps, given
<1> DEFINE S == OpsOf(Received)
           q == Tail(ready)
<1>1. /\ ready # <<>> /\ Types /\ Heard /\ outbox \in Seq(Msgs) /\ header \in Msgs \cup {NoMsg}
      /\ writing \in Seq(Msgs)
      /\ UNCHANGED <<retries, maps, sock, reading, frame, wire, told, pc, conn, crashed, given, faults>>
  BY DEF OnWrite, Handles, HInv, Types, TypeOK
<1>2. q \in Seq(S)
  BY <1>1, FirstHeard
<1>3. connected' \in BOOLEAN /\ CpcType'
  BY <1>1 DEF OnWrite, Types, TypeOK, CpcType
<1>4. ASSUME ready' \in Seq(S), outbox' \in Seq(Msgs), writing' \in Seq(Msgs),
             header' \in Msgs \cup {NoMsg}
      PROVE  HInv'
  <2>1. Heard'
    BY <1>1, <1>4, HeardFrame
  <2>2. ready' \in Seq(Completed)
    BY <1>4, HeardTypes, ReceivedCalls
  <2>3. Types'
    BY <1>1, <1>3, <1>4, <2>2 DEF Types, TypeOK, Completed, CpcType
  <2> QED
    BY <2>1, <2>3 DEF HInv
<1>5. CASE UNCHANGED <<out, writing>> /\ ready' = q
  BY <1>1, <1>2, <1>4, <1>5 DEF out
<1>6. CASE outbox' = (IF outbox = <<>> THEN <<>> ELSE Tail(outbox)) /\ WriteNext
  <2>1. outbox' \in Seq(Msgs)
    BY <1>1, <1>6
  <2>2. CASE Len(outbox) > 1
    <3>1. outbox[2] \in Msgs /\ StartWrite(outbox[2], q)
      BY <1>1, <1>6, <2>2 DEF WriteNext
    <3> HIDE DEF q
    <3>2. ready' \in Seq(S) /\ writing' \in Seq(Msgs) /\ header' \in Msgs \cup {NoMsg}
      BY <1>2, <3>1, WriteStarts
    <3> QED
      BY <1>4, <2>1, <3>2
  <2>3. CASE ~(Len(outbox) > 1)
    <3>1. ready' = q /\ UNCHANGED <<header, writing>>
      BY <1>6, <2>3 DEF WriteNext
    <3> QED
      BY <1>1, <1>2, <1>4, <2>1, <3>1
  <2> QED
    BY <2>2, <2>3
<1> QED
  BY <1>5, <1>6 DEF OnWrite

LEMMA OnHeadHInv ==
  ASSUME HInv, OnHead
  PROVE  HInv'
<1> DEFINE S == OpsOf(Received)
           R == ReadsOf(Received)
           q == Tail(ready)
           m == Head(ready).msg
<1>1. /\ ready # <<>> /\ Head(ready).op = "head"
      /\ Types /\ reading \in Seq(R) /\ pending \subseteq Calls /\ crashed \in Replies \cup {NoMsg}
  BY DEF OnHead, Handles, HInv, Heard, Types, TypeOK
<1>2. q \in Seq(S) /\ m \in Known(Received)
  BY <1>1, FirstHeard
<1>3. UNCHANGED <<retries, out, maps, sock, writing, frame, wire, told, pc, conn, crashed, sent, faults>>
  BY DEF OnHead
<1>4. connected' \in BOOLEAN /\ CpcType' /\ pending' \subseteq Calls
      /\ crashed' \in Replies \cup {NoMsg}
  BY <1>1, <1>3 DEF OnHead, Types, TypeOK, CpcType, maps
<1>5. ready' \in Seq(S) /\ reading' \in Seq(R)
  <2>1. CASE StartRead(Op("body", m), q)
    <3>1. Op("body", m) \in R
      BY <1>2 DEF ReadsOf, Op
    <3> HIDE DEF q, m
    <3> QED
      BY <1>2, <2>1, <3>1, ReadStarts
  <2>2. CASE ready' = q /\ reading' = reading
    BY <1>1, <1>2, <2>2
  <2> QED
    BY <2>1, <2>2 DEF OnHead
<1>6. \/ UNCHANGED <<result, answers>>
      \/ \E cs \in SUBSET Calls, res \in [Calls -> Results] :
           /\ Answer(cs, res)
           /\ \A c \in cs : res[c] \in {"reply", "timeout"} => c \in Received
  <2>1. CASE Answer(pending \intersect Callbacks, [c \in Calls |-> "error"])
    <3>1. pending \intersect Callbacks \in SUBSET Calls /\ [c \in Calls |-> "error"] \in [Calls -> Results]
      BY <1>1 DEF Results
    <3>2. \A c \in pending \intersect Callbacks : [d \in Calls |-> "error"][c] \notin {"reply", "timeout"}
      BY <1>1
    <3> QED
      BY <2>1, <3>1, <3>2
  <2> QED
    BY <2>1 DEF OnHead
<1> HIDE DEF q, m
<1> QED
  BY <1>3, <1>4, <1>5, <1>6, ReportHInv DEF maps

LEMMA OnBodyHInv ==
  ASSUME HInv, OnBody
  PROVE  HInv'
<1> DEFINE S == OpsOf(Received)
           R == ReadsOf(Received)
           q == Tail(ready)
           m == Head(ready).msg
           ok == Head(ready).ok /\ sock # "closed"
           res == [d \in Calls |-> IF d \in late THEN "timeout" ELSE IF ok THEN "reply" ELSE "error"]
<1>1. /\ ready # <<>> /\ Head(ready).op = "body"
      /\ Types /\ reading \in Seq(R) /\ pending \subseteq Calls /\ crashed \in Replies \cup {NoMsg}
  BY DEF OnBody, Handles, HInv, Heard, Types, TypeOK
<1>2. q \in Seq(S) /\ m \in Known(Received)
  BY <1>1, FirstHeard
<1>3. UNCHANGED <<retries, out, late, kept, sock, writing, frame, wire, told, pc, conn, sent, faults>>
  BY DEF OnBody
<1>4. connected' \in BOOLEAN /\ CpcType'
  BY <1>1 DEF OnBody, Types, TypeOK, CpcType
<1>5. ready' \in Seq(S) /\ reading' \in Seq(R)
  <2>1. CASE StartRead(Op("head", NoMsg), q)
    <3>1. Op("head", NoMsg) \in R
      BY DEF ReadsOf, Op, Known
    <3> HIDE DEF q
    <3> QED
      BY <1>2, <2>1, <3>1, ReadStarts
  <2>2. CASE ready' = q /\ reading' = reading
    BY <1>1, <1>2, <2>2
  <2> QED
    BY <2>1, <2>2 DEF OnBody
<1>6. \/ UNCHANGED <<pending, result, answers, crashed>>
      \/ crashed' = m /\ UNCHANGED <<pending, result, answers>>
      \/ m \in pending /\ pending' = pending \ {m} /\ crashed' = crashed /\ Answer({m}, res)
  BY DEF OnBody, CallBack
<1>7. m \in Replies \cup {NoMsg}
  BY <1>2, HeardTypes, ReceivedCalls
<1>8. res \in [Calls -> Results]
  BY DEF Results
<1> HIDE DEF q, m, ok, res
<1>9. m \in pending => m \in Received
  BY <1>1, <1>2, Kinds DEF Known
<1>10. pending' \subseteq Calls /\ crashed' \in Replies \cup {NoMsg}
  BY <1>1, <1>6, <1>7
<1>11. \/ UNCHANGED <<result, answers>>
       \/ \E cs \in SUBSET Calls, r \in [Calls -> Results] :
            /\ Answer(cs, r)
            /\ \A c \in cs : r[c] \in {"reply", "timeout"} => c \in Received
  <2>1. CASE m \in pending /\ Answer({m}, res)
    <3>1. {m} \in SUBSET Calls /\ m \in Received
      BY <1>1, <1>9, <2>1
    <3> QED
      BY <1>8, <2>1, <3>1
  <2> QED
    BY <1>6, <2>1
<1> QED
  BY <1>3, <1>4, <1>5, <1>10, <1>11, ReportHInv

LEMMA CallsHInv ==
  ASSUME HInv, \/ \E c \in Calls : CheckConnected(c)
               \/ \E t \in Closers : ClearMaps(t)
  PROVE  HInv'
<1>1. /\ Types /\ Heard /\ reading \in Seq(ReadsOf(Received)) /\ ready \in Seq(OpsOf(Received))
      /\ crashed \in Replies \cup {NoMsg} /\ connected \in BOOLEAN /\ pending \subseteq Calls
  BY DEF HInv, Heard, Types, TypeOK
<1>2. ASSUME NEW c \in Calls, CheckConnected(c) PROVE HInv'
  <2>1. /\ UNCHANGED <<link, out, maps, socket, ready, conn, cpc, crashed, sent, faults>>
        /\ PcType'
    BY <1>1, <1>2 DEF CheckConnected, Types, TypeOK, PcType
  <2>2. /\ result' \in [Calls -> Results] /\ answers' \in [Calls -> Nat]
        /\ \A d \in Calls : result'[d] \in {result[d], "notConnected"}
    <3>1. result \in [Calls -> Results] /\ answers \in [Calls -> Nat]
      BY <1>1 DEF Types, TypeOK
    <3>2. UNCHANGED <<result, answers>> \/ Answer({c}, [d \in Calls |-> "notConnected"])
      BY <1>2 DEF CheckConnected
    <3> QED
      BY <3>1, <3>2 DEF Answer, Results
  <2>3. Received' = Received
    BY <2>1 DEF Received
  <2>4. GenuineReplies'
    BY <1>1, <2>1, <2>2 DEF Heard, GenuineReplies
  <2>5. Heard'
    BY <1>1, <2>1, <2>3, <2>4 DEF Heard, socket
  <2>6. Types'
    BY <1>1, <2>1, <2>2 DEF Types, TypeOK, PcType, link, out, maps, socket
  <2> QED
    BY <2>5, <2>6 DEF HInv
<1>3. ASSUME NEW t \in Closers, ClearMaps(t) PROVE HInv'
  <2>1. /\ UNCHANGED <<link, out, late, kept, socket, ready, pc, conn, crashed, sent, answers, faults>>
        /\ CpcType' /\ pending' = {}
    BY <1>1, <1>3 DEF ClearMaps, Types, TypeOK, CpcType, AfterClose
  <2>2. /\ result' \in [Calls -> Results]
        /\ \A d \in Calls : result'[d] \in {result[d], "broken"}
    BY <1>1, <1>3 DEF ClearMaps, Types, TypeOK, Results
  <2>3. Received' = Received
    BY <2>1 DEF Received
  <2>4. GenuineReplies'
    BY <1>1, <2>1, <2>2 DEF Heard, GenuineReplies
  <2>5. Heard'
    BY <1>1, <2>1, <2>3, <2>4 DEF Heard, socket
  <2>6. Types'
    BY <1>1, <2>1, <2>2 DEF Types, TypeOK, CpcType, link, out, socket
  <2> QED
    BY <2>5, <2>6 DEF HInv
<1> QED
  BY <1>2, <1>3

LEMMA HSteps ==
  ASSUME HInv, [Next]_vars
  PROVE  HInv'
<1>1. ASSUME NEW t \in Closers, CloseStep(t) PROVE HInv'
  BY <1>1, SocketHInv, ThreadsHInv, CallsHInv DEF CloseStep
<1>2. CASE Reactor
  BY <1>2, CompletedHInv, WriteDoneHInv DEF Reactor
<1>3. CASE Handler
  <2>1. ASSUME NEW b \in Beats, BeatWrites(b) PROVE HInv'
    BY <2>1, EnqueueHInv DEF BeatWrites, Msgs
  <2> QED
    BY <1>1, <1>3, <2>1, OnConnectHInv, OnWriteHInv, OnHeadHInv, OnBodyHInv, SocketHInv
       DEF Handler, Closers
<1>4. CASE User
  <2>1. ASSUME NEW c \in Calls, Write(c) PROVE HInv'
    BY <2>1, EnqueueHInv DEF Write, Msgs
  <2> QED
    BY <1>1, <1>4, <2>1, ThreadsHInv DEF User, Closers
<1>5. CASE Connect \/ Close \/ Break
  BY <1>5, ThreadsHInv, SocketHInv
<1>6. ASSUME NEW s \in Subs, Subscribe(s) PROVE HInv'
  BY <1>6, EnqueueHInv DEF Subscribe, Msgs
<1>7. CASE \/ \E c \in Calls : CheckConnected(c) \/ Expire(c)
           \/ \E p \in Pubs : Publish(p)
           \/ \E b \in Beats : BeatChecks(b)
  BY <1>7, CallsHInv, ThreadsHInv, SocketHInv
<1>8. CASE UNCHANGED vars
  <2>1. Types'
    BY <1>8 DEF HInv, Types, TypeOK, vars, link, out, maps, socket, threads, given
  <2>2. Heard'
    BY <1>8, HeardFrame DEF HInv, Heard, vars, socket, given
  <2> QED
    BY <2>1, <2>2 DEF HInv
<1> QED
  BY <1>2, <1>3, <1>4, <1>5, <1>6, <1>7, <1>8 DEF Next

\* The members of a client keep their types, with reconnection or without.
THEOREM ClientTypes == Spec => []TypeOK
<1>1. HInv => TypeOK
  BY DEF HInv, Types
<1> QED
  BY <1>1, HInitially, HSteps, PTL DEF Spec

\* GenuineReplies: over any number of reconnections a reply or a timeout is that of a
\* call which the server has received (call_back, rpc_client.hpp:590-636).
THEOREM RepliesAreGenuine == Spec => []GenuineReplies
<1>1. HInv => GenuineReplies
  BY DEF HInv, Heard
<1> QED
  BY <1>1, HInitially, HSteps, PTL DEF Spec
--------------------------------------------------------------------------------
(* What a caller has got is final                                              *)

\* A call that is still registered has got no reply, and its future nothing at all.
Final(c) == result[c] \in {"reply", "timeout"} \/ (c \notin Callbacks /\ result[c] # "none")
Early(c) == pc[c] \in {"idle", "checked"}
FInv ==
  \A c \in Calls : /\ Early(c) => result[c] = "none" /\ c \notin pending
                   /\ c \in pending => ~Final(c)
Keeps == \A c \in Calls : Final(c) => result'[c] = result[c] /\ answers'[c] = answers[c]

LEMMA FinalFrame ==
  ASSUME FInv, UNCHANGED <<result, answers>>, pending' \subseteq pending,
         \A c \in Calls : Early(c)' => Early(c)
  PROVE  FInv' /\ Keeps
BY DEF FInv, Final, Keeps

\* Answers to calls that are registered: these are taken from the map, or are callbacks
\* that hear of an error.
LEMMA AnswerFinal ==
  ASSUME FInv, NEW cs \in SUBSET pending, pending' \subseteq pending, UNCHANGED pc,
         \A c \in Calls \ cs : result'[c] = result[c] /\ answers'[c] = answers[c],
         \A c \in cs : c \notin pending' \/ (c \in Callbacks /\ result'[c] = "error")
  PROVE  FInv' /\ Keeps
<1>1. ASSUME NEW c \in Calls
      PROVE  /\ Early(c)' => result'[c] = "none" /\ c \notin pending'
             /\ c \in pending' => ~Final(c)'
             /\ Final(c) => result'[c] = result[c] /\ answers'[c] = answers[c]
  <2>1. CASE c \in cs
    BY <2>1 DEF FInv, Final, Early
  <2>2. CASE c \notin cs
    BY <2>2 DEF FInv, Final, Early
  <2> QED
    BY <2>1, <2>2
<1> QED
  BY <1>1 DEF FInv, Keeps

LEMMA EnqueueFinal ==
  ASSUME HInv, FInv, NEW m \in Msgs, NEW next \in {"sent", "done"}, Enqueue(m, next)
  PROVE  FInv' /\ Keeps
<1>1. UNCHANGED <<result, answers, pending>> /\ pc' = [pc EXCEPT ![m] = next]
  BY DEF Enqueue, maps, given
<1>2. \A c \in Calls : Early(c)' => Early(c)
  BY <1>1 DEF Early, HInv, Types, TypeOK, Msgs
<1> QED
  BY <1>1, <1>2, FinalFrame

LEMMA ReactorFinal ==
  ASSUME FInv, Reactor
  PROVE  FInv' /\ Keeps
<1>1. UNCHANGED <<result, answers, pending, pc>>
  BY DEF Reactor, ConnectDone, WriteDone, HeadDone, BodyDone, ReadFails, maps, threads, given
<1> QED
  BY <1>1, FinalFrame DEF Early

LEMMA CloseFinal ==
  ASSUME HInv, FInv, NEW t \in Closers, CloseStep(t)
  PROVE  FInv' /\ Keeps
<1>1. CASE TestConnected(t) \/ ClearConnected(t) \/ CloseSocket(t) \/ ClearOutbox(t)
  <2>1. UNCHANGED <<result, answers, pending, pc>>
    BY <1>1 DEF TestConnected, ClearConnected, CloseSocket, ClearOutbox, maps, given
  <2> QED
    BY <2>1, FinalFrame DEF Early
<1>2. CASE ClearMaps(t)
  <2>1. /\ UNCHANGED <<answers, pc>> /\ pending' = {}
        /\ \A c \in Calls \ (pending \ Callbacks) : result'[c] = result[c]
    BY <1>2 DEF ClearMaps
  <2>2. pending \ Callbacks \in SUBSET pending
    OBVIOUS
  <2> QED
    BY <2>1, <2>2, AnswerFinal
<1> QED
  BY <1>1, <1>2 DEF CloseStep

LEMMA HandlerFinal ==
  ASSUME HInv, FInv, OnConnect \/ OnWrite \/ OnHead \/ OnBody \/ ErrorCallback
  PROVE  FInv' /\ Keeps
<1> USE DEF maps, threads, given
<1>1. pending \subseteq Calls
  BY DEF HInv, Types, TypeOK
<1>2. CASE OnConnect \/ OnWrite \/ ErrorCallback
  <2>1. UNCHANGED <<result, answers, pending, pc>>
    BY <1>2 DEF OnConnect, OnWrite, ErrorCallback
  <2> QED
    BY <2>1, FinalFrame DEF Early
<1>3. CASE OnHead
  <2>1. UNCHANGED <<pending, pc>>
    BY <1>3 DEF OnHead
  <2>2. CASE UNCHANGED <<result, answers>>
    BY <2>1, <2>2, FinalFrame DEF Early
  <2>3. CASE Answer(pending \cap Callbacks, [c \in Calls |-> "error"])
    <3>1. /\ \A c \in Calls \ (pending \cap Callbacks) : result'[c] = result[c] /\ answers'[c] = answers[c]
          /\ \A c \in pending \cap Callbacks : result'[c] = "error"
      BY <1>1, <2>3 DEF Answer
    <3>2. pending \cap Callbacks \in SUBSET pending
      OBVIOUS
    <3> QED
      BY <2>1, <3>1, <3>2, AnswerFinal
  <2> QED
    BY <1>3, <2>2, <2>3 DEF OnHead
<1>4. CASE OnBody
  <2> DEFINE m == Head(ready).msg
             ok == Head(ready).ok /\ sock # "closed"
  <2>1. pc' = pc /\ (UNCHANGED <<pending, result, answers>> \/ CallBack(m, ok))
    BY <1>4 DEF OnBody
  <2> HIDE DEF m, ok
  <2>2. CASE UNCHANGED <<pending, result, answers>>
    BY <2>1, <2>2, FinalFrame DEF Early
  <2>3. CASE CallBack(m, ok) /\ m \in pending
    <3>1. /\ pending' = pending \ {m}
          /\ \A c \in Calls \ {m} : result'[c] = result[c] /\ answers'[c] = answers[c]
      BY <2>3 DEF CallBack, Answer
    <3>2. {m} \in SUBSET pending
      BY <2>3
    <3> QED
      BY <2>1, <3>1, <3>2, AnswerFinal
  <2> QED
    BY <2>1, <2>2, <2>3 DEF CallBack
<1> QED
  BY <1>2, <1>3, <1>4

LEMMA CallsFinal ==
  ASSUME HInv, FInv, NEW c \in Calls, CheckConnected(c) \/ Register(c) \/ Expire(c)
  PROVE  FInv' /\ Keeps
<1> USE DEF maps, given, threads
<1>1. /\ pc \in [Msgs \union Pubs -> {"idle", "checked", "registered", "sent", "done"}]
      /\ c \in Msgs \union Pubs /\ Callbacks \subseteq Calls
  BY Kinds DEF HInv, Types, TypeOK
<1>2. CASE CheckConnected(c)
  <2>1. /\ Early(c) /\ result[c] = "none" /\ c \notin pending
        /\ UNCHANGED <<pending, late, kept>>
        /\ \A d \in Calls \ {c} : pc'[d] = pc[d] /\ result'[d] = result[d] /\ answers'[d] = answers[d]
    <3>1. Early(c) /\ UNCHANGED <<pending, late, kept>>
      BY <1>2 DEF CheckConnected, Early
    <3>2. \A d \in Calls \ {c} : pc'[d] = pc[d]
      <4>1. PICK next \in {"checked", "done"} : pc' = [pc EXCEPT ![c] = next]
        BY <1>2 DEF CheckConnected
      <4> QED
        BY <1>1, <4>1 DEF Msgs
    <3>3. \A d \in Calls \ {c} : result'[d] = result[d] /\ answers'[d] = answers[d]
      BY <1>2 DEF CheckConnected, Answer
    <3> QED
      BY <3>1, <3>2, <3>3 DEF FInv
  <2>2. \/ pc'[c] = "done" /\ c \in Callbacks /\ result'[c] = "notConnected"
        \/ UNCHANGED <<result, answers>>
    BY <1>1, <1>2 DEF CheckConnected, Answer
  <2>3. ASSUME NEW d \in Calls
        PROVE  /\ Early(d)' => result'[d] = "none" /\ d \notin pending'
               /\ d \in pending' => ~Final(d)'
               /\ Final(d) => result'[d] = result[d] /\ answers'[d] = answers[d]
    <3>1. CASE d = c
      BY <2>1, <2>2, <3>1 DEF Final, Early
    <3>2. CASE d # c
      BY <2>1, <3>2 DEF FInv, Final, Early
    <3> QED
      BY <3>1, <3>2
  <2> QED
    BY <2>3 DEF FInv, Keeps
<1>3. CASE Register(c)
  <2>1. /\ result[c] = "none" /\ pc'[c] = "registered"
        /\ \A d \in Calls \ {c} : pc'[d] = pc[d]
        /\ pending' = pending \cup {c} /\ UNCHANGED <<result, answers>>
    BY <1>1, <1>3 DEF Register, FInv, Early
  <2> QED
    BY <2>1 DEF FInv, Final, Early, Keeps
<1>4. CASE Expire(c)
  <2>1. UNCHANGED <<result, answers, pending, pc>>
    BY <1>4 DEF Expire
  <2> QED
    BY <2>1, FinalFrame DEF Early
<1> QED
  BY <1>2, <1>3, <1>4

LEMMA OthersFinal ==
  ASSUME HInv, FInv,
         \/ ConnectReturns \/ Connect \/ Close \/ Break \/ UNCHANGED vars
         \/ \E s \in Subs : KeepSubscription(s)
         \/ \E p \in Pubs : Publish(p)
         \/ \E b \in Beats : BeatChecks(b)
  PROVE  FInv' /\ Keeps
<1> USE DEF maps, given, threads
<1>1. UNCHANGED <<result, answers, pending>>
  BY DEF ConnectReturns, Connect, Close, Break, KeepSubscription, Publish, BeatChecks, vars
<1>2. \A c \in Calls : pc'[c] = pc[c]
  <2>1. pc \in [Msgs \union Pubs -> {"idle", "checked", "registered", "sent", "done"}]
    BY DEF HInv, Types, TypeOK
  <2>2. ASSUME NEW m \in Subs \union Pubs \union Beats, NEW next, pc' = [pc EXCEPT ![m] = next]
        PROVE  \A c \in Calls : pc'[c] = pc[c]
    BY <2>1, <2>2, Kinds DEF Msgs
  <2>3. CASE ConnectReturns \/ Connect \/ Close \/ Break \/ UNCHANGED vars
    BY <2>3 DEF ConnectReturns, Connect, Close, Break, vars
  <2>4. ASSUME NEW s \in Subs, KeepSubscription(s) PROVE \A c \in Calls : pc'[c] = pc[c]
    BY <2>2, <2>4 DEF KeepSubscription
  <2>5. ASSUME NEW p \in Pubs, Publish(p) PROVE \A c \in Calls : pc'[c] = pc[c]
    BY <2>2, <2>5 DEF Publish
  <2>6. ASSUME NEW b \in Beats, BeatChecks(b) PROVE \A c \in Calls : pc'[c] = pc[c]
    BY <2>2, <2>6 DEF BeatChecks
  <2> QED
    BY <2>3, <2>4, <2>5, <2>6
<1> QED
  BY <1>1, <1>2, FinalFrame DEF Early

\* RepliesFinal: over any number of reconnections a reply or a timeout, and whatever a
\* future has got, is the last that its caller gets (call_back, rpc_client.hpp:590-636,
\* clear_cache, and the callbacks of a failed read, 521).
THEOREM FinalReplies == Spec => RepliesFinal
<1>1. Init => FInv
  BY Kinds DEF Init, FInv, Final
<1>2. HInv /\ FInv /\ [Next]_vars => FInv' /\ Keeps
  <2> SUFFICES ASSUME HInv, FInv, [Next]_vars PROVE FInv' /\ Keeps
    OBVIOUS
  <2>1. ASSUME NEW t \in Closers, CloseStep(t) PROVE FInv' /\ Keeps
    BY <2>1, CloseFinal
  <2>2. ASSUME NEW m \in Msgs, NEW next \in {"sent", "done"}, Enqueue(m, next) PROVE FInv' /\ Keeps
    BY <2>2, EnqueueFinal
  <2>3. CASE Handler
    BY <2>1, <2>2, <2>3, HandlerFinal DEF Handler, Closers, BeatWrites, Msgs
  <2>4. CASE User
    BY <2>1, <2>2, <2>4, CallsFinal, OthersFinal DEF User, Closers, Write, Msgs
  <2>5. ASSUME NEW s \in Subs, Subscribe(s) PROVE FInv' /\ Keeps
    BY <2>2, <2>5 DEF Subscribe, Msgs
  <2> QED
    BY <2>3, <2>4, <2>5, ReactorFinal, CallsFinal, OthersFinal DEF Next
<1>3. Keeps => [\A c \in Calls :
                  result[c] \in {"reply", "timeout"} \/ (c \notin Callbacks /\ result[c] # "none") =>
                    result'[c] = result[c] /\ answers'[c] = answers[c]]_vars
  BY DEF Keeps, Final
<1> QED
  BY <1>1, <1>2, <1>3, HInitially, HSteps, PTL DEF Spec, RepliesFinal
================================================================================
