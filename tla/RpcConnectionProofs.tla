-------------------------- MODULE RpcConnectionProofs --------------------------
(* Proofs about RpcConnection: its safety and that it implements RpcPromise,   *)
(* for any number of requests and publications.                                *)
EXTENDS RpcConnection, SequenceTheorems, TLAPS

--------------------------------------------------------------------------------
(* The inductive invariant                                                     *)

Completed == [op : {"head", "body", "write", "timer"}, msg : Ids, ok : BOOLEAN]
Reads  == {"head", "body"}
Writes == {"write"}

\* Of the handlers that wait none, or at most one, is of a kind in K.
Elements(s) == {s[i] : i \in DOMAIN s}
None(s, K)  == \A x \in Elements(s) : x.op \notin K
One(s, K)   == \A i, j \in DOMAIN s : s[i].op \in K /\ s[j].op \in K => i = j

\* There is one read, which waits or is completed.
ReadOnce ==
  /\ One(ready, Reads)
  /\ reading # "none" => None(ready, Reads)

\* What has been read is a request that has not been routed yet, and between its
\* head and its body req_id_ stays its own.
HasBody(r) == r \in Requests /\ pc[r] = "read" /\ Kind[r] \notin {"heartbeat", "bad"} /\ reqId = r
ReadsOf(x) ==
  /\ x.op = "head" /\ x.ok => /\ x.msg \in Requests /\ pc[x.msg] = "read"
                              /\ sock # "closed" => frame = x.msg
  /\ x.op = "body" /\ x.ok => HasBody(x.msg)
ReadInTurn ==
  /\ \A x \in Elements(ready) : ReadsOf(x)
  /\ reading = "body" => HasBody(frame)

\* There is one write, which waits or is completed, and the queue holds its response
\* until the handler has run.
WriteOnce ==
  /\ One(ready, Writes)
  /\ ~None(ready, Writes) => queue # <<>>
  /\ writing # <<>> => /\ None(ready, Writes)
                       /\ queue # <<>> /\ sock # "closed"
                       /\ writing = <<queue[1]>> /\ header = queue[1]

\* A response in the queue is the only one to its request, which has been routed.
Queued ==
  /\ \A i \in DOMAIN queue :
       LET m == queue[i] IN
         /\ pc[m.of] = "done"
         /\ m.of \in Requests => m.to = m.of /\ executed[m.of] = 1
         /\ m.of \in Pubs => m.to = NoMsg
  /\ \A i, j \in DOMAIN queue : queue[i].of = queue[j].of => i = j

\* How far a request has come.
Progress ==
  \A r \in Requests :
    /\ pc[r] \in {"unsent", "wire", "read"} => executed[r] = 0
    /\ pc[r] = "asked" => executed[r] = 1 /\ taken[r] = r
    /\ answers[r] = 1 =>
         /\ executed[r] = 1 /\ pc[r] = "done"
         /\ \A i \in DOMAIN queue : queue[i].of = r => i = 1 /\ writing = <<>>

IInv == TypeOK /\ ReadOnce /\ ReadInTurn /\ WriteOnce /\ Queued /\ Progress

--------------------------------------------------------------------------------
(* Lemmas about the queue of completed operations                              *)

LEMMA Appended ==
  ASSUME NEW S, NEW s \in Seq(S), NEW x \in S, NEW K
  PROVE  /\ Append(s, x) \in Seq(S)
         /\ Elements(Append(s, x)) = Elements(s) \cup {x}
         /\ None(s, K) => One(Append(s, x), K)
         /\ None(s, K) /\ x.op \notin K => None(Append(s, x), K)
         /\ One(s, K) /\ x.op \notin K => One(Append(s, x), K)
<1>1. /\ Append(s, x) \in Seq(S)
      /\ DOMAIN Append(s, x) = 1..(Len(s) + 1) /\ DOMAIN s = 1..Len(s) /\ Len(s) \in Nat
      /\ \A i \in 1..Len(s) : Append(s, x)[i] = s[i]
      /\ Append(s, x)[Len(s) + 1] = x
  OBVIOUS
<1>2. \A i \in DOMAIN Append(s, x) : i = Len(s) + 1 \/ i \in DOMAIN s
  BY <1>1
<1>3. Elements(Append(s, x)) = Elements(s) \cup {x}
  <2>1. ASSUME NEW y \in Elements(s) PROVE y \in Elements(Append(s, x))
    <3>1. PICK i \in DOMAIN s : y = s[i]
      BY DEF Elements
    <3>2. i \in DOMAIN Append(s, x) /\ Append(s, x)[i] = y
      BY <1>1, <3>1
    <3> QED
      BY <3>2 DEF Elements
  <2>2. x \in Elements(Append(s, x))
    <3>1. Len(s) + 1 \in DOMAIN Append(s, x)
      BY <1>1
    <3> QED
      BY <1>1, <3>1 DEF Elements
  <2>3. ASSUME NEW y \in Elements(Append(s, x)) PROVE y = x \/ y \in Elements(s)
    <3>1. PICK i \in DOMAIN Append(s, x) : y = Append(s, x)[i]
      BY DEF Elements
    <3>2. CASE i = Len(s) + 1
      BY <1>1, <3>1, <3>2
    <3>3. CASE i \in DOMAIN s
      BY <1>1, <3>1, <3>3 DEF Elements
    <3> QED
      BY <1>2, <3>2, <3>3
  <2> QED
    BY <2>1, <2>2, <2>3
<1>4. None(s, K) => One(Append(s, x), K)
  <2>1. None(s, K) => \A i \in DOMAIN s : s[i].op \notin K
    BY DEF None, Elements
  <2> QED
    BY <1>1, <1>2, <2>1 DEF One
<1>5. One(s, K) /\ x.op \notin K => One(Append(s, x), K)
  BY <1>1, <1>2 DEF One
<1> QED
  BY <1>1, <1>3, <1>4, <1>5 DEF None

LEMMA Removed ==
  ASSUME NEW S, NEW s \in Seq(S), s # <<>>, NEW K
  PROVE  /\ Head(s) \in S /\ Head(s) \in Elements(s) /\ Tail(s) \in Seq(S)
         /\ Elements(Tail(s)) \subseteq Elements(s)
         /\ None(s, K) => None(Tail(s), K)
         /\ One(s, K) => One(Tail(s), K)
         /\ One(s, K) /\ Head(s).op \in K => None(Tail(s), K)
<1>1. /\ Head(s) \in S /\ Tail(s) \in Seq(S)
      /\ Len(s) \in Nat /\ Len(s) > 0 /\ DOMAIN s = 1..Len(s) /\ Head(s) = s[1]
      /\ DOMAIN Tail(s) = 1..(Len(s) - 1)
      /\ \A i \in 1..(Len(s) - 1) : Tail(s)[i] = s[i + 1]
  BY HeadTailProperties, EmptySeq
<1>2. \A i \in DOMAIN Tail(s) : i + 1 \in DOMAIN s /\ i + 1 # 1 /\ Tail(s)[i] = s[i + 1]
  BY <1>1
<1>3. 1 \in DOMAIN s
  BY <1>1
<1>4. Elements(Tail(s)) \subseteq Elements(s)
  BY <1>2 DEF Elements
<1>5. One(s, K) => One(Tail(s), K)
  <2> SUFFICES ASSUME One(s, K), NEW i \in DOMAIN Tail(s), NEW j \in DOMAIN Tail(s),
                      Tail(s)[i].op \in K, Tail(s)[j].op \in K
               PROVE  i = j
    BY DEF One
  <2>1. i + 1 = j + 1
    BY <1>2 DEF One
  <2> QED
    BY <1>1, <2>1
<1>6. One(s, K) /\ Head(s).op \in K => None(Tail(s), K)
  <2> SUFFICES ASSUME One(s, K), Head(s).op \in K, NEW i \in DOMAIN Tail(s)
               PROVE  Tail(s)[i].op \notin K
    BY DEF None, Elements
  <2> QED
    BY <1>1, <1>2, <1>3 DEF One
<1> QED
  BY <1>1, <1>3, <1>4, <1>5, <1>6 DEF None, Elements

\* The handler at the head of ready is taken out.
LEMMA Taken ==
  ASSUME IInv, ready # <<>>
  PROVE  /\ Head(ready) \in Completed /\ Head(ready) \in Elements(ready)
         /\ Tail(ready) \in Seq(Completed) /\ Elements(Tail(ready)) \subseteq Elements(ready)
         /\ One(Tail(ready), Reads) /\ One(Tail(ready), Writes)
         /\ None(ready, Reads) => None(Tail(ready), Reads)
         /\ None(ready, Writes) => None(Tail(ready), Writes)
         /\ Head(ready).op \in Reads => None(Tail(ready), Reads) /\ reading = "none"
         /\ Head(ready).op = "write" =>
              None(Tail(ready), Writes) /\ writing = <<>> /\ queue # <<>>
         /\ ReadsOf(Head(ready))
<1>1. ready \in Seq(Completed)
  BY DEF IInv, TypeOK, Completed
<1>2. One(ready, Reads) /\ One(ready, Writes)
  BY DEF IInv, ReadOnce, WriteOnce
<1>3. Head(ready) \in Completed /\ Head(ready) \in Elements(ready)
      /\ Tail(ready) \in Seq(Completed) /\ Elements(Tail(ready)) \subseteq Elements(ready)
  BY <1>1, Removed
<1>4. /\ One(Tail(ready), Reads)
      /\ None(ready, Reads) => None(Tail(ready), Reads)
      /\ Head(ready).op \in Reads => None(Tail(ready), Reads)
  BY <1>1, <1>2, Removed
<1>5. /\ One(Tail(ready), Writes)
      /\ None(ready, Writes) => None(Tail(ready), Writes)
      /\ Head(ready).op \in Writes => None(Tail(ready), Writes)
  BY <1>1, <1>2, Removed
<1>6. Head(ready).op \in Reads => reading = "none"
  BY <1>3 DEF IInv, ReadOnce, None
<1>7. Head(ready).op = "write" => writing = <<>> /\ queue # <<>>
  BY <1>3 DEF IInv, WriteOnce, None, Writes
<1>8. ReadsOf(Head(ready))
  BY <1>3 DEF IInv, ReadInTurn
<1> QED
  BY <1>3, <1>4, <1>5, <1>6, <1>7, <1>8 DEF Writes

LEMMA InitIInv == Init => IInv
<1> SUFFICES ASSUME Init PROVE IInv
  OBVIOUS
<1>1. TypeOK
  <2>1. queue \in Seq(Responses) /\ writing \in Seq(Responses) /\ ready \in Seq(Completed)
    BY DEF Init
  <2>2. timer \in {FALSE, UseTimer} /\ faults \in 0..MaxFaults
    BY LimitsAssumption DEF Init
  <2>3. pc \in [Msgs -> {"unsent", "wire", "read", "asked", "done"}] /\ taken \in [Requests -> Ids]
        /\ executed \in [Requests -> 0..1] /\ answers \in [Requests -> 0..1]
    BY DEF Init, Ids
  <2>4. frame \in Ids /\ reqId \in Ids /\ header \in Responses \union {NoResponse}
    BY DEF Init, Ids
  <2>5. sock \in {"up"} /\ reading \in {"head"} /\ subscribed \in BOOLEAN
    BY DEF Init
  <2> QED
    BY <2>1, <2>2, <2>3, <2>4, <2>5 DEF TypeOK, Completed
<1>2. ready = <<>> /\ DOMAIN ready = {} /\ queue = <<>> /\ DOMAIN queue = {}
  BY DEF Init
<1>3. Elements(ready) = {}
  BY <1>2 DEF Elements
<1>4. ReadOnce /\ ReadInTurn /\ WriteOnce
  BY <1>2, <1>3 DEF ReadOnce, ReadInTurn, WriteOnce, One, None, Init
<1>5. Queued /\ Progress
  BY <1>2 DEF Queued, Progress, Init, Msgs
<1> QED
  BY <1>1, <1>4, <1>5 DEF IInv

--------------------------------------------------------------------------------
(* What steps have in common                                                   *)

\* An operation is completed.
LEMMA Pushed ==
  ASSUME IInv, NEW x \in Completed, ready' = Append(ready, x)
  PROVE  /\ ready' \in Seq(Completed) /\ Elements(ready') = Elements(ready) \cup {x}
         /\ None(ready, Reads) => One(ready', Reads)
         /\ x.op \notin Reads => One(ready', Reads) /\ (None(ready, Reads) => None(ready', Reads))
         /\ None(ready, Writes) => One(ready', Writes)
         /\ x.op # "write" => One(ready', Writes) /\ (None(ready, Writes) => None(ready', Writes))
<1>1. ready \in Seq(Completed) /\ One(ready, Reads) /\ One(ready, Writes)
  BY DEF IInv, TypeOK, Completed, ReadOnce, WriteOnce
<1>2. /\ ready' \in Seq(Completed) /\ Elements(ready') = Elements(ready) \cup {x}
      /\ None(ready, Reads) => One(ready', Reads)
      /\ x.op \notin Reads => One(ready', Reads) /\ (None(ready, Reads) => None(ready', Reads))
  BY <1>1, Appended
<1>3. /\ None(ready, Writes) => One(ready', Writes)
      /\ x.op \notin Writes => One(ready', Writes) /\ (None(ready, Writes) => None(ready', Writes))
  BY <1>1, Appended
<1> QED
  BY <1>2, <1>3 DEF Writes

\* The queue and its write are left alone.
LEMMA WriteFrame ==
  ASSUME WriteOnce, UNCHANGED <<queue, header, writing>>,
         sock = "closed" \/ sock' # "closed" \/ writing = <<>>,
         One(ready', Writes), None(ready, Writes) => None(ready', Writes)
  PROVE  WriteOnce'
BY DEF WriteOnce

LEMMA QueueFrame ==
  ASSUME IInv, queue' = queue,
         \A m \in Msgs : pc[m] = "done" => pc'[m] = "done",
         \A r \in Requests : executed[r] = 1 => executed'[r] = 1
  PROVE  Queued'
<1>1. \A i \in DOMAIN queue : queue[i].of \in Msgs
  <2>1. queue \in Seq(Responses)
    BY DEF IInv, TypeOK
  <2>2. \A i \in DOMAIN queue : queue[i] \in Responses
    BY <2>1
  <2> QED
    BY <2>2 DEF Responses
<1>2. \A i \in DOMAIN queue :
        /\ pc[queue[i].of] = "done"
        /\ queue[i].of \in Requests => queue[i].to = queue[i].of /\ executed[queue[i].of] = 1
        /\ queue[i].of \in Pubs => queue[i].to = NoMsg
  BY DEF IInv, Queued
<1>3. \A i, j \in DOMAIN queue : queue[i].of = queue[j].of => i = j
  BY DEF IInv, Queued
<1> QED
  BY <1>1, <1>2, <1>3 DEF Queued

--------------------------------------------------------------------------------
(* The client, the network and the clock                                       *)

LEMMA SendIInv ==
  ASSUME IInv, NEW r \in Requests, Send(r)
  PROVE  IInv'
<1> USE DEF Send, socket, out
<1>0. r \in Msgs /\ pc[r] = "unsent" /\ pc' = [pc EXCEPT ![r] = "wire"]
      /\ \A m \in Msgs : pc'[m] = IF m = r THEN "wire" ELSE pc[m]
  BY DEF IInv, TypeOK, Msgs
<1>1. TypeOK'
  BY <1>0 DEF IInv, TypeOK
<1>2. ReadOnce'
  BY DEF IInv, ReadOnce
<1>3. ReadInTurn'
  <2>1. \A q \in Requests : pc[q] = "read" => pc'[q] = "read"
    BY <1>0 DEF Msgs
  <2> QED
    BY <2>1 DEF IInv, ReadInTurn, ReadsOf, HasBody
<1>4. WriteOnce'
  BY DEF IInv, WriteOnce
<1>5. Queued'
  BY <1>0, QueueFrame
<1>6. Progress'
  BY <1>0 DEF IInv, Progress, Msgs
<1> QED
  BY <1>1, <1>2, <1>3, <1>4, <1>5, <1>6 DEF IInv

LEMMA HeadDoneIInv ==
  ASSUME IInv, HeadDone
  PROVE  IInv'
<1> USE DEF HeadDone, out
<1>0. PICK r \in Requests : /\ pc[r] = "wire" /\ pc' = [pc EXCEPT ![r] = "read"]
                            /\ frame' = r /\ ready' = Append(ready, Done("head", r, TRUE))
  OBVIOUS
<1>1. \A m \in Msgs : pc'[m] = IF m = r THEN "read" ELSE pc[m]
  BY <1>0 DEF IInv, TypeOK
<1>2. r \in Msgs /\ r \in Ids /\ Done("head", r, TRUE) \in Completed
      /\ Done("head", r, TRUE).op = "head" /\ Done("head", r, TRUE).msg = r
  BY DEF Msgs, Ids, Done, Completed
<1>3. None(ready, Reads)
  BY DEF IInv, ReadOnce
<1>4. /\ ready' \in Seq(Completed)
      /\ Elements(ready') = Elements(ready) \cup {Done("head", r, TRUE)}
      /\ One(ready', Reads)
      /\ One(ready', Writes) /\ (None(ready, Writes) => None(ready', Writes))
  BY <1>0, <1>2, <1>3, Pushed
<1>5. TypeOK'
  <2>1. pc' \in [Msgs -> {"unsent", "wire", "read", "asked", "done"}]
    BY <1>0 DEF IInv, TypeOK
  <2>2. frame' \in Ids /\ reading' \in {"none", "head", "body"}
    BY <1>0, <1>2
  <2> QED
    BY <2>1, <2>2, <1>4 DEF IInv, TypeOK, Completed
<1>6. ReadOnce'
  BY <1>4 DEF ReadOnce
<1>7. ReadInTurn'
  <2>1. ASSUME NEW x \in Elements(ready) PROVE ReadsOf(x)'
    BY <1>3 DEF None, Reads, ReadsOf
  <2>2. ReadsOf(Done("head", r, TRUE))'
    BY <1>0, <1>1, <1>2 DEF ReadsOf
  <2> QED
    BY <1>4, <2>1, <2>2 DEF ReadInTurn
<1>8. WriteOnce'
  BY <1>4, WriteFrame DEF IInv
<1>9. Queued'
  BY <1>0, <1>1, QueueFrame
<1>10. Progress'
  BY <1>0, <1>1 DEF IInv, Progress, Msgs
<1> QED
  BY <1>5, <1>6, <1>7, <1>8, <1>9, <1>10 DEF IInv

LEMMA BodyDoneIInv ==
  ASSUME IInv, BodyDone
  PROVE  IInv'
<1> USE DEF BodyDone, out, calls
<1> DEFINE x == Done("body", frame, TRUE)
<1>1. HasBody(frame)
  BY DEF IInv, ReadInTurn
<1>2. x \in Completed /\ x.op = "body" /\ x.msg = frame
  <2>1. frame \in Ids
    BY DEF IInv, TypeOK
  <2> QED
    BY <2>1 DEF Done, Completed
<1>3. None(ready, Reads)
  BY DEF IInv, ReadOnce
<1>4. /\ ready' \in Seq(Completed) /\ Elements(ready') = Elements(ready) \cup {x}
      /\ One(ready', Reads)
      /\ One(ready', Writes) /\ (None(ready, Writes) => None(ready', Writes))
  BY <1>2, <1>3, Pushed
<1>5. TypeOK'
  BY <1>4 DEF IInv, TypeOK, Completed
<1>6. ReadOnce'
  BY <1>4 DEF ReadOnce
<1>7. ReadInTurn'
  <2>1. ASSUME NEW y \in Elements(ready) PROVE ReadsOf(y)'
    BY <1>3 DEF None, Reads, ReadsOf
  <2>2. ReadsOf(x)'
    BY <1>1, <1>2 DEF ReadsOf, HasBody
  <2> QED
    BY <1>4, <2>1, <2>2 DEF ReadInTurn
<1>8. WriteOnce'
  BY <1>4, WriteFrame DEF IInv
<1>9. Queued'
  BY QueueFrame
<1>10. Progress'
  BY DEF IInv, Progress
<1> QED
  BY <1>5, <1>6, <1>7, <1>8, <1>9, <1>10 DEF IInv

LEMMA ReadFailsIInv ==
  ASSUME IInv, ReadFails
  PROVE  IInv'
<1> USE DEF ReadFails, out, calls
<1> DEFINE x == Done(reading, frame, FALSE)
<1>1. x \in Completed /\ x.op \in {"head", "body"} /\ x.ok = FALSE
  <2>1. frame \in Ids /\ reading \in {"head", "body"}
    BY DEF IInv, TypeOK
  <2> QED
    BY <2>1 DEF Done, Completed
<1>2. None(ready, Reads)
  BY DEF IInv, ReadOnce
<1>3. /\ ready' \in Seq(Completed) /\ Elements(ready') = Elements(ready) \cup {x}
      /\ One(ready', Reads)
      /\ One(ready', Writes) /\ (None(ready, Writes) => None(ready', Writes))
  BY <1>1, <1>2, Pushed
<1>4. TypeOK'
  BY <1>3 DEF IInv, TypeOK, Completed
<1>5. ReadOnce'
  BY <1>3 DEF ReadOnce
<1>6. ReadInTurn'
  BY <1>1, <1>2, <1>3 DEF ReadInTurn, ReadsOf, None, Reads
<1>7. WriteOnce'
  BY <1>3, WriteFrame DEF IInv
<1>8. Queued'
  BY QueueFrame
<1>9. Progress'
  BY DEF IInv, Progress
<1> QED
  BY <1>4, <1>5, <1>6, <1>7, <1>8, <1>9 DEF IInv

\* The bytes that leave are those of the first response, which was not sent before.
LEMMA WriteDoneIInv ==
  ASSUME IInv, NEW ok \in BOOLEAN, WriteDone(ok)
  PROVE  /\ IInv'
         /\ \/ answers' = answers
            \/ \E r \in Requests : /\ answers[r] = 0 /\ executed[r] = 1
                                   /\ answers' = [answers EXCEPT ![r] = 1]
<1> USE DEF WriteDone, out, calls
<1> DEFINE x == Done("write", NoMsg, ok)
<1>1. x \in Completed /\ x.op = "write"
  BY DEF Done, Completed, Ids
<1>2. /\ None(ready, Writes) /\ queue # <<>> /\ sock # "closed"
      /\ writing = <<queue[1]>> /\ header = queue[1]
  BY DEF IInv, WriteOnce
<1>3. Head(writing) = queue[1] /\ writing' = <<>>
  BY <1>2
<1>4. /\ ready' \in Seq(Completed) /\ Elements(ready') = Elements(ready) \cup {x}
      /\ One(ready', Reads) /\ (None(ready, Reads) => None(ready', Reads))
      /\ One(ready', Writes)
  BY <1>1, <1>2, Pushed DEF Reads
<1>5. 1 \in DOMAIN queue /\ queue[1] \in Responses
  BY <1>2 DEF IInv, TypeOK
<1>6. ASSUME queue[1].to \in Requests
      PROVE  queue[1].of = queue[1].to /\ executed[queue[1].to] = 1
             /\ pc[queue[1].to] = "done" /\ answers[queue[1].to] = 0
  <2>1. queue[1].of \in Requests
    BY <1>5, <1>6, MessagesAssumption DEF IInv, Queued, Responses, Msgs
  <2>2. queue[1].of = queue[1].to /\ executed[queue[1].to] = 1 /\ pc[queue[1].to] = "done"
    BY <1>5, <2>1 DEF IInv, Queued
  <2>3. answers[queue[1].to] # 1
    BY <1>2, <1>5, <2>2, <1>6 DEF IInv, Progress
  <2> QED
    BY <1>6, <2>2, <2>3 DEF IInv, TypeOK
<1>7. \/ answers' = answers
      \/ /\ queue[1].to \in Requests
         /\ answers' = [answers EXCEPT ![queue[1].to] = 1]
  <2>1. CASE ~(ok /\ sock = "up")
    BY <2>1
  <2>2. CASE ok /\ sock = "up"
    <3>1. answers' = [r \in Requests |-> IF r = queue[1].to THEN answers[r] + 1 ELSE answers[r]]
      BY <1>2, <1>3, <2>2
    <3>2. answers \in [Requests -> 0..1]
      BY DEF IInv, TypeOK
    <3>3. CASE queue[1].to \in Requests
      <4>1. \A r \in Requests : answers'[r] = IF r = queue[1].to THEN 1 ELSE answers[r]
        BY <3>1, <3>3, <1>6
      <4>2. answers' = [r \in Requests |-> IF r = queue[1].to THEN 1 ELSE answers[r]]
        BY <3>1, <4>1
      <4> QED
        BY <3>2, <3>3, <4>2
    <3>4. CASE queue[1].to \notin Requests
      BY <3>1, <3>2, <3>4
    <3> QED
      BY <3>3, <3>4
  <2> QED
    BY <2>1, <2>2
<1>8. TypeOK'
  <2>0. answers \in [Requests -> 0..1]
    BY DEF IInv, TypeOK
  <2>1. answers' \in [Requests -> 0..1]
    <3> HIDE DEF WriteDone
    <3>1. CASE answers' = answers
      BY <2>0, <3>1
    <3>2. CASE queue[1].to \in Requests /\ answers' = [answers EXCEPT ![queue[1].to] = 1]
      BY <2>0, <3>2
    <3> QED
      BY <1>7, <3>1, <3>2
  <2>2. writing' \in Seq(Responses)
    <3>1. <<>> \in Seq(Responses)
      OBVIOUS
    <3> HIDE DEF WriteDone
    <3> QED
      BY <1>3, <3>1
  <2>3. TypeOK /\ UNCHANGED <<sock, reading, frame, timer, reqId, queue, header, pc, taken,
                              subscribed, executed, faults>>
    BY DEF IInv
  <2> HIDE DEF WriteDone
  <2> QED
    BY <1>4, <2>1, <2>2, <2>3 DEF TypeOK, Completed
<1>9. ReadOnce'
  BY <1>4 DEF IInv, ReadOnce
<1>10. ReadInTurn'
  BY <1>1, <1>4 DEF IInv, ReadInTurn, ReadsOf, HasBody
<1>11. WriteOnce'
  BY <1>2, <1>3, <1>4 DEF WriteOnce
<1>12. Queued'
  BY QueueFrame
<1>13. Progress'
  <2>1. \A i \in DOMAIN queue : queue[i].of = queue[1].of => i = 1
    BY <1>5 DEF IInv, Queued
  <2>2. CASE answers' = answers
    BY <2>2, <1>3 DEF IInv, Progress
  <2>3. CASE queue[1].to \in Requests /\ answers' = [answers EXCEPT ![queue[1].to] = 1]
    <3>1. \A r \in Requests : r # queue[1].to => answers'[r] = answers[r]
      BY <2>3 DEF IInv, TypeOK
    <3> QED
      BY <2>1, <2>3, <3>1, <1>3, <1>6 DEF IInv, Progress
  <2> QED
    BY <1>7, <2>2, <2>3
<1> QED
  BY <1>6, <1>7, <1>8, <1>9, <1>10, <1>11, <1>12, <1>13 DEF IInv

LEMMA BreakIInv ==
  ASSUME IInv, Break
  PROVE  IInv'
<1> USE DEF Break, out, calls
<1>1. TypeOK'
  <2>1. faults' \in 0..MaxFaults
    BY LimitsAssumption DEF IInv, TypeOK
  <2> QED
    BY <2>1 DEF IInv, TypeOK
<1>2. ReadOnce' /\ ReadInTurn'
  BY DEF IInv, ReadOnce, ReadInTurn, ReadsOf, HasBody
<1>3. WriteOnce' /\ Progress'
  BY DEF IInv, WriteOnce, Progress
<1> QED
  BY <1>1, <1>2, <1>3, QueueFrame DEF IInv

LEMMA ExpireIInv ==
  ASSUME IInv, Expire
  PROVE  IInv'
<1> USE DEF Expire, socket, out, calls
<1> DEFINE x == Done("timer", NoMsg, TRUE)
<1>1. x \in Completed /\ x.op = "timer"
  BY DEF Done, Completed, Ids
<1>2. /\ ready' \in Seq(Completed) /\ Elements(ready') = Elements(ready) \cup {x}
      /\ One(ready', Reads) /\ (None(ready, Reads) => None(ready', Reads))
      /\ One(ready', Writes) /\ (None(ready, Writes) => None(ready', Writes))
  BY <1>1, Pushed DEF Reads
<1>3. TypeOK'
  BY <1>2 DEF IInv, TypeOK, Completed
<1>4. ReadOnce'
  BY <1>2 DEF IInv, ReadOnce
<1>5. ReadInTurn'
  BY <1>1, <1>2 DEF IInv, ReadInTurn, ReadsOf, HasBody
<1>6. WriteOnce'
  BY <1>2, WriteFrame DEF IInv
<1>7. Progress'
  BY DEF IInv, Progress
<1> QED
  BY <1>3, <1>4, <1>5, <1>6, <1>7, QueueFrame DEF IInv

--------------------------------------------------------------------------------
(* Closing                                                                     *)

\* What is aborted: a read, a write, or both.
LEMMA CloseIInv ==
  ASSUME IInv, ready # <<>>, Close,
         UNCHANGED <<out, calls, answers, faults>>,
         timer' = timer, reqId' \in Ids,
         reqId' = reqId \/ Head(ready).op \in Reads
  PROVE  IInv'
<1> USE DEF out, calls
<1>1. Tail(ready) \in Seq(Completed) /\ Elements(Tail(ready)) \subseteq Elements(ready)
      /\ One(Tail(ready), Reads) /\ One(Tail(ready), Writes)
  BY Taken
<1>2. /\ None(ready, Reads) => None(Tail(ready), Reads)
      /\ None(ready, Writes) => None(Tail(ready), Writes)
      /\ Head(ready).op \in Reads => None(Tail(ready), Reads) /\ reading = "none"
  BY Taken
<1>3. ASSUME NEW x \in Elements(Tail(ready)), x.ok, x.op \in Reads
      PROVE  ReadsOf(x) /\ reqId' = reqId
  BY <1>1, <1>2, <1>3 DEF IInv, ReadInTurn, None
<1>4. CASE sock = "closed"
  <2>1. ready' = Tail(ready) /\ UNCHANGED socket
    BY <1>4 DEF Close
  <2>2. writing = <<>>
    BY <1>4 DEF IInv, WriteOnce
  <2>3. TypeOK'
    BY <1>1, <2>1 DEF IInv, TypeOK, Completed, socket
  <2>4. ReadOnce'
    BY <1>1, <1>2, <2>1 DEF IInv, ReadOnce, socket
  <2>5. ReadInTurn'
    <3>1. ASSUME NEW x \in Elements(ready') PROVE ReadsOf(x)'
      BY <1>3, <2>1 DEF ReadsOf, HasBody, socket, Reads
    <3>2. reading' = "body" => HasBody(frame)'
      BY <1>2, <2>1 DEF IInv, ReadInTurn, HasBody, socket
    <3> QED
      BY <3>1, <3>2 DEF ReadInTurn
  <2>6. WriteOnce'
    BY <1>1, <1>2, <2>1, <2>2, WriteFrame DEF IInv, socket
  <2>7. Progress'
    BY <2>1 DEF IInv, Progress, socket
  <2> QED
    BY <2>3, <2>4, <2>5, <2>6, <2>7, QueueFrame DEF IInv
<1>5. CASE sock # "closed"
  <2> DEFINE x == Done(reading, NoMsg, FALSE)
             w == Done("write", NoMsg, FALSE)
             q == IF reading = "none" THEN Tail(ready) ELSE Append(Tail(ready), x)
             p == IF writing = <<>> THEN q ELSE Append(q, w)
  <2>1. /\ sock' = "closed" /\ reading' = "none" /\ writing' = <<>> /\ frame' = NoMsg
        /\ ready' = (Tail(ready) \o (IF reading = "none" THEN <<>> ELSE <<x>>))
                       \o [i \in DOMAIN writing |-> w]
    BY <1>5 DEF Close
  <2>2. w \in Completed /\ w.op = "write" /\ w.ok = FALSE
    BY DEF Done, Completed, Ids
  <2>3. reading # "none" => x \in Completed /\ x.op \in Reads /\ x.ok = FALSE
    <3>1. reading \in {"none", "head", "body"}
      BY DEF IInv, TypeOK
    <3> QED
      BY <3>1 DEF Done, Completed, Ids, Reads
  <2>4. Tail(ready) \o (IF reading = "none" THEN <<>> ELSE <<x>>) = q
    <3>1. CASE reading = "none"
      BY <1>1, <3>1, ConcatEmptySeq
    <3>2. CASE reading # "none"
      BY <1>1, <2>3, <3>2, AppendIsConcat
    <3> QED
      BY <3>1, <3>2
  <2>5. /\ q \in Seq(Completed) /\ One(q, Reads) /\ One(q, Writes)
        /\ None(ready, Writes) => None(q, Writes)
        /\ \A y \in Elements(q) : y \in Elements(Tail(ready)) \/ y.ok = FALSE
    <3>1. CASE reading = "none"
      BY <1>1, <1>2, <3>1
    <3>2. CASE reading # "none"
      <4>1. None(Tail(ready), Reads)
        BY <1>2, <3>2 DEF IInv, ReadOnce
      <4>2. q = Append(Tail(ready), x) /\ x.op \notin Writes
        BY <2>3, <3>2 DEF Reads, Writes
      <4>3. q \in Seq(Completed) /\ One(q, Reads) /\ Elements(q) = Elements(Tail(ready)) \cup {x}
        BY <1>1, <2>3, <3>2, <4>1, <4>2, Appended
      <4>4. /\ One(q, Writes)
            /\ None(Tail(ready), Writes) => None(q, Writes)
        BY <1>1, <2>3, <3>2, <4>2, Appended
      <4> QED
        BY <1>2, <2>3, <3>2, <4>3, <4>4
    <3> QED
      BY <3>1, <3>2
  <2>6. ready' = p
    <3>1. CASE writing = <<>>
      <4>1. [i \in DOMAIN writing |-> w] = <<>>
        BY <3>1
      <4> QED
        BY <2>1, <2>4, <2>5, <3>1, <4>1, ConcatEmptySeq
    <3>2. CASE writing # <<>>
      <4>1. DOMAIN writing = 1..1
        BY <3>2 DEF IInv, WriteOnce
      <4>2. [i \in DOMAIN writing |-> w] = <<w>>
        <5> HIDE DEF w
        <5>1. <<w>> = [i \in 1..1 |-> w]
          OBVIOUS
        <5> QED
          BY <4>1, <5>1
      <4>3. q \o <<w>> = Append(q, w)
        <5> HIDE DEF q, w
        <5> QED
          BY <2>2, <2>5, AppendIsConcat
      <4> QED
        BY <2>1, <2>4, <3>2, <4>2, <4>3
    <3> QED
      BY <3>1, <3>2
  <2>7. /\ p \in Seq(Completed) /\ One(p, Reads) /\ One(p, Writes)
        /\ \A y \in Elements(p) : y \in Elements(Tail(ready)) \/ y.ok = FALSE
        /\ ~None(p, Writes) => queue # <<>>
    <3>1. CASE writing = <<>>
      BY <2>5, <3>1 DEF IInv, WriteOnce
    <3>2. CASE writing # <<>>
      <4>1. None(q, Writes) /\ queue # <<>>
        BY <2>5, <3>2 DEF IInv, WriteOnce
      <4>2. p = Append(q, w) /\ w.op \notin Reads
        BY <2>2, <3>2 DEF Reads
      <4> HIDE DEF q, w, p
      <4>3. p \in Seq(Completed) /\ One(p, Writes) /\ Elements(p) = Elements(q) \cup {w}
        BY <2>2, <2>5, <4>1, <4>2, Appended
      <4>4. One(p, Reads)
        BY <2>2, <2>5, <4>2, Appended
      <4> QED
        BY <2>2, <2>5, <4>1, <4>3, <4>4
    <3> QED
      BY <3>1, <3>2
  <2> HIDE DEF p, q, x, w
  <2>8. TypeOK'
    <3>1. writing' \in Seq(Responses) /\ frame' \in Ids
      BY <2>1 DEF Ids
    <3>2. ready' \in Seq(Completed)
      BY <2>6, <2>7
    <3> QED
      BY <2>1, <3>1, <3>2 DEF IInv, TypeOK, Completed
  <2>9. ReadOnce'
    BY <2>1, <2>6, <2>7 DEF ReadOnce
  <2>10. ReadInTurn'
    BY <1>3, <2>1, <2>6, <2>7 DEF ReadInTurn, ReadsOf, HasBody, Reads
  <2>11. WriteOnce'
    BY <2>1, <2>6, <2>7 DEF WriteOnce
  <2>12. Progress'
    BY <2>1 DEF IInv, Progress
  <2> QED
    BY <2>8, <2>9, <2>10, <2>11, <2>12, QueueFrame DEF IInv
<1> QED
  BY <1>4, <1>5

LEMMA OnTimerIInv ==
  ASSUME IInv, OnTimer
  PROVE  IInv'
<1>1. reqId \in Ids
  BY DEF IInv, TypeOK
<1> QED
  BY <1>1, CloseIInv DEF OnTimer, Handles


--------------------------------------------------------------------------------
(* The reads                                                                   *)

LEMMA OnHeadIInv ==
  ASSUME IInv, OnHead
  PROVE  IInv'
<1> USE DEF out, calls
<1> DEFINE r == Head(ready).msg
           q == Tail(ready)
<1>1. /\ ready # <<>> /\ Head(ready).op = "head"
      /\ UNCHANGED <<out, calls, answers, faults>>
  BY DEF OnHead, Handles
<1>2. /\ q \in Seq(Completed) /\ None(q, Reads) /\ One(q, Reads) /\ One(q, Writes)
      /\ None(ready, Writes) => None(q, Writes)
      /\ reading = "none" /\ r \in Ids /\ ReadsOf(Head(ready))
  BY <1>1, Taken DEF Reads, Completed
<1>3. reqId \in Ids
  BY DEF IInv, TypeOK
<1>4. CASE /\ sock # "closed" /\ HeadFailed
           /\ reqId' \in IF Head(ready).ok THEN {reqId, r} ELSE {reqId}
           /\ UNCHANGED timer
  BY <1>1, <1>2, <1>3, <1>4, CloseIInv DEF HeadFailed, Reads
<1>5. CASE \/ /\ sock = "closed" /\ ready' = q /\ UNCHANGED <<socket, timer, reqId>>
           \/ /\ ready' = q /\ reqId' = r /\ ReadHead /\ frame' = NoMsg
              /\ UNCHANGED <<sock, writing>>
           \/ /\ sock # "closed" /\ Head(ready).ok /\ Kind[r] \notin {"heartbeat", "bad"}
              /\ ready' = q /\ reqId' = r /\ reading' = "body"
              /\ UNCHANGED <<sock, writing, frame, timer>>
  <2>1. /\ ready' = q /\ reqId' \in Ids /\ frame' \in Ids /\ UNCHANGED <<sock, writing>>
        /\ reading' \in {"none", "head", "body"} /\ timer' \in {timer, UseTimer}
    BY <1>2, <1>3, <1>5 DEF IInv, TypeOK, Ids, ReadHead, socket
  <2>2. TypeOK'
    BY <1>1, <1>2, <2>1 DEF IInv, TypeOK, Completed
  <2>3. ReadOnce'
    BY <1>2, <2>1 DEF ReadOnce
  <2>4. ReadInTurn'
    <3>1. \A x \in Elements(ready') : ReadsOf(x)'
      BY <1>2, <2>1 DEF None, Reads, ReadsOf
    <3>2. reading' = "body" => HasBody(frame)'
      BY <1>1, <1>2, <1>5 DEF ReadsOf, HasBody, ReadHead, socket
    <3> QED
      BY <3>1, <3>2 DEF ReadInTurn
  <2>5. WriteOnce'
    BY <1>1, <1>2, <2>1, WriteFrame DEF IInv
  <2>6. Progress'
    BY <1>1, <2>1 DEF IInv, Progress
  <2> QED
    BY <1>1, <2>2, <2>3, <2>4, <2>5, <2>6, QueueFrame DEF IInv
<1> QED
  BY <1>4, <1>5 DEF OnHead

--------------------------------------------------------------------------------
(* The responses                                                               *)

\* What response() does to the queue of responses and its write.
LEMMA Responded ==
  ASSUME IInv, NEW m \in Responses, NEW q \in Seq(Completed), Response(m, q), sock' = sock,
         One(q, Reads), One(q, Writes),
         ~None(q, Writes) => queue # <<>>,
         writing # <<>> => None(q, Writes)
  PROVE  /\ queue' = Append(queue, m) /\ queue' \in Seq(Responses)
         /\ writing' \in Seq(Responses) /\ header' \in Responses \union {NoResponse}
         /\ ready' \in Seq(Completed) /\ One(ready', Reads)
         /\ None(q, Reads) => None(ready', Reads)
         /\ \A x \in Elements(ready') : x \in Elements(q) \/ x.op = "write"
         /\ queue # <<>> => writing' = writing
         /\ WriteOnce'
<1> DEFINE w == Done("write", NoMsg, FALSE)
<1>1. w \in Completed /\ w.op = "write" /\ w.op \notin Reads
  BY DEF Done, Completed, Ids, Reads
<1>2. /\ queue \in Seq(Responses) /\ writing \in Seq(Responses)
      /\ header \in Responses \union {NoResponse}
  BY DEF IInv, TypeOK
<1>3. queue' = Append(queue, m) /\ queue' \in Seq(Responses) /\ queue' # <<>>
  BY <1>2 DEF Response
<1>4. CASE queue # <<>>
  <2>1. ready' = q /\ header' = header /\ writing' = writing
    BY <1>4 DEF Response
  <2>2. queue'[1] = queue[1]
    BY <1>2, <1>3, <1>4
  <2>3. WriteOnce'
    BY <1>3, <2>1, <2>2 DEF IInv, WriteOnce
  <2> QED
    BY <1>2, <1>3, <1>4, <2>1, <2>3
<1>5. CASE queue = <<>>
  <2>1. StartWrite(m, q) /\ header' = m
    BY <1>5 DEF Response, StartWrite
  <2>2. writing = <<>> /\ None(q, Writes)
    BY <1>5 DEF IInv, WriteOnce
  <2>3. queue' = <<m>> /\ queue'[1] = m
    BY <1>3, <1>5
  <2>4. CASE sock # "closed"
    <3>1. writing' = <<m>> /\ ready' = q
      BY <2>1, <2>2, <2>4 DEF StartWrite
    <3>2. WriteOnce'
      BY <1>3, <2>1, <2>2, <2>3, <2>4, <3>1 DEF WriteOnce
    <3> QED
      BY <1>3, <1>5, <2>1, <3>1, <3>2
  <2>5. CASE sock = "closed"
    <3>1. writing' = <<>> /\ ready' = Append(q, w)
      BY <2>1, <2>2, <2>5 DEF StartWrite
    <3> HIDE DEF w
    <3>2. ready' \in Seq(Completed) /\ Elements(ready') = Elements(q) \cup {w}
          /\ One(ready', Reads) /\ (None(q, Reads) => None(ready', Reads))
      BY <1>1, <3>1, Appended
    <3>3. One(ready', Writes)
      BY <1>1, <2>2, <3>1, Appended
    <3>4. WriteOnce'
      BY <1>3, <3>1, <3>3 DEF WriteOnce
    <3>5. writing' \in Seq(Responses)
      BY <3>1
    <3> QED
      BY <1>1, <1>3, <1>5, <2>1, <3>2, <3>4, <3>5
  <2> QED
    BY <2>4, <2>5
<1> QED
  BY <1>4, <1>5

\* A response is appended when its message is done, and not before.
LEMMA ResponseQueued ==
  ASSUME IInv, NEW m \in Responses, queue' = Append(queue, m),
         queue # <<>> => writing' = writing,
         pc[m.of] # "done" /\ pc'[m.of] = "done",
         \A n \in Msgs : pc[n] = "done" => pc'[n] = "done",
         \A r \in Requests : executed[r] = 1 => executed'[r] = 1,
         m.of \in Requests => m.to = m.of /\ executed'[m.of] = 1,
         m.of \in Pubs => m.to = NoMsg
  PROVE  /\ Queued'
         /\ \A r \in Requests, i \in DOMAIN queue' :
              answers[r] = 1 /\ queue'[i].of = r => i = 1 /\ writing' = <<>>
<1>1. queue \in Seq(Responses)
  BY DEF IInv, TypeOK
<1>2. /\ Len(queue) \in Nat /\ DOMAIN queue = 1..Len(queue)
      /\ DOMAIN queue' = 1..(Len(queue) + 1)
      /\ \A i \in DOMAIN queue : queue'[i] = queue[i] /\ queue[i] \in Responses
      /\ queue'[Len(queue) + 1] = m
  BY <1>1
<1>3. \A i \in DOMAIN queue' : i = Len(queue) + 1 \/ i \in DOMAIN queue
  BY <1>2
<1>4. ASSUME NEW i \in DOMAIN queue
      PROVE  /\ queue[i].of \in Msgs /\ queue[i].of # m.of /\ pc[queue[i].of] = "done"
             /\ queue[i].of \in Requests => queue[i].to = queue[i].of /\ executed[queue[i].of] = 1
             /\ queue[i].of \in Pubs => queue[i].to = NoMsg
  <2>1. queue[i] \in Responses
    BY <1>2
  <2> QED
    BY <2>1 DEF IInv, Queued, Responses
<1>5. \A i, j \in DOMAIN queue : queue[i].of = queue[j].of => i = j
  BY DEF IInv, Queued
<1>6. Queued'
  <2>1. ASSUME NEW i \in DOMAIN queue'
        PROVE  /\ pc'[queue'[i].of] = "done"
               /\ queue'[i].of \in Requests =>
                    queue'[i].to = queue'[i].of /\ executed'[queue'[i].of] = 1
               /\ queue'[i].of \in Pubs => queue'[i].to = NoMsg
    <3>1. CASE i = Len(queue) + 1
      BY <1>2, <3>1
    <3>2. CASE i \in DOMAIN queue
      BY <1>2, <1>4, <3>2
    <3> QED
      BY <1>3, <3>1, <3>2
  <2>2. ASSUME NEW i \in DOMAIN queue', NEW j \in DOMAIN queue', queue'[i].of = queue'[j].of
        PROVE  i = j
    BY <1>2, <1>3, <1>4, <1>5, <2>2
  <2> QED
    BY <2>1, <2>2 DEF Queued
<1>7. ASSUME NEW r \in Requests, NEW i \in DOMAIN queue', answers[r] = 1, queue'[i].of = r
      PROVE  i = 1 /\ writing' = <<>>
  <2>1. pc[r] = "done" /\ \A j \in DOMAIN queue : queue[j].of = r => j = 1 /\ writing = <<>>
    BY <1>7 DEF IInv, Progress
  <2>2. i \in DOMAIN queue
    BY <1>2, <1>3, <1>7, <2>1
  <2>3. queue # <<>>
    BY <2>2
  <2> QED
    BY <1>2, <1>7, <2>1, <2>2, <2>3
<1> QED
  BY <1>6, <1>7


\* A response to the request r from another thread.
LEMMA RespondIInv ==
  ASSUME IInv, NEW r \in Requests, Respond(r)
  PROVE  IInv'
<1> USE DEF Respond
<1> DEFINE m == [to |-> taken[r], of |-> r]
<1>1. executed[r] = 1 /\ taken[r] = r
  BY DEF IInv, Progress
<1>2. m \in Responses /\ m.of = r /\ m.to = r /\ r \in Msgs /\ r \notin Pubs
  BY <1>1, MessagesAssumption DEF Responses, Ids, Msgs
<1>3. pc' = [pc EXCEPT ![r] = "done"] /\ pc \in [Msgs -> {"unsent", "wire", "read", "asked", "done"}]
  BY DEF IInv, TypeOK
<1>4. \A n \in Msgs : pc'[n] = IF n = r THEN "done" ELSE pc[n]
  BY <1>3
<1>5. /\ ready \in Seq(Completed) /\ One(ready, Reads) /\ One(ready, Writes)
      /\ ~None(ready, Writes) => queue # <<>>
      /\ writing # <<>> => None(ready, Writes)
  BY DEF IInv, TypeOK, Completed, ReadOnce, WriteOnce
<1>6. Response(m, ready) /\ sock' = sock
  OBVIOUS
<1> HIDE DEF m
<1>7. /\ queue' = Append(queue, m) /\ queue' \in Seq(Responses)
      /\ writing' \in Seq(Responses) /\ header' \in Responses \union {NoResponse}
      /\ ready' \in Seq(Completed) /\ One(ready', Reads)
      /\ None(ready, Reads) => None(ready', Reads)
      /\ \A x \in Elements(ready') : x \in Elements(ready) \/ x.op = "write"
      /\ queue # <<>> => writing' = writing
      /\ WriteOnce'
  BY <1>2, <1>5, <1>6, Responded
<1>8. /\ Queued'
      /\ \A s \in Requests, i \in DOMAIN queue' :
           answers[s] = 1 /\ queue'[i].of = s => i = 1 /\ writing' = <<>>
  BY <1>1, <1>2, <1>4, <1>7, ResponseQueued
<1>9. TypeOK'
  <2>1. pc' \in [Msgs -> {"unsent", "wire", "read", "asked", "done"}]
    BY <1>3
  <2> QED
    BY <1>7, <2>1 DEF IInv, TypeOK, Completed
<1>10. ReadOnce'
  BY <1>7 DEF IInv, ReadOnce
<1>11. ReadInTurn'
  BY <1>4, <1>7 DEF IInv, ReadInTurn, ReadsOf, HasBody, Msgs
<1>12. Progress'
  BY <1>1, <1>4, <1>8 DEF IInv, Progress, Msgs
<1> QED
  BY <1>7, <1>8, <1>9, <1>10, <1>11, <1>12 DEF IInv

LEMMA PublishIInv ==
  ASSUME IInv, NEW p \in Pubs, Publish(p)
  PROVE  IInv'
<1> USE DEF Publish
<1> DEFINE m == [to |-> NoMsg, of |-> p]
<1>1. m \in Responses /\ m.of = p /\ m.to = NoMsg /\ p \in Msgs /\ p \notin Requests
  BY MessagesAssumption DEF Responses, Ids, Msgs
<1>2. pc' = [pc EXCEPT ![p] = "done"] /\ pc \in [Msgs -> {"unsent", "wire", "read", "asked", "done"}]
  BY DEF IInv, TypeOK
<1>3. \A n \in Msgs : pc'[n] = IF n = p THEN "done" ELSE pc[n]
  BY <1>2
<1>4. /\ ready \in Seq(Completed) /\ One(ready, Reads) /\ One(ready, Writes)
      /\ ~None(ready, Writes) => queue # <<>>
      /\ writing # <<>> => None(ready, Writes)
  BY DEF IInv, TypeOK, Completed, ReadOnce, WriteOnce
<1>5. Response(m, ready) /\ sock' = sock
  OBVIOUS
<1> HIDE DEF m
<1>6. /\ queue' = Append(queue, m) /\ queue' \in Seq(Responses)
      /\ writing' \in Seq(Responses) /\ header' \in Responses \union {NoResponse}
      /\ ready' \in Seq(Completed) /\ One(ready', Reads)
      /\ None(ready, Reads) => None(ready', Reads)
      /\ \A x \in Elements(ready') : x \in Elements(ready) \/ x.op = "write"
      /\ queue # <<>> => writing' = writing
      /\ WriteOnce'
  BY <1>1, <1>4, <1>5, Responded
<1>7. /\ Queued'
      /\ \A s \in Requests, i \in DOMAIN queue' :
           answers[s] = 1 /\ queue'[i].of = s => i = 1 /\ writing' = <<>>
  BY <1>1, <1>3, <1>6, ResponseQueued
<1>8. TypeOK'
  <2>1. pc' \in [Msgs -> {"unsent", "wire", "read", "asked", "done"}]
    BY <1>2
  <2> QED
    BY <1>6, <2>1 DEF IInv, TypeOK, Completed
<1>9. ReadOnce'
  BY <1>6 DEF IInv, ReadOnce
<1>10. ReadInTurn'
  BY <1>1, <1>3, <1>6 DEF IInv, ReadInTurn, ReadsOf, HasBody, Msgs
<1>11. Progress'
  BY <1>1, <1>3, <1>7 DEF IInv, Progress, Msgs
<1> QED
  BY <1>6, <1>7, <1>8, <1>9, <1>10, <1>11 DEF IInv

\* The request whose body has been read is routed under its own id.
LEMMA OnBodyIInv ==
  ASSUME IInv, OnBody
  PROVE  IInv'
<1> DEFINE r == Head(ready).msg
           q == Tail(ready)
           m == [to |-> reqId, of |-> r]
<1>1. /\ ready # <<>> /\ Head(ready).op = "body"
      /\ UNCHANGED <<sock, reqId, answers, faults>>
  BY DEF OnBody, Handles
<1>2. /\ q \in Seq(Completed) /\ None(q, Reads) /\ One(q, Reads) /\ One(q, Writes)
      /\ None(ready, Writes) => None(q, Writes)
      /\ reading = "none" /\ ReadsOf(Head(ready))
  BY <1>1, Taken DEF Reads
<1>3. /\ ~None(q, Writes) => queue # <<>>
      /\ writing # <<>> => None(q, Writes)
  BY <1>2 DEF IInv, WriteOnce
<1>4. pc \in [Msgs -> {"unsent", "wire", "read", "asked", "done"}]
      /\ executed \in [Requests -> 0..1] /\ taken \in [Requests -> Ids]
      /\ frame \in Ids /\ timer \in {FALSE, UseTimer}
  BY DEF IInv, TypeOK
<1>5. ASSUME ready' = q, UNCHANGED <<out, writing, taken, executed>>,
             reading' \in {"none", "head"}, timer' \in {FALSE, UseTimer}, frame' \in Ids,
             subscribed' \in BOOLEAN,
             pc' \in [Msgs -> {"unsent", "wire", "read", "asked", "done"}],
             \A n \in Msgs : pc'[n] = pc[n] \/ (n = r /\ pc[n] = "read" /\ pc'[n] = "done")
      PROVE  IInv'
  <2>1. TypeOK'
    BY <1>1, <1>2, <1>5 DEF IInv, TypeOK, Completed, out
  <2>2. ReadOnce'
    BY <1>2, <1>5 DEF ReadOnce
  <2>3. ReadInTurn'
    BY <1>2, <1>5 DEF ReadInTurn, ReadsOf, None, Reads
  <2>4. WriteOnce'
    BY <1>1, <1>2, <1>5, WriteFrame DEF IInv, out
  <2>5. Queued'
    <3>1. \A n \in Msgs : pc[n] = "done" => pc'[n] = "done"
      BY <1>5
    <3> QED
      BY <1>5, <3>1, QueueFrame DEF out
  <2>6. Progress'
    BY <1>1, <1>5 DEF IInv, Progress, Msgs, out
  <2> QED
    BY <2>1, <2>2, <2>3, <2>4, <2>5, <2>6 DEF IInv
<1>6. CASE /\ sock = "closed" \/ ~Head(ready).ok
           /\ timer' = FALSE /\ ready' = q /\ UNCHANGED <<reading, frame, writing, out, calls>>
  BY <1>2, <1>4, <1>5, <1>6 DEF calls, IInv, TypeOK
<1>7. CASE /\ sock # "closed" /\ Head(ready).ok
           /\ ReadHead /\ frame' = NoMsg
  <2>1. HasBody(r)
    BY <1>1, <1>2, <1>7 DEF ReadsOf
  <2>2. r \in Requests /\ r \in Msgs /\ r \notin Pubs /\ reqId = r /\ pc[r] = "read" /\ executed[r] = 0
    BY <2>1, MessagesAssumption DEF HasBody, Msgs, IInv, Progress
  <2>3. reading' = "head" /\ timer' = UseTimer /\ NoMsg \in Ids
    BY <1>7 DEF ReadHead, Ids
  <2>4. CASE /\ subscribed' = TRUE /\ pc' = [pc EXCEPT ![r] = "done"]
             /\ ready' = q /\ UNCHANGED <<taken, executed, out, writing>>
    <3>1. pc' \in [Msgs -> {"unsent", "wire", "read", "asked", "done"}]
          /\ \A n \in Msgs : pc'[n] = pc[n] \/ (n = r /\ pc[n] = "read" /\ pc'[n] = "done")
      BY <1>4, <2>2, <2>4
    <3> QED
      BY <1>5, <1>7, <2>3, <2>4, <3>1
  <2>5. CASE Route(r) /\ Kind[r] = "sync" /\ subscribed' = subscribed
    <3>1. /\ pc' = [pc EXCEPT ![r] = "done"] /\ taken' = taken
          /\ executed' = [executed EXCEPT ![r] = 1] /\ Response(m, q)
      BY <1>4, <2>2, <2>5 DEF Route
    <3>2. m \in Responses /\ m.of = r /\ m.to = r
      BY <2>2 DEF Responses, Ids
    <3> HIDE DEF m, q
    <3>3. /\ \A n \in Msgs : pc'[n] = IF n = r THEN "done" ELSE pc[n]
          /\ \A s \in Requests : executed'[s] = IF s = r THEN 1 ELSE executed[s]
      BY <1>4, <3>1
    <3>4. /\ queue' = Append(queue, m) /\ queue' \in Seq(Responses)
          /\ writing' \in Seq(Responses) /\ header' \in Responses \union {NoResponse}
          /\ ready' \in Seq(Completed) /\ One(ready', Reads) /\ None(ready', Reads)
          /\ queue # <<>> => writing' = writing
          /\ WriteOnce'
      BY <1>1, <1>2, <1>3, <3>1, <3>2, Responded
    <3>5. /\ Queued'
          /\ \A s \in Requests, i \in DOMAIN queue' :
               answers[s] = 1 /\ queue'[i].of = s => i = 1 /\ writing' = <<>>
      <4> HIDE DEF r
      <4> QED
        BY <2>2, <3>2, <3>3, <3>4, ResponseQueued
    <3>6. TypeOK'
      <4> HIDE DEF r
      <4>1. pc' \in [Msgs -> {"unsent", "wire", "read", "asked", "done"}]
        BY <1>4, <3>1
      <4>2. executed' \in [Requests -> 0..1]
        <5>1. executed \in [Requests -> 0..1] /\ executed' = [executed EXCEPT ![r] = 1]
          BY <1>4, <3>1
        <5>2. 1 \in 0..1
          OBVIOUS
        <5> QED
          BY <5>1, <5>2
      <4> QED
        BY <1>1, <1>7, <2>3, <2>5, <3>1, <3>4, <4>1, <4>2 DEF IInv, TypeOK, Completed
    <3>7. ReadOnce'
      BY <3>4 DEF ReadOnce
    <3>8. ReadInTurn'
      BY <2>3, <3>4 DEF ReadInTurn, ReadsOf, None, Reads
    <3>9. Progress'
      BY <1>1, <2>2, <3>1, <3>3, <3>5 DEF IInv, Progress, Msgs
    <3> QED
      BY <3>4, <3>5, <3>6, <3>7, <3>8, <3>9 DEF IInv
  <2>6. CASE Route(r) /\ Kind[r] # "sync" /\ subscribed' = subscribed
    <3>1. /\ pc' = [pc EXCEPT ![r] = "asked"] /\ taken' = [taken EXCEPT ![r] = r]
          /\ executed' = [executed EXCEPT ![r] = 1]
          /\ ready' = q /\ UNCHANGED <<out, writing>>
      BY <1>4, <2>2, <2>6 DEF Route
    <3>2. /\ \A n \in Msgs : pc'[n] = IF n = r THEN "asked" ELSE pc[n]
          /\ \A s \in Requests : executed'[s] = IF s = r THEN 1 ELSE executed[s]
          /\ \A s \in Requests : taken'[s] = IF s = r THEN r ELSE taken[s]
      BY <1>4, <3>1
    <3>3. TypeOK'
      <4> HIDE DEF r, q
      <4>1. pc' \in [Msgs -> {"unsent", "wire", "read", "asked", "done"}]
        BY <1>4, <3>1
      <4>2. executed' \in [Requests -> 0..1]
        <5>1. executed \in [Requests -> 0..1] /\ executed' = [executed EXCEPT ![r] = 1]
          BY <1>4, <3>1
        <5>2. 1 \in 0..1
          OBVIOUS
        <5> QED
          BY <5>1, <5>2
      <4>3. taken' \in [Requests -> Ids]
        <5>1. r \in Ids /\ r \in Requests
          BY <2>2 DEF Ids
        <5>2. taken \in [Requests -> Ids] /\ taken' = [taken EXCEPT ![r] = r]
          BY <1>4, <3>1
        <5> QED
          BY <5>1, <5>2
      <4>4. queue' = queue /\ header' = header /\ writing' = writing
        BY <3>1 DEF out
      <4> QED
        BY <1>1, <1>2, <1>7, <2>3, <2>6, <3>1, <4>1, <4>2, <4>3, <4>4 DEF IInv, TypeOK, Completed
    <3>4. ReadOnce'
      BY <1>2, <3>1 DEF ReadOnce
    <3>5. ReadInTurn'
      BY <1>2, <2>3, <3>1 DEF ReadInTurn, ReadsOf, None, Reads
    <3>6. WriteOnce'
      BY <1>1, <1>2, <3>1, WriteFrame DEF IInv, out
    <3>7. Queued'
      BY <2>2, <3>1, <3>2, QueueFrame DEF out
    <3>8. Progress'
      BY <1>1, <2>2, <3>1, <3>2 DEF IInv, Progress, Msgs, out
    <3> QED
      BY <3>3, <3>4, <3>5, <3>6, <3>7, <3>8 DEF IInv
  <2> QED
    BY <1>7, <2>4, <2>5, <2>6, <1>1 DEF OnBody
<1> QED
  BY <1>6, <1>7 DEF OnBody

--------------------------------------------------------------------------------
(* The end of a write                                                          *)

\* The response that was written leaves the queue, and the next one is written.
LEMMA OnWriteIInv ==
  ASSUME IInv, OnWrite
  PROVE  IInv'
<1> DEFINE q == Tail(ready)
<1>1. /\ ready # <<>> /\ Head(ready).op = "write"
      /\ UNCHANGED <<timer, reqId, pc, taken, subscribed, executed, answers, faults>>
  BY DEF OnWrite, Handles, calls
<1>2. /\ q \in Seq(Completed) /\ Elements(q) \subseteq Elements(ready)
      /\ One(q, Reads) /\ (None(ready, Reads) => None(q, Reads))
      /\ One(q, Writes) /\ None(q, Writes) /\ writing = <<>> /\ queue # <<>>
  BY <1>1, Taken DEF Writes
<1>3. CASE ~Head(ready).ok /\ Close /\ UNCHANGED out
  <2>1. reqId' \in Ids
    BY <1>1 DEF IInv, TypeOK
  <2> QED
    BY <1>1, <1>3, <2>1, CloseIInv DEF calls
<1>4. CASE ready' = q /\ UNCHANGED <<socket, out>>
  <2>1. TypeOK'
    BY <1>1, <1>2, <1>4 DEF IInv, TypeOK, Completed, socket, out
  <2>2. ReadOnce'
    BY <1>2, <1>4 DEF IInv, ReadOnce, socket
  <2>3. ReadInTurn'
    BY <1>1, <1>2, <1>4 DEF IInv, ReadInTurn, ReadsOf, HasBody, socket
  <2>4. WriteOnce'
    BY <1>2, <1>4, WriteFrame DEF IInv, socket, out
  <2>5. Queued'
    BY <1>1, <1>4, QueueFrame DEF out
  <2>6. Progress'
    BY <1>1, <1>4 DEF IInv, Progress, socket, out
  <2> QED
    BY <2>1, <2>2, <2>3, <2>4, <2>5, <2>6 DEF IInv
<1>5. CASE sock # "closed" /\ queue' = Tail(queue) /\ WriteNext /\ UNCHANGED <<sock, reading, frame>>
  <2>1. queue \in Seq(Responses) /\ Len(queue) \in Nat /\ Len(queue) > 0 /\ DOMAIN queue = 1..Len(queue)
    BY <1>2, EmptySeq DEF IInv, TypeOK
  <2>2. /\ queue' \in Seq(Responses) /\ DOMAIN queue' = 1..(Len(queue) - 1)
        /\ \A i \in 1..(Len(queue) - 1) : queue'[i] = queue[i + 1]
    BY <1>2, <1>5, <2>1, HeadTailProperties
  <2>3. /\ ready' = q
        /\ \/ Len(queue) = 1 /\ writing' = <<>> /\ header' = header
           \/ Len(queue) > 1 /\ writing' = <<queue[2]>> /\ header' = queue[2]
    BY <1>2, <1>5, <2>1 DEF WriteNext, StartWrite
  <2>4. Len(queue) > 1 => /\ queue[2] \in Responses /\ queue'[1] = queue[2]
                          /\ queue' # <<>> /\ 1 \in DOMAIN queue'
    <3> SUFFICES ASSUME Len(queue) > 1
                 PROVE  /\ queue[2] \in Responses /\ queue'[1] = queue[2]
                        /\ queue' # <<>> /\ 1 \in DOMAIN queue'
      OBVIOUS
    <3>1. 2 \in 1..Len(queue) /\ 1 \in 1..(Len(queue) - 1) /\ 1 + 1 = 2
      BY <2>1
    <3>2. queue[2] \in Responses
      BY <2>1, <3>1
    <3>3. DOMAIN <<>> = {}
      OBVIOUS
    <3> QED
      BY <2>2, <3>1, <3>2, <3>3
  <2>5. \A i \in DOMAIN queue' : i + 1 \in DOMAIN queue /\ i + 1 # 1 /\ queue'[i] = queue[i + 1]
    BY <2>1, <2>2
  <2>6. TypeOK'
    <3>1. writing' \in Seq(Responses) /\ header' \in Responses \union {NoResponse}
      <4>1. CASE Len(queue) = 1 /\ writing' = <<>> /\ header' = header
        BY <4>1 DEF IInv, TypeOK
      <4>2. CASE Len(queue) > 1 /\ writing' = <<queue[2]>> /\ header' = queue[2]
        BY <2>4, <4>2
      <4> QED
        BY <2>3, <4>1, <4>2
    <3> QED
      BY <1>1, <1>2, <1>5, <2>2, <2>3, <3>1 DEF IInv, TypeOK, Completed
  <2>7. ReadOnce'
    BY <1>2, <1>5, <2>3 DEF IInv, ReadOnce
  <2>8. ReadInTurn'
    BY <1>1, <1>2, <1>5, <2>3 DEF IInv, ReadInTurn, ReadsOf, HasBody
  <2>9. WriteOnce'
    BY <1>2, <1>5, <2>3, <2>4 DEF WriteOnce
  <2>10. Queued'
    <3>1. ASSUME NEW i \in DOMAIN queue', NEW j \in DOMAIN queue', queue'[i].of = queue'[j].of
          PROVE  i = j
      <4>1. i + 1 = j + 1
        BY <2>5, <3>1 DEF IInv, Queued
      <4> QED
        BY <2>2, <4>1
    <3>2. ASSUME NEW i \in DOMAIN queue'
          PROVE  LET m == queue'[i] IN
                   /\ pc[m.of] = "done"
                   /\ m.of \in Requests => m.to = m.of /\ executed[m.of] = 1
                   /\ m.of \in Pubs => m.to = NoMsg
      <4>1. i + 1 \in DOMAIN queue /\ queue'[i] = queue[i + 1]
        BY <2>5
      <4> QED
        BY <4>1 DEF IInv, Queued
    <3> QED
      BY <1>1, <3>1, <3>2 DEF Queued
  <2>11. Progress'
    <3>1. \A r \in Requests : answers[r] = 1 => \A i \in DOMAIN queue' : queue'[i].of # r
      BY <2>5 DEF IInv, Progress
    <3> QED
      BY <1>1, <3>1 DEF IInv, Progress
  <2> QED
    BY <2>6, <2>7, <2>8, <2>9, <2>10, <2>11 DEF IInv
<1> QED
  BY <1>3, <1>4, <1>5 DEF OnWrite

--------------------------------------------------------------------------------
(* The theorems                                                                *)

LEMMA NextIInv ==
  ASSUME IInv, [Next]_vars
  PROVE  IInv'
<1>1. CASE Reactor
  BY <1>1, HeadDoneIInv, BodyDoneIInv, ReadFailsIInv, WriteDoneIInv DEF Reactor
<1>2. CASE Handler
  BY <1>2, OnHeadIInv, OnBodyIInv, OnWriteIInv, OnTimerIInv DEF Handler
<1>3. CASE Answering
  BY <1>3, RespondIInv DEF Answering
<1>4. CASE Break \/ Expire
  BY <1>4, BreakIInv, ExpireIInv
<1>5. CASE \E r \in Requests : Send(r)
  BY <1>5, SendIInv
<1>6. CASE \E p \in Pubs : Publish(p)
  BY <1>6, PublishIInv
<1>7. CASE UNCHANGED vars
  <2> USE <1>7 DEF vars, socket, out, calls
  <2>1. TypeOK'
    BY DEF IInv, TypeOK
  <2>2. ReadOnce' /\ WriteOnce'
    BY DEF IInv, ReadOnce, WriteOnce
  <2>3. ReadInTurn'
    BY DEF IInv, ReadInTurn, ReadsOf, HasBody
  <2>4. Queued' /\ Progress'
    BY DEF IInv, Queued, Progress
  <2> QED
    BY <2>1, <2>2, <2>3, <2>4 DEF IInv
<1> QED
  BY <1>1, <1>2, <1>3, <1>4, <1>5, <1>6, <1>7 DEF Next

\* Each step of a connection keeps the inductive invariant.
THEOREM Invariance == Spec => []IInv
  BY InitIInv, NextIInv, PTL DEF Spec

\* The members of a connection keep their types.
THEOREM ConnectionTypes == Spec => []TypeOK
<1>1. IInv => TypeOK
  BY DEF IInv
<1> QED
  BY <1>1, Invariance, PTL

\* One response is written at a time, it is the first of the queue, and the header
\* that goes with it is its own (response and on_write, connection.h:47-60, 250-270).
THEOREM FrontWritten == Spec => []WriteOwnsFront
<1>1. IInv => WriteOwnsFront
  <2> SUFFICES ASSUME IInv, NEW i \in DOMAIN writing
               PROVE  i = 1 /\ queue # <<>> /\ writing[i] = queue[1] /\ header = queue[1]
    BY DEF WriteOwnsFront
  <2>1. writing # <<>>
    OBVIOUS
  <2>2. queue # <<>> /\ writing = <<queue[1]>> /\ header = queue[1]
    BY <2>1 DEF IInv, WriteOnce
  <2> QED
    BY <2>2
<1> QED
  BY <1>1, Invariance, PTL

\* A response carries the id of its request, whoever makes it and when
\* (connection.h:164, 209; router.h:58).
THEOREM AnsweredById == Spec => []OwnId
<1>1. IInv => OwnId
  BY DEF IInv, Queued, OwnId
<1> QED
  BY <1>1, Invariance, PTL

\* What a step does to the counts that RpcPromise is about.
LEMMA Counted ==
  ASSUME IInv, [Next]_vars
  PROVE  \/ UNCHANGED <<executed, answers>>
         \/ \E r \in Requests : /\ executed[r] = 0 /\ answers[r] = 0
                                /\ executed' = [executed EXCEPT ![r] = 1] /\ answers' = answers
         \/ \E r \in Requests : /\ answers[r] = 0 /\ executed[r] = 1
                                /\ answers' = [answers EXCEPT ![r] = 1] /\ executed' = executed
<1>1. CASE \E ok \in BOOLEAN : WriteDone(ok)
  <2>1. PICK ok \in BOOLEAN : WriteDone(ok)
    BY <1>1
  <2>2. executed' = executed
    BY <2>1 DEF WriteDone, calls
  <2> QED
    BY <2>1, <2>2, WriteDoneIInv
<1>2. CASE OnBody
  <2> DEFINE r == Head(ready).msg
  <2>1. answers' = answers
    BY <1>2 DEF OnBody
  <2>2. CASE executed' = executed
    BY <2>1, <2>2
  <2>3. CASE sock # "closed" /\ Head(ready).ok /\ Route(r)
    <3>1. ready # <<>> /\ Head(ready).op = "body"
      BY <1>2 DEF OnBody, Handles
    <3>2. HasBody(r)
      BY <2>3, <3>1, Taken DEF ReadsOf
    <3>3. r \in Requests /\ pc[r] = "read" /\ executed[r] = 0
      BY <3>2 DEF HasBody, IInv, Progress
    <3>4. answers[r] = 0
      BY <3>3 DEF IInv, TypeOK, Progress
    <3>5. executed' = [executed EXCEPT ![r] = 1]
      BY <2>3, <3>3 DEF Route
    <3> QED
      BY <2>1, <3>3, <3>4, <3>5
  <2> QED
    BY <1>2, <2>2, <2>3 DEF OnBody, calls
<1>3. CASE HeadDone \/ BodyDone \/ ReadFails \/ Break \/ Expire
  BY <1>3 DEF HeadDone, BodyDone, ReadFails, Break, Expire, calls
<1>4. CASE OnHead \/ OnWrite \/ OnTimer
  BY <1>4 DEF OnHead, OnWrite, OnTimer, calls
<1>5. CASE Answering \/ (\E r \in Requests : Send(r)) \/ (\E p \in Pubs : Publish(p))
  BY <1>5 DEF Answering, Respond, Send, Publish
<1>6. CASE UNCHANGED vars
  BY <1>6 DEF vars, calls
<1> QED
  BY <1>1, <1>2, <1>3, <1>4, <1>5, <1>6 DEF Next, Reactor, Handler

\* A connection executes a request at most once, and answers it at most once and only
\* after its execution: what RpcPromise says (connection.h:47-60, 250-270; router.h:58).
THEOREM KeepsPromise == Spec => PromiseSpec
<1> DEFINE gotten == [r \in Requests |-> IF answers[r] = 0 THEN "none" ELSE "reply"]
<1>1. Init => Promise!Init
  <2> SUFFICES ASSUME Init PROVE Promise!Init
    OBVIOUS
  <2>1. executed = [c \in Requests |-> 0] /\ answers = [c \in Requests |-> 0]
    BY DEF Init
  <2>2. gotten = [c \in Requests |-> "none"]
    BY <2>1
  <2> QED
    BY <2>1, <2>2 DEF Promise!Init
<1>2. ASSUME IInv, [Next]_vars
      PROVE  [Promise!Next]_(Promise!vars)
  <2>0. answers \in [Requests -> 0..1] /\ executed \in [Requests -> 0..1]
    BY <1>2 DEF IInv, TypeOK
  <2>1. CASE UNCHANGED <<executed, answers>>
    BY <2>1 DEF Promise!vars
  <2>2. CASE \E r \in Requests : /\ executed[r] = 0 /\ answers[r] = 0
                                 /\ executed' = [executed EXCEPT ![r] = 1] /\ answers' = answers
    <3>1. PICK r \in Requests : /\ executed[r] = 0 /\ answers[r] = 0
                                /\ executed' = [executed EXCEPT ![r] = 1] /\ answers' = answers
      BY <2>2
    <3>2. gotten[r] = "none" /\ gotten' = gotten
      BY <3>1
    <3>3. Promise!Execute(r)
      BY <3>1, <3>2 DEF Promise!Execute
    <3> QED
      BY <3>3 DEF Promise!Next
  <2>3. CASE \E r \in Requests : /\ answers[r] = 0 /\ executed[r] = 1
                                 /\ answers' = [answers EXCEPT ![r] = 1] /\ executed' = executed
    <3>1. PICK r \in Requests : /\ answers[r] = 0 /\ executed[r] = 1
                                /\ answers' = [answers EXCEPT ![r] = 1] /\ executed' = executed
      BY <2>3
    <3>2. answers' = [c \in Requests |-> IF c \in {r} THEN answers[c] + 1 ELSE answers[c]]
      <4>1. answers' = [c \in Requests |-> IF c \in {r} THEN 1 ELSE answers[c]]
        BY <2>0, <3>1
      <4>2. \A c \in Requests : c \in {r} => answers[c] + 1 = 1
        BY <3>1
      <4> QED
        BY <4>1, <4>2
    <3>3. gotten' = [c \in Requests |-> IF c \in {r} THEN "reply" ELSE gotten[c]]
      <4>1. \A c \in Requests : answers'[c] = IF c = r THEN 1 ELSE answers[c]
        BY <2>0, <3>1
      <4> QED
        BY <4>1
    <3>4. gotten[r] = "none"
      BY <3>1
    <3>5. Promise!Answer({r}, "reply")
      BY <3>1, <3>2, <3>3, <3>4 DEF Promise!Answer
    <3>6. {r} \in SUBSET Requests
      OBVIOUS
    <3> QED
      BY <3>5, <3>6 DEF Promise!Next
  <2> QED
    BY <1>2, <2>1, <2>2, <2>3, Counted
<1> QED
  BY <1>1, <1>2, Invariance, PTL DEF Spec, PromiseSpec, Promise!Spec

\* Final of RpcPromise: a request that was answered is neither answered nor executed
\* again, whatever the connection still reads and whoever still calls response().
THEOREM AnswersFinal == Spec => Promise!Final
<1> DEFINE gotten == [r \in Requests |-> IF answers[r] = 0 THEN "none" ELSE "reply"]
<1>1. ASSUME [Promise!Next]_(Promise!vars), NEW c \in Requests, gotten[c] # "none"
      PROVE  gotten'[c] = gotten[c] /\ answers'[c] = answers[c] /\ executed'[c] = executed[c]
  <2>1. ASSUME NEW d \in Requests, Promise!Execute(d)
        PROVE  gotten'[c] = gotten[c] /\ answers'[c] = answers[c] /\ executed'[c] = executed[c]
    BY <1>1, <2>1 DEF Promise!Execute
  <2>2. ASSUME NEW cs \in SUBSET Requests,
               NEW r \in {"reply", "error", "timeout", "broken", "notConnected"},
               Promise!Answer(cs, r)
        PROVE  gotten'[c] = gotten[c] /\ answers'[c] = answers[c] /\ executed'[c] = executed[c]
    BY <1>1, <2>2 DEF Promise!Answer
  <2> QED
    BY <1>1, <2>1, <2>2 DEF Promise!Next, Promise!vars
<1>2. [Promise!Next]_(Promise!vars) =>
      [\A c \in Requests : gotten[c] # "none" =>
         gotten'[c] = gotten[c] /\ answers'[c] = answers[c] /\ executed'[c] = executed[c]]_(Promise!vars)
  BY <1>1
<1> QED
  BY <1>2, KeepsPromise, PTL DEF PromiseSpec, Promise!Spec, Promise!Final
================================================================================
