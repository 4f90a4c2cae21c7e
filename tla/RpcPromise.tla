------------------------------ MODULE RpcPromise ------------------------------
(* What a client of rest_rpc promises to its callers: a call is executed by    *)
(* the server at most once and answered at most once.                          *)
EXTENDS Naturals

CONSTANTS Calls

VARIABLES
  executed,  \* how often the server has received each call
  got,       \* what the caller got, "none" before
  answers    \* how often it got it

vars == <<executed, got, answers>>

Init ==
  /\ executed = [c \in Calls |-> 0] /\ answers = [c \in Calls |-> 0]
  /\ got = [c \in Calls |-> "none"]

Execute(c) ==
  /\ executed[c] = 0 /\ got[c] = "none"
  /\ executed' = [executed EXCEPT ![c] = 1]
  /\ UNCHANGED <<got, answers>>

\* Several calls may be answered at once: those a broken connection leaves behind.
\* The result of a future that is abandoned is not an answer.
Answer(cs, r) ==
  /\ \A c \in cs : got[c] = "none" /\ (r \in {"reply", "timeout"} => executed[c] = 1)
  /\ got' = [c \in Calls |-> IF c \in cs THEN r ELSE got[c]]
  /\ answers' = [c \in Calls |-> IF c \in cs /\ r # "broken" THEN answers[c] + 1 ELSE answers[c]]
  /\ UNCHANGED executed

Next ==
  \/ \E c \in Calls : Execute(c)
  \/ \E cs \in SUBSET Calls, r \in {"reply", "error", "timeout", "broken", "notConnected"} :
       Answer(cs, r)

Spec == Init /\ [][Next]_vars

-------------------------------------------------------------------------------
(* What it comes to                                                            *)

\* A call is executed once and answered once at most, a reply or a timeout is that
\* of a call that was executed, and every other result but a broken promise
\* reaches the caller as an answer.
AtMostOnce ==
  /\ executed \in [Calls -> 0..1] /\ answers \in [Calls -> 0..1]
  /\ \A c \in Calls :
       /\ got[c] \in {"reply", "timeout"} => executed[c] = 1
       /\ answers[c] = 0 <=> got[c] \in {"none", "broken"}

\* What a caller got is final: the result stays, it is not told again, and a call
\* that was reported as failed is not executed later.
Final ==
  [][\A c \in Calls : got[c] # "none" =>
       got'[c] = got[c] /\ answers'[c] = answers[c] /\ executed'[c] = executed[c]]_vars
===============================================================================
