------------------------------ MODULE ExpControl ------------------------------
(* The control plane of an experiment: exp_utils/manager.py on the master and  *)
(* exp_utils/worker.py on every slave.  They share nothing but a redis server  *)
(* (keys in exp_utils/const.py) and the commands the manager sends over ssh    *)
(* (exp_utils/utils.py).  An action is one redis call, with the local code up  *)
(* to the next one; the calls of different processes interleave freely.        *)
(*                                                                             *)
(* Experiments are numbered 1, 2, ... in the order in which the manager is run *)
(* (exp_start_time, a timestamp, in the code).  Running experiment e launches  *)
(* one worker process <<w, e>> on every slave w; a process of an earlier       *)
(* experiment may still be alive there.                                        *)
EXTENDS Integers, FiniteSets

CONSTANTS
  Workers,              \* worker_ip_name_table: one name for each slave
  NoName,               \* worker_name "" of the redis_config.json that is sent
  MaxExp,               \* bound: how many times the user runs manager.py
  AckTimeoutRound,      \* ack_timeout // ack_wait_interval
  MaxWaitToleration,    \* max_wait_tolaration
  HealthMissToleration, \* health_miss_toleration
  BehindClocks,         \* slaves whose clock may lag the manager's
  MaxFaults,            \* bound: crashes and lost ssh commands
  ManagerMayDie         \* whether the manager's process may be killed

ASSUME WorkersAssumption == IsFiniteSet(Workers) /\ Workers # {} /\ NoName \notin Workers
ASSUME BoundsAssumption ==
  /\ MaxExp \in Nat /\ AckTimeoutRound \in Nat /\ MaxWaitToleration \in Nat
  /\ HealthMissToleration \in Nat /\ MaxFaults \in Nat
  /\ BehindClocks \subseteq Workers /\ ManagerMayDie \in BOOLEAN

VARIABLES
  \* redis
  stat,    \* EXP_STAT_KEY, "NONE" when the key is absent
  cfg,     \* the keys of EXP_CONFIG_GROUP
  acks,    \* WORKER_ACK_GROUP: name -> experiment, NoExp when absent
  health,  \* WORKER_HEALTH_GROUP: name -> "none", or a report whose timestamp is
           \* "new" (later than the manager's last_report_ts of that worker) or "old"
  \* the manager process
  mpc,     \* the redis call or loop it is about to execute
  phase,   \* "start" and "end": the two callers of wait_ack; "run": inside the try
  exp,     \* exp_start_time
  round,   \* ack_now_round or now_wait_round, whichever loop is running
  left,    \* the workers the current for loop has still to visit
  who,     \* the worker whose first health report check_health waits for
  pool,    \* ack_pool_kvs, less the entries already deleted
  miss,    \* worker_health_info[w]["miss_cnt"]
  \* the slaves
  ssh,     \* commands started by utils.ssh that have not run yet
  fname,   \* worker_name in the redis_config.json of each slave
  wpc, name, wexp,  \* each worker process: program counter, worker_name, exp_start_time
  srv,     \* the server process it started last
  ran,     \* the experiments it has started a server for (its output directories)
  faults

redis   == <<stat, cfg, acks, health>>
manager == <<mpc, phase, exp, round, left, who, pool, miss>>
slaves  == <<ssh, fname, wpc, name, wexp, srv, ran>>
vars    == <<redis, manager, slaves, faults>>

-------------------------------------------------------------------------------
NoExp == 0
Exps  == 1..MaxExp
Names == Workers \union {NoName}
Procs == Workers \X Exps
Host(p) == p[1]

Gone == {"exited", "assertFailed", "raised", "killed"}
Alive(p) == wpc[p] \notin Gone \union {"none"}

\* Some process that acks as w has started its server for experiment e.
Started(w, e) == \E p \in Procs : name[p] = w /\ e \in ran[p]

TypeOK ==
  /\ stat \in {"NONE", "INIT", "RUNNING", "END", "ERROR"}
  /\ cfg \subseteq Exps
  /\ acks \in [Names -> Exps \union {NoExp}]
  /\ health \in [Names -> {"none", "old", "new"}]
  /\ mpc \in {"off", "flush", "setInit", "launch", "publish", "wait", "clear",
              "unpublish", "assertCfg", "setRunning", "check", "checkWait", "setEnd",
              "killScreens", "collect", "abort", "raise", "done", "dead", "killed",
              "assertFailed"}
  /\ phase \in {"start", "run", "end"}
  /\ exp \in Exps \union {NoExp}
  /\ round \in Nat
  /\ left \subseteq Workers
  /\ who \in Names
  /\ pool \in [Names -> Exps \union {NoExp}]
  /\ miss \in [Workers -> 0..HealthMissToleration]
  /\ ssh \subseteq {"sed", "screen", "killall"} \X Procs
  /\ fname \in [Workers -> Names]
  /\ wpc \in [Procs -> {"none", "init", "query", "scan", "popen", "ack", "waitInit",
                        "assertRunning", "check", "report", "kill", "final", "endAck"}
                       \union Gone]
  /\ name \in [Procs -> Names]
  /\ wexp \in [Procs -> Exps \union {NoExp}]
  /\ srv \in [Procs -> {"none", "up", "down"}]
  /\ ran \in [Procs -> SUBSET Exps]
  /\ faults \in 0..MaxFaults

Init ==
  /\ stat = "NONE" /\ cfg = {}
  /\ acks = [n \in Names |-> NoExp] /\ health = [n \in Names |-> "none"]
  /\ mpc = "off" /\ phase = "start" /\ exp = NoExp
  /\ round = 0 /\ left = {} /\ who = NoName
  /\ pool = [n \in Names |-> NoExp] /\ miss = [w \in Workers |-> 0]
  /\ ssh = {} /\ fname = [w \in Workers |-> NoName]
  /\ wpc = [p \in Procs |-> "none"] /\ name = [p \in Procs |-> NoName]
  /\ wexp = [p \in Procs |-> NoExp]
  /\ srv = [p \in Procs |-> "none"] /\ ran = [p \in Procs |-> {}]
  /\ faults = 0

-------------------------------------------------------------------------------
(* The user runs manager.py, and ends the experiment with Ctrl-C.              *)

StartManager ==
  /\ mpc \in {"off", "done", "dead", "killed", "assertFailed"}
  /\ exp < MaxExp
  /\ mpc' = "flush" /\ phase' = "start"
  /\ UNCHANGED <<redis, exp, round, left, who, pool, miss, slaves, faults>>

\* KeyboardInterrupt inside the try: wherever check_health is, its abort included.
Interrupt ==
  /\ phase = "run" /\ mpc \in {"check", "checkWait", "abort", "raise"}
  /\ mpc' = "setEnd"
  /\ UNCHANGED <<redis, phase, exp, round, left, who, pool, miss, slaves, faults>>

-------------------------------------------------------------------------------
(* manager_start_exp                                                           *)

\* Mutant: no flushall of the configs.
InitExpKeepsConfig ==
  /\ mpc = "flush"
  /\ stat' = "NONE" /\ cfg' = cfg
  /\ acks' = [n \in Names |-> NoExp] /\ health' = [n \in Names |-> "none"]
  /\ mpc' = "setInit"
  /\ UNCHANGED <<phase, exp, round, left, who, pool, miss, slaves, faults>>

InitExp ==
  /\ mpc = "flush"
  /\ stat' = "NONE" /\ cfg' = {}
  /\ acks' = [n \in Names |-> NoExp] /\ health' = [n \in Names |-> "none"]
  /\ mpc' = "setInit"
  /\ UNCHANGED <<phase, exp, round, left, who, pool, miss, slaves, faults>>

SetInit ==
  /\ mpc = "setInit" /\ exp < MaxExp
  /\ stat' = "INIT" /\ exp' = exp + 1
  /\ left' = Workers /\ mpc' = "launch"
  /\ UNCHANGED <<cfg, acks, health, phase, round, who, pool, miss, slaves, faults>>

\* The files are copied synchronously, redis_config.json with worker_name "";
\* the sed that fills in the name and the screen that starts worker.py are only
\* started: utils.ssh does not wait for them.
LaunchWorker(w) ==
  /\ mpc = "launch" /\ w \in left
  /\ fname' = [fname EXCEPT ![w] = NoName]
  /\ ssh' = ssh \union ({"sed", "screen"} \X {<<w, exp>>})
  /\ miss' = [miss EXCEPT ![w] = 0]
  /\ left' = left \ {w}
  /\ mpc' = IF left' = {} THEN "publish" ELSE "launch"
  /\ UNCHANGED <<redis, phase, exp, round, who, pool, wpc, name, wexp, srv, ran, faults>>

PublishConfig ==
  /\ mpc = "publish"
  /\ cfg' = cfg \union {exp}
  /\ mpc' = "wait" /\ round' = 0
  /\ UNCHANGED <<stat, acks, health, phase, exp, left, who, pool, miss, slaves, faults>>

UnpublishConfig ==
  /\ mpc = "unpublish"
  /\ cfg' = cfg \ {exp}
  /\ mpc' = "assertCfg"
  /\ UNCHANGED <<stat, acks, health, phase, exp, round, left, who, pool, miss, slaves, faults>>

AssertUnpublished ==
  /\ mpc = "assertCfg"
  /\ mpc' = IF cfg = {} THEN "setRunning" ELSE "assertFailed"
  /\ UNCHANGED <<redis, phase, exp, round, left, who, pool, miss, slaves, faults>>

-------------------------------------------------------------------------------
(* manager_wait_ack, called when the experiment starts and when it ends        *)

Acked == {n \in Names : acks[n] # NoExp}
AllAcked == Cardinality(Acked) = Cardinality(Workers)

TakeAcks ==
  /\ mpc = "wait" /\ AllAcked
  /\ IF Acked = Workers
       THEN mpc' = "clear" /\ pool' = acks
       ELSE mpc' = "abort" /\ pool' = pool
  /\ UNCHANGED <<redis, phase, exp, round, left, who, miss, slaves, faults>>

\* Mutant: the rounds are not counted.
AcksMissingUncounted ==
  /\ mpc = "wait" /\ ~AllAcked
  /\ UNCHANGED vars

AcksMissing ==
  /\ mpc = "wait" /\ ~AllAcked
  /\ IF round + 1 > AckTimeoutRound
       THEN mpc' = "abort" /\ round' = round
       ELSE mpc' = mpc /\ round' = round + 1
  /\ UNCHANGED <<redis, phase, exp, left, who, pool, miss, slaves, faults>>

\* Mutant: an ack counts whatever experiment it is for.
ClearAckUnchecked(w) ==
  /\ mpc = "clear" /\ pool[w] # NoExp
  /\ acks' = [acks EXCEPT ![w] = NoExp]
  /\ pool' = [pool EXCEPT ![w] = NoExp]
  /\ UNCHANGED <<stat, cfg, health, mpc, phase, exp, round, left, who, miss, slaves, faults>>

\* Entries are checked and deleted one by one, as they were when they were read.
ClearAck(w) ==
  /\ mpc = "clear" /\ pool[w] # NoExp
  /\ IF pool[w] # exp
       THEN mpc' = "abort" /\ UNCHANGED <<acks, pool>>
       ELSE /\ acks' = [acks EXCEPT ![w] = NoExp]
            /\ pool' = [pool EXCEPT ![w] = NoExp]
            /\ mpc' = mpc
  /\ UNCHANGED <<stat, cfg, health, phase, exp, round, left, who, miss, slaves, faults>>

\* Mutant: the config is not deleted before the experiment runs.
AssertAcksClearedAndRun ==
  /\ mpc = "clear" /\ \A w \in Workers : pool[w] = NoExp
  /\ mpc' = IF Acked # {} THEN "assertFailed"
            ELSE IF phase = "start" THEN "setRunning" ELSE "killScreens"
  /\ left' = Workers
  /\ UNCHANGED <<redis, phase, exp, round, who, pool, miss, slaves, faults>>

AssertAcksCleared ==
  /\ mpc = "clear" /\ \A w \in Workers : pool[w] = NoExp
  /\ mpc' = IF Acked # {} THEN "assertFailed"
            ELSE IF phase = "start" THEN "unpublish" ELSE "killScreens"
  /\ left' = Workers
  /\ UNCHANGED <<redis, phase, exp, round, who, pool, miss, slaves, faults>>

-------------------------------------------------------------------------------
(* manager_exp_run, manager_check_health                                       *)

SetRunning ==
  /\ mpc = "setRunning"
  /\ stat' = "RUNNING"
  /\ phase' = "run" /\ mpc' = "check" /\ left' = Workers
  /\ UNCHANGED <<cfg, acks, health, exp, round, who, pool, miss, slaves, faults>>

\* Mutants: the toleration is compared before the miss is counted; a miss counts
\* from zero.
ExamineLate(w) ==
  /\ health' = [health EXCEPT ![w] = "old"]
  /\ IF health[w] = "old" /\ miss[w] > HealthMissToleration
       THEN mpc' = "abort" /\ UNCHANGED <<miss, left>>
       ELSE /\ miss' = [miss EXCEPT ![w] = IF health[w] = "old" THEN @ + 1 ELSE 0]
            /\ left' = IF left = {w} THEN Workers ELSE left \ {w}
            /\ mpc' = "check"

ExamineForgets(w) ==
  /\ health' = [health EXCEPT ![w] = "old"]
  /\ IF health[w] = "old" /\ miss[w] + 1 > HealthMissToleration
       THEN mpc' = "abort" /\ UNCHANGED <<miss, left>>
       ELSE /\ miss' = [miss EXCEPT ![w] = 0]
            /\ left' = IF left = {w} THEN Workers ELSE left \ {w}
            /\ mpc' = "check"

\* The report of w that was just read: a timestamp that is not later than the
\* last one is a miss.  A report that has been read is "old" from then on.
Examine(w) ==
  /\ health' = [health EXCEPT ![w] = "old"]
  /\ IF health[w] = "old" /\ miss[w] + 1 > HealthMissToleration
       THEN mpc' = "abort" /\ UNCHANGED <<miss, left>>
       ELSE /\ miss' = [miss EXCEPT ![w] = IF health[w] = "old" THEN @ + 1 ELSE 0]
            /\ left' = IF left = {w} THEN Workers ELSE left \ {w}
            /\ mpc' = "check"

CheckHealth(w) ==
  /\ mpc = "check" /\ w \in left
  /\ \/ /\ health[w] = "none"
        /\ mpc' = "checkWait" /\ who' = w /\ round' = 0
        /\ UNCHANGED <<health, miss, left>>
     \/ /\ health[w] # "none"
        /\ Examine(w)
        /\ UNCHANGED <<who, round>>
  /\ UNCHANGED <<stat, cfg, acks, phase, exp, pool, slaves, faults>>

RecheckHealth ==
  /\ mpc = "checkWait"
  /\ \/ /\ round + 1 > MaxWaitToleration
        /\ mpc' = "abort"
        /\ UNCHANGED <<health, miss, left, round>>
     \/ /\ round + 1 <= MaxWaitToleration /\ health[who] = "none"
        /\ round' = round + 1
        /\ UNCHANGED <<health, miss, left, mpc>>
     \/ /\ round + 1 <= MaxWaitToleration /\ health[who] # "none"
        /\ Examine(who)
        /\ UNCHANGED round
  /\ UNCHANGED <<stat, cfg, acks, phase, exp, who, pool, slaves, faults>>

-------------------------------------------------------------------------------
(* manager_exp_end, manager_abort_exp                                          *)

\* Mutant: the acks of the end are not waited for.
SetEndNoWait ==
  /\ mpc = "setEnd"
  /\ stat' = "END"
  /\ phase' = "end" /\ mpc' = "killScreens" /\ left' = Workers
  /\ UNCHANGED <<cfg, acks, health, exp, round, who, pool, miss, slaves, faults>>

SetEnd ==
  /\ mpc = "setEnd"
  /\ stat' = "END"
  /\ phase' = "end" /\ mpc' = "wait" /\ round' = 0
  /\ UNCHANGED <<cfg, acks, health, exp, left, who, pool, miss, slaves, faults>>

KillScreen(w) ==
  /\ mpc = "killScreens" /\ w \in left
  /\ ssh' = ssh \union {<<"killall", <<w, exp>>>>}
  /\ left' = left \ {w}
  /\ mpc' = IF left' = {} THEN "collect" ELSE "killScreens"
  /\ UNCHANGED <<redis, phase, exp, round, who, pool, miss,
                 fname, wpc, name, wexp, srv, ran, faults>>

CollectResults ==
  /\ mpc = "collect"
  /\ mpc' = "done"
  /\ UNCHANGED <<redis, phase, exp, round, left, who, pool, miss, slaves, faults>>

\* Mutant: the status is left as it is.
AbortExpSilent ==
  /\ mpc = "abort"
  /\ mpc' = "raise"
  /\ UNCHANGED <<redis, phase, exp, round, left, who, pool, miss, slaves, faults>>

AbortExp ==
  /\ mpc = "abort"
  /\ stat' = "ERROR"
  /\ mpc' = "raise"
  /\ UNCHANGED <<cfg, acks, health, phase, exp, round, left, who, pool, miss, slaves, faults>>

RaiseAbort ==
  /\ mpc = "raise"
  /\ mpc' = "dead"
  /\ UNCHANGED <<redis, phase, exp, round, left, who, pool, miss, slaves, faults>>

-------------------------------------------------------------------------------
(* The commands of utils.ssh, whenever the slave gets to them                  *)

RunSed(p) ==
  /\ <<"sed", p>> \in ssh
  /\ ssh' = ssh \ {<<"sed", p>>}
  /\ fname' = [fname EXCEPT ![Host(p)] = Host(p)]
  /\ UNCHANGED <<redis, manager, wpc, name, wexp, srv, ran, faults>>

RunScreen(p) ==
  /\ <<"screen", p>> \in ssh
  /\ ssh' = ssh \ {<<"screen", p>>}
  /\ wpc' = [wpc EXCEPT ![p] = "init"]
  /\ UNCHANGED <<redis, manager, fname, name, wexp, srv, ran, faults>>

\* "killall screen" ends every worker of that slave, whichever experiment started it.
RunKillall(p) ==
  /\ <<"killall", p>> \in ssh
  /\ ssh' = ssh \ {<<"killall", p>>}
  /\ wpc' = [q \in Procs |-> IF Host(q) = Host(p) /\ Alive(q) THEN "killed" ELSE wpc[q]]
  /\ UNCHANGED <<redis, manager, fname, name, wexp, srv, ran, faults>>

-------------------------------------------------------------------------------
(* worker_init, worker_run                                                     *)

WorkerInit(p) ==
  /\ wpc[p] = "init"
  /\ name' = [name EXCEPT ![p] = fname[Host(p)]]
  /\ wpc' = [wpc EXCEPT ![p] = "query"]
  /\ UNCHANGED <<redis, manager, ssh, fname, wexp, srv, ran, faults>>

\* hlen: no experiment, one, or NotImplementedError
QueryConfig(p) ==
  /\ wpc[p] = "query" /\ cfg # {}
  /\ wpc' = [wpc EXCEPT ![p] = IF Cardinality(cfg) = 1 THEN "scan" ELSE "raised"]
  /\ UNCHANGED <<redis, manager, ssh, fname, name, wexp, srv, ran, faults>>

\* hscan_iter, a second call: the entry may be gone or be another one
ScanConfig(p) ==
  /\ wpc[p] = "scan"
  /\ \/ /\ cfg = {}
        /\ wpc' = [wpc EXCEPT ![p] = "query"] /\ UNCHANGED wexp
     \/ \E e \in cfg : /\ wexp' = [wexp EXCEPT ![p] = e]
                       /\ wpc' = [wpc EXCEPT ![p] = "popen"]
  /\ UNCHANGED <<redis, manager, ssh, fname, name, srv, ran, faults>>

-------------------------------------------------------------------------------
(* worker_run_exp                                                              *)

StartServer(p) ==
  /\ wpc[p] = "popen"
  /\ srv' = [srv EXCEPT ![p] = "up"]
  /\ ran' = [ran EXCEPT ![p] = @ \union {wexp[p]}]
  /\ wpc' = [wpc EXCEPT ![p] = "ack"]
  /\ UNCHANGED <<redis, manager, ssh, fname, name, wexp, faults>>

\* Mutant: the ack is sent under the name of the machine.
AckAsHost(p, next) ==
  /\ acks' = [acks EXCEPT ![Host(p)] = wexp[p]]
  /\ wpc' = [wpc EXCEPT ![p] = next]
  /\ UNCHANGED <<stat, cfg, health, manager, ssh, fname, name, wexp, srv, ran, faults>>

Ack(p, next) ==
  /\ acks' = [acks EXCEPT ![name[p]] = wexp[p]]
  /\ wpc' = [wpc EXCEPT ![p] = next]
  /\ UNCHANGED <<stat, cfg, health, manager, ssh, fname, name, wexp, srv, ran, faults>>

AckStart(p) == wpc[p] = "ack" /\ Ack(p, "waitInit")

\* Mutant: the ack is sent again in every round of the wait.
WaitExpInitAcks(p) ==
  /\ wpc[p] = "waitInit"
  /\ wpc' = [wpc EXCEPT ![p] = IF stat = "INIT" THEN "ack" ELSE "assertRunning"]
  /\ UNCHANGED <<redis, manager, ssh, fname, name, wexp, srv, ran, faults>>

WaitExpInit(p) ==
  /\ wpc[p] = "waitInit" /\ stat # "INIT"
  /\ wpc' = [wpc EXCEPT ![p] = "assertRunning"]
  /\ UNCHANGED <<redis, manager, ssh, fname, name, wexp, srv, ran, faults>>

\* The assertion reads the key again.
AssertRunning(p) ==
  /\ wpc[p] = "assertRunning"
  /\ wpc' = [wpc EXCEPT ![p] = IF stat = "RUNNING" THEN "check" ELSE "assertFailed"]
  /\ UNCHANGED <<redis, manager, ssh, fname, name, wexp, srv, ran, faults>>

\* Mutants: the final ack comes before the kill; only END stops a worker.
CheckExpRunningNoKill(p) ==
  /\ wpc[p] = "check"
  /\ wpc' = [wpc EXCEPT ![p] = CASE stat = "NONE"    -> "raised"
                                 [] stat = "RUNNING" -> "report"
                                 [] OTHER            -> "final"]
  /\ UNCHANGED <<redis, manager, ssh, fname, name, wexp, srv, ran, faults>>

CheckExpRunningUntilEnd(p) ==
  /\ wpc[p] = "check"
  /\ wpc' = [wpc EXCEPT ![p] = CASE stat = "NONE" -> "raised"
                                 [] stat = "END"  -> "kill"
                                 [] OTHER         -> "report"]
  /\ UNCHANGED <<redis, manager, ssh, fname, name, wexp, srv, ran, faults>>

CheckExpRunning(p) ==
  /\ wpc[p] = "check"
  /\ wpc' = [wpc EXCEPT ![p] = CASE stat = "NONE"    -> "raised"
                                 [] stat = "RUNNING" -> "report"
                                 [] OTHER            -> "kill"]
  /\ UNCHANGED <<redis, manager, ssh, fname, name, wexp, srv, ran, faults>>

\* The timestamp is the slave's: if its clock lags it need not be a new one.
ReportHealth(p) ==
  /\ wpc[p] = "report"
  /\ \E h \in {"old", "new"} :
       /\ h = "old" => Host(p) \in BehindClocks /\ health[name[p]] # "new"
       /\ health' = [health EXCEPT ![name[p]] = h]
  /\ wpc' = [wpc EXCEPT ![p] = "check"]
  /\ UNCHANGED <<stat, cfg, acks, manager, ssh, fname, name, wexp, srv, ran, faults>>

StopServer(p) ==
  /\ wpc[p] = "kill"
  /\ srv' = [srv EXCEPT ![p] = "down"]
  /\ wpc' = [wpc EXCEPT ![p] = "final"]
  /\ UNCHANGED <<redis, manager, ssh, fname, name, wexp, ran, faults>>

\* Mutant: the final ack is sent whatever the key says.
ReadFinalStatLate(p) ==
  /\ wpc[p] = "final"
  /\ Ack(p, IF stat = "END" THEN "query" ELSE "exited")

\* The key is read once more; anything but END is exit(0).
ReadFinalStat(p) ==
  /\ wpc[p] = "final"
  /\ wpc' = [wpc EXCEPT ![p] = IF stat = "END" THEN "endAck" ELSE "exited"]
  /\ UNCHANGED <<redis, manager, ssh, fname, name, wexp, srv, ran, faults>>

AckEnd(p) == wpc[p] = "endAck" /\ Ack(p, "query")

-------------------------------------------------------------------------------
(* What may go wrong around them                                               *)

Fault == faults < MaxFaults /\ faults' = faults + 1

KillWorker(p) ==
  /\ Fault /\ Alive(p)
  /\ wpc' = [wpc EXCEPT ![p] = "killed"]
  /\ UNCHANGED <<redis, manager, ssh, fname, name, wexp, srv, ran>>

LoseSsh(c) ==
  /\ Fault
  /\ ssh' = ssh \ {c}
  /\ UNCHANGED <<redis, manager, fname, wpc, name, wexp, srv, ran>>

\* The manager is killed, or interrupted outside the try: no status is written.
KillManager ==
  /\ Fault /\ ManagerMayDie
  /\ mpc \notin {"off", "done", "dead", "killed", "assertFailed"}
  /\ mpc' = "killed"
  /\ UNCHANGED <<redis, phase, exp, round, left, who, pool, miss, slaves>>

\* The server of a worker that is gone loses its terminal, or survives.
HangUpServer(p) ==
  /\ wpc[p] \in Gone /\ srv[p] = "up"
  /\ srv' = [srv EXCEPT ![p] = "down"]
  /\ UNCHANGED <<redis, manager, ssh, fname, wpc, name, wexp, ran, faults>>

-------------------------------------------------------------------------------
Manager ==
  \/ InitExp \/ SetInit \/ PublishConfig \/ UnpublishConfig \/ AssertUnpublished
  \/ TakeAcks \/ AcksMissing \/ AssertAcksCleared
  \/ SetRunning \/ RecheckHealth \/ SetEnd \/ CollectResults \/ AbortExp \/ RaiseAbort
  \/ \E w \in Workers : LaunchWorker(w) \/ ClearAck(w) \/ CheckHealth(w) \/ KillScreen(w)

Worker(p) ==
  \/ WorkerInit(p) \/ QueryConfig(p) \/ ScanConfig(p)
  \/ StartServer(p) \/ AckStart(p) \/ WaitExpInit(p) \/ AssertRunning(p)
  \/ CheckExpRunning(p) \/ ReportHealth(p) \/ StopServer(p) \/ ReadFinalStat(p) \/ AckEnd(p)

Slave(p)  == Worker(p) \/ RunSed(p) \/ RunScreen(p) \/ RunKillall(p)
Faults(p) == KillWorker(p) \/ HangUpServer(p)

Next ==
  \/ StartManager \/ Interrupt \/ Manager \/ KillManager
  \/ \E p \in Procs : Slave(p) \/ Faults(p)
  \/ \E c \in ssh : LoseSsh(c)

Spec == Init /\ [][Next]_vars

\* Every loop of the manager and of a worker sleeps and tries again; nothing is
\* assumed of ssh, of the user and of the faults.
FairSpec == Spec /\ WF_vars(Manager) /\ \A p \in Procs : WF_vars(Worker(p))

-------------------------------------------------------------------------------
(* Properties that hold over any number of experiments                         *)

\* While the status is RUNNING every slave has a process that acks in its name
\* and has started its server for this very experiment, whatever processes of
\* earlier experiments are still around (the acks collected by wait_ack,
\* manager.py:71-88, come after the Popen of worker.py:57).
ServersStarted == stat = "RUNNING" => \A w \in Workers : Started(w, exp)

\* A worker never starts the server twice for one experiment: when it goes back
\* to polling (worker.py:133) the config it ran is gone (manager.py:139), and a
\* config it has not seen yet names another experiment.
NoSecondRun == \A p \in Procs : wpc[p] = "popen" => wexp[p] \notin ran[p]

\* EXP_CONFIG_GROUP never holds two experiments, even when the manager died
\* before deleting one: the NotImplementedError of worker.py:142 is not reached.
ConfigUnique == \A c, d \in cfg : c = d

-------------------------------------------------------------------------------
(* Properties of one experiment started on clean slaves (MaxExp = 1)           *)

\* When the manager stops the workers and collects the results, the server of
\* this experiment runs nowhere: the acks it waited for at the end
\* (manager.py:210) are not the ones the workers sent at the start.
ServersStopped ==
  mpc \in {"killScreens", "collect", "done"} =>
    \A p \in Procs : wexp[p] = exp => srv[p] # "up"

\* Nor has a worker taken the experiment for one that failed and exited: the status it
\* read last (worker.py:75) was END, although an abort may have been interrupted.
NormalEnd ==
  mpc \in {"killScreens", "collect", "done"} => \A p \in Procs : wpc[p] # "exited"

\* The assertions of the manager hold: no worker acks between the time its ack is
\* read and deleted and the hlen (manager.py:87), and no config is left (140).
ManagerAssertions == mpc # "assertFailed"

\* A worker that read its name before the sed filled it in never heartbeats:
\* the manager gives up waiting for the ack of that slave.
NamedHeartbeats == \A p \in Procs : wpc[p] = "report" => name[p] = Host(p)

\* The experiment as the user sees it, and the server of each slave.
UserState ==
  IF exp = NoExp THEN "idle"
  ELSE IF mpc \in {"dead", "killed", "assertFailed"} THEN "failed"
  ELSE IF mpc = "done" THEN "finished"
  ELSE CASE phase = "start" -> "starting"
         [] phase = "run"   -> "running"
         [] phase = "end"   -> "ending"
UserServer == [w \in Workers |-> srv[<<w, 1>>]]

Lifecycle == INSTANCE ExpLifecycle WITH state <- UserState, server <- UserServer

\* The manager and the workers together implement the promise to the user: the
\* experiment runs when every server has been started (manager.py:138, 187), and is
\* finished when every server has been stopped (manager.py:210-222).
LifecycleSpec == Lifecycle!Spec

-------------------------------------------------------------------------------
(* Liveness of one experiment                                                  *)

\* The manager, unless it is killed, does not wait for ever for the acks of the start.
StartEnds == mpc = "launch" ~> stat \in {"RUNNING", "ERROR"} \/ mpc = "killed"

\* No worker waits for ever in worker_wait_exp_init unless the manager is killed:
\* it leaves INIT on every other path, its abort included.
InitWaitEnds == \A p \in Procs : wpc[p] = "waitInit" ~> wpc[p] # "waitInit" \/ mpc = "killed"

\* A heartbeating worker stops its server once the experiment ended or failed.
ServersStop ==
  \A p \in Procs : wpc[p] \in {"check", "report"} /\ stat \in {"END", "ERROR"}
                     ~> srv[p] = "down" \/ wpc[p] \in Gone

\* The death of a worker does not go unnoticed while the experiment runs: its
\* reports are missing, or stay old until health_miss_toleration is exceeded.
DeathNoticed ==
  \A p \in Procs : stat = "RUNNING" /\ wpc[p] = "killed"
                     ~> stat # "RUNNING" \/ mpc = "killed"

\* Over any number of experiments: neither does a slave that is left without a worker,
\* whoever killed it, a killall of the last experiment that comes late (manager.py:215)
\* included.  Whatever that worker had reported, its timestamps do not get newer.
SilenceNoticed ==
  \A w \in Workers :
    stat = "RUNNING" /\ (\A p \in Procs : Host(p) = w => ~Alive(p))
      ~> stat # "RUNNING" \/ mpc = "killed"

-------------------------------------------------------------------------------
(* What the code and its README say and the program does not do                *)

\* worker.py:111: a worker that has left the INIT loop finds RUNNING.
InitEndsRunning == \A p \in Procs : wpc[p] # "assertFailed"
===============================================================================
