--------------------------- MODULE ExpControlProofs ---------------------------
(* Proofs about ExpControl, for any number of slaves, of experiments and of     *)
(* faults, and any bounds of the loops.                                         *)
EXTENDS ExpControl, TLAPS

-------------------------------------------------------------------------------
(* The inductive invariant                                                      *)

\* Where the manager's local variables have a meaning.
Locals ==
  /\ mpc \notin {"off", "flush", "setInit", "dead", "killed"} => exp # NoExp
  /\ mpc = "checkWait" => who \in Workers
  /\ \A p \in Procs : wpc[p] \in {"popen", "ack", "endAck"} => wexp[p] \in Exps

\* A process is launched once, by the experiment that it belongs to.
LaunchedOnce ==
  /\ \A p \in Procs : <<"screen", p>> \in ssh => wpc[p] = "none"
  /\ \A p \in Procs : p[2] > exp \/ (mpc = "launch" /\ p[2] = exp /\ p[1] \in left)
                        => wpc[p] = "none" /\ <<"screen", p>> \notin ssh

\* The name is fixed before the first server starts, and what has been acked, or
\* is about to be, has been started.
AckedAfterStart ==
  /\ \A p \in Procs : wpc[p] \in {"none", "init"} => ran[p] = {}
  /\ \A p \in Procs : wpc[p] \in {"ack", "waitInit", "assertRunning", "check", "report",
                                  "kill", "final", "endAck"} => wexp[p] \in ran[p]
  /\ \A n \in Names : acks[n] # NoExp => Started(n, acks[n])

\* The manager has seen the acks: all of them, or those it has already deleted.
SeenAcks ==
  /\ mpc = "clear" =>
       \A w \in Workers : Started(w, IF pool[w] = NoExp THEN exp ELSE pool[w])
  /\ mpc \in {"unpublish", "assertCfg", "setRunning"} => \A w \in Workers : Started(w, exp)

\* EXP_CONFIG_GROUP holds at most the current experiment, and only from the time it
\* is published until the acks of the start have been taken.
ConfigWindow ==
  /\ cfg \subseteq {exp}
  /\ mpc \in {"setInit", "launch", "publish", "setRunning"} => cfg = {}
  /\ phase \in {"run", "end"} \/ stat = "END" => cfg = {}
  /\ mpc \in {"flush", "setInit", "launch", "publish", "unpublish", "assertCfg", "setRunning"}
       => phase = "start"
  /\ mpc \in {"launch", "publish"} => stat = "INIT"
  /\ mpc = "setEnd" => phase = "run"

\* Experiments that are still to be published have been run by nobody, and a worker
\* that is going to look for one has not run the one it will find.
FreshConfig ==
  /\ \A p \in Procs : \A e \in ran[p] \union {wexp[p]} : e <= exp
  /\ mpc \in {"launch", "publish"} => \A p \in Procs : exp \notin ran[p] \union {wexp[p]}
  /\ \A p \in Procs : wpc[p] \in {"none", "init", "query", "scan", "endAck"}
                        => ran[p] \intersect cfg = {}
  /\ NoSecondRun

IInv ==
  /\ TypeOK /\ Locals /\ LaunchedOnce /\ AckedAfterStart /\ SeenAcks /\ ServersStarted
  /\ ConfigWindow /\ FreshConfig

-------------------------------------------------------------------------------
(* Types                                                                        *)

LEMMA ProcHost ==
  ASSUME NEW p \in Procs
  PROVE  Host(p) \in Workers /\ p[2] \in Exps /\ p = <<Host(p), p[2]>>
BY DEF Procs, Host

LEMMA WorkerNames == Workers \subseteq Names /\ NoName \in Names /\ NoExp \notin Exps
BY DEF Names, Exps, NoExp

\* The variables keep their types.
LEMMA TypeInit == Init => TypeOK
BY WorkersAssumption, BoundsAssumption DEF Init, TypeOK, Names, NoExp

LEMMA TypeManager ==
  ASSUME TypeOK, Locals, StartManager \/ Interrupt \/ Manager \/ KillManager
  PROVE  TypeOK'
<1> USE BoundsAssumption DEF TypeOK, Locals, redis, slaves
<1>1. CASE StartManager BY <1>1 DEF StartManager
<1>2. CASE Interrupt BY <1>2 DEF Interrupt
<1>3. CASE KillManager BY <1>3, BoundsAssumption DEF KillManager, Fault
<1>4. CASE InitExp BY <1>4 DEF InitExp
<1>5. CASE SetInit BY <1>5, BoundsAssumption DEF SetInit, Exps, NoExp
<1>6. CASE PublishConfig BY <1>6 DEF PublishConfig
<1>7. CASE UnpublishConfig BY <1>7 DEF UnpublishConfig
<1>8. CASE AssertUnpublished BY <1>8 DEF AssertUnpublished
<1>9. CASE TakeAcks BY <1>9 DEF TakeAcks
<1>10. CASE AcksMissing BY <1>10 DEF AcksMissing
<1>11. CASE AssertAcksCleared BY <1>11 DEF AssertAcksCleared
<1>12. CASE SetRunning BY <1>12 DEF SetRunning
<1>13. CASE RecheckHealth BY <1>13 DEF RecheckHealth, Examine
<1>14. CASE SetEnd BY <1>14 DEF SetEnd
<1>15. CASE CollectResults BY <1>15 DEF CollectResults
<1>16. CASE AbortExp BY <1>16 DEF AbortExp
<1>17. CASE RaiseAbort BY <1>17 DEF RaiseAbort
<1>18. ASSUME NEW w \in Workers, LaunchWorker(w) PROVE TypeOK'
  <2>1. <<w, exp>> \in Procs BY <1>18 DEF LaunchWorker, Procs
  <2>2. ssh' \subseteq {"sed", "screen", "killall"} \X Procs BY <1>18, <2>1 DEF LaunchWorker
  <2> QED BY <1>18, <2>2, WorkerNames DEF LaunchWorker
<1>19. ASSUME NEW w \in Workers, ClearAck(w) PROVE TypeOK'
  BY <1>19 DEF ClearAck
<1>20. ASSUME NEW w \in Workers, CheckHealth(w) PROVE TypeOK'
  <2>1. CASE health[w] = "none" BY <1>20, <2>1, WorkerNames DEF CheckHealth
  <2>2. CASE health[w] # "none" BY <1>20, <2>2, WorkerNames DEF CheckHealth, Examine
  <2> QED BY <2>1, <2>2
<1>21. ASSUME NEW w \in Workers, KillScreen(w) PROVE TypeOK'
  BY <1>21 DEF KillScreen, Procs
<1> QED
  BY <1>1, <1>2, <1>3, <1>4, <1>5, <1>6, <1>7, <1>8, <1>9, <1>10, <1>11, <1>12, <1>13,
     <1>14, <1>15, <1>16, <1>17, <1>18, <1>19, <1>20, <1>21 DEF Manager

LEMMA TypeProcess ==
  ASSUME TypeOK, Locals, NEW p \in Procs, Slave(p) \/ Faults(p)
  PROVE  TypeOK'
<1> USE ProcHost DEF TypeOK, redis, manager
<1>1. CASE WorkerInit(p) BY <1>1 DEF WorkerInit
<1>2. CASE QueryConfig(p) BY <1>2 DEF QueryConfig, Gone
<1>3. CASE ScanConfig(p)
  <2>1. CASE wpc' = [wpc EXCEPT ![p] = "query"] /\ UNCHANGED wexp
    BY <1>3, <2>1 DEF ScanConfig
  <2>2. ASSUME NEW e \in cfg, wexp' = [wexp EXCEPT ![p] = e],
               wpc' = [wpc EXCEPT ![p] = "popen"]
        PROVE  TypeOK'
    BY <1>3, <2>2 DEF ScanConfig
  <2> QED BY <1>3, <2>1, <2>2 DEF ScanConfig
<1>4. CASE StartServer(p) BY <1>4 DEF StartServer, Locals
<1>5. CASE AckStart(p) BY <1>5 DEF AckStart, Ack
<1>6. CASE WaitExpInit(p) BY <1>6 DEF WaitExpInit
<1>7. CASE AssertRunning(p) BY <1>7 DEF AssertRunning, Gone
<1>8. CASE CheckExpRunning(p) BY <1>8 DEF CheckExpRunning, Gone
<1>9. CASE ReportHealth(p) BY <1>9 DEF ReportHealth
<1>10. CASE StopServer(p) BY <1>10 DEF StopServer
<1>11. CASE ReadFinalStat(p) BY <1>11 DEF ReadFinalStat, Gone
<1>12. CASE AckEnd(p) BY <1>12 DEF AckEnd, Ack
<1>13. CASE RunSed(p) BY <1>13, WorkerNames DEF RunSed
<1>14. CASE RunScreen(p) BY <1>14 DEF RunScreen
<1>15. CASE RunKillall(p) BY <1>15 DEF RunKillall, Gone
<1>16. CASE KillWorker(p) BY <1>16, BoundsAssumption DEF KillWorker, Fault, Gone
<1>17. CASE HangUpServer(p) BY <1>17 DEF HangUpServer
<1> QED
  BY <1>1, <1>2, <1>3, <1>4, <1>5, <1>6, <1>7, <1>8, <1>9, <1>10, <1>11, <1>12, <1>13,
     <1>14, <1>15, <1>16, <1>17 DEF Slave, Faults, Worker
-------------------------------------------------------------------------------
(* Who may change what                                                          *)

\* The manager does not touch the processes of the slaves.
LEMMA ManagerFrame ==
  ASSUME StartManager \/ Interrupt \/ Manager \/ KillManager
  PROVE  UNCHANGED <<wpc, name, wexp, srv, ran>>
BY DEF StartManager, Interrupt, Manager, KillManager, InitExp, SetInit, PublishConfig,
       UnpublishConfig, AssertUnpublished, TakeAcks, AcksMissing, AssertAcksCleared,
       SetRunning, RecheckHealth, SetEnd, CollectResults, AbortExp, RaiseAbort,
       LaunchWorker, ClearAck, CheckHealth, KillScreen, slaves

\* A slave writes acks and reports only.
LEMMA ProcessFrame ==
  ASSUME NEW p \in Procs, Slave(p) \/ Faults(p)
  PROVE  UNCHANGED <<stat, cfg, manager>>
BY DEF Slave, Worker, Faults, WorkerInit, QueryConfig, ScanConfig, StartServer, AckStart,
       AckEnd, Ack, WaitExpInit, AssertRunning, CheckExpRunning, ReportHealth, StopServer,
       ReadFinalStat, RunSed, RunScreen, RunKillall, KillWorker, HangUpServer, redis

\* A process gets no name once it has started a server, and forgets no experiment.
LEMMA StartedProcess ==
  ASSUME TypeOK, LaunchedOnce, AckedAfterStart, NEW p \in Procs, Slave(p) \/ Faults(p),
         NEW n, NEW e, Started(n, e)
  PROVE  Started(n, e)'
<1>1. \A q \in Procs : e \in ran[q] => name'[q] = name[q] /\ e \in ran'[q]
  BY DEF Slave, Worker, Faults, WorkerInit, QueryConfig, ScanConfig, StartServer, AckStart,
         AckEnd, Ack, WaitExpInit, AssertRunning, CheckExpRunning, ReportHealth, StopServer,
         ReadFinalStat, RunSed, RunScreen, RunKillall, KillWorker, HangUpServer,
         TypeOK, AckedAfterStart
<1> QED BY <1>1 DEF Started

LEMMA StartedManager ==
  ASSUME StartManager \/ Interrupt \/ Manager \/ KillManager, NEW n, NEW e
  PROVE  Started(n, e)' <=> Started(n, e)
BY ManagerFrame DEF Started

-------------------------------------------------------------------------------
(* The parts of the invariant, each preserved by the manager and by a process   *)

LEMMA LocalsManager ==
  ASSUME TypeOK, Locals, ConfigWindow,
         StartManager \/ Interrupt \/ Manager \/ KillManager
  PROVE  Locals'
<1> USE BoundsAssumption, ManagerFrame DEF TypeOK, Locals, ConfigWindow, slaves, NoExp, Exps
<1>1. CASE StartManager BY <1>1 DEF StartManager
<1>2. CASE Interrupt BY <1>2 DEF Interrupt
<1>3. CASE KillManager BY <1>3 DEF KillManager, Fault
<1>4. CASE InitExp BY <1>4 DEF InitExp
<1>5. CASE SetInit BY <1>5 DEF SetInit
<1>6. CASE PublishConfig BY <1>6 DEF PublishConfig
<1>7. CASE UnpublishConfig BY <1>7 DEF UnpublishConfig
<1>8. CASE AssertUnpublished BY <1>8 DEF AssertUnpublished
<1>9. CASE TakeAcks BY <1>9 DEF TakeAcks
<1>10. CASE AcksMissing BY <1>10 DEF AcksMissing
<1>11. CASE AssertAcksCleared BY <1>11 DEF AssertAcksCleared
<1>12. CASE SetRunning BY <1>12 DEF SetRunning
<1>13. CASE RecheckHealth BY <1>13 DEF RecheckHealth, Examine
<1>14. CASE SetEnd BY <1>14 DEF SetEnd
<1>15. CASE CollectResults BY <1>15 DEF CollectResults
<1>16. CASE AbortExp BY <1>16 DEF AbortExp
<1>17. CASE RaiseAbort BY <1>17 DEF RaiseAbort
<1>18. ASSUME NEW w \in Workers, LaunchWorker(w) PROVE Locals'
  BY <1>18 DEF LaunchWorker
<1>19. ASSUME NEW w \in Workers, ClearAck(w) PROVE Locals'
  BY <1>19 DEF ClearAck
<1>20. ASSUME NEW w \in Workers, CheckHealth(w) PROVE Locals'
  BY <1>20 DEF CheckHealth, Examine
<1>21. ASSUME NEW w \in Workers, KillScreen(w) PROVE Locals'
  BY <1>21 DEF KillScreen
<1> QED
  BY <1>1, <1>2, <1>3, <1>4, <1>5, <1>6, <1>7, <1>8, <1>9, <1>10, <1>11, <1>12, <1>13,
     <1>14, <1>15, <1>16, <1>17, <1>18, <1>19, <1>20, <1>21 DEF Manager

LEMMA LocalsProcess ==
  ASSUME TypeOK, Locals, AckedAfterStart,
         NEW p \in Procs, Slave(p) \/ Faults(p)
  PROVE  Locals'
<1> USE ProcessFrame DEF TypeOK, Locals, AckedAfterStart, manager, Gone
<1>1. CASE WorkerInit(p) BY <1>1 DEF WorkerInit
<1>2. CASE QueryConfig(p) BY <1>2 DEF QueryConfig
<1>3. CASE ScanConfig(p) BY <1>3 DEF ScanConfig
<1>4. CASE StartServer(p) BY <1>4 DEF StartServer
<1>5. CASE AckStart(p) BY <1>5 DEF AckStart, Ack
<1>6. CASE WaitExpInit(p) BY <1>6 DEF WaitExpInit
<1>7. CASE AssertRunning(p) BY <1>7 DEF AssertRunning
<1>8. CASE CheckExpRunning(p) BY <1>8 DEF CheckExpRunning
<1>9. CASE ReportHealth(p) BY <1>9 DEF ReportHealth
<1>10. CASE StopServer(p) BY <1>10 DEF StopServer
<1>11. CASE ReadFinalStat(p) BY <1>11 DEF ReadFinalStat
<1>12. CASE AckEnd(p) BY <1>12 DEF AckEnd, Ack
<1>13. CASE RunSed(p) BY <1>13 DEF RunSed
<1>14. CASE RunScreen(p) BY <1>14 DEF RunScreen
<1>15. CASE RunKillall(p) BY <1>15 DEF RunKillall, Alive
<1>16. CASE KillWorker(p) BY <1>16 DEF KillWorker, Fault, Alive
<1>17. CASE HangUpServer(p) BY <1>17 DEF HangUpServer
<1> QED
  BY <1>1, <1>2, <1>3, <1>4, <1>5, <1>6, <1>7, <1>8, <1>9, <1>10, <1>11, <1>12, <1>13,
     <1>14, <1>15, <1>16, <1>17 DEF Slave, Worker, Faults

LEMMA LaunchedOnceManager ==
  ASSUME TypeOK, Locals, LaunchedOnce,
         StartManager \/ Interrupt \/ Manager \/ KillManager
  PROVE  LaunchedOnce'
<1> USE ManagerFrame, ProcHost DEF TypeOK, LaunchedOnce, slaves, Host
<1>1. CASE StartManager BY <1>1 DEF StartManager
<1>2. CASE Interrupt BY <1>2 DEF Interrupt
<1>3. CASE KillManager BY <1>3 DEF KillManager, Fault
<1>4. CASE InitExp BY <1>4 DEF InitExp
<1>5. CASE SetInit
  <2>1. \A q \in Procs : q[2] > exp + 1 => q[2] > exp BY <1>5, ProcHost DEF TypeOK, Exps, NoExp
  <2>2. \A q \in Procs : q[2] = exp + 1 => q[2] > exp BY <1>5, ProcHost DEF TypeOK, Exps, NoExp
  <2> QED BY <1>5, <2>1, <2>2 DEF SetInit
<1>6. CASE PublishConfig BY <1>6 DEF PublishConfig
<1>7. CASE UnpublishConfig BY <1>7 DEF UnpublishConfig
<1>8. CASE AssertUnpublished BY <1>8 DEF AssertUnpublished
<1>9. CASE TakeAcks BY <1>9 DEF TakeAcks
<1>10. CASE AcksMissing BY <1>10 DEF AcksMissing
<1>11. CASE AssertAcksCleared BY <1>11 DEF AssertAcksCleared
<1>12. CASE SetRunning BY <1>12 DEF SetRunning
<1>13. CASE RecheckHealth BY <1>13 DEF RecheckHealth, Examine
<1>14. CASE SetEnd BY <1>14 DEF SetEnd
<1>15. CASE CollectResults BY <1>15 DEF CollectResults
<1>16. CASE AbortExp BY <1>16 DEF AbortExp
<1>17. CASE RaiseAbort BY <1>17 DEF RaiseAbort
<1>18. ASSUME NEW w \in Workers, LaunchWorker(w) PROVE LaunchedOnce'
  <2>1. \A q \in Procs : <<"screen", q>> \in ssh' => <<"screen", q>> \in ssh \/ q = <<w, exp>>
    BY <1>18 DEF LaunchWorker
  <2>2. \A q \in Procs : q = <<w, exp>> => q[1] \in left /\ q[1] \notin left' /\ ~(q[2] > exp)
    BY <1>18 DEF LaunchWorker, Exps, NoExp
  <2> QED BY <1>18, <2>1, <2>2 DEF LaunchWorker
<1>19. ASSUME NEW w \in Workers, ClearAck(w) PROVE LaunchedOnce'
  BY <1>19 DEF ClearAck
<1>20. ASSUME NEW w \in Workers, CheckHealth(w) PROVE LaunchedOnce'
  BY <1>20 DEF CheckHealth, Examine
<1>21. ASSUME NEW w \in Workers, KillScreen(w) PROVE LaunchedOnce'
  BY <1>21 DEF KillScreen
<1> QED
  BY <1>1, <1>2, <1>3, <1>4, <1>5, <1>6, <1>7, <1>8, <1>9, <1>10, <1>11, <1>12, <1>13,
     <1>14, <1>15, <1>16, <1>17, <1>18, <1>19, <1>20, <1>21 DEF Manager

LEMMA LaunchedOnceProcess ==
  ASSUME TypeOK, LaunchedOnce,
         NEW p \in Procs, Slave(p) \/ Faults(p)
  PROVE  LaunchedOnce'
<1> USE ProcessFrame DEF TypeOK, LaunchedOnce, manager, Gone
<1>1. CASE WorkerInit(p) BY <1>1 DEF WorkerInit
<1>2. CASE QueryConfig(p) BY <1>2 DEF QueryConfig
<1>3. CASE ScanConfig(p) BY <1>3 DEF ScanConfig
<1>4. CASE StartServer(p) BY <1>4 DEF StartServer
<1>5. CASE AckStart(p) BY <1>5 DEF AckStart, Ack
<1>6. CASE WaitExpInit(p) BY <1>6 DEF WaitExpInit
<1>7. CASE AssertRunning(p) BY <1>7 DEF AssertRunning
<1>8. CASE CheckExpRunning(p) BY <1>8 DEF CheckExpRunning
<1>9. CASE ReportHealth(p) BY <1>9 DEF ReportHealth
<1>10. CASE StopServer(p) BY <1>10 DEF StopServer
<1>11. CASE ReadFinalStat(p) BY <1>11 DEF ReadFinalStat
<1>12. CASE AckEnd(p) BY <1>12 DEF AckEnd, Ack
<1>13. CASE RunSed(p) BY <1>13 DEF RunSed
<1>14. CASE RunScreen(p) BY <1>14 DEF RunScreen
<1>15. CASE RunKillall(p) BY <1>15 DEF RunKillall, Alive
<1>16. CASE KillWorker(p) BY <1>16 DEF KillWorker, Fault, Alive
<1>17. CASE HangUpServer(p) BY <1>17 DEF HangUpServer
<1> QED
  BY <1>1, <1>2, <1>3, <1>4, <1>5, <1>6, <1>7, <1>8, <1>9, <1>10, <1>11, <1>12, <1>13,
     <1>14, <1>15, <1>16, <1>17 DEF Slave, Worker, Faults

LEMMA AckedAfterStartManager ==
  ASSUME TypeOK, AckedAfterStart,
         StartManager \/ Interrupt \/ Manager \/ KillManager
  PROVE  AckedAfterStart'
<1> USE ManagerFrame, StartedManager DEF TypeOK, AckedAfterStart, redis
<1>1. CASE StartManager BY <1>1 DEF StartManager
<1>2. CASE Interrupt BY <1>2 DEF Interrupt
<1>3. CASE KillManager BY <1>3 DEF KillManager, Fault
<1>4. CASE InitExp BY <1>4 DEF InitExp
<1>5. CASE SetInit BY <1>5 DEF SetInit
<1>6. CASE PublishConfig BY <1>6 DEF PublishConfig
<1>7. CASE UnpublishConfig BY <1>7 DEF UnpublishConfig
<1>8. CASE AssertUnpublished BY <1>8 DEF AssertUnpublished
<1>9. CASE TakeAcks BY <1>9 DEF TakeAcks
<1>10. CASE AcksMissing BY <1>10 DEF AcksMissing
<1>11. CASE AssertAcksCleared BY <1>11 DEF AssertAcksCleared
<1>12. CASE SetRunning BY <1>12 DEF SetRunning
<1>13. CASE RecheckHealth BY <1>13 DEF RecheckHealth, Examine
<1>14. CASE SetEnd BY <1>14 DEF SetEnd
<1>15. CASE CollectResults BY <1>15 DEF CollectResults
<1>16. CASE AbortExp BY <1>16 DEF AbortExp
<1>17. CASE RaiseAbort BY <1>17 DEF RaiseAbort
<1>18. ASSUME NEW w \in Workers, LaunchWorker(w) PROVE AckedAfterStart'
  BY <1>18 DEF LaunchWorker
<1>19. ASSUME NEW w \in Workers, ClearAck(w) PROVE AckedAfterStart'
  BY <1>19 DEF ClearAck
<1>20. ASSUME NEW w \in Workers, CheckHealth(w) PROVE AckedAfterStart'
  BY <1>20 DEF CheckHealth, Examine
<1>21. ASSUME NEW w \in Workers, KillScreen(w) PROVE AckedAfterStart'
  BY <1>21 DEF KillScreen
<1> QED
  BY <1>1, <1>2, <1>3, <1>4, <1>5, <1>6, <1>7, <1>8, <1>9, <1>10, <1>11, <1>12, <1>13,
     <1>14, <1>15, <1>16, <1>17, <1>18, <1>19, <1>20, <1>21 DEF Manager

LEMMA AckedAfterStartProcess ==
  ASSUME TypeOK, LaunchedOnce, AckedAfterStart,
         NEW p \in Procs, Slave(p) \/ Faults(p)
  PROVE  AckedAfterStart'
<1> USE StartedProcess DEF TypeOK, LaunchedOnce, AckedAfterStart, redis, Gone
<1>1. CASE WorkerInit(p) BY <1>1 DEF WorkerInit
<1>2. CASE QueryConfig(p) BY <1>2 DEF QueryConfig
<1>3. CASE ScanConfig(p) BY <1>3 DEF ScanConfig
<1>4. CASE StartServer(p) BY <1>4 DEF StartServer
<1>5. CASE AckStart(p)
  <2>1. Started(name[p], wexp[p])' BY <1>5 DEF AckStart, Ack, Started
  <2> QED BY <1>5, <2>1 DEF AckStart, Ack
<1>6. CASE WaitExpInit(p) BY <1>6 DEF WaitExpInit
<1>7. CASE AssertRunning(p) BY <1>7 DEF AssertRunning
<1>8. CASE CheckExpRunning(p) BY <1>8 DEF CheckExpRunning
<1>9. CASE ReportHealth(p) BY <1>9 DEF ReportHealth
<1>10. CASE StopServer(p) BY <1>10 DEF StopServer
<1>11. CASE ReadFinalStat(p) BY <1>11 DEF ReadFinalStat
<1>12. CASE AckEnd(p)
  <2>1. Started(name[p], wexp[p])' BY <1>12 DEF AckEnd, Ack, Started
  <2> QED BY <1>12, <2>1 DEF AckEnd, Ack
<1>13. CASE RunSed(p) BY <1>13 DEF RunSed
<1>14. CASE RunScreen(p) BY <1>14 DEF RunScreen
<1>15. CASE RunKillall(p) BY <1>15 DEF RunKillall, Alive
<1>16. CASE KillWorker(p) BY <1>16 DEF KillWorker, Fault, Alive
<1>17. CASE HangUpServer(p) BY <1>17 DEF HangUpServer
<1> QED
  BY <1>1, <1>2, <1>3, <1>4, <1>5, <1>6, <1>7, <1>8, <1>9, <1>10, <1>11, <1>12, <1>13,
     <1>14, <1>15, <1>16, <1>17 DEF Slave, Worker, Faults

LEMMA SeenAcksManager ==
  ASSUME TypeOK, AckedAfterStart, SeenAcks,
         StartManager \/ Interrupt \/ Manager \/ KillManager
  PROVE  SeenAcks'
<1> USE StartedManager DEF TypeOK, AckedAfterStart, SeenAcks, redis, Acked
<1>1. CASE StartManager BY <1>1 DEF StartManager
<1>2. CASE Interrupt BY <1>2 DEF Interrupt
<1>3. CASE KillManager BY <1>3 DEF KillManager, Fault
<1>4. CASE InitExp BY <1>4 DEF InitExp
<1>5. CASE SetInit BY <1>5 DEF SetInit
<1>6. CASE PublishConfig BY <1>6 DEF PublishConfig
<1>7. CASE UnpublishConfig BY <1>7 DEF UnpublishConfig
<1>8. CASE AssertUnpublished BY <1>8 DEF AssertUnpublished
<1>9. CASE TakeAcks BY <1>9 DEF TakeAcks
<1>10. CASE AcksMissing BY <1>10 DEF AcksMissing
<1>11. CASE AssertAcksCleared BY <1>11 DEF AssertAcksCleared
<1>12. CASE SetRunning BY <1>12 DEF SetRunning
<1>13. CASE RecheckHealth BY <1>13 DEF RecheckHealth, Examine
<1>14. CASE SetEnd BY <1>14 DEF SetEnd
<1>15. CASE CollectResults BY <1>15 DEF CollectResults
<1>16. CASE AbortExp BY <1>16 DEF AbortExp
<1>17. CASE RaiseAbort BY <1>17 DEF RaiseAbort
<1>18. ASSUME NEW w \in Workers, LaunchWorker(w) PROVE SeenAcks'
  BY <1>18 DEF LaunchWorker
<1>19. ASSUME NEW w \in Workers, ClearAck(w) PROVE SeenAcks'
  <2>1. CASE pool[w] = exp BY <1>19, <2>1, WorkerNames DEF ClearAck, NoExp
  <2>2. CASE pool[w] # exp BY <1>19, <2>2 DEF ClearAck
  <2> QED BY <2>1, <2>2
<1>20. ASSUME NEW w \in Workers, CheckHealth(w) PROVE SeenAcks'
  BY <1>20 DEF CheckHealth, Examine
<1>21. ASSUME NEW w \in Workers, KillScreen(w) PROVE SeenAcks'
  BY <1>21 DEF KillScreen
<1> QED
  BY <1>1, <1>2, <1>3, <1>4, <1>5, <1>6, <1>7, <1>8, <1>9, <1>10, <1>11, <1>12, <1>13,
     <1>14, <1>15, <1>16, <1>17, <1>18, <1>19, <1>20, <1>21 DEF Manager

LEMMA SeenAcksProcess ==
  ASSUME TypeOK, LaunchedOnce, AckedAfterStart, SeenAcks,
         NEW p \in Procs, Slave(p) \/ Faults(p)
  PROVE  SeenAcks'
BY ProcessFrame, StartedProcess DEF SeenAcks, manager

LEMMA ServersStartedManager ==
  ASSUME TypeOK, SeenAcks, ServersStarted,
         StartManager \/ Interrupt \/ Manager \/ KillManager
  PROVE  ServersStarted'
<1> USE StartedManager DEF SeenAcks, ServersStarted, redis
<1>1. CASE StartManager BY <1>1 DEF StartManager
<1>2. CASE Interrupt BY <1>2 DEF Interrupt
<1>3. CASE KillManager BY <1>3 DEF KillManager, Fault
<1>4. CASE InitExp BY <1>4 DEF InitExp
<1>5. CASE SetInit BY <1>5 DEF SetInit
<1>6. CASE PublishConfig BY <1>6 DEF PublishConfig
<1>7. CASE UnpublishConfig BY <1>7 DEF UnpublishConfig
<1>8. CASE AssertUnpublished BY <1>8 DEF AssertUnpublished
<1>9. CASE TakeAcks BY <1>9 DEF TakeAcks
<1>10. CASE AcksMissing BY <1>10 DEF AcksMissing
<1>11. CASE AssertAcksCleared BY <1>11 DEF AssertAcksCleared
<1>12. CASE SetRunning BY <1>12 DEF SetRunning
<1>13. CASE RecheckHealth BY <1>13 DEF RecheckHealth, Examine
<1>14. CASE SetEnd BY <1>14 DEF SetEnd
<1>15. CASE CollectResults BY <1>15 DEF CollectResults
<1>16. CASE AbortExp BY <1>16 DEF AbortExp
<1>17. CASE RaiseAbort BY <1>17 DEF RaiseAbort
<1>18. ASSUME NEW w \in Workers, LaunchWorker(w) PROVE ServersStarted'
  BY <1>18 DEF LaunchWorker
<1>19. ASSUME NEW w \in Workers, ClearAck(w) PROVE ServersStarted'
  BY <1>19 DEF ClearAck
<1>20. ASSUME NEW w \in Workers, CheckHealth(w) PROVE ServersStarted'
  BY <1>20 DEF CheckHealth, Examine
<1>21. ASSUME NEW w \in Workers, KillScreen(w) PROVE ServersStarted'
  BY <1>21 DEF KillScreen
<1> QED
  BY <1>1, <1>2, <1>3, <1>4, <1>5, <1>6, <1>7, <1>8, <1>9, <1>10, <1>11, <1>12, <1>13,
     <1>14, <1>15, <1>16, <1>17, <1>18, <1>19, <1>20, <1>21 DEF Manager

LEMMA ServersStartedProcess ==
  ASSUME TypeOK, LaunchedOnce, AckedAfterStart, ServersStarted,
         NEW p \in Procs, Slave(p) \/ Faults(p)
  PROVE  ServersStarted'
BY ProcessFrame, StartedProcess DEF ServersStarted, manager

LEMMA ConfigWindowManager ==
  ASSUME TypeOK, ConfigWindow,
         StartManager \/ Interrupt \/ Manager \/ KillManager
  PROVE  ConfigWindow'
<1> USE DEF TypeOK, ConfigWindow, redis
<1>1. CASE StartManager BY <1>1 DEF StartManager
<1>2. CASE Interrupt BY <1>2 DEF Interrupt
<1>3. CASE KillManager BY <1>3 DEF KillManager, Fault
<1>4. CASE InitExp BY <1>4 DEF InitExp
<1>5. CASE SetInit BY <1>5 DEF SetInit
<1>6. CASE PublishConfig BY <1>6 DEF PublishConfig
<1>7. CASE UnpublishConfig BY <1>7 DEF UnpublishConfig
<1>8. CASE AssertUnpublished BY <1>8 DEF AssertUnpublished
<1>9. CASE TakeAcks BY <1>9 DEF TakeAcks
<1>10. CASE AcksMissing BY <1>10 DEF AcksMissing
<1>11. CASE AssertAcksCleared BY <1>11 DEF AssertAcksCleared
<1>12. CASE SetRunning BY <1>12 DEF SetRunning
<1>13. CASE RecheckHealth BY <1>13 DEF RecheckHealth, Examine
<1>14. CASE SetEnd BY <1>14 DEF SetEnd
<1>15. CASE CollectResults BY <1>15 DEF CollectResults
<1>16. CASE AbortExp BY <1>16 DEF AbortExp
<1>17. CASE RaiseAbort BY <1>17 DEF RaiseAbort
<1>18. ASSUME NEW w \in Workers, LaunchWorker(w) PROVE ConfigWindow'
  BY <1>18 DEF LaunchWorker
<1>19. ASSUME NEW w \in Workers, ClearAck(w) PROVE ConfigWindow'
  BY <1>19 DEF ClearAck
<1>20. ASSUME NEW w \in Workers, CheckHealth(w) PROVE ConfigWindow'
  BY <1>20 DEF CheckHealth, Examine
<1>21. ASSUME NEW w \in Workers, KillScreen(w) PROVE ConfigWindow'
  BY <1>21 DEF KillScreen
<1> QED
  BY <1>1, <1>2, <1>3, <1>4, <1>5, <1>6, <1>7, <1>8, <1>9, <1>10, <1>11, <1>12, <1>13,
     <1>14, <1>15, <1>16, <1>17, <1>18, <1>19, <1>20, <1>21 DEF Manager

LEMMA ConfigWindowProcess ==
  ASSUME ConfigWindow, NEW p \in Procs, Slave(p) \/ Faults(p)
  PROVE  ConfigWindow'
BY ProcessFrame DEF ConfigWindow, manager

LEMMA FreshConfigManager ==
  ASSUME TypeOK, Locals, ConfigWindow, FreshConfig,
         StartManager \/ Interrupt \/ Manager \/ KillManager
  PROVE  FreshConfig'
<1> USE ManagerFrame DEF TypeOK, Locals, ConfigWindow, FreshConfig, NoSecondRun, redis, NoExp, Exps
<1>1. CASE StartManager BY <1>1 DEF StartManager
<1>2. CASE Interrupt BY <1>2 DEF Interrupt
<1>3. CASE KillManager BY <1>3 DEF KillManager, Fault
<1>4. CASE InitExp BY <1>4 DEF InitExp
<1>5. CASE SetInit BY <1>5 DEF SetInit
<1>6. CASE PublishConfig BY <1>6 DEF PublishConfig
<1>7. CASE UnpublishConfig BY <1>7 DEF UnpublishConfig
<1>8. CASE AssertUnpublished BY <1>8 DEF AssertUnpublished
<1>9. CASE TakeAcks BY <1>9 DEF TakeAcks
<1>10. CASE AcksMissing BY <1>10 DEF AcksMissing
<1>11. CASE AssertAcksCleared BY <1>11 DEF AssertAcksCleared
<1>12. CASE SetRunning BY <1>12 DEF SetRunning
<1>13. CASE RecheckHealth BY <1>13 DEF RecheckHealth, Examine
<1>14. CASE SetEnd BY <1>14 DEF SetEnd
<1>15. CASE CollectResults BY <1>15 DEF CollectResults
<1>16. CASE AbortExp BY <1>16 DEF AbortExp
<1>17. CASE RaiseAbort BY <1>17 DEF RaiseAbort
<1>18. ASSUME NEW w \in Workers, LaunchWorker(w) PROVE FreshConfig'
  BY <1>18 DEF LaunchWorker
<1>19. ASSUME NEW w \in Workers, ClearAck(w) PROVE FreshConfig'
  BY <1>19 DEF ClearAck
<1>20. ASSUME NEW w \in Workers, CheckHealth(w) PROVE FreshConfig'
  BY <1>20 DEF CheckHealth, Examine
<1>21. ASSUME NEW w \in Workers, KillScreen(w) PROVE FreshConfig'
  BY <1>21 DEF KillScreen
<1> QED
  BY <1>1, <1>2, <1>3, <1>4, <1>5, <1>6, <1>7, <1>8, <1>9, <1>10, <1>11, <1>12, <1>13,
     <1>14, <1>15, <1>16, <1>17, <1>18, <1>19, <1>20, <1>21 DEF Manager

LEMMA FreshConfigProcess ==
  ASSUME TypeOK, LaunchedOnce, AckedAfterStart, ConfigWindow, FreshConfig,
         NEW p \in Procs, Slave(p) \/ Faults(p)
  PROVE  FreshConfig'
<1> USE ProcessFrame DEF TypeOK, LaunchedOnce, AckedAfterStart, ConfigWindow, FreshConfig,
        NoSecondRun, manager, Gone, NoExp, Exps
<1>1. CASE WorkerInit(p) BY <1>1 DEF WorkerInit
<1>2. CASE QueryConfig(p) BY <1>2 DEF QueryConfig
<1>3. CASE ScanConfig(p) BY <1>3 DEF ScanConfig
<1>4. CASE StartServer(p) BY <1>4 DEF StartServer
<1>5. CASE AckStart(p) BY <1>5 DEF AckStart, Ack
<1>6. CASE WaitExpInit(p) BY <1>6 DEF WaitExpInit
<1>7. CASE AssertRunning(p) BY <1>7 DEF AssertRunning
<1>8. CASE CheckExpRunning(p) BY <1>8 DEF CheckExpRunning
<1>9. CASE ReportHealth(p) BY <1>9 DEF ReportHealth
<1>10. CASE StopServer(p) BY <1>10 DEF StopServer
<1>11. CASE ReadFinalStat(p) BY <1>11 DEF ReadFinalStat
<1>12. CASE AckEnd(p) BY <1>12 DEF AckEnd, Ack
<1>13. CASE RunSed(p) BY <1>13 DEF RunSed
<1>14. CASE RunScreen(p) BY <1>14 DEF RunScreen
<1>15. CASE RunKillall(p) BY <1>15 DEF RunKillall, Alive
<1>16. CASE KillWorker(p) BY <1>16 DEF KillWorker, Fault, Alive
<1>17. CASE HangUpServer(p) BY <1>17 DEF HangUpServer
<1> QED
  BY <1>1, <1>2, <1>3, <1>4, <1>5, <1>6, <1>7, <1>8, <1>9, <1>10, <1>11, <1>12, <1>13,
     <1>14, <1>15, <1>16, <1>17 DEF Slave, Worker, Faults

-------------------------------------------------------------------------------
(* The invariant and what it implies                                            *)

LEMMA IInvInit == Init => IInv
<1> SUFFICES ASSUME Init PROVE IInv OBVIOUS
<1>1. TypeOK BY TypeInit
<1>2. Locals /\ ConfigWindow BY DEF Init, Locals, ConfigWindow, NoExp
<1>3. LaunchedOnce BY DEF Init, LaunchedOnce
<1>4. AckedAfterStart /\ SeenAcks /\ ServersStarted
  BY DEF Init, AckedAfterStart, SeenAcks, ServersStarted, Names
<1>5. FreshConfig BY DEF Init, FreshConfig, NoSecondRun, NoExp
<1> QED BY <1>1, <1>2, <1>3, <1>4, <1>5 DEF IInv

LEMMA IInvStep == IInv /\ [Next]_vars => IInv'
<1> SUFFICES ASSUME IInv, [Next]_vars PROVE IInv' OBVIOUS
<1> USE DEF IInv
<1>1. CASE StartManager \/ Interrupt \/ Manager \/ KillManager
  BY <1>1, TypeManager, LocalsManager, LaunchedOnceManager, AckedAfterStartManager,
     SeenAcksManager, ServersStartedManager, ConfigWindowManager, FreshConfigManager
<1>2. ASSUME NEW p \in Procs, Slave(p) \/ Faults(p) PROVE IInv'
  BY <1>2, TypeProcess, LocalsProcess, LaunchedOnceProcess, AckedAfterStartProcess,
     SeenAcksProcess, ServersStartedProcess, ConfigWindowProcess, FreshConfigProcess
<1>3. ASSUME NEW c \in ssh, LoseSsh(c) PROVE IInv'
  <2> USE <1>3 DEF LoseSsh, Fault, redis, manager
  <2>1. TypeOK' BY BoundsAssumption DEF TypeOK
  <2>2. Locals' /\ ConfigWindow' /\ FreshConfig'
    BY DEF Locals, ConfigWindow, FreshConfig, NoSecondRun
  <2>3. LaunchedOnce' BY DEF LaunchedOnce
  <2>4. AckedAfterStart' /\ SeenAcks' /\ ServersStarted'
    BY DEF AckedAfterStart, SeenAcks, ServersStarted, Started
  <2> QED BY <2>1, <2>2, <2>3, <2>4
<1>4. CASE UNCHANGED vars
  <2> USE <1>4 DEF vars, redis, manager, slaves
  <2>1. TypeOK' BY DEF TypeOK
  <2>2. Locals' /\ ConfigWindow' /\ FreshConfig' /\ LaunchedOnce'
    BY DEF Locals, ConfigWindow, FreshConfig, NoSecondRun, LaunchedOnce
  <2>3. AckedAfterStart' /\ SeenAcks' /\ ServersStarted'
    BY DEF AckedAfterStart, SeenAcks, ServersStarted, Started
  <2> QED BY <2>1, <2>2, <2>3
<1> QED BY <1>1, <1>2, <1>3, <1>4 DEF Next

\* The strengthening holds in every reachable state.
THEOREM Invariance == Spec => []IInv
BY IInvInit, IInvStep, PTL DEF Spec

\* TypeOK: every variable of the manager, of redis and of the workers keeps its type;
\* in particular exp_start_time is set whenever a config is published or a worker
\* launched with it.
THEOREM TypeCorrect == Spec => []TypeOK
<1>1. IInv => TypeOK BY DEF IInv
<1> QED BY <1>1, Invariance, PTL

\* ServersStarted: the manager sets RUNNING (manager.py:187) only after every slave
\* has a process that started its server for the experiment, whatever the ssh
\* commands, crashes and processes left over from earlier experiments do.
THEOREM RunningServersStarted == Spec => []ServersStarted
<1>1. IInv => ServersStarted BY DEF IInv
<1> QED BY <1>1, Invariance, PTL

\* NoSecondRun: a worker that is about to start its server (worker.py:57) has not
\* run that experiment before.
THEOREM EachExperimentOnce == Spec => []NoSecondRun
<1>1. IInv => NoSecondRun BY DEF IInv, FreshConfig
<1> QED BY <1>1, Invariance, PTL

\* ConfigUnique: worker_run never meets two configs (worker.py:141-142).
THEOREM OneConfig == Spec => []ConfigUnique
<1>1. IInv => ConfigUnique BY DEF IInv, ConfigWindow, ConfigUnique
<1> QED BY <1>1, Invariance, PTL
===============================================================================
