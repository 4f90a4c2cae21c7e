---------------------------- MODULE ExpSingleProofs ----------------------------
(* Proofs about ExpControl when the slaves are clean: one experiment, with any   *)
(* number of slaves and of faults.                                               *)
EXTENDS ExpControlProofs

-------------------------------------------------------------------------------
(* The inductive invariant, on top of IInv                                      *)

\* What a process has still to do before its first ack.
Early == {"none", "init", "query", "scan", "popen", "ack"}

\* A process that has sent its last ack, or that was killed or has failed, and has no
\* server: not one that exited without an ack.
Quiet(p) == wpc[p] \in {"query"} \union (Gone \ {"exited"}) /\ srv[p] # "up"

\* Nobody acts under the name of another slave.
OwnNames ==
  /\ \A w \in Workers : fname[w] \in {w, NoName}
  /\ \A p \in Procs : name[p] \in {Host(p), NoName}

OwnServers ==
  \A p \in Procs : /\ srv[p] = "none" <=> ran[p] = {}
                   /\ wpc[p] \in {"none", "init", "query", "scan", "popen", "final", "endAck"}
                        => srv[p] # "up"

\* How far the manager's phase, the status and the workers can be apart.
Phases ==
  /\ mpc \in {"off", "flush", "setInit"} => exp = NoExp
  /\ exp = NoExp => phase = "start"
  /\ mpc \in {"wait", "clear"} => phase # "run"
  /\ mpc \in {"killScreens", "collect", "done"} => phase = "end"
  /\ stat = "RUNNING" => phase # "start"
  /\ stat = "END" => phase = "end"
  /\ phase = "start" => \A p \in Procs : wpc[p] \notin {"check", "report", "kill", "final"}
  /\ \A p \in Procs : wpc[p] = "endAck" => phase = "end"
  /\ mpc # "assertFailed"
  /\ mpc = "assertCfg" => cfg = {}

\* The acks of the start: each is the only one its worker sends before the end, so
\* that none is left or can still come when the manager has taken them.
StartAcks ==
  /\ phase = "start" => \A w \in Workers : acks[w] # NoExp => wpc[<<w, 1>>] \notin Early
  /\ phase = "run" \/ (phase = "start" /\ mpc \in {"clear", "unpublish", "assertCfg", "setRunning"})
       => \A p \in Procs : wpc[p] \notin Early
  /\ phase = "run" \/ mpc \in {"unpublish", "assertCfg", "setRunning"}
       => \A n \in Names : acks[n] = NoExp
  /\ mpc = "clear" => acks = pool /\ pool[NoName] = NoExp

\* The acks of the end: each comes from a worker that has stopped its server.
EndAcks ==
  /\ phase = "end" => \A p \in Procs : wpc[p] \notin Early \ {"query"}
  /\ phase = "end" => \A w \in Workers : acks[w] # NoExp => Quiet(<<w, 1>>)
  /\ phase = "end" /\ mpc \in {"clear", "killScreens", "collect", "done"}
       => \A p \in Procs : Quiet(p)
  /\ phase # "start" => \A w \in Workers : name[<<w, 1>>] = w /\ ran[<<w, 1>>] # {}

SInv == IInv /\ OwnNames /\ OwnServers /\ Phases /\ StartAcks /\ EndAcks
-------------------------------------------------------------------------------
(* With a single experiment every process is <<w, 1>>                           *)

LEMMA SingleProcs ==
  ASSUME MaxExp = 1
  PROVE  /\ Exps = {1}
         /\ \A p \in Procs : Host(p) \in Workers /\ p = <<Host(p), 1>>
         /\ \A w \in Workers : <<w, 1>> \in Procs /\ Host(<<w, 1>>) = w
BY DEF Exps, Procs, Host

LEMMA SingleStarted ==
  ASSUME MaxExp = 1, OwnNames, NEW w \in Workers, NEW e, Started(w, e)
  PROVE  name[<<w, 1>>] = w /\ e \in ran[<<w, 1>>]
BY SingleProcs, WorkersAssumption DEF Started, OwnNames

LEMMA SingleExp ==
  ASSUME MaxExp = 1, TypeOK
  PROVE  exp \in {NoExp, 1} /\ (exp < MaxExp <=> exp = NoExp)
BY SingleProcs DEF TypeOK, NoExp

LEMMA OwnNamesManager ==
  ASSUME OwnNames, StartManager \/ Interrupt \/ Manager \/ KillManager
  PROVE  OwnNames'
<1> USE ManagerFrame DEF OwnNames
<1>1. ASSUME NEW w \in Workers, LaunchWorker(w) PROVE OwnNames'
  BY <1>1 DEF LaunchWorker
<1>2. ASSUME ~\E w \in Workers : LaunchWorker(w) PROVE UNCHANGED fname
  BY <1>2 DEF StartManager, Interrupt, Manager, KillManager, InitExp, SetInit,
       PublishConfig, UnpublishConfig, AssertUnpublished, TakeAcks, AcksMissing,
       AssertAcksCleared, SetRunning, RecheckHealth, SetEnd, CollectResults, AbortExp,
       RaiseAbort, ClearAck, CheckHealth, KillScreen, slaves
<1> QED BY <1>1, <1>2

LEMMA OwnNamesProcess ==
  ASSUME TypeOK, OwnNames,
         NEW p \in Procs, Slave(p) \/ Faults(p)
  PROVE  OwnNames'
<1> USE ProcHost DEF TypeOK, OwnNames
<1>1. CASE WorkerInit(p) BY <1>1 DEF WorkerInit
<1>2. CASE QueryConfig(p) BY <1>2 DEF QueryConfig
<1>3. CASE ScanConfig(p) BY <1>3 DEF ScanConfig
<1>4. CASE StartServer(p) BY <1>4 DEF StartServer
<1>5. CASE AckStart(p) BY <1>5 DEF AckStart, Ack
<1>6. CASE WaitExpInit(p) BY <1>6 DEF WaitExpInit
<1>7. CASE AssertRunning(p) BY <1>7 DEF AssertRunning
<1>8. CASE CheckExpRunning(p) BY <1>8 DEF CheckExpRunning
<1>9. CASE ReportHealth(p) BY <1>9 DEF ReportHealth
<1>10. CASE StopServer(p) BY <1>10 DEF StopServer
<1>11. CASE ReadFinalStat(p) BY <1>11 DEF ReadFinalStat
<1>12. CASE AckEnd(p) BY <1>12 DEF AckEnd, Ack
<1>13. CASE RunSed(p) BY <1>13 DEF RunSed
<1>14. CASE RunScreen(p) BY <1>14 DEF RunScreen
<1>15. CASE RunKillall(p) BY <1>15 DEF RunKillall, Alive
<1>16. CASE KillWorker(p) BY <1>16 DEF KillWorker, Fault, Alive
<1>17. CASE HangUpServer(p) BY <1>17 DEF HangUpServer
<1> QED
  BY <1>1, <1>2, <1>3, <1>4, <1>5, <1>6, <1>7, <1>8, <1>9, <1>10, <1>11, <1>12, <1>13,
     <1>14, <1>15, <1>16, <1>17 DEF Slave, Worker, Faults

LEMMA OwnServersManager ==
  ASSUME OwnServers, StartManager \/ Interrupt \/ Manager \/ KillManager
  PROVE  OwnServers'
BY ManagerFrame DEF OwnServers

LEMMA OwnServersProcess ==
  ASSUME TypeOK, Locals, LaunchedOnce, AckedAfterStart, OwnServers,
         NEW p \in Procs, Slave(p) \/ Faults(p)
  PROVE  OwnServers'
<1> USE DEF TypeOK, Locals, LaunchedOnce, AckedAfterStart, OwnServers, Gone
<1>1. CASE WorkerInit(p) BY <1>1 DEF WorkerInit
<1>2. CASE QueryConfig(p) BY <1>2 DEF QueryConfig
<1>3. CASE ScanConfig(p) BY <1>3 DEF ScanConfig
<1>4. CASE StartServer(p) BY <1>4 DEF StartServer
<1>5. CASE AckStart(p) BY <1>5 DEF AckStart, Ack
<1>6. CASE WaitExpInit(p) BY <1>6 DEF WaitExpInit
<1>7. CASE AssertRunning(p) BY <1>7 DEF AssertRunning
<1>8. CASE CheckExpRunning(p) BY <1>8 DEF CheckExpRunning
<1>9. CASE ReportHealth(p) BY <1>9 DEF ReportHealth
<1>10. CASE StopServer(p) BY <1>10 DEF StopServer
<1>11. CASE ReadFinalStat(p) BY <1>11 DEF ReadFinalStat
<1>12. CASE AckEnd(p) BY <1>12 DEF AckEnd, Ack
<1>13. CASE RunSed(p) BY <1>13 DEF RunSed
<1>14. CASE RunScreen(p) BY <1>14 DEF RunScreen
<1>15. CASE RunKillall(p) BY <1>15 DEF RunKillall, Alive
<1>16. CASE KillWorker(p) BY <1>16 DEF KillWorker, Fault, Alive
<1>17. CASE HangUpServer(p) BY <1>17 DEF HangUpServer
<1> QED
  BY <1>1, <1>2, <1>3, <1>4, <1>5, <1>6, <1>7, <1>8, <1>9, <1>10, <1>11, <1>12, <1>13,
     <1>14, <1>15, <1>16, <1>17 DEF Slave, Worker, Faults

LEMMA PhasesManager ==
  ASSUME MaxExp = 1, IInv, Phases, StartAcks,
         StartManager \/ Interrupt \/ Manager \/ KillManager
  PROVE  Phases'
<1> USE SingleExp, ManagerFrame DEF IInv, Phases, Locals, ConfigWindow, redis, NoExp
<1>1. CASE StartManager BY <1>1 DEF StartManager
<1>2. CASE Interrupt BY <1>2 DEF Interrupt
<1>3. CASE KillManager BY <1>3 DEF KillManager, Fault
<1>4. CASE InitExp BY <1>4 DEF InitExp
<1>5. CASE SetInit BY <1>5 DEF SetInit
<1>6. CASE PublishConfig BY <1>6 DEF PublishConfig
<1>7. CASE UnpublishConfig BY <1>7 DEF UnpublishConfig
<1>8. CASE AssertUnpublished BY <1>8 DEF AssertUnpublished
<1>9. CASE TakeAcks BY <1>9 DEF TakeAcks
<1>10. CASE AcksMissing BY <1>10 DEF AcksMissing
<1>11. CASE AssertAcksCleared
  <2>1. Acked = {} BY <1>11 DEF AssertAcksCleared, StartAcks, Acked, Names, NoExp
  <2> QED BY <1>11, <2>1 DEF AssertAcksCleared, TypeOK
<1>12. CASE SetRunning BY <1>12 DEF SetRunning
<1>13. CASE RecheckHealth BY <1>13 DEF RecheckHealth, Examine
<1>14. CASE SetEnd BY <1>14 DEF SetEnd
<1>15. CASE CollectResults BY <1>15 DEF CollectResults
<1>16. CASE AbortExp BY <1>16 DEF AbortExp
<1>17. CASE RaiseAbort BY <1>17 DEF RaiseAbort
<1>18. ASSUME NEW w \in Workers, LaunchWorker(w) PROVE Phases'
  BY <1>18 DEF LaunchWorker
<1>19. ASSUME NEW w \in Workers, ClearAck(w) PROVE Phases'
  BY <1>19 DEF ClearAck
<1>20. ASSUME NEW w \in Workers, CheckHealth(w) PROVE Phases'
  BY <1>20 DEF CheckHealth, Examine
<1>21. ASSUME NEW w \in Workers, KillScreen(w) PROVE Phases'
  BY <1>21 DEF KillScreen
<1> QED
  BY <1>1, <1>2, <1>3, <1>4, <1>5, <1>6, <1>7, <1>8, <1>9, <1>10, <1>11, <1>12, <1>13,
     <1>14, <1>15, <1>16, <1>17, <1>18, <1>19, <1>20, <1>21 DEF Manager

LEMMA PhasesProcess ==
  ASSUME TypeOK, Phases,
         NEW p \in Procs, Slave(p) \/ Faults(p)
  PROVE  Phases'
<1> USE ProcessFrame DEF TypeOK, Phases, manager, Gone
<1>1. CASE WorkerInit(p) BY <1>1 DEF WorkerInit
<1>2. CASE QueryConfig(p) BY <1>2 DEF QueryConfig
<1>3. CASE ScanConfig(p) BY <1>3 DEF ScanConfig
<1>4. CASE StartServer(p) BY <1>4 DEF StartServer
<1>5. CASE AckStart(p) BY <1>5 DEF AckStart, Ack
<1>6. CASE WaitExpInit(p) BY <1>6 DEF WaitExpInit
<1>7. CASE AssertRunning(p) BY <1>7 DEF AssertRunning
<1>8. CASE CheckExpRunning(p) BY <1>8 DEF CheckExpRunning
<1>9. CASE ReportHealth(p) BY <1>9 DEF ReportHealth
<1>10. CASE StopServer(p) BY <1>10 DEF StopServer
<1>11. CASE ReadFinalStat(p) BY <1>11 DEF ReadFinalStat
<1>12. CASE AckEnd(p) BY <1>12 DEF AckEnd, Ack
<1>13. CASE RunSed(p) BY <1>13 DEF RunSed
<1>14. CASE RunScreen(p) BY <1>14 DEF RunScreen
<1>15. CASE RunKillall(p) BY <1>15 DEF RunKillall, Alive
<1>16. CASE KillWorker(p) BY <1>16 DEF KillWorker, Fault, Alive
<1>17. CASE HangUpServer(p) BY <1>17 DEF HangUpServer
<1> QED
  BY <1>1, <1>2, <1>3, <1>4, <1>5, <1>6, <1>7, <1>8, <1>9, <1>10, <1>11, <1>12, <1>13,
     <1>14, <1>15, <1>16, <1>17 DEF Slave, Worker, Faults

LEMMA StartAcksManager ==
  ASSUME MaxExp = 1, IInv, Phases, StartAcks,
         StartManager \/ Interrupt \/ Manager \/ KillManager
  PROVE  StartAcks'
<1> USE SingleProcs, ManagerFrame DEF IInv, TypeOK, Phases, ConfigWindow, StartAcks, redis
<1>1. CASE StartManager BY <1>1 DEF StartManager
<1>2. CASE Interrupt BY <1>2 DEF Interrupt
<1>3. CASE KillManager BY <1>3 DEF KillManager, Fault
<1>4. CASE InitExp
  BY <1>4, WorkerNames DEF InitExp
<1>5. CASE SetInit BY <1>5 DEF SetInit
<1>6. CASE PublishConfig BY <1>6 DEF PublishConfig
<1>7. CASE UnpublishConfig BY <1>7 DEF UnpublishConfig
<1>8. CASE AssertUnpublished BY <1>8 DEF AssertUnpublished
<1>9. CASE TakeAcks
  <2>1. Acked = Workers => \A w \in Workers : acks[w] # NoExp
    BY DEF Acked
  <2>2. Acked = Workers => acks[NoName] = NoExp
    BY WorkersAssumption DEF Acked, Names
  <2>3. phase = "start" /\ Acked = Workers => \A p \in Procs : wpc[p] \notin Early
    BY <2>1
  <2> QED BY <1>9, <2>2, <2>3 DEF TakeAcks
<1>10. CASE AcksMissing BY <1>10 DEF AcksMissing
<1>11. CASE AssertAcksCleared
  <2>1. \A n \in Names : acks[n] = NoExp BY <1>11 DEF AssertAcksCleared, Names
  <2> QED BY <1>11, <2>1 DEF AssertAcksCleared
<1>12. CASE SetRunning BY <1>12 DEF SetRunning
<1>13. CASE RecheckHealth BY <1>13 DEF RecheckHealth, Examine
<1>14. CASE SetEnd BY <1>14 DEF SetEnd
<1>15. CASE CollectResults BY <1>15 DEF CollectResults
<1>16. CASE AbortExp BY <1>16 DEF AbortExp
<1>17. CASE RaiseAbort BY <1>17 DEF RaiseAbort
<1>18. ASSUME NEW w \in Workers, LaunchWorker(w) PROVE StartAcks'
  BY <1>18 DEF LaunchWorker
<1>19. ASSUME NEW w \in Workers, ClearAck(w) PROVE StartAcks'
  <2>1. w # NoName /\ w \in Names BY WorkersAssumption, WorkerNames
  <2>2. CASE pool[w] = exp
    <3>1. acks = pool /\ pool[NoName] = NoExp BY <1>19 DEF ClearAck
    <3>2. acks' = pool' BY <1>19, <2>2, <3>1 DEF ClearAck
    <3>3. pool'[NoName] = pool[NoName] BY <1>19, <2>1, <2>2, WorkerNames DEF ClearAck
    <3>4. \A n \in Names : acks'[n] \in {acks[n], NoExp} BY <1>19, <2>1, <2>2 DEF ClearAck
    <3> QED BY <1>19, <2>2, <3>1, <3>2, <3>3, <3>4, WorkerNames DEF ClearAck
  <2>3. CASE pool[w] # exp BY <1>19, <2>1, <2>3 DEF ClearAck
  <2> QED BY <2>2, <2>3
<1>20. ASSUME NEW w \in Workers, CheckHealth(w) PROVE StartAcks'
  BY <1>20 DEF CheckHealth, Examine
<1>21. ASSUME NEW w \in Workers, KillScreen(w) PROVE StartAcks'
  BY <1>21 DEF KillScreen
<1> QED
  BY <1>1, <1>2, <1>3, <1>4, <1>5, <1>6, <1>7, <1>8, <1>9, <1>10, <1>11, <1>12, <1>13,
     <1>14, <1>15, <1>16, <1>17, <1>18, <1>19, <1>20, <1>21 DEF Manager

LEMMA StartAcksProcess ==
  ASSUME MaxExp = 1, IInv, Phases, OwnNames, StartAcks, EndAcks,
         NEW p \in Procs, Slave(p) \/ Faults(p)
  PROVE  StartAcks'
<1> USE SingleProcs, ProcessFrame DEF IInv, TypeOK, Phases, OwnNames, StartAcks, EndAcks, Early, Quiet, redis, manager, Gone
<1>1. CASE WorkerInit(p) BY <1>1 DEF WorkerInit
<1>2. CASE QueryConfig(p) BY <1>2 DEF QueryConfig
<1>3. CASE ScanConfig(p) BY <1>3 DEF ScanConfig
<1>4. CASE StartServer(p) BY <1>4 DEF StartServer
<1>5. CASE AckStart(p)
  <2>1. wpc[p] \in Early BY <1>5 DEF AckStart
  <2>2. phase = "start" /\ mpc \notin {"clear", "unpublish", "assertCfg", "setRunning"}
    BY <1>5, <2>1 DEF AckStart, ConfigWindow
  <2>3. wpc' = [wpc EXCEPT ![p] = "waitInit"] BY <1>5 DEF AckStart, Ack
  <2>4. \A w \in Workers : acks'[w] # acks[w] => p = <<w, 1>>
    BY <1>5, WorkersAssumption DEF AckStart, Ack
  <2> QED BY <2>2, <2>3, <2>4
<1>6. CASE WaitExpInit(p) BY <1>6 DEF WaitExpInit
<1>7. CASE AssertRunning(p) BY <1>7 DEF AssertRunning
<1>8. CASE CheckExpRunning(p) BY <1>8 DEF CheckExpRunning
<1>9. CASE ReportHealth(p) BY <1>9 DEF ReportHealth
<1>10. CASE StopServer(p) BY <1>10 DEF StopServer
<1>11. CASE ReadFinalStat(p) BY <1>11 DEF ReadFinalStat
<1>12. CASE AckEnd(p)
  <2>1. phase = "end" /\ mpc # "clear" BY <1>12 DEF AckEnd
  <2> QED BY <1>12, <2>1 DEF AckEnd, Ack, ConfigWindow
<1>13. CASE RunSed(p) BY <1>13 DEF RunSed
<1>14. CASE RunScreen(p)
  BY <1>14 DEF RunScreen, LaunchedOnce
<1>15. CASE RunKillall(p) BY <1>15 DEF RunKillall, Alive
<1>16. CASE KillWorker(p) BY <1>16 DEF KillWorker, Fault, Alive
<1>17. CASE HangUpServer(p) BY <1>17 DEF HangUpServer
<1> QED
  BY <1>1, <1>2, <1>3, <1>4, <1>5, <1>6, <1>7, <1>8, <1>9, <1>10, <1>11, <1>12, <1>13,
     <1>14, <1>15, <1>16, <1>17 DEF Slave, Worker, Faults

LEMMA EndAcksManager ==
  ASSUME MaxExp = 1, IInv, OwnNames, Phases, StartAcks, EndAcks,
         StartManager \/ Interrupt \/ Manager \/ KillManager
  PROVE  EndAcks'
<1> USE SingleProcs, ManagerFrame DEF IInv, TypeOK, Phases, ConfigWindow, EndAcks, Quiet, redis
<1>1. CASE StartManager BY <1>1 DEF StartManager
<1>2. CASE Interrupt BY <1>2 DEF Interrupt
<1>3. CASE KillManager BY <1>3 DEF KillManager, Fault
<1>4. CASE InitExp BY <1>4 DEF InitExp
<1>5. CASE SetInit BY <1>5 DEF SetInit
<1>6. CASE PublishConfig BY <1>6 DEF PublishConfig
<1>7. CASE UnpublishConfig BY <1>7 DEF UnpublishConfig
<1>8. CASE AssertUnpublished BY <1>8 DEF AssertUnpublished
<1>9. CASE TakeAcks
  <2>1. Acked = Workers => \A w \in Workers : acks[w] # NoExp BY DEF Acked
  <2> QED BY <1>9, <2>1 DEF TakeAcks
<1>10. CASE AcksMissing BY <1>10 DEF AcksMissing
<1>11. CASE AssertAcksCleared BY <1>11 DEF AssertAcksCleared
<1>12. CASE SetRunning
  <2>1. \A w \in Workers : name[<<w, 1>>] = w /\ ran[<<w, 1>>] # {}
    BY <1>12, SingleStarted DEF SetRunning, SeenAcks
  <2>2. phase' = "run" /\ name' = name /\ ran' = ran BY <1>12 DEF SetRunning
  <2> QED BY <2>1, <2>2
<1>13. CASE RecheckHealth BY <1>13 DEF RecheckHealth, Examine
<1>14. CASE SetEnd
  <2>1. \A p \in Procs : wpc[p] \notin Early BY <1>14 DEF SetEnd, StartAcks
  <2>2. \A w \in Workers : acks[w] = NoExp BY <1>14, WorkerNames DEF SetEnd, StartAcks
  <2> QED BY <1>14, <2>1, <2>2 DEF SetEnd
<1>15. CASE CollectResults BY <1>15 DEF CollectResults
<1>16. CASE AbortExp BY <1>16 DEF AbortExp
<1>17. CASE RaiseAbort BY <1>17 DEF RaiseAbort
<1>18. ASSUME NEW w \in Workers, LaunchWorker(w) PROVE EndAcks'
  BY <1>18 DEF LaunchWorker
<1>19. ASSUME NEW w \in Workers, ClearAck(w) PROVE EndAcks'
  BY <1>19 DEF ClearAck
<1>20. ASSUME NEW w \in Workers, CheckHealth(w) PROVE EndAcks'
  BY <1>20 DEF CheckHealth, Examine
<1>21. ASSUME NEW w \in Workers, KillScreen(w) PROVE EndAcks'
  BY <1>21 DEF KillScreen
<1> QED
  BY <1>1, <1>2, <1>3, <1>4, <1>5, <1>6, <1>7, <1>8, <1>9, <1>10, <1>11, <1>12, <1>13,
     <1>14, <1>15, <1>16, <1>17, <1>18, <1>19, <1>20, <1>21 DEF Manager

\* A step of a process that sends no ack, takes no name and forgets nothing need only
\* be looked at for that process.
LEMMA EndAcksLocal ==
  ASSUME MaxExp = 1, EndAcks, NEW p \in Procs,
         UNCHANGED <<phase, mpc, name, acks>>,
         \A q \in Procs : q # p => wpc'[q] = wpc[q] /\ srv'[q] = srv[q],
         \A q \in Procs : ran[q] \subseteq ran'[q],
         phase = "end" => wpc'[p] \notin Early \ {"query"},
         phase = "end" /\ Quiet(p) => Quiet(p)'
  PROVE  EndAcks'
<1>1. \A q \in Procs : phase = "end" /\ Quiet(q) => Quiet(q)' BY DEF Quiet
<1>2. \A q \in Procs : phase = "end" => wpc'[q] \notin Early \ {"query"} BY DEF EndAcks
<1>3. \A w \in Workers : <<w, 1>> \in Procs BY SingleProcs
<1>4. (phase = "end" => \A w \in Workers : acks[w] # NoExp => Quiet(<<w, 1>>))'
  BY <1>1, <1>3 DEF EndAcks
<1>5. (phase = "end" /\ mpc \in {"clear", "killScreens", "collect", "done"}
        => \A q \in Procs : Quiet(q))'
  BY <1>1 DEF EndAcks
<1>6. (phase # "start" => \A w \in Workers : name[<<w, 1>>] = w /\ ran[<<w, 1>>] # {})'
  BY <1>3 DEF EndAcks
<1> QED BY <1>2, <1>4, <1>5, <1>6 DEF EndAcks

\* What the steps of a worker that waits, checks, reports or stops have in common.
LEMMA EndAcksWorking ==
  ASSUME MaxExp = 1, EndAcks, NEW p \in Procs,
         UNCHANGED <<phase, mpc, name, acks, ran>>,
         \A q \in Procs : q # p => wpc'[q] = wpc[q] /\ srv'[q] = srv[q],
         wpc'[p] \in {"assertRunning", "check", "report", "kill", "final", "endAck"} \union Gone,
         wpc'[p] = "killed" \/ wpc[p] \notin {"query"} \union Gone,
         srv'[p] \in {srv[p], "down"}
  PROVE  EndAcks'
<1>1. wpc'[p] \notin Early \ {"query"} BY DEF Early, Gone
<1>2. Quiet(p) => Quiet(p)' BY DEF Quiet, Gone
<1> QED BY <1>1, <1>2, EndAcksLocal

LEMMA EndAcksWorker ==
  ASSUME MaxExp = 1, TypeOK, EndAcks, NEW p \in Procs,
         \/ WaitExpInit(p) \/ AssertRunning(p) \/ CheckExpRunning(p) \/ ReportHealth(p)
         \/ StopServer(p) \/ ReadFinalStat(p) \/ KillWorker(p)
  PROVE  EndAcks'
<1> USE DEF TypeOK, Gone, redis, manager
<1>1. CASE WaitExpInit(p)
  <2>1. UNCHANGED <<phase, mpc, name, acks, ran, srv>> /\ wpc'[p] = "assertRunning"
        /\ wpc[p] = "waitInit" /\ \A q \in Procs : q # p => wpc'[q] = wpc[q]
    BY <1>1 DEF WaitExpInit
  <2> QED BY <2>1, EndAcksWorking
<1>2. CASE AssertRunning(p)
  <2>1. UNCHANGED <<phase, mpc, name, acks, ran, srv>> /\ wpc'[p] \in {"check", "assertFailed"}
        /\ wpc[p] = "assertRunning" /\ \A q \in Procs : q # p => wpc'[q] = wpc[q]
    BY <1>2 DEF AssertRunning
  <2> QED BY <2>1, EndAcksWorking
<1>3. CASE CheckExpRunning(p)
  <2>1. UNCHANGED <<phase, mpc, name, acks, ran, srv>> /\ wpc'[p] \in {"raised", "report", "kill"}
        /\ wpc[p] = "check" /\ \A q \in Procs : q # p => wpc'[q] = wpc[q]
    BY <1>3 DEF CheckExpRunning
  <2> QED BY <2>1, EndAcksWorking
<1>4. CASE ReportHealth(p)
  <2>1. UNCHANGED <<phase, mpc, name, acks, ran, srv>> /\ wpc'[p] = "check"
        /\ wpc[p] = "report" /\ \A q \in Procs : q # p => wpc'[q] = wpc[q]
    BY <1>4 DEF ReportHealth
  <2> QED BY <2>1, EndAcksWorking
<1>5. CASE StopServer(p)
  <2>1. UNCHANGED <<phase, mpc, name, acks, ran>> /\ wpc'[p] = "final" /\ srv'[p] = "down"
        /\ wpc[p] = "kill" /\ \A q \in Procs : q # p => wpc'[q] = wpc[q] /\ srv'[q] = srv[q]
    BY <1>5 DEF StopServer
  <2> QED BY <2>1, EndAcksWorking
<1>6. CASE ReadFinalStat(p)
  <2>1. UNCHANGED <<phase, mpc, name, acks, ran, srv>> /\ wpc'[p] \in {"endAck", "exited"}
        /\ wpc[p] = "final" /\ \A q \in Procs : q # p => wpc'[q] = wpc[q]
    BY <1>6 DEF ReadFinalStat
  <2> QED BY <2>1, EndAcksWorking
<1>7. CASE KillWorker(p)
  <2>1. UNCHANGED <<phase, mpc, name, acks, ran, srv>> /\ wpc'[p] = "killed"
        /\ \A q \in Procs : q # p => wpc'[q] = wpc[q]
    BY <1>7 DEF KillWorker
  <2> QED BY <2>1, EndAcksWorking
<1> QED BY <1>1, <1>2, <1>3, <1>4, <1>5, <1>6, <1>7

LEMMA EndAcksProcess ==
  ASSUME MaxExp = 1, IInv, OwnServers, Phases, StartAcks, EndAcks,
         NEW p \in Procs, Slave(p) \/ Faults(p)
  PROVE  EndAcks'
<1>1. CASE WaitExpInit(p) \/ AssertRunning(p) \/ CheckExpRunning(p) \/ ReportHealth(p)
            \/ StopServer(p) \/ ReadFinalStat(p) \/ KillWorker(p)
  BY <1>1, EndAcksWorker DEF IInv
<1> USE SingleProcs, ProcessFrame DEF IInv, TypeOK, OwnServers, Phases, EndAcks, ConfigWindow, Early, Quiet, redis, manager, Gone
<1>2. CASE WorkerInit(p)
  BY <1>2 DEF WorkerInit, StartAcks
<1>3. CASE QueryConfig(p) BY <1>3 DEF QueryConfig
<1>4. CASE ScanConfig(p) BY <1>4 DEF ScanConfig
<1>5. CASE StartServer(p) BY <1>5 DEF StartServer
<1>6. CASE AckStart(p) BY <1>6 DEF AckStart, Ack
<1>7. CASE AckEnd(p)
  <2>1. phase = "end" /\ mpc \notin {"clear", "killScreens", "collect", "done"}
    BY <1>7 DEF AckEnd
  <2>2. Quiet(p)' BY <1>7 DEF AckEnd, Ack
  <2>3. \A w \in Workers : acks'[w] # acks[w] => p = <<w, 1>>
    BY <1>7 DEF AckEnd, Ack
  <2>4. \A q \in Procs : q # p => (Quiet(q)' <=> Quiet(q))
    BY <1>7 DEF AckEnd, Ack
  <2>5. wpc'[p] = "query" /\ \A q \in Procs : q # p => wpc'[q] = wpc[q]
    BY <1>7 DEF AckEnd, Ack
  <2>6. UNCHANGED <<phase, mpc, name, ran>> BY <1>7 DEF AckEnd, Ack
  <2> QED BY <2>1, <2>2, <2>3, <2>4, <2>5, <2>6
<1>8. CASE RunSed(p) BY <1>8 DEF RunSed
<1>9. CASE RunScreen(p)
  BY <1>9 DEF RunScreen, LaunchedOnce, StartAcks
<1>10. CASE RunKillall(p) BY <1>10 DEF RunKillall, Alive
<1>11. CASE HangUpServer(p) BY <1>11 DEF HangUpServer
<1> QED
  BY <1>1, <1>2, <1>3, <1>4, <1>5, <1>6, <1>7, <1>8, <1>9, <1>10, <1>11
  DEF Slave, Worker, Faults

-------------------------------------------------------------------------------
(* The invariant and what it implies                                            *)

LEMMA SInvInit == Init => SInv
<1> SUFFICES ASSUME Init PROVE SInv OBVIOUS
<1>1. IInv BY IInvInit
<1>2. OwnNames /\ OwnServers BY DEF Init, OwnNames, OwnServers
<1>3. Phases BY DEF Init, Phases
<1>4. StartAcks BY WorkerNames DEF Init, StartAcks
<1>5. EndAcks BY DEF Init, EndAcks
<1> QED BY <1>1, <1>2, <1>3, <1>4, <1>5 DEF SInv

LEMMA SInvStep == ASSUME MaxExp = 1 PROVE SInv /\ [Next]_vars => SInv'
<1> SUFFICES ASSUME SInv, [Next]_vars PROVE SInv' OBVIOUS
<1> USE DEF SInv
<1>1. IInv' BY IInvStep
<1>2. TypeOK /\ Locals /\ LaunchedOnce /\ AckedAfterStart BY DEF IInv
<1>3. CASE StartManager \/ Interrupt \/ Manager \/ KillManager
  BY <1>1, <1>3, OwnNamesManager, OwnServersManager, PhasesManager, StartAcksManager,
     EndAcksManager
<1>4. ASSUME NEW p \in Procs, Slave(p) \/ Faults(p) PROVE SInv'
  BY <1>1, <1>2, <1>4, OwnNamesProcess, OwnServersProcess, PhasesProcess,
     StartAcksProcess, EndAcksProcess
<1>5. ASSUME UNCHANGED <<redis, manager, fname, wpc, name, wexp, srv, ran>> PROVE SInv'
  BY <1>1, <1>5 DEF redis, manager, OwnNames, OwnServers, Phases, StartAcks, EndAcks, Quiet
<1>6. ASSUME NEW c \in ssh, LoseSsh(c) PROVE SInv'
  BY <1>5, <1>6 DEF LoseSsh
<1>7. CASE UNCHANGED vars
  BY <1>5, <1>7 DEF vars, slaves
<1> QED BY <1>3, <1>4, <1>6, <1>7 DEF Next

\* The strengthening holds in every reachable state.
THEOREM SingleInvariance == ASSUME MaxExp = 1 PROVE Spec => []SInv
BY SInvInit, SInvStep, PTL DEF Spec

\* ServersStopped: results are collected (manager.py:213-222) only when no worker of
\* the experiment has a server left, because an ack of the end is sent after the kill
\* (worker.py:70-77) and no ack of the start is left to be taken for one.
THEOREM CollectedServersStopped == ASSUME MaxExp = 1 PROVE Spec => []ServersStopped
<1>1. SInv => ServersStopped
  BY DEF SInv, Phases, EndAcks, Quiet, ServersStopped
<1> QED BY <1>1, SingleInvariance, PTL

\* NormalEnd: results are collected only when no worker has exited without an ack, for
\* want of END in its last read of the status (worker.py:75): it sends no ack of the end.
THEOREM NormalEnds == ASSUME MaxExp = 1 PROVE Spec => []NormalEnd
<1>1. SInv => NormalEnd
  BY DEF SInv, Phases, EndAcks, Quiet, NormalEnd
<1> QED BY <1>1, SingleInvariance, PTL

\* ManagerAssertions: the assertions of manager.py:87 and 140 hold.
THEOREM ManagerAssertionsHold == ASSUME MaxExp = 1 PROVE Spec => []ManagerAssertions
<1>1. SInv => ManagerAssertions BY DEF SInv, Phases, ManagerAssertions
<1> QED BY <1>1, SingleInvariance, PTL

\* NamedHeartbeats: a worker that lost the race with the sed (manager.py:53-58) never
\* reports (worker.py:66-67).
THEOREM HeartbeatsNamed == ASSUME MaxExp = 1 PROVE Spec => []NamedHeartbeats
<1>1. ASSUME SInv PROVE NamedHeartbeats
  <2> SUFFICES ASSUME NEW p \in Procs, wpc[p] = "report" PROVE name[p] = Host(p)
    BY DEF NamedHeartbeats
  <2>1. phase # "start" BY <1>1 DEF SInv, Phases
  <2> QED BY <1>1, <2>1, SingleProcs DEF SInv, EndAcks
<1> QED BY <1>1, SingleInvariance, PTL

-------------------------------------------------------------------------------
(* Refinement                                                                   *)

LEMMA LifecycleInit == ASSUME MaxExp = 1 PROVE Init => Lifecycle!Init
BY SingleProcs DEF Init, Lifecycle!Init, UserState, UserServer

LEMMA SetRunningStarted ==
  ASSUME MaxExp = 1, SInv, SetRunning
  PROVE  \A w \in Workers : UserServer[w] # "none"
<1>1. \A w \in Workers : Started(w, exp) BY DEF SInv, IInv, SeenAcks, SetRunning
<1>2. \A w \in Workers : ran[<<w, 1>>] # {} BY <1>1, SingleStarted DEF SInv
<1>3. \A w \in Workers : <<w, 1>> \in Procs BY SingleProcs
<1>4. \A w \in Workers : srv[<<w, 1>>] # "none" BY <1>2, <1>3 DEF SInv, OwnServers
<1> QED BY <1>4 DEF UserServer

LEMMA ManagerRefines ==
  ASSUME MaxExp = 1, SInv, SInv', StartManager \/ Interrupt \/ Manager \/ KillManager
  PROVE  Lifecycle!Next \/ UNCHANGED <<UserState, UserServer>>
<1> USE SingleExp DEF SInv, IInv, TypeOK, Locals, Phases, ConfigWindow, UserState, NoExp
<1>1. UserServer' = UserServer BY ManagerFrame DEF UserServer
<1>2. CASE SetInit BY <1>1, <1>2 DEF SetInit, Lifecycle!Next, Lifecycle!Begin
<1>3. CASE SetRunning
  <2>1. \A w \in Workers : UserServer[w] # "none" BY <1>3, SetRunningStarted
  <2> QED BY <1>1, <1>3, <2>1 DEF SetRunning, Lifecycle!Next, Lifecycle!Run
<1>4. CASE SetEnd BY <1>1, <1>4 DEF SetEnd, Lifecycle!Next, Lifecycle!Stop
<1>5. CASE CollectResults
  <2>1. \A w \in Workers : UserServer[w] = "down"
    <3> SUFFICES ASSUME NEW w \in Workers PROVE srv[<<w, 1>>] = "down" BY DEF UserServer
    <3>1. <<w, 1>> \in Procs BY SingleProcs
    <3>2. srv[<<w, 1>>] # "up" BY <1>5, <3>1 DEF CollectResults, EndAcks, Quiet
    <3>3. srv[<<w, 1>>] # "none" BY <1>5, <3>1 DEF CollectResults, EndAcks, OwnServers
    <3> QED BY <3>1, <3>2, <3>3
  <2> QED BY <1>1, <1>5, <2>1 DEF CollectResults, Lifecycle!Next, Lifecycle!Finish
<1>6. CASE RaiseAbort BY <1>1, <1>6 DEF RaiseAbort, Lifecycle!Next, Lifecycle!Fail
<1>7. CASE KillManager BY <1>1, <1>7 DEF KillManager, Lifecycle!Next, Lifecycle!Fail
<1>8. CASE StartManager BY <1>1, <1>8 DEF StartManager
<1>9. CASE Interrupt BY <1>1, <1>9 DEF Interrupt
<1>10. CASE InitExp BY <1>1, <1>10 DEF InitExp
<1>11. CASE PublishConfig \/ UnpublishConfig \/ AssertUnpublished
  BY <1>1, <1>11 DEF PublishConfig, UnpublishConfig, AssertUnpublished
<1>12. CASE TakeAcks \/ AcksMissing \/ AssertAcksCleared
  BY <1>1, <1>12 DEF TakeAcks, AcksMissing, AssertAcksCleared
<1>13. CASE RecheckHealth \/ AbortExp
  BY <1>1, <1>13 DEF RecheckHealth, Examine, AbortExp
<1>14. ASSUME NEW w \in Workers, LaunchWorker(w) \/ ClearAck(w) \/ CheckHealth(w) \/ KillScreen(w)
       PROVE  UNCHANGED <<UserState, UserServer>>
  BY <1>1, <1>14 DEF LaunchWorker, ClearAck, CheckHealth, Examine, KillScreen
<1> QED
  BY <1>2, <1>3, <1>4, <1>5, <1>6, <1>7, <1>8, <1>9, <1>10, <1>11, <1>12, <1>13, <1>14
  DEF Manager

LEMMA ProcessRefines ==
  ASSUME MaxExp = 1, SInv, NEW p \in Procs, Slave(p) \/ Faults(p)
  PROVE  Lifecycle!Next \/ UNCHANGED <<UserState, UserServer>>
<1> USE DEF SInv
<1>1. UserState' = UserState
  <2>1. mpc' = mpc /\ phase' = phase /\ exp' = exp BY ProcessFrame DEF manager
  <2>2. phase \in {"start", "run", "end"} BY DEF IInv, TypeOK
  <2> QED BY <2>1, <2>2 DEF UserState
<1>2. PICK w \in Workers : p = <<w, 1>> BY SingleProcs
<1>3. ASSUME NEW s, srv' = [srv EXCEPT ![p] = s]
      PROVE  UserServer' = [UserServer EXCEPT ![w] = s]
  BY <1>2, <1>3, SingleProcs DEF UserServer, IInv, TypeOK
<1>4. UserServer[w] = srv[p] BY <1>2 DEF UserServer
<1>5. CASE StartServer(p)
  <2>1. srv[p] = "none"
    BY <1>5, SingleProcs DEF StartServer, IInv, TypeOK, Locals, FreshConfig, NoSecondRun, OwnServers
  <2>2. phase = "start" /\ exp # NoExp
    <3>1. wpc[p] = "popen" /\ wpc[p] \in Early \ {"query"} BY <1>5 DEF StartServer, Early
    <3>2. phase \in {"start", "run", "end"} BY DEF IInv, TypeOK
    <3>3. phase = "start" BY <3>1, <3>2 DEF StartAcks, EndAcks
    <3>4. ~(p[2] > exp) BY <3>1 DEF IInv, LaunchedOnce
    <3>5. p[2] = 1 BY <1>2
    <3> QED BY <3>3, <3>4, <3>5 DEF NoExp
  <2>3. UserState \in {"starting", "failed"} BY <2>2 DEF UserState, Phases
  <2>4. UserServer' = [UserServer EXCEPT ![w] = "up"] BY <1>3, <1>5 DEF StartServer
  <2> QED BY <1>1, <1>4, <2>1, <2>3, <2>4 DEF Lifecycle!Next, Lifecycle!ServerUp
<1>6. CASE StopServer(p) \/ HangUpServer(p)
  <2>1. UserServer' = [UserServer EXCEPT ![w] = "down"]
    BY <1>3, <1>6 DEF StopServer, HangUpServer
  <2>2. srv[p] \in {"up", "down"}
    BY <1>6 DEF StopServer, HangUpServer, IInv, TypeOK, AckedAfterStart, OwnServers
  <2>3. CASE srv[p] = "up"
    BY <1>1, <1>4, <2>1, <2>3 DEF Lifecycle!Next, Lifecycle!ServerDown
  <2>4. CASE srv[p] = "down"
    BY <1>1, <1>4, <2>1, <2>4 DEF UserServer
  <2> QED BY <2>2, <2>3, <2>4
<1>7. ASSUME UNCHANGED srv PROVE UNCHANGED <<UserState, UserServer>>
  BY <1>1, <1>7 DEF UserServer
<1> QED
  BY <1>5, <1>6, <1>7
  DEF Slave, Worker, Faults, WorkerInit, QueryConfig, ScanConfig, AckStart, AckEnd, Ack,
      WaitExpInit, AssertRunning, CheckExpRunning, ReportHealth, ReadFinalStat, RunSed,
      RunScreen, RunKillall, KillWorker

\* LifecycleSpec: one experiment of the manager and its workers implements ExpLifecycle.
THEOREM ImplementsLifecycle == ASSUME MaxExp = 1 PROVE Spec => LifecycleSpec
<1>1. Init => Lifecycle!Init BY LifecycleInit
<1>2. SInv /\ SInv' /\ [Next]_vars => [Lifecycle!Next]_(Lifecycle!vars)
  <2> SUFFICES ASSUME SInv, SInv', [Next]_vars
               PROVE  Lifecycle!Next \/ UNCHANGED <<UserState, UserServer>>
    BY DEF Lifecycle!vars
  <2>1. ASSUME NEW c \in ssh, LoseSsh(c) PROVE UNCHANGED <<UserState, UserServer>>
    BY <2>1 DEF LoseSsh, manager, UserState, UserServer
  <2>2. CASE UNCHANGED vars
    BY <2>2 DEF vars, manager, slaves, UserState, UserServer
  <2> QED BY <2>1, <2>2, ManagerRefines, ProcessRefines DEF Next
<1> QED BY <1>1, <1>2, SingleInvariance, PTL DEF Spec, LifecycleSpec, Lifecycle!Spec
===============================================================================
