--------------------------- MODULE Bootstrap_proofs ---------------------------
(***************************************************************************)
(* Proofs about Bootstrap, for any set of environments.  StartInv says     *)
(* what holds at each position of the start: what is open is registered    *)
(* for cleanup until the Registry takes it over, what was opened was       *)
(* probed, what the configuration promises is there.  EndInv follows a     *)
(* process that gives up or closes.                                        *)
(***************************************************************************)
EXTENDS Bootstrap, SequenceTheorems, TLAPS

(* Where the steps are in the mode at hand; 99 for a step it does not have. *)
QueueAt   == IF mode = "all" THEN 9 ELSE 7
DbAt      == IF mode = "api" THEN 2 ELSE 4
ProbeAt   == IF mode = "api" THEN 4 ELSE IF mode = "worker" THEN 5 ELSE 6
CacheProbeAt == IF mode = "api" THEN 5 ELSE IF mode = "worker" THEN 6 ELSE 7
AuthAt    == IF mode = "api" THEN 6 ELSE IF mode = "worker" THEN 99 ELSE 8
ServerAt  == IF mode = "api" THEN 8 ELSE IF mode = "worker" THEN 99 ELSE 10
WorkerAt  == IF mode = "api" THEN 99 ELSE IF mode = "worker" THEN 8 ELSE 11
LastAt    == IF mode = "all" THEN 11 ELSE 8

Registered == {cleanups[i] : i \in DOMAIN cleanups}

PhaseInv ==
  /\ mode \in {"api", "worker", "all"} /\ env \in Environments
  /\ phase \in {"starting", "cleaning_up", "serving", "closing", "exited"}
  /\ at \in 1..(LastAt + 1)
  /\ phase = "starting" => at <= LastAt
  /\ phase = "serving" => at = LastAt + 1

TypeInv ==
  /\ open \subseteq Client /\ probed \subseteq {"db", "cache"}
  /\ cleanups \in Seq(Client)
  /\ held \subseteq Client \union {"auth"}
  /\ goroutines \subseteq {"limiter", "collector"}
  /\ processor \in {"none", "noop", "real"}
  /\ faults \in BOOLEAN

(* The clients: who has to close them, and which of them were probed.       *)
OpenInv ==
  /\ "migration_pool" \in open => phase = "starting" /\ mode = "all" /\ at = 3
  /\ at <= QueueAt => open \ {"migration_pool"} \subseteq Registered /\ held \subseteq {"auth"}
  /\ at > QueueAt => open \subseteq held
  /\ held \subseteq open \union {"auth"}
  /\ at > DbAt /\ (HasApi \/ HasDsn) => "db" \in open
  /\ at > ProbeAt /\ "db" \in open => "db" \in probed
  /\ at > CacheProbeAt /\ "cache" \in open => "cache" \in probed

(* What the configuration promises.                                         *)
BuiltInv ==
  /\ at > 1 => ~ParseFails /\ Valid
  /\ at <= ServerAt => goroutines = {}
  /\ at > AuthAt /\ HasSecret => "auth" \in held
  /\ at <= WorkerAt => processor = "none"
  /\ at > WorkerAt => /\ "db" \in held => processor = "real"
                      /\ "db" \notin held => ~Production

StartInv == phase \in {"starting", "serving"} => OpenInv /\ BuiltInv

EndInv ==
  /\ phase = "cleaning_up" => open \subseteq Registered /\ goroutines = {}
  /\ phase \in {"starting", "serving", "closing"} => refused = "none"
  /\ phase = "closing" => /\ open \subseteq held \ {"migration_pool"}
                         /\ goroutines \subseteq {"collector"}
  /\ phase = "exited" /\ refused \notin {"server", "worker", "run"} =>
       /\ open = {}
       /\ goroutines \subseteq (IF refused = "none" THEN {"collector"} ELSE {})

IInv == PhaseInv /\ TypeInv /\ StartInv /\ EndInv

(* The steps that come after the start.                                     *)
Ending ==
  \/ RunCleanup \/ RunFails \/ Stop \/ CollectorEnds
  \/ (\E i \in DOMAIN CloseOrder : Close(i)) \/ Closed

-----------------------------------------------------------------------------
LEMMA ApiPositions ==
  ASSUME mode = "api"
  PROVE  /\ Len(Steps) = 8
         /\ Steps[1] = "load" /\ Steps[2] = "db" /\ Steps[3] = "cache"
         /\ Steps[4] = "probe_db" /\ Steps[5] = "probe_cache" /\ Steps[6] = "auth"
         /\ Steps[7] = "queue" /\ Steps[8] = "server"
<1>1. Steps = ApiSteps
  BY DEF Steps
<1>2. QED
  BY <1>1 DEF ApiSteps

LEMMA WorkerPositions ==
  ASSUME mode = "worker"
  PROVE  /\ Len(Steps) = 8
         /\ Steps[1] = "load" /\ Steps[2] = "redis" /\ Steps[3] = "cache"
         /\ Steps[4] = "db" /\ Steps[5] = "probe_db" /\ Steps[6] = "probe_cache"
         /\ Steps[7] = "queue" /\ Steps[8] = "worker"
<1>1. Steps = WorkerSteps
  BY DEF Steps
<1>2. QED
  BY <1>1 DEF WorkerSteps

LEMMA AllPositions ==
  ASSUME mode = "all"
  PROVE  /\ Len(Steps) = 11
         /\ Steps[1] = "load" /\ Steps[2] = "migration_pool" /\ Steps[3] = "migrate"
         /\ Steps[4] = "db" /\ Steps[5] = "cache" /\ Steps[6] = "probe_db"
         /\ Steps[7] = "probe_cache" /\ Steps[8] = "auth" /\ Steps[9] = "queue"
         /\ Steps[10] = "server" /\ Steps[11] = "worker"
<1>1. Steps = AllSteps
  BY DEF Steps
<1>2. QED
  BY <1>1 DEF AllSteps

LEMMA EightCases ==
  \A i \in 1..8 : i = 1 \/ i = 2 \/ i = 3 \/ i = 4 \/ i = 5 \/ i = 6 \/ i = 7 \/ i = 8
OBVIOUS

LEMMA ElevenCases ==
  \A i \in 1..11 : \/ i = 1 \/ i = 2 \/ i = 3 \/ i = 4 \/ i = 5 \/ i = 6 \/ i = 7 \/ i = 8
                   \/ i = 9 \/ i = 10 \/ i = 11
OBVIOUS

(* A step's name tells its position.                                        *)
Positions ==
  /\ Len(Steps) = LastAt
  /\ At("load") => at = 1
  /\ At("migration_pool") => mode = "all" /\ at = 2
  /\ At("migrate") => mode = "all" /\ at = 3
  /\ At("redis") => mode = "worker" /\ at = 2
  /\ At("db") => at = DbAt
  /\ At("cache") => at = IF mode = "all" THEN 5 ELSE 3
  /\ At("probe_db") => at = ProbeAt
  /\ At("probe_cache") => at = CacheProbeAt
  /\ At("auth") => mode # "worker" /\ at = AuthAt
  /\ At("queue") => at = QueueAt
  /\ At("server") => mode # "worker" /\ at = ServerAt
  /\ At("worker") => mode # "api" /\ at = WorkerAt

LEMMA PositionsHold == PhaseInv => Positions
<1> SUFFICES ASSUME PhaseInv PROVE Positions
  OBVIOUS
<1> USE DEF Positions, At, DbAt, ProbeAt, CacheProbeAt, AuthAt, QueueAt, ServerAt, WorkerAt, LastAt
<1>1. CASE mode = "api"
  <2>1. phase = "starting" => at \in 1..8
    BY <1>1 DEF PhaseInv
  <2>2. QED
    BY <1>1, <2>1, ApiPositions, EightCases
<1>2. CASE mode = "worker"
  <2>1. phase = "starting" => at \in 1..8
    BY <1>2 DEF PhaseInv
  <2>2. QED
    BY <1>2, <2>1, WorkerPositions, EightCases
<1>3. CASE mode = "all"
  <2>1. phase = "starting" => at \in 1..11
    BY <1>3 DEF PhaseInv
  <2>2. QED
    BY <1>3, <2>1, AllPositions, ElevenCases
<1>4. QED
  BY <1>1, <1>2, <1>3 DEF PhaseInv

(* The order of the steps, whatever the mode.                               *)
LEMMA Order ==
  ASSUME mode \in {"api", "worker", "all"}
  PROVE  /\ DbAt \in Nat /\ ProbeAt \in Nat /\ CacheProbeAt \in Nat /\ QueueAt \in Nat
         /\ AuthAt \in Nat /\ ServerAt \in Nat /\ WorkerAt \in Nat /\ LastAt \in Nat
         /\ 1 < DbAt /\ DbAt < ProbeAt /\ ProbeAt < CacheProbeAt
         /\ CacheProbeAt < QueueAt /\ CacheProbeAt < AuthAt
         /\ QueueAt < ServerAt /\ QueueAt < WorkerAt /\ QueueAt < LastAt
         /\ HasApi <=> mode # "worker"
         /\ HasWorker <=> mode # "api"
         /\ HasApi => AuthAt < QueueAt /\ ServerAt <= LastAt
         /\ HasWorker => WorkerAt = LastAt
         /\ HasApi /\ HasWorker => ServerAt < WorkerAt
         /\ mode = "worker" => AuthAt > LastAt /\ ServerAt > LastAt
         /\ mode = "api" => WorkerAt > LastAt
         /\ mode # "api" => DbAt = 4
         /\ mode = "all" => LastAt = 11
         /\ (IF mode = "all" THEN 5 ELSE 3) < ProbeAt
<1> USE DEF DbAt, ProbeAt, CacheProbeAt, QueueAt, AuthAt, ServerAt, WorkerAt, LastAt,
            HasApi, HasWorker
<1>1. CASE mode = "api"
  BY <1>1
<1>2. CASE mode = "worker"
  BY <1>2
<1>3. CASE mode = "all"
  BY <1>3
<1>4. QED
  BY <1>1, <1>2, <1>3

(* What depends on the mode and the environment alone never changes.        *)
LEMMA StartFixed ==
  ASSUME UNCHANGED startVars
  PROVE  /\ DbAt' = DbAt /\ ProbeAt' = ProbeAt /\ CacheProbeAt' = CacheProbeAt
         /\ QueueAt' = QueueAt /\ AuthAt' = AuthAt /\ ServerAt' = ServerAt
         /\ WorkerAt' = WorkerAt /\ LastAt' = LastAt
         /\ mode' = mode /\ env' = env
         /\ HasApi' = HasApi /\ HasDsn' = HasDsn /\ HasSecret' = HasSecret
         /\ ParseFails' = ParseFails /\ Valid' = Valid /\ Production' = Production
<1>1. mode' = mode /\ env' = env
  BY DEF startVars
<1>2. Cfg' = Cfg
  BY <1>1 DEF Cfg
<1>3. /\ DbAt' = DbAt /\ ProbeAt' = ProbeAt /\ CacheProbeAt' = CacheProbeAt
      /\ QueueAt' = QueueAt /\ AuthAt' = AuthAt /\ ServerAt' = ServerAt
      /\ WorkerAt' = WorkerAt /\ LastAt' = LastAt
  BY <1>1 DEF DbAt, ProbeAt, CacheProbeAt, QueueAt, AuthAt, ServerAt, WorkerAt, LastAt
<1>4. HasApi' = HasApi /\ HasDsn' = HasDsn /\ HasSecret' = HasSecret /\ Production' = Production
  BY <1>1, <1>2 DEF HasApi, HasDsn, HasSecret, Production
<1>5. ParseFails' = ParseFails
  BY <1>2 DEF ParseFails
<1>6. Valid' = Valid
  BY <1>2, <1>4 DEF Valid, ValidPostgres, HasDsn, HasSecret, Production, ProductionSecrets
<1>7. QED
  BY <1>1, <1>3, <1>4, <1>5, <1>6

(* Every step leaves the mode and the environment alone.                    *)
LEMMA NextFixed == [Next]_vars => UNCHANGED startVars
BY DEF Next, vars, startVars, LoadConfig, OpenMigrationPool, Migrate, RequireRedis, OpenDb,
       OpenCache, Probe, InitAuth, OpenQueue, BuildServer, BuildWorker, Ending,
       RunCleanup, RunFails, Stop, CollectorEnds, Close,
      Closed, Exited, Advance, Refuse, Fatal, Opened

-----------------------------------------------------------------------------
(* A step that succeeds goes on by one position.                            *)
LEMMA AdvanceEffect ==
  ASSUME PhaseInv, phase = "starting", Advance
  PROVE  at' = at + 1 /\ phase' \in {"starting", "serving"} /\ PhaseInv'
<1>1. LastAt \in Nat /\ LastAt' = LastAt
  BY Order, StartFixed DEF PhaseInv, Advance
<1>2. at \in 1..LastAt /\ Len(Steps) = LastAt
  <2>1. at \in 1..(LastAt + 1) /\ at <= LastAt
    BY DEF PhaseInv
  <2>2. Len(Steps) = LastAt
    BY PositionsHold DEF Positions
  <2>3. QED
    BY <1>1, <2>1, <2>2
<1>3. at' = at + 1 /\ phase' = IF at = LastAt THEN "serving" ELSE "starting"
  BY <1>2 DEF Advance
<1>4. mode' = mode /\ env' = env
  BY DEF Advance, startVars
<1>5. QED
  BY <1>1, <1>2, <1>3, <1>4 DEF PhaseInv

(* A step that fails ends the start where it is.                            *)
LEMMA RefuseEffect ==
  ASSUME PhaseInv, phase = "starting", Refuse
  PROVE  phase' = "cleaning_up" /\ at' = at /\ PhaseInv'
<1>1. UNCHANGED startVars
  BY DEF Refuse
<1>2. QED
  BY <1>1, StartFixed DEF Refuse, PhaseInv

LEMMA FatalEffect ==
  ASSUME PhaseInv, phase = "starting", Fatal
  PROVE  phase' = "exited" /\ at' = at /\ refused' = Steps[at] /\ PhaseInv'
<1>1. UNCHANGED startVars
  BY DEF Fatal
<1>2. QED
  BY <1>1, StartFixed DEF Fatal, PhaseInv

(* A cleanup that ran is off the list, the others stay on it.               *)
LEMMA CleanupEffect ==
  ASSUME cleanups \in Seq(Client), cleanups # <<>>,
         cleanups' = SubSeq(cleanups, 1, Len(cleanups) - 1)
  PROVE  /\ cleanups' \in Seq(Client)
         /\ Registered \ {cleanups[Len(cleanups)]} \subseteq Registered'
<1>1. Len(cleanups) \in Nat \ {0} /\ \A i \in 1..Len(cleanups) : cleanups[i] \in Client
  OBVIOUS
<1>2. /\ cleanups' \in Seq(Client)
      /\ Len(cleanups') = Len(cleanups) - 1
      /\ \A i \in 1..(Len(cleanups) - 1) : cleanups'[i] = cleanups[i]
  <2> DEFINE n == Len(cleanups) - 1
  <2>1. n \in Nat /\ \A i \in 1..n : cleanups[i] \in Client
    BY <1>1
  <2>2. /\ SubSeq(cleanups, 1, n) \in Seq(Client)
        /\ Len(SubSeq(cleanups, 1, n)) = IF 1 <= n THEN n - 1 + 1 ELSE 0
        /\ \A i \in 1..(n - 1 + 1) : SubSeq(cleanups, 1, n)[i] = cleanups[1 + i - 1]
    <3>1. n \in Int /\ 1 \in Int
      BY <2>1
    <3> HIDE DEF n
    <3>2. QED
      BY <2>1, <3>1, SubSeqProperties
  <2>3. cleanups' = SubSeq(cleanups, 1, n)
    OBVIOUS
  <2> HIDE DEF n
  <2>4. Len(cleanups') = n /\ \A i \in 1..n : cleanups'[i] = cleanups[i]
    BY <2>1, <2>2, <2>3
  <2>5. QED
    BY <2>2, <2>3, <2>4 DEF n
<1>3. DOMAIN cleanups = 1..Len(cleanups) /\ DOMAIN cleanups' = 1..(Len(cleanups) - 1)
  BY <1>1, <1>2
<1>4. ASSUME NEW x \in Registered, x # cleanups[Len(cleanups)]
      PROVE  x \in Registered'
  <2>1. PICK i \in 1..Len(cleanups) : x = cleanups[i]
    BY <1>3, <1>4 DEF Registered
  <2>2. i \in 1..(Len(cleanups) - 1)
    BY <1>1, <1>4, <2>1
  <2>3. QED
    BY <1>2, <1>3, <2>1, <2>2 DEF Registered
<1>5. QED
  BY <1>2, <1>4

LEMMA EmptyList == <<>> \in Seq(Client)
OBVIOUS

LEMMA AppendEffect ==
  ASSUME cleanups \in Seq(Client), NEW c \in Client, cleanups' = Append(cleanups, c)
  PROVE  /\ cleanups' \in Seq(Client)
         /\ Registered' = Registered \union {c}
<1>1. /\ cleanups' \in Seq(Client) /\ Len(cleanups') = Len(cleanups) + 1
      /\ \A i \in 1..Len(cleanups) : cleanups'[i] = cleanups[i]
      /\ cleanups'[Len(cleanups) + 1] = c
  OBVIOUS
<1>2. DOMAIN cleanups = 1..Len(cleanups) /\ DOMAIN cleanups' = 1..(Len(cleanups) + 1)
  BY <1>1
<1>3. Len(cleanups) \in Nat
  OBVIOUS
<1>4. ASSUME NEW x PROVE x \in Registered' <=> x \in Registered \/ x = c
  <2>1. x \in Registered' <=> \E i \in 1..(Len(cleanups) + 1) : x = cleanups'[i]
    BY <1>2 DEF Registered
  <2>2. x \in Registered <=> \E i \in 1..Len(cleanups) : x = cleanups[i]
    BY <1>2 DEF Registered
  <2>3. QED
    BY <1>1, <1>3, <2>1, <2>2
<1>5. QED
  BY <1>1, <1>4

(* A process starts step by step, then serves, closes and ends.             *)
LEMMA PhaseStep ==
  PhaseInv /\ [Next]_vars => PhaseInv'
<1> SUFFICES ASSUME PhaseInv, [Next]_vars PROVE PhaseInv'
  OBVIOUS
<1>1. ASSUME phase = "starting", Advance \/ Refuse \/ Fatal PROVE PhaseInv'
  BY <1>1, AdvanceEffect, RefuseEffect, FatalEffect
<1>2. ASSUME UNCHANGED at, phase' \in {phase, "closing", "exited"} PROVE PhaseInv'
  BY <1>2, NextFixed, StartFixed DEF PhaseInv
<1>3. CASE \/ LoadConfig \/ OpenMigrationPool \/ Migrate \/ RequireRedis \/ OpenDb \/ OpenCache
           \/ Probe("db") \/ Probe("cache")
  BY <1>1, <1>3 DEF LoadConfig, OpenMigrationPool, Migrate, RequireRedis, OpenDb, OpenCache,
                    Opened, Probe, At
<1>4. CASE InitAuth \/ OpenQueue \/ BuildServer \/ BuildWorker
  BY <1>1, <1>4 DEF InitAuth, OpenQueue, BuildServer, BuildWorker, At
<1>5. CASE \/ Ending \/ Exited
           \/ UNCHANGED vars
  BY <1>2, <1>5 DEF Ending, RunCleanup, RunFails, Stop, CollectorEnds, Close,
      Closed, Exited, vars
<1>6. QED
  BY <1>3, <1>4, <1>5 DEF Next, Ending

(* Every step keeps the types.                                              *)
LEMMA TypeStep ==
  PhaseInv /\ TypeInv /\ [Next]_vars => TypeInv'
<1> SUFFICES ASSUME PhaseInv, TypeInv, [Next]_vars PROVE TypeInv'
  OBVIOUS
<1> USE DEF TypeInv, OpenVars, BuiltVars, Client
<1>1. CASE LoadConfig
  BY <1>1 DEF LoadConfig
<1>2. CASE OpenMigrationPool
  BY <1>2 DEF OpenMigrationPool
<1>3. CASE Migrate
  BY <1>3 DEF Migrate
<1>4. CASE RequireRedis
  BY <1>4 DEF RequireRedis
<1>5. CASE OpenDb
  BY <1>5, AppendEffect DEF OpenDb, Opened
<1>6. CASE OpenCache
  BY <1>6, AppendEffect DEF OpenCache, Opened
<1>7. CASE Probe("db")
  BY <1>7 DEF Probe
<1>8. CASE Probe("cache")
  BY <1>8 DEF Probe
<1>9. CASE InitAuth
  BY <1>9 DEF InitAuth
<1>10. CASE OpenQueue
  <2>1. open' \subseteq open \union {"queue_client", "inspector"}
    BY <1>10 DEF OpenQueue
  <2>2. /\ held' = held \union open' /\ cleanups' = <<>>
        /\ UNCHANGED <<goroutines, processor, probed, faults>>
    BY <1>10 DEF OpenQueue
  <2>3. QED
    BY <2>1, <2>2, EmptyList
<1>11. CASE BuildServer
  BY <1>11 DEF BuildServer
<1>12. CASE BuildWorker
  BY <1>12 DEF BuildWorker
<1>13. CASE RunCleanup
  BY <1>13, CleanupEffect DEF RunCleanup
<1>14. CASE Stop
  BY <1>14 DEF Stop
<1>15. CASE RunFails
  BY <1>15 DEF RunFails
<1>16. CASE CollectorEnds
  BY <1>16 DEF CollectorEnds
<1>17. ASSUME NEW i \in DOMAIN CloseOrder, Close(i) PROVE TypeInv'
  BY <1>17 DEF Close, CloseOrder
<1>18. CASE Closed
  BY <1>18 DEF Closed, CloseOrder
<1>19. CASE Exited
  BY <1>19 DEF Exited, vars
<1>20. CASE UNCHANGED vars
  BY <1>20 DEF vars
<1>21. QED
  BY <1>1, <1>2, <1>3, <1>4, <1>5, <1>6, <1>7, <1>8, <1>9, <1>10, <1>11, <1>12, <1>13,
     <1>14, <1>17, <1>18, <1>19, <1>20, <1>16, <1>15 DEF Next

(* A step that succeeds is one of the start, and goes on by one position.   *)
LEMMA Stepping ==
  ASSUME PhaseInv, TypeInv, [Next]_vars, phase = "starting",
         phase' \in {"starting", "serving"}
  PROVE  /\ UNCHANGED startVars /\ mode \in {"api", "worker", "all"} /\ at \in Nat
         /\ ~Refuse /\ ~Fatal
         /\ phase' = "serving" => at' = LastAt + 1
         /\ cleanups' = cleanups => Registered' = Registered
         /\ \/ UNCHANGED vars
            \/ /\ Advance /\ at' = at + 1
               /\ \/ LoadConfig \/ OpenMigrationPool \/ Migrate \/ RequireRedis
                  \/ OpenDb \/ OpenCache \/ Probe("db") \/ Probe("cache")
                  \/ InitAuth \/ OpenQueue \/ BuildServer \/ BuildWorker
<1>1. UNCHANGED startVars /\ mode \in {"api", "worker", "all"}
  BY NextFixed DEF PhaseInv
<1>2. at \in Nat
  BY <1>1, Order DEF PhaseInv
<1>3. ~Refuse /\ ~Fatal
  BY DEF Refuse, Fatal
<1>4. ASSUME LoadConfig \/ OpenMigrationPool \/ Migrate \/ RequireRedis \/ OpenDb \/ OpenCache
      PROVE  Advance /\ at' = at + 1
  BY <1>3, <1>4, AdvanceEffect
     DEF LoadConfig, OpenMigrationPool, Migrate, RequireRedis, OpenDb, OpenCache, Opened
<1>5. ASSUME \/ Probe("db") \/ Probe("cache") \/ InitAuth \/ OpenQueue \/ BuildServer
             \/ BuildWorker
      PROVE  Advance /\ at' = at + 1
  BY <1>3, <1>5, AdvanceEffect DEF Probe, InitAuth, OpenQueue, BuildServer, BuildWorker
<1>6. ~(Ending \/ Exited)
  BY DEF Ending, RunCleanup, RunFails, Stop, CollectorEnds, Close,
      Closed, Exited
<1>7. phase' = "serving" => at' = LastAt + 1
  BY <1>1, PhaseStep, StartFixed DEF PhaseInv
<1>8. cleanups' = cleanups => Registered' = Registered
  BY DEF Registered
<1>9. QED
  BY <1>1, <1>2, <1>3, <1>4, <1>5, <1>6, <1>7, <1>8 DEF Next, Ending

(* What a step that succeeds opens is registered until the Registry has it. *)
LEMMA OpenStep ==
  ASSUME PhaseInv, TypeInv, OpenInv, BuiltInv, [Next]_vars, phase = "starting",
         phase' \in {"starting", "serving"}
  PROVE  OpenInv'
<1>1. /\ UNCHANGED startVars /\ mode \in {"api", "worker", "all"} /\ at \in Nat
      /\ ~Refuse /\ ~Fatal
      /\ phase' = "serving" => at' = LastAt + 1
      /\ cleanups' = cleanups => Registered' = Registered
      /\ \/ UNCHANGED vars
         \/ /\ Advance /\ at' = at + 1
            /\ \/ LoadConfig \/ OpenMigrationPool \/ Migrate \/ RequireRedis
               \/ OpenDb \/ OpenCache \/ Probe("db") \/ Probe("cache")
               \/ InitAuth \/ OpenQueue \/ BuildServer \/ BuildWorker
  BY Stepping
<1>2. Positions
  BY PositionsHold
<1> USE DEF Positions, OpenInv, TypeInv, OpenVars, BuiltVars, Client
<1>3. CASE LoadConfig /\ Advance /\ at' = at + 1
  BY <1>1, <1>2, <1>3, StartFixed, Order DEF LoadConfig
<1>4. CASE OpenMigrationPool /\ Advance /\ at' = at + 1
  <2>1. mode = "all" /\ at = 2 /\ at' = 3
    BY <1>2, <1>4 DEF OpenMigrationPool
  <2>2. DbAt = 4 /\ LastAt = 11 /\ QueueAt = 9 /\ ProbeAt = 6 /\ CacheProbeAt = 7
    BY <2>1 DEF DbAt, LastAt, QueueAt, ProbeAt, CacheProbeAt
  <2>3. phase' = "starting"
    BY <1>1, <2>1, <2>2
  <2>4. /\ open' = open \union {"migration_pool"} /\ Registered' = Registered
        /\ UNCHANGED <<held, probed>>
    BY <1>1, <1>4 DEF OpenMigrationPool
  <2>5. /\ DbAt' = DbAt /\ ProbeAt' = ProbeAt /\ CacheProbeAt' = CacheProbeAt
        /\ QueueAt' = QueueAt /\ mode' = mode
    BY <1>1, StartFixed
  <2>6. QED
    BY <2>1, <2>2, <2>3, <2>4, <2>5
<1>5. CASE Migrate /\ Advance /\ at' = at + 1
  BY <1>1, <1>2, <1>5, StartFixed, Order DEF Migrate
<1>6. CASE RequireRedis /\ Advance /\ at' = at + 1
  BY <1>1, <1>2, <1>6, StartFixed, Order DEF RequireRedis
<1>7. CASE OpenDb /\ Advance /\ at' = at + 1
  <2>1. /\ at = DbAt /\ at # 3 /\ DbAt \in Nat /\ ProbeAt \in Nat
        /\ CacheProbeAt \in Nat /\ QueueAt \in Nat /\ DbAt < ProbeAt
        /\ DbAt < CacheProbeAt /\ DbAt < QueueAt /\ (HasApi <=> mode # "worker")
    BY <1>1, <1>2, <1>7, Order DEF OpenDb, DbAt, ProbeAt, CacheProbeAt, QueueAt
  <2>2. /\ DbAt' = DbAt /\ ProbeAt' = ProbeAt /\ CacheProbeAt' = CacheProbeAt
        /\ QueueAt' = QueueAt /\ HasApi' = HasApi /\ HasDsn' = HasDsn
    BY <1>1, StartFixed
  <2>3. UNCHANGED <<held, probed>>
    BY <1>7 DEF OpenDb
  <2>4. CASE HasDsn /\ Cfg["POSTGRES"] # "garbage"
    <3>1. open' = open \union {"db"} /\ cleanups' = Append(cleanups, "db")
      BY <1>7, <2>4 DEF OpenDb, Opened
    <3>2. Registered' = Registered \union {"db"}
      BY <3>1, AppendEffect
    <3>3. QED
      BY <1>1, <1>7, <2>1, <2>2, <2>3, <2>4, <3>1, <3>2
  <2>5. CASE ~(HasDsn /\ Cfg["POSTGRES"] # "garbage")
    <3>1. open' = open /\ Registered' = Registered /\ mode = "worker" /\ ~HasDsn
      BY <1>1, <1>7, <2>5 DEF OpenDb
    <3>2. QED
      BY <1>1, <1>7, <2>1, <2>2, <2>3, <2>5, <3>1
  <2>6. QED
    BY <2>4, <2>5
<1>8. CASE OpenCache /\ Advance /\ at' = at + 1
  <2>1. /\ (mode = "all" => at = 5) /\ at \in Nat /\ DbAt \in Nat /\ ProbeAt \in Nat
        /\ CacheProbeAt \in Nat /\ QueueAt \in Nat /\ at < ProbeAt
        /\ at < CacheProbeAt /\ at < QueueAt /\ at # DbAt
    BY <1>1, <1>2, <1>8, Order DEF OpenCache, DbAt, ProbeAt, CacheProbeAt, QueueAt
  <2>2. /\ DbAt' = DbAt /\ ProbeAt' = ProbeAt /\ CacheProbeAt' = CacheProbeAt
        /\ QueueAt' = QueueAt /\ HasApi' = HasApi /\ HasDsn' = HasDsn
    BY <1>1, StartFixed
  <2>3. UNCHANGED <<held, probed>>
    BY <1>8 DEF OpenCache
  <2>4. CASE HasRedis
    <3>1. open' = open \union {"cache"} /\ cleanups' = Append(cleanups, "cache")
      BY <1>8, <2>4 DEF OpenCache, Opened
    <3>2. Registered' = Registered \union {"cache"}
      BY <3>1, AppendEffect
    <3>3. QED
      BY <1>1, <1>8, <2>1, <2>2, <2>3, <2>4, <3>1, <3>2
  <2>5. CASE ~(HasRedis)
    <3>1. open' = open /\ Registered' = Registered
      BY <1>1, <1>8, <2>5 DEF OpenCache
    <3>2. QED
      BY <1>1, <1>8, <2>1, <2>2, <2>3, <2>5, <3>1
  <2>6. QED
    BY <2>4, <2>5
<1>9. CASE Probe("db") /\ Advance /\ at' = at + 1
  BY <1>1, <1>2, <1>9, StartFixed, Order DEF Probe
<1>10. CASE Probe("cache") /\ Advance /\ at' = at + 1
  BY <1>1, <1>2, <1>10, StartFixed, Order DEF Probe
<1>11. CASE InitAuth /\ Advance /\ at' = at + 1
  BY <1>1, <1>2, <1>11, StartFixed, Order DEF InitAuth
<1>12. CASE OpenQueue /\ Advance /\ at' = at + 1
  BY <1>1, <1>2, <1>12, StartFixed, Order DEF OpenQueue
<1>13. CASE BuildServer /\ Advance /\ at' = at + 1
  BY <1>1, <1>2, <1>13, StartFixed, Order DEF BuildServer
<1>14. CASE BuildWorker /\ Advance /\ at' = at + 1
  BY <1>1, <1>2, <1>14, StartFixed, Order DEF BuildWorker, MissingProcessor
<1>15. CASE UNCHANGED vars
  BY <1>1, <1>15, StartFixed DEF vars
<1>16. QED
  BY <1>1, <1>3, <1>4, <1>5, <1>6, <1>7, <1>8, <1>9, <1>10, <1>11, <1>12, <1>13, <1>14, <1>15

(* What it builds is what the configuration calls for.                      *)
LEMMA BuiltStep ==
  ASSUME PhaseInv, TypeInv, OpenInv, BuiltInv, [Next]_vars, phase = "starting",
         phase' \in {"starting", "serving"}
  PROVE  BuiltInv'
<1>1. /\ UNCHANGED startVars /\ mode \in {"api", "worker", "all"} /\ at \in Nat
      /\ ~Refuse /\ ~Fatal
      /\ phase' = "serving" => at' = LastAt + 1
      /\ cleanups' = cleanups => Registered' = Registered
      /\ \/ UNCHANGED vars
         \/ /\ Advance /\ at' = at + 1
            /\ \/ LoadConfig \/ OpenMigrationPool \/ Migrate \/ RequireRedis
               \/ OpenDb \/ OpenCache \/ Probe("db") \/ Probe("cache")
               \/ InitAuth \/ OpenQueue \/ BuildServer \/ BuildWorker
  BY Stepping
<1>2. Positions
  BY PositionsHold
<1> USE DEF Positions, BuiltInv, TypeInv, OpenVars, BuiltVars, Client
<1>3. CASE LoadConfig /\ Advance /\ at' = at + 1
  BY <1>1, <1>2, <1>3, StartFixed, Order DEF LoadConfig
<1>4. CASE OpenMigrationPool /\ Advance /\ at' = at + 1
  BY <1>1, <1>2, <1>4, StartFixed, Order DEF OpenMigrationPool
<1>5. CASE Migrate /\ Advance /\ at' = at + 1
  BY <1>1, <1>2, <1>5, StartFixed, Order DEF Migrate
<1>6. CASE RequireRedis /\ Advance /\ at' = at + 1
  BY <1>1, <1>2, <1>6, StartFixed, Order DEF RequireRedis
<1>7. CASE OpenDb /\ Advance /\ at' = at + 1
  BY <1>1, <1>2, <1>7, StartFixed, Order DEF OpenDb
<1>8. CASE OpenCache /\ Advance /\ at' = at + 1
  BY <1>1, <1>2, <1>8, StartFixed, Order DEF OpenCache
<1>9. CASE Probe("db") /\ Advance /\ at' = at + 1
  BY <1>1, <1>2, <1>9, StartFixed, Order DEF Probe
<1>10. CASE Probe("cache") /\ Advance /\ at' = at + 1
  BY <1>1, <1>2, <1>10, StartFixed, Order DEF Probe
<1>11. CASE InitAuth /\ Advance /\ at' = at + 1
  BY <1>1, <1>2, <1>11, StartFixed, Order DEF InitAuth
<1>12. CASE OpenQueue /\ Advance /\ at' = at + 1
  BY <1>1, <1>2, <1>12, StartFixed, Order DEF OpenQueue
<1>13. CASE BuildServer /\ Advance /\ at' = at + 1
  BY <1>1, <1>2, <1>13, StartFixed, Order DEF BuildServer
<1>14. CASE BuildWorker /\ Advance /\ at' = at + 1
  BY <1>1, <1>2, <1>14, StartFixed, Order DEF BuildWorker, MissingProcessor
<1>15. CASE UNCHANGED vars
  BY <1>1, <1>15, StartFixed DEF vars
<1>16. QED
  BY <1>1, <1>3, <1>4, <1>5, <1>6, <1>7, <1>8, <1>9, <1>10, <1>11, <1>12, <1>13, <1>14, <1>15

(* Giving up leaves what is open registered, and nothing running.           *)
LEMMA RefuseStep ==
  ASSUME PhaseInv, TypeInv, OpenInv, BuiltInv, [Next]_vars, phase = "starting",
         phase' = "cleaning_up"
  PROVE  open' \subseteq Registered' /\ goroutines' = {}
<1>1. Positions /\ mode \in {"api", "worker", "all"} /\ at \in Nat
  BY PositionsHold, Order DEF PhaseInv
<1>2. ~Advance /\ ~Fatal
  BY AdvanceEffect DEF Fatal
<1>3. cleanups' = cleanups => Registered' = Registered
  BY DEF Registered
<1>4. ASSUME at < QueueAt, "migration_pool" \in open => "migration_pool" \notin open',
             open' \subseteq open, UNCHANGED <<cleanups, goroutines>>
      PROVE  open' \subseteq Registered' /\ goroutines' = {}
  <2>1. QueueAt \in Nat /\ ServerAt \in Nat /\ QueueAt < ServerAt
    BY <1>1, Order
  <2>2. open \ {"migration_pool"} \subseteq Registered
    BY <1>1, <1>4, <2>1 DEF OpenInv
  <2>3. goroutines = {}
    BY <1>1, <1>4, <2>1 DEF BuiltInv
  <2>4. QED
    BY <1>3, <1>4, <2>2, <2>3
<1>5. at # 3 => "migration_pool" \notin open
  BY DEF OpenInv
<1> USE DEF OpenVars, BuiltVars
<1>6. CASE LoadConfig
  BY <1>1, <1>2, <1>4, <1>5, <1>6, Order DEF LoadConfig, Positions
<1>7. CASE OpenMigrationPool
  BY <1>1, <1>2, <1>4, <1>5, <1>7, Order DEF OpenMigrationPool, Positions, QueueAt
<1>8. CASE Migrate
  BY <1>1, <1>2, <1>4, <1>8, Order DEF Migrate, Positions, QueueAt
<1>9. CASE RequireRedis
  BY <1>1, <1>2, <1>4, <1>5, <1>9, Order DEF RequireRedis, Positions, QueueAt
<1>10. CASE OpenDb
  BY <1>1, <1>2, <1>4, <1>5, <1>10, Order DEF OpenDb, Opened, Positions, DbAt, QueueAt
<1>11. CASE OpenCache
  BY <1>1, <1>2, <1>11 DEF OpenCache, Opened
<1>12. CASE Probe("db")
  BY <1>1, <1>2, <1>4, <1>5, <1>12, Order DEF Probe, Positions, ProbeAt, QueueAt
<1>13. CASE Probe("cache")
  BY <1>1, <1>2, <1>4, <1>5, <1>13, Order DEF Probe, Positions, CacheProbeAt, QueueAt
<1>14. ~(InitAuth \/ OpenQueue \/ BuildServer \/ BuildWorker)
  BY <1>2 DEF InitAuth, OpenQueue, BuildServer, BuildWorker
<1>15. ~(\/ Ending \/ Exited
         \/ UNCHANGED vars)
  BY DEF Ending, RunCleanup, RunFails, Stop, CollectorEnds, Close,
      Closed, Exited, vars
<1>16. QED
  BY <1>6, <1>7, <1>8, <1>9, <1>10, <1>11, <1>12, <1>13, <1>14, <1>15 DEF Next, Ending

(* Only NewServer and NewWorker end a process on the spot.                  *)
LEMMA FatalStep ==
  ASSUME PhaseInv, [Next]_vars, phase = "starting", phase' = "exited"
  PROVE  refused' \in {"server", "worker"}
<1>1. ~Refuse
  BY DEF Refuse
<1>2. ~Advance
  BY AdvanceEffect
<1> USE DEF OpenVars, BuiltVars
<1>3. CASE BuildServer \/ BuildWorker
  <2>1. Fatal /\ Steps[at] \in {"server", "worker"}
    BY <1>2, <1>3 DEF BuildServer, BuildWorker, At
  <2>2. QED
    BY <2>1, FatalEffect
<1>4. ~(\/ LoadConfig \/ OpenMigrationPool \/ Migrate \/ RequireRedis \/ OpenDb \/ OpenCache
        \/ Probe("db") \/ Probe("cache") \/ InitAuth \/ OpenQueue)
  BY <1>1, <1>2 DEF LoadConfig, OpenMigrationPool, Migrate, RequireRedis, OpenDb, OpenCache,
                    Opened, Probe, InitAuth, OpenQueue
<1>5. ~(\/ Ending \/ Exited
        \/ UNCHANGED vars)
  BY DEF Ending, RunCleanup, RunFails, Stop, CollectorEnds, Close,
      Closed, Exited, vars
<1>6. QED
  BY <1>3, <1>4, <1>5 DEF Next, Ending

(* From the start's end on, what is closed is what was held.                *)
LEMMA EndStep ==
  IInv /\ [Next]_vars => EndInv'
<1> SUFFICES ASSUME IInv, [Next]_vars PROVE EndInv'
  OBVIOUS
<1> USE DEF IInv
<1>1. CASE phase = "starting"
  <2>1. OpenInv /\ BuiltInv
    BY <1>1 DEF StartInv
  <2>2. phase' # "closing"
    BY <1>1, AdvanceEffect DEF Next, vars, LoadConfig, OpenMigrationPool, Migrate,
       RequireRedis, OpenDb, OpenCache, Opened, Probe, InitAuth, OpenQueue, BuildServer,
       BuildWorker, Ending,
       RunCleanup, RunFails, Stop, CollectorEnds, Close,
      Closed, Exited, Refuse, Fatal
  <2>3. phase' \in {"starting", "serving"} => refused' = "none"
    BY <1>1, Stepping DEF Advance, vars, EndInv
  <2>4. QED
    BY <1>1, <2>1, <2>2, <2>3, RefuseStep, FatalStep DEF EndInv
<1>2. ASSUME phase # "starting"
      PROVE  ~(\/ LoadConfig \/ OpenMigrationPool \/ Migrate \/ RequireRedis \/ OpenDb
               \/ OpenCache \/ Probe("db") \/ Probe("cache") \/ InitAuth \/ OpenQueue
               \/ BuildServer \/ BuildWorker)
  BY <1>2 DEF LoadConfig, OpenMigrationPool, Migrate, RequireRedis, OpenDb, OpenCache, Probe,
              InitAuth, OpenQueue, BuildServer, BuildWorker, At
<1> USE DEF EndInv, OpenVars, BuiltVars
<1>3. CASE RunCleanup
  <2>1. CASE cleanups = <<>>
    <3>1. Registered = {}
      BY <2>1 DEF Registered
    <3>2. QED
      BY <1>3, <2>1, <3>1 DEF RunCleanup
  <2>2. CASE cleanups # <<>>
    <3>1. /\ open' = open \ {cleanups[Len(cleanups)]} /\ phase' = "cleaning_up"
          /\ goroutines' = goroutines
      BY <1>3, <2>2 DEF RunCleanup
    <3>2. Registered \ {cleanups[Len(cleanups)]} \subseteq Registered'
      BY <1>3, <2>2, CleanupEffect DEF RunCleanup, TypeInv
    <3>3. QED
      BY <1>3, <3>1, <3>2 DEF RunCleanup
  <2>3. QED
    BY <2>1, <2>2
<1>4. CASE Stop
  <2>1. at > QueueAt /\ OpenInv
    BY <1>4, Order DEF Stop, StartInv, PhaseInv
  <2>2. open \subseteq held \ {"migration_pool"}
    BY <1>4, <2>1 DEF Stop, OpenInv
  <2>3. QED
    BY <1>4, <2>2 DEF Stop, TypeInv
<1>5. CASE RunFails
  BY <1>5 DEF RunFails
<1>6. CASE CollectorEnds
  BY <1>6 DEF CollectorEnds
<1>7. ASSUME NEW i \in DOMAIN CloseOrder, Close(i) PROVE EndInv'
  BY <1>7 DEF Close
<1>8. CASE Closed
  <2>1. /\ DOMAIN CloseOrder = 1..4 /\ CloseOrder[1] = "inspector"
        /\ CloseOrder[2] = "queue_client" /\ CloseOrder[3] = "cache" /\ CloseOrder[4] = "db"
    BY DEF CloseOrder
  <2>2. open = {}
    BY <1>8, <2>1 DEF Closed, TypeInv, Client
  <2>3. QED
    BY <1>8, <2>2 DEF Closed
<1>9. CASE Exited \/ UNCHANGED vars
  BY <1>9 DEF Exited, vars, Registered
<1>10. QED
  BY <1>1, <1>2, <1>3, <1>4, <1>7, <1>8, <1>9, <1>6, <1>5 DEF Next

-----------------------------------------------------------------------------
(* A variable somebody can be told to correct.                              *)
Cause == \E v \in Variable : Objectionable(v)

(* What is known of a variable by itself: its value, and what Load makes of *)
(* it.                                                                      *)
LEMMA ValueKnown ==
  ASSUME env \in Environments, NEW v \in Variable
  PROVE  /\ env[v] \in Blank \union {"garbage"} \union Meanings[v]
         /\ env[v] \in Blank /\ v \in DOMAIN Fallback => Cfg[v] = Fallback[v]
         /\ env[v] \notin Blank \/ v \notin DOMAIN Fallback => Cfg[v] = env[v]
BY EnvironmentsAssumption DEF Cfg

LEMMA ProductionIsMeant ==
  ASSUME env \in Environments, Production
  PROVE  MeantForProduction
<1>1. "APP_ENV" \in Variable /\ "APP_ENV" \in DOMAIN Fallback /\ Fallback["APP_ENV"] = "development"
  BY DEF Variable, Fallback
<1>2. Cfg["APP_ENV"] = "production"
  BY DEF Production
<1>3. env["APP_ENV"] = "production"
  BY <1>1, <1>2, ValueKnown
<1>4. QED
  BY <1>3 DEF MeantForProduction, Blank

LEMMA ParseCause ==
  ASSUME env \in Environments, ParseFails
  PROVE  Cause
<1>1. PICK v \in Parsed : Cfg[v] = "garbage"
  BY DEF ParseFails
<1>2. v \in Variable
  BY DEF Parsed, Variable
<1>3. v \in DOMAIN Fallback => Fallback[v] # "garbage"
  BY DEF Fallback
<1>4. env[v] = "garbage"
  BY <1>1, <1>2, <1>3, ValueKnown
<1>5. QED
  BY <1>2, <1>4 DEF Cause, Objectionable

(* One variable that is not what validate or applog.Init wants.             *)
LEMMA ValueCause ==
  ASSUME env \in Environments
  PROVE  /\ Cfg["REQUEST_TIMEOUT"] # "positive" => Objectionable("REQUEST_TIMEOUT")
         /\ Cfg["GIN_MODE"] \notin {"debug", "release", "test"} => Objectionable("GIN_MODE")
         /\ Cfg["GRACEFUL_DRAIN"] = "negative" => Objectionable("GRACEFUL_DRAIN")
         /\ Cfg["DB_MAX_CONNS"] # "30" => Objectionable("DB_MAX_CONNS")
         /\ Cfg["DB_MIN_CONNS"] # "0" => Objectionable("DB_MIN_CONNS")
         /\ Cfg["DB_LOG_LEVEL"] # "warn" => Objectionable("DB_LOG_LEVEL")
         /\ Cfg["WORKER_CONCURRENCY"] # "positive" => Objectionable("WORKER_CONCURRENCY")
         /\ Cfg["RATE_LIMIT_PER_MINUTE"] = "negative" => Objectionable("RATE_LIMIT_PER_MINUTE")
         /\ Cfg["DOCS_THEME"] \notin {"light", "dark", "system"} => Objectionable("DOCS_THEME")
         /\ Cfg["JWT_ISSUER"] \notin Blank
         /\ Cfg["JWT_TTL"] # "positive" => Objectionable("JWT_TTL")
         /\ Cfg["LOG_LEVEL"] # "info" => Objectionable("LOG_LEVEL")
         /\ Cfg["LOG_FORMAT"] \notin {"json", "console"} => Objectionable("LOG_FORMAT")
         /\ Cfg["DOCS_LAYOUT"] \notin {"sidebar", "stacked"} => Objectionable("DOCS_LAYOUT")
         /\ Cfg["LOG_STACKTRACE_LEVEL"] # "error" => Objectionable("LOG_STACKTRACE_LEVEL")
<1> USE DEF Variable, Meanings, Fallback, Blank, Objectionable
<1>1. Cfg["REQUEST_TIMEOUT"] # "positive" => Objectionable("REQUEST_TIMEOUT")
  BY ValueKnown
<1>2. Cfg["GIN_MODE"] \notin {"debug", "release", "test"} => Objectionable("GIN_MODE")
  BY ValueKnown
<1>3. Cfg["GRACEFUL_DRAIN"] = "negative" => Objectionable("GRACEFUL_DRAIN")
  BY ValueKnown
<1>4. Cfg["DB_MAX_CONNS"] # "30" => Objectionable("DB_MAX_CONNS")
  BY ValueKnown
<1>5. Cfg["DB_MIN_CONNS"] # "0" => Objectionable("DB_MIN_CONNS")
  BY ValueKnown
<1>6. Cfg["DB_LOG_LEVEL"] # "warn" => Objectionable("DB_LOG_LEVEL")
  BY ValueKnown
<1>7. Cfg["WORKER_CONCURRENCY"] # "positive" => Objectionable("WORKER_CONCURRENCY")
  BY ValueKnown
<1>8. Cfg["RATE_LIMIT_PER_MINUTE"] = "negative" => Objectionable("RATE_LIMIT_PER_MINUTE")
  BY ValueKnown
<1>9. Cfg["DOCS_THEME"] \notin {"light", "dark", "system"} => Objectionable("DOCS_THEME")
  BY ValueKnown
<1>10. Cfg["JWT_ISSUER"] \notin Blank
  BY ValueKnown
<1>11. Cfg["JWT_TTL"] # "positive" => Objectionable("JWT_TTL")
  BY ValueKnown
<1>12. Cfg["LOG_LEVEL"] # "info" => Objectionable("LOG_LEVEL")
  BY ValueKnown
<1>13. Cfg["LOG_FORMAT"] \notin {"json", "console"} => Objectionable("LOG_FORMAT")
  BY ValueKnown
<1>14. Cfg["DOCS_LAYOUT"] \notin {"sidebar", "stacked"} => Objectionable("DOCS_LAYOUT")
  BY ValueKnown
<1>15. Cfg["LOG_STACKTRACE_LEVEL"] # "error" => Objectionable("LOG_STACKTRACE_LEVEL")
  BY ValueKnown
<1>16. QED
  BY <1>1, <1>2, <1>3, <1>4, <1>5, <1>6, <1>7, <1>8, <1>9, <1>10, <1>11, <1>12, <1>13, <1>14,
     <1>15

(* One that production does not put up with.                                *)
LEMMA SecretCause ==
  ASSUME env \in Environments, MeantForProduction
  PROVE  /\ Cfg["JWT_SECRET"] # "strong" => Objectionable("JWT_SECRET")
         /\ Cfg["AUTH_DEV_TOKEN_ENABLED"] # "false" => Objectionable("AUTH_DEV_TOKEN_ENABLED")
         /\ Cfg["GIN_MODE"] # "release" => Objectionable("GIN_MODE")
         /\ Cfg["LOG_FORMAT"] # "json" => Objectionable("LOG_FORMAT")
<1>1. "JWT_SECRET" \in Needed
  BY DEF Needed
<1> USE DEF Variable, Meanings, Fallback, Blank, Objectionable
<1>2. Cfg["JWT_SECRET"] # "strong" => Objectionable("JWT_SECRET")
  BY <1>1, ValueKnown
<1>3. Cfg["AUTH_DEV_TOKEN_ENABLED"] # "false" => Objectionable("AUTH_DEV_TOKEN_ENABLED")
  BY ValueKnown
<1>4. Cfg["GIN_MODE"] # "release" => Objectionable("GIN_MODE")
  BY ValueKnown
<1>5. Cfg["LOG_FORMAT"] # "json" => Objectionable("LOG_FORMAT")
  BY ValueKnown
<1>6. QED
  BY <1>2, <1>3, <1>4, <1>5

(* A configuration that is refused has a variable to correct.               *)
LEMMA LoadCause ==
  ASSUME env \in Environments, ParseFails \/ ~Valid \/ ~LoggerReady
  PROVE  Cause
<1> SUFFICES ASSUME ~ParseFails, \A v \in Variable : ~Objectionable(v)
             PROVE  Valid /\ LoggerReady
  BY ParseCause DEF Cause
<1>1. {"REQUEST_TIMEOUT", "GIN_MODE", "GRACEFUL_DRAIN", "DB_MAX_CONNS", "DB_MIN_CONNS",
       "DB_LOG_LEVEL", "WORKER_CONCURRENCY", "RATE_LIMIT_PER_MINUTE", "DOCS_THEME",
       "DOCS_LAYOUT", "LOG_STACKTRACE_LEVEL", "JWT_TTL", "LOG_LEVEL", "LOG_FORMAT", "JWT_SECRET",
       "AUTH_DEV_TOKEN_ENABLED"}
        \subseteq Variable
  BY DEF Variable
<1>2. LoggerReady
  BY <1>1, ValueCause DEF LoggerReady
<1>3. ValidPostgres
  BY <1>1, ValueCause DEF ValidPostgres
<1>4. Production => ProductionSecrets
  BY <1>1, ProductionIsMeant, SecretCause DEF ProductionSecrets
<1>5. Valid
  BY <1>1, <1>3, <1>4, ValueCause DEF Valid
<1>6. QED
  BY <1>2, <1>5

(* A DSN or a Redis address that is missing where it is needed.             *)
LEMMA ClientCause ==
  ASSUME env \in Environments
  PROVE  /\ ~HasDsn /\ (HasApi \/ Production) => Cause
         /\ Cfg["POSTGRES"] = "garbage" => Cause
         /\ ~HasRedis /\ HasWorker => Cause
         /\ Cfg["TRUSTED_PROXIES"] = "garbage" => Cause
<1>1. /\ {"POSTGRES", "REDIS_ADDR", "TRUSTED_PROXIES"} \subseteq Variable
      /\ {"POSTGRES", "REDIS_ADDR", "TRUSTED_PROXIES"} \intersect DOMAIN Fallback = {}
  BY DEF Variable, Fallback
<1>2. /\ Cfg["POSTGRES"] = env["POSTGRES"] /\ Cfg["REDIS_ADDR"] = env["REDIS_ADDR"]
      /\ Cfg["TRUSTED_PROXIES"] = env["TRUSTED_PROXIES"]
  BY <1>1, ValueKnown
<1>3. ~HasDsn /\ (HasApi \/ Production) => Objectionable("POSTGRES")
  BY <1>2, ProductionIsMeant DEF HasDsn, Needed, Objectionable
<1>4. ~HasRedis /\ HasWorker => Objectionable("REDIS_ADDR")
  BY <1>2 DEF HasRedis, Needed, Objectionable
<1>5. /\ Cfg["POSTGRES"] = "garbage" => Objectionable("POSTGRES")
      /\ Cfg["TRUSTED_PROXIES"] = "garbage" => Objectionable("TRUSTED_PROXIES")
  BY <1>2 DEF Objectionable
<1>6. QED
  BY <1>1, <1>3, <1>4, <1>5 DEF Cause

(* A step of the start that fails, and no service has: there is a cause.    *)
LEMMA CauseStep ==
  ASSUME PhaseInv, TypeInv, OpenInv, BuiltInv, [Next]_vars, phase = "starting",
         phase' \notin {"starting", "serving"}, ~faults'
  PROVE  Cause
<1>1. Positions /\ mode \in {"api", "worker", "all"} /\ at \in Nat /\ env \in Environments
  BY PositionsHold, Order DEF PhaseInv
<1>2. ~Advance
  BY AdvanceEffect
<1>3. CASE LoadConfig
  BY <1>1, <1>2, <1>3, LoadCause DEF LoadConfig
<1>4. CASE OpenMigrationPool
  BY <1>1, <1>2, <1>4, ClientCause DEF OpenMigrationPool, Positions, HasApi
<1>5. CASE RequireRedis
  BY <1>1, <1>2, <1>5, ClientCause DEF RequireRedis, Positions, HasWorker
<1>6. CASE OpenDb
  BY <1>1, <1>2, <1>6, ClientCause DEF OpenDb, Opened, HasApi
<1>7. CASE BuildServer
  BY <1>1, <1>2, <1>7, ClientCause DEF BuildServer
<1>8. CASE BuildWorker
  <2>1. HasWorker /\ at = WorkerAt /\ at > QueueAt /\ at > DbAt
    BY <1>1, <1>8, Order DEF BuildWorker, Positions
  <2>2. \/ Cfg["REDIS_ADDR"] = "unset"
        \/ Production /\ "db" \notin held
    BY <1>2, <1>8 DEF BuildWorker, MissingProcessor
  <2>3. Cfg["REDIS_ADDR"] = "unset" => ~HasRedis
    BY DEF HasRedis, Blank
  <2>4. "db" \notin held => ~HasDsn
    BY <2>1 DEF OpenInv
  <2>5. QED
    BY <1>1, <2>1, <2>2, <2>3, <2>4, ClientCause
<1>9. ~(Migrate \/ Probe("db") \/ Probe("cache"))
  BY <1>2 DEF Migrate, Probe
<1>10. ~(OpenCache \/ InitAuth \/ OpenQueue)
  BY <1>2 DEF OpenCache, Opened, InitAuth, OpenQueue
<1>11. ~(Ending \/ Exited \/ UNCHANGED vars)
  BY DEF Ending, RunCleanup, RunFails, Stop, CollectorEnds, Close, Closed, Exited, vars
<1>12. QED
  BY <1>3, <1>4, <1>5, <1>6, <1>7, <1>8, <1>9, <1>10, <1>11 DEF Next, Ending

(* Afterwards neither the cause nor the refused step goes away.             *)
LEMMA RefusedStep ==
  IInv /\ RefusedForCause /\ [Next]_vars => RefusedForCause'
<1> SUFFICES ASSUME IInv, RefusedForCause, [Next]_vars, refused' # "none", ~faults'
             PROVE  Cause'
  BY DEF RefusedForCause, Cause
<1>1. env' = env /\ mode' = mode
  BY NextFixed DEF startVars
<1>2. Cause' = Cause
  BY <1>1 DEF Cause, Objectionable, Needed, MeantForProduction, HasApi, HasWorker
<1>3. CASE phase = "starting"
  <2>1. OpenInv /\ BuiltInv /\ PhaseInv /\ TypeInv
    BY <1>3 DEF IInv, StartInv
  <2>2. phase' \notin {"starting", "serving"}
    BY <2>1, EndStep DEF IInv, EndInv
  <2>3. QED
    BY <1>2, <1>3, <2>1, <2>2, CauseStep
<1>4. CASE phase # "starting"
  <2>1. refused' = refused /\ faults' = faults
    BY <1>4 DEF Next, vars, LoadConfig, OpenMigrationPool, Migrate, RequireRedis, OpenDb,
       OpenCache, Probe, InitAuth, OpenQueue, BuildServer, BuildWorker, At,
       RunCleanup, RunFails, Stop, CollectorEnds, Close, Closed, Exited
  <2>2. QED
    BY <1>2, <2>1 DEF RefusedForCause, Cause
<1>5. QED
  BY <1>3, <1>4

-----------------------------------------------------------------------------
LEMMA InitIInv == Init => IInv
<1> SUFFICES ASSUME Init PROVE IInv
  OBVIOUS
<1>1. mode \in {"api", "worker", "all"} /\ at = 1 /\ cleanups = <<>> /\ phase = "starting"
  BY DEF Init
<1>2. PhaseInv
  BY <1>1, Order DEF Init, PhaseInv
<1>3. TypeInv
  BY <1>1, EmptyList DEF Init, TypeInv
<1>4. OpenInv /\ BuiltInv
  BY <1>1, Order DEF Init, OpenInv, BuiltInv
<1>5. EndInv
  BY <1>1 DEF Init, EndInv
<1>6. QED
  BY <1>1, <1>2, <1>3, <1>4, <1>5 DEF IInv, StartInv

LEMMA NextIInv == IInv /\ [Next]_vars => IInv'
<1> SUFFICES ASSUME IInv, [Next]_vars PROVE IInv'
  OBVIOUS
<1>1. PhaseInv' /\ TypeInv' /\ EndInv'
  BY PhaseStep, TypeStep, EndStep DEF IInv
<1>2. CASE phase = "starting"
  BY <1>1, <1>2, OpenStep, BuiltStep DEF IInv, StartInv
<1>3. CASE phase # "starting"
  <2>1. phase' \in {"starting", "serving"} => UNCHANGED vars
    BY <1>3 DEF Next, LoadConfig, OpenMigrationPool, Migrate, RequireRedis, OpenDb, OpenCache,
       Probe, InitAuth, OpenQueue, BuildServer, BuildWorker, Ending,
       RunCleanup, RunFails, Stop, CollectorEnds,
       Close, Closed,
       Exited, At, IInv, PhaseInv, vars
  <2>2. UNCHANGED vars => OpenInv' = OpenInv /\ BuiltInv' = BuiltInv
    BY StartFixed DEF vars, OpenInv, BuiltInv, Registered
  <2>3. UNCHANGED vars => phase' = phase
    BY DEF vars
  <2>4. QED
    BY <1>1, <1>3, <2>1, <2>2, <2>3 DEF IInv, StartInv
<1>4. QED
  BY <1>1, <1>2, <1>3 DEF IInv, StartInv

(* In every reachable state the inductive invariant of the start holds.     *)
THEOREM Invariance == Spec => []IInv
<1>1. Init => IInv
  BY InitIInv
<1>2. IInv /\ [Next]_vars => IInv'
  BY NextIInv
<1>3. QED
  BY <1>1, <1>2, PTL DEF Spec

(* A start that is given up and a process that closes its Registry leave    *)
(* no client open and no goroutine running (runCleanups, Registry.Close).   *)
THEOREM LeaksCorrect == Spec => []NothingLeaks
<1>1. IInv => NothingLeaks
  BY DEF IInv, EndInv, NothingLeaks
<1>2. QED
  BY <1>1, Invariance, PTL

(* A process serves only with the clients its mode and its environment call *)
(* for, each of them probed, and with its tokens and tasks really handled.  *)
THEOREM BackedCorrect == Spec => []ServingIsBacked
<1>1. IInv => ServingIsBacked
  <2> SUFFICES ASSUME IInv, phase = "serving" PROVE ServingIsBacked
    BY DEF ServingIsBacked
  <2>1. OpenInv /\ BuiltInv /\ at = LastAt + 1 /\ mode \in {"api", "worker", "all"}
    BY DEF IInv, StartInv, PhaseInv
  <2>2. /\ at > 1 /\ at > DbAt /\ at > ProbeAt /\ at > CacheProbeAt /\ at > QueueAt
        /\ HasApi => at > AuthAt
        /\ HasWorker => at > WorkerAt
    BY <2>1, Order
  <2>3. Valid /\ open \subseteq held /\ held \subseteq open \union {"auth"}
    BY <2>1, <2>2 DEF OpenInv, BuiltInv
  <2>4. /\ HasApi \/ HasDsn => "db" \in held
        /\ held \intersect {"db", "cache"} \subseteq probed
    BY <2>1, <2>2, <2>3 DEF OpenInv
  <2>5. HasWorker /\ HasDsn => processor = "real"
    BY <2>1, <2>2, <2>4 DEF BuiltInv
  <2>6. HasApi /\ HasSecret => "auth" \in held
    BY <2>1, <2>2 DEF BuiltInv
  <2>7. HasSecret => Cfg["JWT_ISSUER"] \notin Blank /\ Cfg["JWT_TTL"] = "positive"
    BY <2>3 DEF Valid
  <2>8. QED
    BY <2>4, <2>5, <2>6, <2>7 DEF ServingIsBacked
<1>2. QED
  BY <1>1, Invariance, PTL

(* A process whose environment names anything but development serves only   *)
(* with what production insists on, and never with the no-op processor.     *)
THEOREM GuardedCorrect == Spec => []ProductionIsGuarded
<1>1. IInv => ProductionIsGuarded
  <2> SUFFICES ASSUME IInv, phase = "serving", MeantForProduction
               PROVE  ProductionIsGuarded
    BY DEF ProductionIsGuarded
  <2>1. BuiltInv /\ at = LastAt + 1 /\ mode \in {"api", "worker", "all"}
    BY DEF IInv, StartInv, PhaseInv
  <2>2. at > 1 /\ (HasWorker => at > WorkerAt) /\ (~HasWorker => at <= WorkerAt)
    BY <2>1, Order
  <2>3. ~ParseFails /\ Valid
    BY <2>1, <2>2 DEF BuiltInv
  <2>4. env["APP_ENV"] \in {"production", "garbage"}
    BY ValueKnown DEF IInv, PhaseInv, MeantForProduction, Meanings, Variable
  <2>5. Cfg["APP_ENV"] = env["APP_ENV"]
    BY <2>4 DEF Cfg, Blank, Variable
  <2>6. Cfg["APP_ENV"] # "garbage"
    BY <2>3 DEF ParseFails, Parsed
  <2>7. Production
    BY <2>4, <2>5, <2>6 DEF Production
  <2>8. ProductionSecrets
    BY <2>3, <2>7 DEF Valid
  <2>9. env["JWT_SECRET"] = "strong"
    BY <2>8 DEF ProductionSecrets, Cfg, Variable, Fallback
  <2>10. env["AUTH_DEV_TOKEN_ENABLED"] \in Blank \union {"false"}
    BY <2>8 DEF ProductionSecrets, Cfg, Variable, Fallback
  <2>11. env["GIN_MODE"] \in Blank \union {"release"}
    BY <2>8 DEF ProductionSecrets, Cfg, Variable, Fallback
  <2>12. env["LOG_FORMAT"] \in Blank \union {"json"}
    BY <2>8 DEF ProductionSecrets, Cfg, Variable, Fallback
  <2>13. processor # "noop"
    BY <2>1, <2>2, <2>7 DEF BuiltInv
  <2>14. QED
    BY <2>9, <2>10, <2>11, <2>12, <2>13 DEF ProductionIsGuarded
<1>2. QED
  BY <1>1, Invariance, PTL

(* A process gives up only for a cause: a service that fails, or a variable *)
(* somebody can be told to correct, whatever the mode and the other values. *)
THEOREM CauseCorrect == Spec => []RefusedForCause
<1>1. Init => RefusedForCause
  BY DEF Init, RefusedForCause
<1>2. IInv /\ RefusedForCause /\ [Next]_vars => RefusedForCause'
  BY RefusedStep
<1>3. QED
  BY <1>1, <1>2, Invariance, PTL DEF Spec
=============================================================================
