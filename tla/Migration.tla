------------------------------ MODULE Migration ------------------------------
(***************************************************************************)
(* Several processes migrate one database at the same time: replicas that  *)
(* start in mode all, the migrate job, an operator who rolls back, some of *)
(* them of an older release with fewer embedded files.  goose serialises   *)
(* them with an advisory lock of the session, for which it polls, and runs *)
(* every file and the row of its version in one transaction.               *)
(***************************************************************************)
EXTENDS Integers, FiniteSetsExt

CONSTANTS
  Instances,   \* processes that run migrate
  Cmd,         \* what each of them runs: "up" or "down"
  Files,       \* the number of files embedded in each of them
  MaxTries,    \* how often the lock is tried (60 times, every 5 s)
  NoOne        \* the holder of a free lock

ASSUME ConstantsAssumption ==
  /\ Cmd \in [Instances -> {"up", "down"}]
  /\ Files \in [Instances -> Nat]
  /\ MaxTries \in Nat \ {0}
  /\ NoOne \notin Instances

Version == UNION {1..Files[i] : i \in Instances}

VARIABLES
  pc,        \* opening, waiting, locked, working, unlocking, done, failed, killed
  tries,     \* attempts at the lock
  lock,      \* the session that holds the advisory lock
  versions,  \* rows of the version table
  todo,      \* the versions a process has decided to run, read under the lock
  runs,      \* history: how often the Up part of a version ran minus the Down
  undone     \* history: somebody rolled back

vars == <<pc, tries, lock, versions, todo, runs, undone>>

Init ==
  /\ pc = [i \in Instances |-> "opening"]
  /\ tries = [i \in Instances |-> 0]
  /\ lock = NoOne
  /\ versions = {}
  /\ todo = [i \in Instances |-> {}]
  /\ runs = [v \in Version |-> 0]
  /\ undone = FALSE

Goto(i, label) == pc' = [pc EXCEPT ![i] = label]

-----------------------------------------------------------------------------
(* migrate: open the pool and ping, with a timeout of its own.             *)
Open(i) ==
  /\ pc[i] = "opening"
  /\ Goto(i, "waiting") \/ Goto(i, "failed")
  /\ UNCHANGED <<tries, lock, versions, todo, runs, undone>>

Holding == {"locked", "working", "giving up"}
Running == {"opening", "waiting"} \union Holding

(* Without the session locker nobody would wait.                           *)
BugLockIsFree == TRUE

LockIsFree == lock = NoOne

BugLastTry(i) == tries[i] = MaxTries

LastTry(i) == tries[i] + 1 = MaxTries

(* pg_try_advisory_lock.                                                   *)
TryLock(i) ==
  /\ pc[i] = "waiting"
  /\ IF LockIsFree
     THEN Goto(i, "locked") /\ lock' = i /\ UNCHANGED tries
     ELSE /\ tries' = [tries EXCEPT ![i] = @ + 1]
          /\ Goto(i, IF LastTry(i) THEN "failed" ELSE "waiting")
          /\ UNCHANGED lock
  /\ UNCHANGED <<versions, todo, runs, undone>>

(* up runs the files that are not in the table, and refuses when one of    *)
(* them is older than the newest that is.                                  *)
Pending(i) == 1..Files[i] \ versions
OutOfOrder(i) == \E v \in Pending(i), w \in versions : v < w

(* up first looks at the table without the lock, and is done when nothing  *)
(* is left to do for its release.                                          *)
Peek(i) ==
  /\ pc[i] = "waiting" /\ tries[i] = 0 /\ Cmd[i] = "up"
  /\ Pending(i) = {}
  /\ Goto(i, "done")
  /\ UNCHANGED <<tries, lock, versions, todo, runs, undone>>

(* down undoes the newest row, whatever release has written it.            *)
LastRow(i) == IF versions = {} THEN 0 ELSE Max(versions)

(* Read the version table and decide.                                      *)
Decide(i) ==
  /\ pc[i] = "locked"
  /\ \/ /\ Cmd[i] = "up" /\ ~OutOfOrder(i)
        /\ todo' = [todo EXCEPT ![i] = Pending(i)]
        /\ Goto(i, "working")
     \/ /\ Cmd[i] = "down" /\ LastRow(i) \in 1..Files[i]
        /\ todo' = [todo EXCEPT ![i] = {LastRow(i)}]
        /\ Goto(i, "working")
     \/ /\ \/ Cmd[i] = "up" /\ OutOfOrder(i)
           \/ Cmd[i] = "down" /\ LastRow(i) \notin 1..Files[i]
        /\ Goto(i, "giving up")
        /\ UNCHANGED todo
  /\ UNCHANGED <<tries, lock, versions, runs, undone>>

(* Files run in the order of their versions.                               *)
NextFile(i) == Min(todo[i])

(* The transaction of one file commits ...                                 *)
RunFile(i) ==
  /\ pc[i] = "working" /\ todo[i] # {}
  /\ LET v == NextFile(i) IN
     /\ todo' = [todo EXCEPT ![i] = @ \ {v}]
     /\ IF Cmd[i] = "up"
        THEN /\ versions' = versions \union {v}
             /\ runs' = [runs EXCEPT ![v] = @ + 1]
             /\ UNCHANGED undone
        ELSE /\ versions' = versions \ {v}
             /\ runs' = [runs EXCEPT ![v] = @ - 1]
             /\ undone' = TRUE
  /\ UNCHANGED <<pc, tries, lock>>

BugFileFails(i) ==
  /\ pc[i] = "working" /\ todo[i] # {}
  /\ todo' = [todo EXCEPT ![i] = @ \ {NextFile(i)}]
  /\ UNCHANGED <<pc, tries, lock, versions, runs, undone>>

(* ... or fails: what was committed before stays.                          *)
FileFails(i) ==
  /\ pc[i] = "working" /\ todo[i] # {}
  /\ Goto(i, "giving up")
  /\ UNCHANGED <<tries, lock, versions, todo, runs, undone>>

(* The deferred unlock; migrate returns nil, or the error.                 *)
Unlock(i) ==
  /\ \/ pc[i] = "working" /\ todo[i] = {} /\ Goto(i, "done")
     \/ pc[i] = "giving up" /\ Goto(i, "failed")
  /\ lock' = NoOne
  /\ UNCHANGED <<tries, versions, todo, runs, undone>>

(* The process is killed (TimeoutStopSec, a startup probe): its session    *)
(* ends, and with it the lock and the open transaction.                    *)
Kill(i) ==
  /\ pc[i] \in Running
  /\ Goto(i, "killed")
  /\ lock' = IF lock = i THEN NoOne ELSE lock
  /\ UNCHANGED <<tries, versions, todo, runs, undone>>

Step(i) ==
  Open(i) \/ Peek(i) \/ TryLock(i) \/ Decide(i)
  \/ RunFile(i) \/ FileFails(i) \/ Unlock(i)

Next == \E i \in Instances : Step(i) \/ Kill(i)

Spec == Init /\ [][Next]_vars

-----------------------------------------------------------------------------
(* Properties.                                                             *)

(* Every process is where migrate can be, and tries the lock at most       *)
(* MaxTries times; the version table only names files of some release.     *)
TypeOK ==
  /\ pc \in [Instances -> Running \union {"done", "failed", "killed"}]
  /\ tries \in [Instances -> 0..MaxTries]
  /\ lock \in Instances \union {NoOne}
  /\ versions \subseteq Version
  /\ todo \in [Instances -> SUBSET Version]
  /\ runs \in [Version -> Int]
  /\ undone \in BOOLEAN

(* "Migrate only once": whoever starts, rolls back, fails or is killed     *)
(* meanwhile, the schema is what the version table says: a version in the  *)
(* table has run once more than it was undone, any other as often.         *)
TableIsTrue ==
  \A v \in Version : runs[v] = (IF v \in versions THEN 1 ELSE 0)

(* The version table has no gaps, not even when releases with more and     *)
(* with fewer files take turns at up and down: every version was written   *)
(* for the schema of the one before it.                                    *)
NoGaps == \A v \in versions : 1..v \subseteq versions

(* A process whose up has returned nil, runAll for one, finds the schema   *)
(* of its release, unless somebody rolls back.                             *)
UpMeansMigrated ==
  \A i \in Instances :
    pc[i] = "done" /\ Cmd[i] = "up" /\ ~undone => 1..Files[i] \subseteq versions

(* The lock is held exactly by who is at work: two processes never migrate *)
(* at once, and nobody waits for one that has ended, however it ended.     *)
LockIsExact == \A i \in Instances : pc[i] \in Holding <=> lock = i
=============================================================================
