--------------------------- MODULE Migration_proofs ---------------------------
(***************************************************************************)
(* The safety properties of Migration for any number of processes, any mix *)
(* of commands and releases and any number of tries.  The inductive        *)
(* invariant says what the version table looks like, 1 to n, and what a    *)
(* process that has the lock knows of it: a pending up has left exactly    *)
(* the files that are not in the table, a pending down the newest row.     *)
(***************************************************************************)
EXTENDS Migration, TLAPS

Contiguous == \E n \in Nat : versions = 1..n

KnowsTable(i) ==
  pc[i] = "working" =>
    /\ Cmd[i] = "up" => todo[i] = 1..Files[i] \ versions
    /\ Cmd[i] = "down" =>
         \A v \in todo[i] : v \in versions /\ \A w \in versions : w <= v

TriesLeft(i) == pc[i] \in {"opening", "waiting"} => tries[i] < MaxTries

IInv ==
  /\ TypeOK
  /\ LockIsExact
  /\ Contiguous
  /\ \A i \in Instances : KnowsTable(i) /\ TriesLeft(i)
  /\ TableIsTrue
  /\ UpMeansMigrated

(* The versions are positive numbers.                                      *)
LEMMA VersionsAreNumbers == Version \subseteq Nat \ {0}
BY ConstantsAssumption DEF Version

(* The files of a release are versions.                                    *)
LEMMA FilesAreVersions == \A i \in Instances : 1..Files[i] \subseteq Version
BY ConstantsAssumption DEF Version

(* The newest row of the table 1 to n is n.                                *)
LEMMA LastRowIsLast ==
  ASSUME NEW i, NEW n \in Nat, versions = 1..n
  PROVE  LastRow(i) = n
<1>1. CASE n = 0
  BY <1>1 DEF LastRow
<1>2. CASE n # 0
  <2>1. n \in 1..n /\ \A w \in 1..n : n >= w
    BY <1>2
  <2>2. \A x \in 1..n : (\A w \in 1..n : x >= w) => x = n
    BY <2>1
  <2> QED BY <1>2, <2>1, <2>2 DEF LastRow, Max
<1> QED BY <1>1, <1>2

(* A release that has the last row's file finds it in the table.           *)
LEMMA LastRowIsNewest ==
  ASSUME NEW i \in Instances, Contiguous, LastRow(i) \in 1..Files[i]
  PROVE  LastRow(i) \in versions /\ \A w \in versions : w <= LastRow(i)
<1>1. PICK n \in Nat : versions = 1..n
  BY DEF Contiguous
<1>2. LastRow(i) = n
  BY <1>1, LastRowIsLast
<1>3. 1 <= n
  BY <1>2, ConstantsAssumption
<1>4. n \in 1..n /\ \A w \in 1..n : w <= n
  BY <1>3
<1> QED BY <1>1, <1>2, <1>4

(* The next file of a process that has the rest of its files to run is the *)
(* one after the last row.                                                 *)
LEMMA NextFileIsNext ==
  ASSUME NEW i, NEW n \in Nat, NEW m \in Nat,
         todo[i] = (1..m) \ (1..n), todo[i] # {}
  PROVE  NextFile(i) = n + 1 /\ n + 1 \in todo[i]
<1>1. n + 1 \in todo[i] /\ \A w \in todo[i] : n + 1 <= w
  OBVIOUS
<1>2. \A x \in todo[i] : (\A w \in todo[i] : x <= w) => x = n + 1
  BY <1>1
<1> QED BY <1>1, <1>2 DEF NextFile, Min

LEMMA InitIsSound == Init => IInv
<1> SUFFICES ASSUME Init PROVE IInv
  OBVIOUS
<1>1. TypeOK
  <2>1. pc \in [Instances -> Running \union {"done", "failed", "killed"}]
    BY DEF Init, Running
  <2>2. tries \in [Instances -> 0..MaxTries] /\ lock \in Instances \union {NoOne}
    BY ConstantsAssumption DEF Init
  <2>3. todo \in [Instances -> SUBSET Version] /\ versions \subseteq Version
    BY DEF Init
  <2>4. runs \in [Version -> Int]
    BY DEF Init
  <2>5. undone \in BOOLEAN
    BY DEF Init
  <2> QED BY <2>1, <2>2, <2>3, <2>4, <2>5 DEF TypeOK
<1>2. LockIsExact
  BY ConstantsAssumption DEF Init, LockIsExact, Holding
<1>3. Contiguous
  <2>1. versions = 1..0
    BY DEF Init
  <2> QED BY <2>1 DEF Contiguous
<1>4. \A i \in Instances : KnowsTable(i) /\ TriesLeft(i)
  BY ConstantsAssumption DEF Init, KnowsTable, TriesLeft
<1>5. TableIsTrue /\ UpMeansMigrated
  BY DEF Init, TableIsTrue, UpMeansMigrated
<1> QED BY <1>1, <1>2, <1>3, <1>4, <1>5 DEF IInv

(* One lemma for each action: it keeps the invariant.                      *)
LEMMA OpenKeeps ==
  ASSUME IInv, NEW i \in Instances, Open(i)
  PROVE  IInv'
<1> USE DEF IInv, Open, Goto
<1>1. TypeOK'
  BY DEF TypeOK, Running, Holding
<1>2. LockIsExact'
  BY DEF TypeOK, LockIsExact, Holding
<1>3. Contiguous' /\ TableIsTrue'
  BY DEF Contiguous, TableIsTrue
<1>4. \A j \in Instances : KnowsTable(j)' /\ TriesLeft(j)'
  BY DEF TypeOK, KnowsTable, TriesLeft
<1>5. UpMeansMigrated'
  BY DEF TypeOK, UpMeansMigrated
<1> QED BY <1>1, <1>2, <1>3, <1>4, <1>5

LEMMA PeekKeeps ==
  ASSUME IInv, NEW i \in Instances, Peek(i)
  PROVE  IInv'
<1> USE DEF IInv, Goto
<1>a. /\ pc[i] = "waiting" /\ pc' = [pc EXCEPT ![i] = "done"]
      /\ pc \in [Instances -> Running \union {"done", "failed", "killed"}]
      /\ 1..Files[i] \subseteq versions
      /\ UNCHANGED <<tries, lock, versions, todo, runs, undone>>
  BY DEF Peek, Pending, TypeOK
<1>1. TypeOK'
  BY <1>a DEF TypeOK
<1>2. LockIsExact'
  BY <1>a DEF LockIsExact, Holding
<1>3. \A j \in Instances : KnowsTable(j)' /\ TriesLeft(j)'
  BY <1>a DEF KnowsTable, TriesLeft
<1>4. UpMeansMigrated' /\ Contiguous' /\ TableIsTrue'
  BY <1>a DEF UpMeansMigrated, Contiguous, TableIsTrue
<1> QED BY <1>1, <1>2, <1>3, <1>4

LEMMA TryLockKeeps ==
  ASSUME IInv, NEW i \in Instances, TryLock(i)
  PROVE  IInv'
<1> USE DEF IInv, Goto
<1>a. pc[i] = "waiting" /\ pc \in [Instances -> Running \union {"done", "failed", "killed"}]
  BY DEF TryLock, TypeOK
<1>b. /\ tries[i] < MaxTries /\ tries[i] \in 0..MaxTries
      /\ LastTry(i) \in BOOLEAN /\ (~LastTry(i) => tries[i] + 1 < MaxTries)
  BY <1>a, ConstantsAssumption DEF TriesLeft, TypeOK, LastTry
<1>c. UNCHANGED <<versions, todo, runs, undone>>
  BY DEF TryLock
<1>1. CASE LockIsFree
  <2>1. pc' = [pc EXCEPT ![i] = "locked"] /\ lock' = i /\ tries' = tries
    BY <1>1 DEF TryLock
  <2>2. TypeOK'
    BY <1>a, <1>c, <2>1 DEF TypeOK, Running, Holding
  <2>3. LockIsExact'
    BY <1>1, <1>a, <2>1, ConstantsAssumption DEF LockIsExact, Holding, LockIsFree
  <2>4. \A j \in Instances : KnowsTable(j)' /\ TriesLeft(j)'
    BY <1>a, <1>c, <2>1 DEF KnowsTable, TriesLeft
  <2>5. UpMeansMigrated' /\ Contiguous' /\ TableIsTrue'
    BY <1>a, <1>c, <2>1 DEF UpMeansMigrated, Contiguous, TableIsTrue
  <2> QED BY <2>2, <2>3, <2>4, <2>5
<1>2. CASE ~LockIsFree
  <2>1. /\ tries' = [tries EXCEPT ![i] = tries[i] + 1] /\ lock' = lock
        /\ pc' = [pc EXCEPT ![i] = IF LastTry(i) THEN "failed" ELSE "waiting"]
    BY <1>2 DEF TryLock
  <2>2. tries' \in [Instances -> 0..MaxTries]
    <3>1. tries[i] + 1 \in 0..MaxTries
      BY <1>b, ConstantsAssumption
    <3> QED BY <2>1, <3>1 DEF TypeOK
  <2>3. TypeOK'
    BY <1>a, <1>c, <2>1, <2>2 DEF TypeOK, Running, Holding
  <2>4. LockIsExact'
    BY <1>a, <2>1 DEF LockIsExact, Holding
  <2>5. \A j \in Instances : KnowsTable(j)'
    BY <1>a, <1>c, <2>1 DEF KnowsTable
  <2>6. \A j \in Instances : TriesLeft(j)'
    BY <1>a, <1>b, <2>1 DEF TriesLeft, TypeOK
  <2>7. UpMeansMigrated' /\ Contiguous' /\ TableIsTrue'
    BY <1>a, <1>c, <2>1 DEF UpMeansMigrated, Contiguous, TableIsTrue
  <2> QED BY <2>3, <2>4, <2>5, <2>6, <2>7
<1> QED BY <1>1, <1>2

LEMMA DecideKeeps ==
  ASSUME IInv, NEW i \in Instances, Decide(i)
  PROVE  IInv'
<1> USE DEF IInv, Goto
<1>a. pc[i] = "locked" /\ pc \in [Instances -> Running \union {"done", "failed", "killed"}]
  BY DEF Decide, TypeOK
<1>b. UNCHANGED <<tries, lock, versions, runs, undone>>
  BY DEF Decide
<1>c. Contiguous' /\ TableIsTrue'
  BY <1>b DEF Contiguous, TableIsTrue
<1>d. PICK next \in {"working", "giving up"} : pc' = [pc EXCEPT ![i] = next]
  BY DEF Decide
<1>e. PICK files \in SUBSET Version : todo' = [todo EXCEPT ![i] = files]
  <2>1. LastRow(i) \in 1..Files[i] => {LastRow(i)} \subseteq Version
    BY FilesAreVersions
  <2>2. Pending(i) \subseteq Version
    BY FilesAreVersions DEF Pending
  <2>3. CASE todo' = todo
    <3>1. todo' = [todo EXCEPT ![i] = todo[i]] /\ todo[i] \in SUBSET Version
      BY <2>3 DEF TypeOK
    <3> QED BY <3>1
  <2> QED BY <2>1, <2>2, <2>3 DEF Decide
<1>1. TypeOK'
  BY <1>a, <1>b, <1>d, <1>e DEF TypeOK, Running, Holding
<1>2. LockIsExact'
  BY <1>a, <1>b, <1>d DEF LockIsExact, Holding
<1>3. KnowsTable(i)'
  <2>1. CASE Cmd[i] = "up" /\ pc'[i] = "working"
    <3>1. todo' = [todo EXCEPT ![i] = Pending(i)]
      BY <1>a, <2>1 DEF Decide
    <3> QED BY <1>b, <2>1, <3>1 DEF KnowsTable, Pending, TypeOK
  <2>2. CASE Cmd[i] = "down" /\ pc'[i] = "working"
    <3>1. todo' = [todo EXCEPT ![i] = {LastRow(i)}] /\ LastRow(i) \in 1..Files[i]
      BY <1>a, <2>2 DEF Decide
    <3>2. /\ LastRow(i) \in versions
          /\ \A w \in versions : w <= LastRow(i)
      BY <3>1, LastRowIsNewest
    <3>3. todo'[i] = {LastRow(i)}
      BY <3>1 DEF TypeOK
    <3> QED BY <1>b, <2>2, <3>2, <3>3 DEF KnowsTable
  <2>3. CASE pc'[i] # "working"
    BY <2>3 DEF KnowsTable
  <2> QED BY <2>1, <2>2, <2>3, ConstantsAssumption
<1>4. \A j \in Instances : j # i => KnowsTable(j)'
  BY <1>a, <1>b, <1>d, <1>e DEF KnowsTable, TypeOK
<1>5. \A j \in Instances : TriesLeft(j)'
  BY <1>a, <1>b, <1>d DEF TriesLeft
<1>6. UpMeansMigrated'
  BY <1>a, <1>b, <1>d DEF UpMeansMigrated
<1> QED BY <1>c, <1>1, <1>2, <1>3, <1>4, <1>5, <1>6

(* Nobody else is at work, so that running a file only concerns i.         *)
LEMMA RunFileKeeps ==
  ASSUME IInv, NEW i \in Instances, RunFile(i)
  PROVE  IInv'
<1>a. TypeOK /\ LockIsExact /\ KnowsTable(i) /\ TableIsTrue /\ UpMeansMigrated
  BY DEF IInv
<1>b. PICK n \in Nat : versions = 1..n
  BY DEF IInv, Contiguous
<1>c. /\ pc[i] = "working" /\ todo[i] # {}
      /\ todo' = [todo EXCEPT ![i] = todo[i] \ {NextFile(i)}]
      /\ UNCHANGED <<pc, tries, lock>>
  BY DEF RunFile
<1>d. \A j \in Instances : j # i => pc[j] # "working"
  <2>1. pc[i] \in Holding
    BY <1>c DEF Holding
  <2>2. lock = i
    BY <1>a, <2>1 DEF LockIsExact
  <2>3. \A j \in Instances : j # i => pc[j] \notin Holding
    BY <1>a, <2>2 DEF LockIsExact
  <2> QED BY <2>3 DEF Holding
<1>e. runs \in [Version -> Int]
  BY <1>a DEF TypeOK
<1>f. todo' \in [Instances -> SUBSET Version]
  BY <1>a, <1>c DEF TypeOK
<1>g. LockIsExact'
  BY <1>a, <1>c DEF LockIsExact
<1>h. \A j \in Instances : TriesLeft(j)'
  BY <1>c DEF IInv, TriesLeft
<1>i. \A j \in Instances : j # i => KnowsTable(j)'
  BY <1>c, <1>d DEF KnowsTable
<1>1. CASE Cmd[i] = "up"
  <2>1. todo[i] = (1..Files[i]) \ (1..n)
    BY <1>a, <1>b, <1>c, <1>1 DEF KnowsTable
  <2>2. NextFile(i) = n + 1 /\ n + 1 \in todo[i]
    BY <1>c, <2>1, NextFileIsNext, ConstantsAssumption
  <2>3. n + 1 \in Version
    BY <2>2, <1>a DEF TypeOK
  <2>4. /\ versions' = versions \union {n + 1} /\ undone' = undone
        /\ runs' = [runs EXCEPT ![n + 1] = runs[n + 1] + 1]
    BY <1>1, <2>2 DEF RunFile
  <2>5. versions' = 1..(n + 1)
    BY <1>b, <2>4
  <2>6. TypeOK'
    <3>1. runs[n + 1] + 1 \in Int
      BY <1>e, <2>3
    <3>2. runs' \in [Version -> Int]
      BY <1>e, <2>3, <2>4, <3>1
    <3>3. versions' \subseteq Version
      BY <1>a, <2>3, <2>4 DEF TypeOK
    <3> QED BY <1>a, <1>c, <1>f, <2>4, <3>2, <3>3 DEF TypeOK
  <2>7. Contiguous'
    <3>1. n + 1 \in Nat
      BY <1>b
    <3> QED BY <2>5, <3>1 DEF Contiguous
  <2>8. KnowsTable(i)'
    <3>1. todo'[i] = ((1..Files[i]) \ (1..n)) \ {n + 1}
      BY <1>a, <1>c, <2>1, <2>2 DEF TypeOK
    <3>2. todo'[i] = (1..Files[i]) \ versions'
      BY <1>b, <2>4, <3>1
    <3> QED BY <1>1, <3>2 DEF KnowsTable
  <2>9. TableIsTrue'
    <3>1. n + 1 \notin versions
      BY <1>b
    <3>2. runs[n + 1] = 0
      BY <1>a, <2>3, <3>1 DEF TableIsTrue
    <3>3. runs'[n + 1] = 1 /\ \A v \in Version : v # n + 1 => runs'[v] = runs[v]
      BY <1>e, <2>3, <2>4, <3>2
    <3> QED BY <1>a, <2>4, <3>3 DEF TableIsTrue
  <2>10. UpMeansMigrated'
    BY <1>a, <1>c, <2>4 DEF UpMeansMigrated
  <2> QED BY <1>g, <1>h, <1>i, <2>6, <2>7, <2>8, <2>9, <2>10 DEF IInv
<1>2. CASE Cmd[i] # "up"
  <2>1. Cmd[i] = "down"
    BY <1>2, ConstantsAssumption
  <2>2. PICK v \in todo[i] : TRUE
    BY <1>c
  <2>3. \A w \in todo[i] : w \in versions /\ \A u \in versions : u <= w
    BY <1>a, <1>c, <2>1 DEF KnowsTable
  <2>4. v = n /\ n \in versions /\ n # 0
    <3>1. v \in 1..n /\ \A u \in 1..n : u <= v
      BY <1>b, <2>2, <2>3
    <3> QED BY <1>b, <3>1
  <2>5. todo[i] = {n}
    <3>1. \A w \in todo[i] : w \in 1..n /\ \A u \in 1..n : u <= w
      BY <1>b, <2>3
    <3>2. \A w \in todo[i] : w = n
      BY <1>b, <2>4, <3>1
    <3> QED BY <2>2, <2>4, <3>2
  <2>6. NextFile(i) = n
    <3>1. \A x \in {n} : (\A w \in {n} : x <= w) <=> x = n
      BY <1>b
    <3> QED BY <2>5, <3>1 DEF NextFile, Min
  <2>7. /\ versions' = versions \ {n} /\ undone' = TRUE
        /\ runs' = [runs EXCEPT ![n] = runs[n] - 1]
    BY <1>2, <2>6 DEF RunFile
  <2>8. versions' = 1..(n - 1) /\ n - 1 \in Nat
    BY <1>b, <2>4, <2>7
  <2>9. n \in Version
    BY <1>a, <2>4 DEF TypeOK
  <2>10. TypeOK'
    <3>1. runs[n] - 1 \in Int
      BY <1>e, <2>9
    <3>2. runs' \in [Version -> Int]
      BY <1>e, <2>7, <2>9, <3>1
    <3>3. versions' \subseteq Version
      BY <1>a, <2>7 DEF TypeOK
    <3> QED BY <1>a, <1>c, <1>f, <2>7, <3>2, <3>3 DEF TypeOK
  <2>11. Contiguous'
    BY <2>8 DEF Contiguous
  <2>12. KnowsTable(i)'
    <3>1. todo'[i] = {}
      BY <1>a, <1>c, <2>5, <2>6 DEF TypeOK
    <3> QED BY <2>1, <3>1 DEF KnowsTable
  <2>13. TableIsTrue'
    <3>1. runs[n] = 1
      BY <1>a, <2>4, <2>9 DEF TableIsTrue
    <3>2. runs'[n] = 0 /\ \A u \in Version : u # n => runs'[u] = runs[u]
      BY <1>e, <2>7, <2>9, <3>1
    <3> QED BY <1>a, <2>7, <3>2 DEF TableIsTrue
  <2>14. UpMeansMigrated'
    BY <2>7 DEF UpMeansMigrated
  <2> QED BY <1>g, <1>h, <1>i, <2>10, <2>11, <2>12, <2>13, <2>14 DEF IInv
<1> QED BY <1>1, <1>2

LEMMA FileFailsKeeps ==
  ASSUME IInv, NEW i \in Instances, FileFails(i)
  PROVE  IInv'
<1> USE DEF IInv, Goto
<1>a. /\ pc[i] = "working" /\ pc' = [pc EXCEPT ![i] = "giving up"]
      /\ pc \in [Instances -> Running \union {"done", "failed", "killed"}]
      /\ UNCHANGED <<tries, lock, versions, todo, runs, undone>>
  BY DEF FileFails, TypeOK
<1>1. TypeOK'
  BY <1>a DEF TypeOK, Running, Holding
<1>2. LockIsExact'
  BY <1>a DEF LockIsExact, Holding
<1>3. \A j \in Instances : KnowsTable(j)' /\ TriesLeft(j)'
  BY <1>a DEF KnowsTable, TriesLeft
<1>4. UpMeansMigrated' /\ Contiguous' /\ TableIsTrue'
  BY <1>a DEF UpMeansMigrated, Contiguous, TableIsTrue
<1> QED BY <1>1, <1>2, <1>3, <1>4

LEMMA UnlockKeeps ==
  ASSUME IInv, NEW i \in Instances, Unlock(i)
  PROVE  IInv'
<1> USE DEF IInv, Goto
<1>a. /\ pc \in [Instances -> Running \union {"done", "failed", "killed"}]
      /\ pc[i] \in Holding /\ lock = i /\ lock' = NoOne
      /\ UNCHANGED <<tries, versions, todo, runs, undone>>
  BY DEF Unlock, TypeOK, LockIsExact, Holding
<1>b. PICK last \in {"done", "failed"} :
        /\ pc' = [pc EXCEPT ![i] = last]
        /\ last = "done" => pc[i] = "working" /\ todo[i] = {}
  BY DEF Unlock
<1>1. TypeOK'
  BY <1>a, <1>b DEF TypeOK, Running, Holding
<1>2. LockIsExact'
  BY <1>a, <1>b, ConstantsAssumption DEF LockIsExact, Holding
<1>3. \A j \in Instances : KnowsTable(j)' /\ TriesLeft(j)'
  BY <1>a, <1>b DEF KnowsTable, TriesLeft
<1>4. Contiguous' /\ TableIsTrue'
  BY <1>a DEF Contiguous, TableIsTrue
<1>5. UpMeansMigrated'
  <2>1. last = "done" /\ Cmd[i] = "up" => 1..Files[i] \subseteq versions
    BY <1>b DEF KnowsTable
  <2> QED BY <1>a, <1>b, <2>1 DEF UpMeansMigrated
<1> QED BY <1>1, <1>2, <1>3, <1>4, <1>5

LEMMA KillKeeps ==
  ASSUME IInv, NEW i \in Instances, Kill(i)
  PROVE  IInv'
<1> USE DEF IInv, Goto
<1>a. /\ pc \in [Instances -> Running \union {"done", "failed", "killed"}]
      /\ pc' = [pc EXCEPT ![i] = "killed"]
      /\ lock' = IF lock = i THEN NoOne ELSE lock
      /\ UNCHANGED <<tries, versions, todo, runs, undone>>
  BY DEF Kill, TypeOK
<1>1. TypeOK'
  BY <1>a DEF TypeOK
<1>2. LockIsExact'
  BY <1>a, ConstantsAssumption DEF LockIsExact, Holding
<1>3. \A j \in Instances : KnowsTable(j)' /\ TriesLeft(j)'
  BY <1>a DEF KnowsTable, TriesLeft
<1>4. UpMeansMigrated' /\ Contiguous' /\ TableIsTrue'
  BY <1>a DEF UpMeansMigrated, Contiguous, TableIsTrue
<1> QED BY <1>1, <1>2, <1>3, <1>4

LEMMA NextKeeps == IInv /\ [Next]_vars => IInv'
<1> SUFFICES ASSUME IInv, [Next]_vars PROVE IInv'
  OBVIOUS
<1>1. ASSUME NEW i \in Instances, Step(i) \/ Kill(i) PROVE IInv'
  BY <1>1, OpenKeeps, PeekKeeps, TryLockKeeps, DecideKeeps, RunFileKeeps,
     FileFailsKeeps, UnlockKeeps, KillKeeps DEF Step
<1>2. CASE UNCHANGED vars
  BY <1>2 DEF vars, IInv, TypeOK, LockIsExact, Contiguous, KnowsTable, TriesLeft,
              TableIsTrue, UpMeansMigrated
<1> QED BY <1>1, <1>2 DEF Next

LEMMA InvariantHolds == Spec => []IInv
BY InitIsSound, NextKeeps, PTL DEF Spec

(* Every process is where migrate can be and tries the lock at most        *)
(* MaxTries times (cli/migrate.go, the lock's failure threshold).          *)
THEOREM TypeCorrect == Spec => []TypeOK
<1>1. IInv => TypeOK
  BY DEF IInv
<1> QED BY <1>1, InvariantHolds, PTL

(* The advisory lock is held exactly by the process at work, whichever way *)
(* the others have ended: two never migrate at once, none waits in vain.   *)
THEOREM LockCorrect == Spec => []LockIsExact
<1>1. IInv => LockIsExact
  BY DEF IInv
<1> QED BY <1>1, InvariantHolds, PTL

(* The version table says what has been run, through concurrent starts,    *)
(* roll-backs, failing files and kills.                                    *)
THEOREM TableCorrect == Spec => []TableIsTrue
<1>1. IInv => TableIsTrue
  BY DEF IInv
<1> QED BY <1>1, InvariantHolds, PTL

(* The version table has no gaps, for any mix of releases.                 *)
THEOREM NoGapsCorrect == Spec => []NoGaps
<1>1. Contiguous => NoGaps
  <2>1. \A n \in Nat : \A v \in 1..n : 1..v \subseteq 1..n
    OBVIOUS
  <2> QED BY <2>1 DEF Contiguous, NoGaps
<1>2. IInv => NoGaps
  BY <1>1 DEF IInv
<1> QED BY <1>2, InvariantHolds, PTL

(* A process whose up has succeeded finds the schema of its release, as    *)
(* long as nobody rolls back.                                              *)
THEOREM MigratedCorrect == Spec => []UpMeansMigrated
<1>1. IInv => UpMeansMigrated
  BY DEF IInv
<1> QED BY <1>1, InvariantHolds, PTL
=============================================================================
