--------------------------- MODULE AshJobs_proofs ---------------------------
(***************************************************************************)
(* The job table of AshJobs for any number of jobs, signals and pids, with *)
(* stale references and recycled pids allowed: no assumption on StaleRefs  *)
(* or RecyclePids is used, unless a theorem says so.                       *)
(***************************************************************************)
EXTENDS AshJobs, SequenceTheorems, TLAPS


Vals == {"none", "running", "exited", "stolen", "sending", "closing", "ended"}

\* A fate and the statuses computed from it.
LEMMA FateTypes ==
    /\ Alive \in Fates
    /\ \A c \in Codes : Exit(c) \in Fates /\ c \in Statuses
    /\ \A s \in Signals : Died(s) \in Fates /\ SignalExitStatus(s) \in Statuses
    /\ 0 \in Statuses /\ ExitFailure \in Statuses
    /\ \A f \in Fates : ShellStatus(f) \in Statuses /\ GoExitCode(f) \in Statuses
<1>1. /\ Alive \in Fates
      /\ \A c \in Codes : Exit(c) \in Fates /\ c \in Statuses
      /\ \A s \in Signals : Died(s) \in Fates /\ SignalExitStatus(s) \in Statuses
      /\ 0 \in Statuses /\ ExitFailure \in Statuses /\ -1 \in Statuses
  BY DEF Fates, Statuses
<1>2. ASSUME NEW f \in Fates
      PROVE  ShellStatus(f) \in Statuses /\ GoExitCode(f) \in Statuses
  <2>1. CASE f = Alive
    BY <2>1, <1>1 DEF Alive, ShellStatus, GoExitCode
  <2>2. ASSUME NEW c \in Codes, f = Exit(c) PROVE <1>2!2
    BY <2>2, <1>1 DEF Exit, ShellStatus, GoExitCode
  <2>3. ASSUME NEW s \in Signals, f = Died(s) PROVE <1>2!2
    BY <2>3, <1>1 DEF Died, ShellStatus, GoExitCode
  <2> QED BY <2>1, <2>2, <2>3 DEF Fates
<1> QED BY <1>1, <1>2

\* Offer keeps a bounded channel a bounded channel.
LEMMA OfferType ==
    ASSUME NEW S, NEW q \in Seq(S), NEW s \in S, Len(q) <= SigCap
    PROVE  Offer(q, s) \in Seq(S) /\ Len(Offer(q, s)) <= SigCap
  BY JobsAssumption DEF Offer

\* What dropping one entry of a sequence does.
LEMMA RemoveAtFacts ==
    ASSUME NEW S, NEW q \in Seq(S), NEW i \in 1..Len(q)
    PROVE  /\ RemoveAt(q, i) \in Seq(S)
           /\ Len(RemoveAt(q, i)) = Len(q) - 1
           /\ \A k \in 1..(Len(q) - 1) :
                RemoveAt(q, i)[k] = IF k < i THEN q[k] ELSE q[k + 1]
<1> DEFINE before == SubSeq(q, 1, i - 1)
           after  == SubSeq(q, i + 1, Len(q))
<1>1. before \in Seq(S) /\ Len(before) = i - 1 /\ \A k \in 1..(i - 1) : before[k] = q[k]
  BY SubSeqProperties
<1>2. /\ after \in Seq(S) /\ Len(after) = Len(q) - i
      /\ \A k \in 1..(Len(q) - i) : after[k] = q[i + k]
  BY SubSeqProperties
<1>3. RemoveAt(q, i) = before \o after
  BY DEF RemoveAt
<1> HIDE DEF before, after
<1>4. /\ before \o after \in Seq(S) /\ Len(before \o after) = Len(q) - 1
      /\ \A k \in 1..(Len(q) - 1) :
            (before \o after)[k] = IF k <= i - 1 THEN before[k] ELSE after[k - (i - 1)]
  BY <1>1, <1>2, ConcatProperties
<1>5. ASSUME NEW k \in 1..(Len(q) - 1)
      PROVE  (before \o after)[k] = IF k < i THEN q[k] ELSE q[k + 1]
  <2>1. CASE k < i
    BY <2>1, <1>1, <1>4
  <2>2. CASE ~(k < i)
    <3>1. k - (i - 1) \in 1..(Len(q) - i) /\ i + (k - (i - 1)) = k + 1
      BY <2>2
    <3> QED BY <2>2, <3>1, <1>2, <1>4
  <2> QED BY <2>1, <2>2
<1> QED BY <1>3, <1>4, <1>5

\* An increasing sequence of ids stays increasing when one id is dropped, and
\* loses that id and no other.
LEMMA RemoveFromOrder ==
    ASSUME NEW q \in Seq(Ids),
           \A a, b \in 1..Len(q) : a < b => q[a] < q[b],
           NEW i \in 1..Len(q)
    PROVE  /\ RemoveAt(q, i) \in Seq(Ids)
           /\ \A a, b \in 1..Len(RemoveAt(q, i)) :
                a < b => RemoveAt(q, i)[a] < RemoveAt(q, i)[b]
           /\ {RemoveAt(q, i)[a] : a \in 1..Len(RemoveAt(q, i))}
                = {q[a] : a \in 1..Len(q)} \ {q[i]}
<1> DEFINE r == RemoveAt(q, i)
<1>1. /\ r \in Seq(Ids) /\ Len(r) = Len(q) - 1
      /\ \A k \in 1..(Len(q) - 1) : r[k] = IF k < i THEN q[k] ELSE q[k + 1]
  BY RemoveAtFacts
<1> HIDE DEF r
<1>0. \A a \in 1..Len(q) : q[a] \in Int
  BY JobsAssumption DEF Ids
<1>2. \A a, b \in 1..Len(r) : a < b => r[a] < r[b]
  BY <1>1
<1>3. \A a \in 1..Len(r) : r[a] \in {q[b] : b \in 1..Len(q)} \ {q[i]}
  <2> TAKE a \in 1..Len(r)
  <2>1. CASE a < i
    <3>1. r[a] = q[a] /\ q[a] < q[i]
      BY <1>1, <2>1
    <3> QED BY <3>1, <1>0, <1>1
  <2>2. CASE ~(a < i)
    <3>1. r[a] = q[a + 1] /\ q[i] < q[a + 1] /\ a + 1 \in 1..Len(q)
      BY <1>1, <2>2
    <3> QED BY <3>1, <1>0
  <2> QED BY <2>1, <2>2
<1>4. \A b \in 1..Len(q) : q[b] # q[i] => q[b] \in {r[a] : a \in 1..Len(r)}
  <2> TAKE b \in 1..Len(q)
  <2> HAVE q[b] # q[i]
  <2>1. CASE b < i
    <3>1. b \in 1..Len(r) /\ r[b] = q[b]
      BY <1>1, <2>1
    <3> QED BY <3>1
  <2>2. CASE b > i
    <3>1. b - 1 \in 1..Len(r) /\ r[b - 1] = q[b]
      BY <1>1, <2>2
    <3> QED BY <3>1
  <2>3. b < i \/ b > i
    OBVIOUS
  <2> QED BY <2>1, <2>2, <2>3
<1>5. {r[a] : a \in 1..Len(r)} = {q[a] : a \in 1..Len(q)} \ {q[i]}
  BY <1>3, <1>4
<1> QED BY <1>1, <1>2, <1>5 DEF r

-----------------------------------------------------------------------------
(* The inductive invariant.                                                 *)

IInv == TypeOK /\ JobsInv

LEMMA InitInv == Init => IInv
<1> SUFFICES ASSUME Init PROVE IInv
  OBVIOUS
<1> USE JobsAssumption DEF Init, Ids
<1>1. TypeOK
  <2>1. /\ jobs \subseteq Ids /\ jobOrder \in Seq(Ids)
        /\ DOMAIN jobByPid \subseteq Pids \cup {-j : j \in Ids}
        /\ \A p \in DOMAIN jobByPid : jobByPid[p] \in Ids
        /\ nextJobID \in 1..(MaxJobs + 1)
        /\ lastBgPid \in Pids \cup {-j : j \in Ids} \cup {0}
        /\ pid \in [Ids -> Pids \cup {-j : j \in Ids} \cup {0}]
    OBVIOUS
  <2>2. /\ ch \in [Ids -> [buf : Seq(Statuses), closed : BOOLEAN]]
        /\ inbox \in [Ids -> Seq(Signals \cup {0})]
        /\ \A j \in Ids : Len(inbox[j]) <= SigCap /\ Len(ch[j].buf) <= 1
        /\ told \in [Ids -> Seq(Statuses)]
    OBVIOUS
  <2>3. /\ lastStatus \in Statuses /\ status \in Statuses
        /\ code \in [Ids -> Statuses] /\ fate \in [Ids -> Fates]
    BY FateTypes
  <2>4. /\ worker \in [Ids -> {"none", "running", "exited", "stolen", "sending",
                               "closing", "ended"}]
    OBVIOUS
  <2>5. pc \in {"signals", "ready", "wait", "receive", "wait4", "exited"}
    OBVIOUS
  <2>6. signalCh \in Seq(Signals) /\ Len(signalCh) <= SigCap
    OBVIOUS
  <2>8. waitAll \in BOOLEAN
    BY Zenon
  <2>7. traps \in [Signals -> Actions]
    OBVIOUS
  <2> HIDE DEF Init
  <2> QED BY <2>1, <2>2, <2>3, <2>4, <2>5, <2>6, <2>7, <2>8 DEF TypeOK, TableOK, TasksOK, MainOK
<1>2. JobsInv
  BY DEF JobsInv, OrderConsistent, StatusStillToCome, ToldOnce
<1> QED BY <1>1, <1>2 DEF IInv

\* Steps that leave the table alone, and move a goroutine at most between the
\* states in which it has not sent yet.
Unsent == {"running", "exited", "stolen", "sending"}

LEMMA TableKept ==
    /\ IInv
    /\ table' = table /\ pid' = pid /\ ch' = ch /\ told' = told
    /\ \A j \in Ids : \/ worker'[j] = worker[j]
                      \/ worker[j] \in Unsent /\ worker'[j] \in Unsent
    /\ pc' = "receive" => target' \in jobs
    => JobsInv'
<1> HAVE /\ IInv
         /\ table' = table /\ pid' = pid /\ ch' = ch /\ told' = told
         /\ \A j \in Ids : \/ worker'[j] = worker[j]
                           \/ worker[j] \in Unsent /\ worker'[j] \in Unsent
         /\ pc' = "receive" => target' \in jobs
<1> USE DEF IInv, JobsInv, table, Unsent
<1>1. (\A j \in Ids : worker[j] = "none" <=> j >= nextJobID)'
  OBVIOUS
<1>2. (\A j \in Ids : worker[j] \notin {"closing", "ended"} =>
          ch[j].buf = <<>> /\ ~ch[j].closed)'
  OBVIOUS
<1>3. (\A j \in Ids : worker[j] # "none" => pid[j] \in {-j} \cup Pids)'
  OBVIOUS
<1>4. OrderConsistent'
  BY DEF OrderConsistent
<1>5. StatusStillToCome'
  BY DEF StatusStillToCome, TypeOK, TableOK, TasksOK, MainOK
<1>6. ToldOnce'
  BY DEF ToldOnce
<1> QED BY <1>1, <1>2, <1>3, <1>4, <1>5, <1>6

\* What the invariant says of ids and of the order of the table.
LEMMA OrderFacts ==
    ASSUME IInv
    PROVE  /\ Ids \subseteq Int /\ nextJobID \in Int /\ nextJobID >= 1
           /\ nextJobID <= MaxJobs + 1
           /\ jobs \subseteq Ids /\ \A j \in jobs : j < nextJobID
           /\ jobOrder \in Seq(Ids)
           /\ jobs = {jobOrder[i] : i \in 1..Len(jobOrder)}
           /\ \A i, k \in 1..Len(jobOrder) : i < k => jobOrder[i] < jobOrder[k]
<1>1. /\ Ids \subseteq Int /\ nextJobID \in Int /\ nextJobID >= 1
      /\ nextJobID <= MaxJobs + 1
      /\ jobs \subseteq Ids /\ \A j \in jobs : j < nextJobID
  BY JobsAssumption DEF IInv, TypeOK, TableOK, TasksOK, MainOK, JobsInv, Ids
<1>2. jobOrder \in Seq(Ids) /\ DOMAIN jobOrder = 1..Len(jobOrder)
  BY DEF IInv, TypeOK, TableOK, TasksOK, MainOK
<1>3. OrderConsistent
  BY DEF IInv, JobsInv
<1> QED BY <1>1, <1>2, <1>3 DEF OrderConsistent

\* addJob.
LEMMA AddJobInv ==
    ASSUME IInv, NEW p, AddJob(p), nextJobID \in Ids,
           p \in {-nextJobID} \cup Pids, pc' # "receive", told' = told
    PROVE  JobsInv'
<1>0. /\ nextJobID' = nextJobID + 1 /\ jobs' = jobs \cup {nextJobID}
      /\ jobOrder' = Append(jobOrder, nextJobID)
      /\ \A j \in Ids : j # nextJobID => /\ pid'[j] = pid[j] /\ worker'[j] = worker[j]
                                        /\ ch'[j] = ch[j]
      /\ pid'[nextJobID] = p /\ worker'[nextJobID] = "running"
      /\ ch'[nextJobID] = [buf |-> <<>>, closed |-> FALSE]
  BY DEF AddJob, IInv, TypeOK, TableOK, TasksOK, MainOK
<1>1. (\A j \in Ids : worker[j] = "none" <=> j >= nextJobID)'
  BY <1>0, OrderFacts DEF IInv, JobsInv
<1>2. (\A j \in jobs : j < nextJobID)'
  BY <1>0, OrderFacts
<1>3. (\A j \in Ids : worker[j] \notin {"closing", "ended"} =>
          ch[j].buf = <<>> /\ ~ch[j].closed)'
  BY <1>0 DEF IInv, JobsInv
<1>4. (\A q \in DOMAIN jobByPid : jobByPid[q] \in jobs /\ pid[jobByPid[q]] = q)'
  <2>1. /\ DOMAIN jobByPid' = DOMAIN jobByPid \cup {p}
        /\ jobByPid'[p] = nextJobID
        /\ \A q \in DOMAIN jobByPid \ {p} : jobByPid'[q] = jobByPid[q]
    BY DEF AddJob
  <2>2. \A q \in DOMAIN jobByPid :
            jobByPid[q] \in jobs /\ pid[jobByPid[q]] = q /\ jobByPid[q] # nextJobID
    BY OrderFacts DEF IInv, JobsInv
  <2>3. ASSUME NEW q \in DOMAIN jobByPid'
        PROVE  jobByPid'[q] \in jobs' /\ pid'[jobByPid'[q]] = q
    <3>1. CASE q = p
      BY <1>0, <2>1, <3>1
    <3>2. CASE q # p
      <4>1. q \in DOMAIN jobByPid /\ jobByPid'[q] = jobByPid[q]
        BY <2>1, <3>2
      <4>2. jobByPid[q] \in Ids
        BY <4>1, <2>2, OrderFacts
      <4> QED BY <1>0, <2>2, <4>1, <4>2
    <3> QED BY <3>1, <3>2
  <2> QED BY <2>3
<1>5. (\A j \in Ids : worker[j] # "none" => pid[j] \in {-j} \cup Pids)'
  BY <1>0 DEF IInv, JobsInv
<1>6. OrderConsistent'
  <2>1. /\ Len(jobOrder') = Len(jobOrder) + 1
        /\ jobOrder'[Len(jobOrder) + 1] = nextJobID
        /\ \A i \in 1..Len(jobOrder) : jobOrder'[i] = jobOrder[i] /\ jobOrder[i] \in jobs
        /\ DOMAIN jobOrder' = 1..(Len(jobOrder) + 1)
        /\ Len(jobOrder) \in Nat
    BY <1>0, OrderFacts
  <2>2. jobs' = {jobOrder'[i] : i \in DOMAIN jobOrder'}
    <3>1. ASSUME NEW j \in jobs PROVE j \in {jobOrder'[i] : i \in DOMAIN jobOrder'}
      <4>1. PICK i \in 1..Len(jobOrder) : jobOrder[i] = j
        BY OrderFacts
      <4> QED BY <4>1, <2>1
    <3>2. Len(jobOrder) + 1 \in DOMAIN jobOrder'
      BY <2>1
    <3>3. \A i \in DOMAIN jobOrder' : i = Len(jobOrder) + 1 \/ i \in 1..Len(jobOrder)
      BY <2>1
    <3> QED BY <1>0, <2>1, <3>1, <3>2, <3>3
  <2>3. ASSUME NEW i \in DOMAIN jobOrder', NEW k \in DOMAIN jobOrder', i < k
        PROVE  jobOrder'[i] < jobOrder'[k]
    <3>1. i \in 1..Len(jobOrder)
      BY <2>1, <2>3
    <3>2. CASE k = Len(jobOrder) + 1
      BY <2>1, <3>1, <3>2, OrderFacts
    <3>3. CASE k \in 1..Len(jobOrder)
      BY <2>1, <2>3, <3>1, <3>3, OrderFacts
    <3> QED BY <2>1, <3>2, <3>3
  <2> QED BY <2>2, <2>3 DEF OrderConsistent
<1>7. StatusStillToCome'
  BY <1>0, OrderFacts DEF StatusStillToCome, IInv, JobsInv
<1>8. ToldOnce'
  <2>1. \A j \in Ids : j \in jobs' \/ j >= nextJobID' <=> j \in jobs \/ j >= nextJobID
    BY <1>0, OrderFacts
  <2> QED BY <2>1 DEF ToldOnce, IInv, JobsInv
<1> QED BY <1>1, <1>2, <1>3, <1>4, <1>5, <1>6, <1>7, <1>8 DEF JobsInv

\* removeJob, of a tracked job whose status has just been received.
LEMMA ReceiveInv ==
    ASSUME IInv, Receive
    PROVE  JobsInv'
<1>0. /\ target \in jobs /\ target \in Ids /\ jobs' = jobs \ {target} /\ pc' = "wait"
      /\ nextJobID' = nextJobID /\ worker' = worker /\ pid' = pid
      /\ jobByPid' = [q \in DOMAIN jobByPid \ {pid[target]} |-> jobByPid[q]]
      /\ \A j \in Ids \ {target} : ch'[j] = ch[j] /\ told'[j] = told[j]
      /\ told'[target] = Append(told[target], status')
  BY OrderFacts DEF Receive, RemoveJob, IInv, JobsInv, TypeOK, TableOK, TasksOK, MainOK
<1>1. (\A j \in Ids : worker[j] = "none" <=> j >= nextJobID)'
  BY <1>0 DEF IInv, JobsInv
<1>2. (\A j \in jobs : j < nextJobID)'
  BY <1>0, OrderFacts
<1>3. (\A j \in Ids : worker[j] \notin {"closing", "ended"} =>
          ch[j].buf = <<>> /\ ~ch[j].closed)'
  <2>1. worker[target] \in {"closing", "ended"}
    BY <1>0 DEF Receive, IInv, JobsInv
  <2> QED BY <1>0, <2>1 DEF IInv, JobsInv
<1>4. (\A q \in DOMAIN jobByPid : jobByPid[q] \in jobs /\ pid[jobByPid[q]] = q)'
  BY <1>0 DEF IInv, JobsInv
<1>5. (\A j \in Ids : worker[j] # "none" => pid[j] \in {-j} \cup Pids)'
  BY <1>0 DEF IInv, JobsInv
<1>6. OrderConsistent'
  <2> DEFINE first == {i \in DOMAIN jobOrder :
                          /\ jobOrder[i] = target
                          /\ \A k \in 1..(i - 1) : jobOrder[k] # target}
  <2>1. PICK n \in 1..Len(jobOrder) : jobOrder[n] = target
    BY <1>0, OrderFacts
  <2>2. n \in first
    <3>1. \A k \in 1..(n - 1) : k \in 1..Len(jobOrder) /\ k < n
      BY <2>1, OrderFacts
    <3>2. \A k \in 1..(n - 1) : jobOrder[k] < jobOrder[n] /\ jobOrder[k] \in Int
      BY <3>1, OrderFacts
    <3>3. \A k \in 1..(n - 1) : jobOrder[k] # target
      BY <2>1, <3>2
    <3> QED BY <2>1, <3>3, OrderFacts
  <2>3. PICK i \in first : jobOrder' = RemoveAt(jobOrder, i)
    BY <2>2 DEF Receive, RemoveJob
  <2>4. i \in 1..Len(jobOrder) /\ jobOrder[i] = target
    BY <2>3, OrderFacts
  <2> HIDE DEF first
  <2>5. /\ jobOrder' \in Seq(Ids)
        /\ \A a, b \in 1..Len(jobOrder') : a < b => jobOrder'[a] < jobOrder'[b]
        /\ {jobOrder'[a] : a \in 1..Len(jobOrder')}
             = {jobOrder[a] : a \in 1..Len(jobOrder)} \ {jobOrder[i]}
    <3>1. /\ jobOrder \in Seq(Ids) /\ i \in 1..Len(jobOrder)
          /\ \A a, b \in 1..Len(jobOrder) : a < b => jobOrder[a] < jobOrder[b]
      BY <2>4, OrderFacts
    <3> QED BY <2>3, <3>1, RemoveFromOrder
  <2>6. DOMAIN jobOrder' = 1..Len(jobOrder')
    BY <2>5
  <2> QED BY <1>0, <2>4, <2>5, <2>6, OrderFacts DEF OrderConsistent
<1>7. StatusStillToCome'
  BY <1>0, OrderFacts DEF StatusStillToCome, IInv, JobsInv
<1>8. ToldOnce'
  <2>1. told[target] \in Seq(Statuses) /\ Len(told[target]) = 0
    BY <1>0 DEF IInv, JobsInv, ToldOnce, TypeOK, TableOK, TasksOK, MainOK
  <2>2. Len(told'[target]) = 1
    BY <1>0, <2>1
  <2>3. ~(target \in jobs' \/ target >= nextJobID')
    BY <1>0, OrderFacts
  <2>4. \A j \in Ids \ {target} : j \in jobs' \/ j >= nextJobID' <=> j \in jobs \/ j >= nextJobID
    BY <1>0
  <2> QED BY <1>0, <2>2, <2>3, <2>4 DEF ToldOnce, IInv, JobsInv
<1> QED BY <1>0, <1>1, <1>2, <1>3, <1>4, <1>5, <1>6, <1>7, <1>8 DEF JobsInv

\* The last two steps of the goroutine of a job.
LEMMA SendInv ==
    ASSUME IInv, NEW j \in Ids, Send(j) \/ Close(j)
    PROVE  JobsInv'
<1>0. /\ UNCHANGED <<table, pid, pc, target, told>>
      /\ \A i \in Ids \ {j} : worker'[i] = worker[i] /\ ch'[i] = ch[i]
      /\ worker[j] \in {"sending", "closing"} /\ worker'[j] \in {"closing", "ended"}
      /\ \/ ch'[j].buf = <<code[j]>>
         \/ worker[j] = "closing" /\ ch'[j].buf = ch[j].buf
  <2> USE DEF waitvars, IInv, TypeOK, TasksOK
  <2>1. CASE Send(j)
    <3>1. ch'[j].buf = Append(ch[j].buf, code[j]) /\ ch[j].buf = <<>>
      BY <2>1 DEF Send
    <3>2. ch'[j].buf = <<code[j]>>
      BY <3>1
    <3> QED BY <2>1, <3>2 DEF Send
  <2>2. CASE Close(j)
    BY <2>2 DEF Close
  <2> QED BY <2>1, <2>2
<1>1. (\A i \in Ids : worker[i] = "none" <=> i >= nextJobID)'
  BY <1>0 DEF IInv, JobsInv, table
<1>3. (\A i \in Ids : worker[i] \notin {"closing", "ended"} =>
          ch[i].buf = <<>> /\ ~ch[i].closed)'
  BY <1>0 DEF IInv, JobsInv
<1>5. (\A i \in Ids : worker[i] # "none" => pid[i] \in {-i} \cup Pids)'
  BY <1>0 DEF IInv, JobsInv
<1>6. OrderConsistent' /\ ToldOnce'
  BY <1>0 DEF OrderConsistent, ToldOnce, IInv, JobsInv, table
<1>7. StatusStillToCome'
  <2>1. \A i \in jobs \ {j} : ch'[i] = ch[i] /\ worker'[i] = worker[i] /\ jobs' = jobs
    BY <1>0, OrderFacts DEF table
  <2>2. j \in jobs => ch'[j].buf # <<>>
    <3>1. CASE ch'[j].buf = <<code[j]>>
      BY <3>1
    <3>2. CASE worker[j] = "closing" /\ ch'[j].buf = ch[j].buf
      BY <3>2 DEF IInv, JobsInv, StatusStillToCome
    <3> QED BY <1>0, <3>1, <3>2
  <2> QED BY <1>0, <2>1, <2>2 DEF StatusStillToCome, IInv, JobsInv, table
<1> QED BY <1>0, <1>1, <1>3, <1>5, <1>6, <1>7 DEF IInv, JobsInv, table

-----------------------------------------------------------------------------
(* Types.                                                                   *)

LEMMA TableOKKept == ASSUME TableOK, UNCHANGED table PROVE TableOK'
  BY DEF TableOK, table

LEMMA AddJobTypes ==
    ASSUME IInv, nextJobID \in Ids, NEW p \in {-nextJobID} \cup Pids, AddJob(p)
    PROVE  TableOK' /\ TasksOK'
<1>1. /\ jobs' \subseteq Ids /\ jobOrder' \in Seq(Ids)
      /\ lastBgPid' \in Pids \cup {-j : j \in Ids} \cup {0}
  BY DEF AddJob, IInv, TypeOK, TableOK
<1>4. nextJobID' \in 1..(MaxJobs + 1)
  BY JobsAssumption DEF AddJob, Ids
<1>2. /\ DOMAIN jobByPid' \subseteq Pids \cup {-j : j \in Ids}
      /\ \A q \in DOMAIN jobByPid' : jobByPid'[q] \in Ids
  BY DEF AddJob, IInv, TypeOK, TableOK
<1>3. TasksOK'
  BY DEF AddJob, IInv, TypeOK, TasksOK
<1> QED BY <1>1, <1>2, <1>3, <1>4 DEF TableOK

LEMMA ReceiveTypes == ASSUME IInv, Receive PROVE TypeOK'
<1>0. target \in Ids /\ target \in jobs
  BY OrderFacts DEF Receive, IInv, JobsInv
<1>1. TableOK'
  <2>1. jobOrder' \in Seq(Ids)
    <3>1. CASE jobOrder' = jobOrder
      BY <3>1, OrderFacts
    <3>2. ASSUME NEW i \in DOMAIN jobOrder, jobOrder' = RemoveAt(jobOrder, i)
          PROVE  jobOrder' \in Seq(Ids)
      BY <3>2, OrderFacts, RemoveAtFacts
    <3> QED BY <3>1, <3>2 DEF Receive, RemoveJob
  <2> QED BY <2>1 DEF Receive, RemoveJob, IInv, TypeOK, TableOK
<1>2. status' \in Statuses /\ ch' \in [Ids -> [buf : Seq(Statuses), closed : BOOLEAN]]
      /\ \A j \in Ids : Len(ch'[j].buf) <= 1
  <2>1. CASE ch[target].buf # <<>> /\ status' = Head(ch[target].buf)
             /\ ch' = [ch EXCEPT ![target].buf = Tail(@)]
    <3>1. /\ ch \in [Ids -> [buf : Seq(Statuses), closed : BOOLEAN]]
          /\ \A j \in Ids : Len(ch[j].buf) <= 1
      BY DEF IInv, TypeOK, TasksOK
    <3>2. ch[target].buf \in Seq(Statuses) /\ ch[target].buf # <<>>
      BY <1>0, <2>1, <3>1
    <3>3. /\ Head(ch[target].buf) \in Statuses
          /\ Tail(ch[target].buf) \in Seq(Statuses) /\ Len(Tail(ch[target].buf)) <= 1
      BY <1>0, <3>1, <3>2
    <3>4. [ch[target] EXCEPT !.buf = Tail(@)] \in [buf : Seq(Statuses), closed : BOOLEAN]
      BY <1>0, <3>1, <3>3
    <3> QED BY <1>0, <2>1, <3>1, <3>3, <3>4
  <2>2. CASE status' = 0 /\ UNCHANGED ch
    BY <2>2, FateTypes DEF IInv, TypeOK, TasksOK
  <2> QED BY <2>1, <2>2 DEF Receive
<1>3. TasksOK'
  BY <1>2 DEF Receive, IInv, TypeOK, TasksOK
<1>4. told' \in [Ids -> Seq(Statuses)]
  BY <1>0, <1>2 DEF Receive, IInv, TypeOK, MainOK
<1>5. MainOK'
  BY <1>2, <1>4 DEF Receive, IInv, TypeOK, MainOK, sigs
<1> QED BY <1>1, <1>3, <1>5 DEF TypeOK

\* A task ends, with a status that is one.
LEMMA EndTaskTypes ==
    ASSUME IInv, NEW j \in Ids, NEW f \in Fates, NEW w \in Unsent,
           NEW c \in Statuses, EndTask(j, f, w, c),
           inbox' \in [Ids -> Seq(Signals \cup {0})],
           \A i \in Ids : Len(inbox'[i]) <= SigCap
    PROVE  TypeOK'
<1>1. TableOK' /\ MainOK'
  BY TableOKKept DEF EndTask, IInv, TypeOK, MainOK, sigs, waitvars
<1>2. TasksOK'
  BY DEF EndTask, IInv, TypeOK, TasksOK, Unsent
<1> QED BY <1>1, <1>2 DEF TypeOK

\* What may be the target of waitOne: a job the table or an index names.
LEMMA ResolveTracked ==
    ASSUME IInv, NEW arg, Resolve(arg) # 0 PROVE Resolve(arg) \in jobs
<1>1. CASE arg.kind = "id"
  BY <1>1 DEF Resolve
<1>2. CASE arg.kind = "current"
  <2>1. jobOrder # <<>> => Last(jobOrder) \in jobs
    BY OrderFacts DEF Last
  <2> QED BY <1>2, <2>1 DEF Resolve
<1>3. CASE arg.kind = "previous"
  <2>1. Len(jobOrder) >= 2 => jobOrder[Len(jobOrder) - 1] \in jobs
    BY OrderFacts
  <2> QED BY <1>3, <2>1 DEF Resolve
<1>4. CASE arg.kind \notin {"id", "current", "previous"}
  BY <1>4 DEF Resolve, IInv, JobsInv
<1> QED BY <1>1, <1>2, <1>3, <1>4

-----------------------------------------------------------------------------
(* Every step keeps the invariant.                                          *)

LEMMA MainInv == ASSUME IInv, Main PROVE IInv'
<1> USE FateTypes
<1>1. ASSUME StartSubshell PROVE IInv'
  <2>1. nextJobID \in Ids /\ AddJob(-nextJobID)
    BY <1>1, OrderFacts DEF StartSubshell, Ids
  <2>2. JobsInv'
    BY <1>1, <2>1, AddJobInv DEF StartSubshell, Return
  <2>3. MainOK'
    BY <1>1 DEF StartSubshell, Return, waitvars, sigs, IInv, TypeOK, MainOK
  <2> QED BY <2>1, <2>2, <2>3, AddJobTypes DEF IInv, TypeOK
<1>2. ASSUME StartCommand PROVE IInv'
  <2>1. MainOK' /\ pc' # "receive" /\ told' = told /\ target' = target
    BY <1>2 DEF StartCommand, Return, waitvars, sigs, IInv, TypeOK, MainOK
  <2>2. ASSUME NEW p \in Pids, AddJob(p) PROVE IInv'
    <3>1. nextJobID \in Ids
      BY <1>2, OrderFacts DEF StartCommand, Ids
    <3>2. JobsInv' /\ TableOK' /\ TasksOK'
      BY <2>1, <2>2, <3>1, AddJobInv, AddJobTypes
    <3> QED BY <2>1, <3>2 DEF IInv, TypeOK
  <2>3. ASSUME UNCHANGED <<table, tasks>> PROVE IInv'
    <3>1. JobsInv'
      <4>1. table' = table /\ pid' = pid /\ ch' = ch /\ worker' = worker
        BY <2>3 DEF tasks
      <4> QED BY <2>1, <4>1, TableKept
    <3>2. TasksOK'
      BY <2>3 DEF tasks, IInv, TypeOK, TasksOK
    <3> QED BY <2>1, <2>3, <3>1, <3>2, TableOKKept DEF IInv, TypeOK
  <2> QED BY <1>2, <2>2, <2>3 DEF StartCommand
\* The steps that change neither the table nor a job.
<1>3. ASSUME UNCHANGED <<table, tasks, told>>, MainOK', pc' = "receive" => target' \in jobs
      PROVE  IInv'
  <2>1. JobsInv'
    <3>1. table' = table /\ pid' = pid /\ ch' = ch /\ told' = told /\ worker' = worker
      BY <1>3 DEF tasks
    <3> QED BY <1>3, <3>1, TableKept
  <2>2. TasksOK'
    BY <1>3 DEF tasks, IInv, TypeOK, TasksOK
  <2> QED BY <1>3, <2>1, <2>2, TableOKKept DEF IInv, TypeOK
<1>4. ASSUME NEW args, StartWait(args) PROVE IInv'
  <2>1. /\ UNCHANGED <<table, tasks, told>> /\ pc' # "receive"
    BY <1>4 DEF StartWait, Return
  <2>2. MainOK'
    BY <1>4 DEF StartWait, Return, waitvars, sigs, IInv, TypeOK, MainOK
  <2> QED BY <1>3, <2>1, <2>2
<1>5. ASSUME WaitNext PROVE IInv'
  <2>1. UNCHANGED <<table, tasks, told>>
    BY <1>5 DEF WaitNext
  <2>2. pc' = "receive" => target' \in jobs
    <3>1. waitAll /\ jobOrder # <<>> => Head(jobOrder) \in jobs
      BY OrderFacts
    <3>2. Resolve(Head(todo)) # 0 => Resolve(Head(todo)) \in jobs
      BY ResolveTracked
    <3> QED BY <1>5, <3>1, <3>2 DEF WaitNext, WaitReturn, Return
  <2>3. MainOK'
    BY <1>5 DEF WaitNext, WaitReturn, Return, sigs, IInv, TypeOK, MainOK
  <2> QED BY <1>3, <2>1, <2>2, <2>3
<1>6. ASSUME Receive PROVE IInv'
  BY <1>6, ReceiveInv, ReceiveTypes DEF IInv
<1>7. ASSUME WaitSignal PROVE IInv'
  <2>1. UNCHANGED <<table, tasks, told>> /\ (pc' = "receive" => target' \in jobs)
    BY <1>7 DEF WaitSignal, WaitReturn, Return, waitvars, IInv, JobsInv
  <2>2. Head(signalCh) \in Signals /\ signalCh' \in Seq(Signals) /\ Len(signalCh') <= SigCap
    BY <1>7, JobsAssumption DEF WaitSignal, IInv, TypeOK, MainOK
  <2>3. MainOK'
    BY <1>7, <2>2 DEF WaitSignal, WaitReturn, Return, waitvars, IInv, TypeOK, MainOK
  <2> QED BY <1>3, <2>1, <2>3
<1>8. ASSUME Wait4 PROVE IInv'
  <2>1. /\ UNCHANGED <<table, pid, ch, code, inbox, fate, sigs, told>> /\ pc' # "receive"
        /\ \/ UNCHANGED worker /\ WaitReturn(ExitFailure)
           \/ \E j \in Zombies : /\ worker' = [worker EXCEPT ![j] = "stolen"]
                                 /\ status' = ShellStatus(fate[j]) /\ lastStatus' = status'
                                 /\ pc' = "wait" /\ UNCHANGED waitAll
    BY <1>8 DEF Wait4, WaitReturn, Return
  <2>2. \A j \in Zombies : j \in Ids /\ worker[j] = "exited" /\ fate[j] \in Fates
    BY DEF Zombies, IInv, TypeOK, TasksOK
  <2>3. \A j \in Ids : \/ worker'[j] = worker[j]
                       \/ worker[j] \in Unsent /\ worker'[j] \in Unsent
    BY <2>1, <2>2 DEF Unsent, IInv, TypeOK, TasksOK
  <2>4. JobsInv'
    BY <2>1, <2>3, TableKept
  <2>5. TasksOK'
    BY <2>1, <2>2 DEF IInv, TypeOK, TasksOK
  <2>6. MainOK'
    BY <2>1, <2>2 DEF sigs, WaitReturn, Return, IInv, TypeOK, MainOK
  <2> QED BY <2>1, <2>4, <2>5, <2>6, TableOKKept DEF IInv, TypeOK
<1>9. ASSUME NEW p, NEW s \in Signals \cup {0}, KillJob(p, s) PROVE IInv'
  <2>1. /\ UNCHANGED <<table, pid, ch, code, told>> /\ pc' # "receive"
    BY <1>9 DEF KillJob, Return
  <2>2. MainOK'
    BY <1>9 DEF KillJob, Return, waitvars, sigs, IInv, TypeOK, MainOK
  <2>3. CASE p < 0 /\ p \in DOMAIN jobByPid
    <3>1. jobByPid[p] \in Ids
      BY <2>3 DEF IInv, TypeOK, TableOK
    <3>2. /\ inbox' = [inbox EXCEPT ![jobByPid[p]] = Offer(inbox[jobByPid[p]], s)]
          /\ UNCHANGED <<worker, fate>>
      BY <1>9, <2>3 DEF KillJob
    <3>3. /\ Offer(inbox[jobByPid[p]], s) \in Seq(Signals \cup {0})
          /\ Len(Offer(inbox[jobByPid[p]], s)) <= SigCap
      BY <3>1, OfferType DEF IInv, TypeOK, TasksOK
    <3>4. TasksOK'
      BY <2>1, <3>1, <3>2, <3>3 DEF IInv, TypeOK, TasksOK
    <3>5. JobsInv'
      BY <2>1, <3>2, TableKept
    <3> QED BY <2>1, <2>2, <3>4, <3>5, TableOKKept DEF IInv, TypeOK
  <2>4. CASE ~(p < 0 /\ p \in DOMAIN jobByPid)
    <3>1. PICK hit \in IF s = 0 THEN {{}} ELSE SUBSET KillSet(p) :
            /\ worker' = [j \in Ids |-> IF j \in hit THEN "exited" ELSE worker[j]]
            /\ fate' = [j \in Ids |-> IF j \in hit THEN Died(s) ELSE fate[j]]
            /\ UNCHANGED inbox
      BY <1>9, <2>4 DEF KillJob
    <3>2. \A j \in hit : worker[j] = "running" /\ s \in Signals
      BY <3>1 DEF KillSet, LiveProcs, Running
    <3>3. TasksOK'
      BY <2>1, <3>1, <3>2 DEF IInv, TypeOK, TasksOK
    <3>4. \A j \in Ids : \/ worker'[j] = worker[j]
                         \/ worker[j] \in Unsent /\ worker'[j] \in Unsent
      BY <3>1, <3>2 DEF Unsent
    <3>5. JobsInv'
      BY <2>1, <3>4, TableKept
    <3> QED BY <2>1, <2>2, <3>3, <3>5, TableOKKept DEF IInv, TypeOK
  <2> QED BY <2>3, <2>4
<1>10. ASSUME ExitShell PROVE IInv'
  <2>1. MainOK'
    BY <1>10 DEF ExitShell, waitvars, sigs, IInv, TypeOK, MainOK
  <2> QED BY <1>3, <1>10, <2>1 DEF ExitShell
<1>11. ASSUME HandleSignals PROVE IInv'
  <2>1. signalCh' \in Seq(Signals) /\ Len(signalCh') <= SigCap
    <3>1. signalCh \in Seq(Signals) /\ Len(signalCh) <= SigCap
      BY DEF IInv, TypeOK, MainOK
    <3>2. CASE signalCh = <<>>
      BY <1>11, <3>1, <3>2 DEF HandleSignals
    <3>3. CASE signalCh # <<>> /\ signalCh' = Tail(signalCh)
      BY <3>1, <3>3, JobsAssumption
    <3> QED BY <1>11, <3>2, <3>3 DEF HandleSignals
  <2>2. pc' \in {"ready", "signals", "exited"}
    BY <1>11 DEF HandleSignals
  <2>3. MainOK'
    BY <1>11, <2>1, <2>2 DEF HandleSignals, waitvars, IInv, TypeOK, MainOK
  <2> QED BY <1>3, <1>11, <2>2, <2>3 DEF HandleSignals
<1> QED BY <1>1, <1>2, <1>4, <1>5, <1>6, <1>7, <1>8, <1>9, <1>10, <1>11
        DEF Main, Wait, WaitFor, Kill

LEMMA WorkerInv == ASSUME IInv, NEW j \in Ids, Worker(j) PROVE IInv'
<1> USE FateTypes
\* A job ends, and goes on towards its send.
<1>1. ASSUME NEW f \in Fates, NEW w \in Unsent, NEW c \in Statuses, EndTask(j, f, w, c),
             worker[j] \in Unsent,
             inbox' \in [Ids -> Seq(Signals \cup {0})],
             \A i \in Ids : Len(inbox'[i]) <= SigCap
      PROVE  IInv'
  <2>1. TypeOK'
    BY <1>1, EndTaskTypes
  <2>2. /\ table' = table /\ pid' = pid /\ ch' = ch /\ told' = told
        /\ \A i \in Ids : \/ worker'[i] = worker[i]
                          \/ worker[i] \in Unsent /\ worker'[i] \in Unsent
        /\ pc' = "receive" => target' \in jobs
    BY <1>1 DEF EndTask, waitvars, IInv, JobsInv, TypeOK, TasksOK
  <2> QED BY <2>1, <2>2, TableKept DEF IInv
<1>2. inbox \in [Ids -> Seq(Signals \cup {0})] /\ \A i \in Ids : Len(inbox[i]) <= SigCap
  BY DEF IInv, TypeOK, TasksOK
<1>3. ASSUME SubshellExit(j) PROVE IInv'
  <2>1. PICK c \in Codes : EndTask(j, Exit(c), "sending", c)
    BY <1>3 DEF SubshellExit
  <2>2. worker[j] \in Unsent /\ "sending" \in Unsent /\ inbox' = inbox
    BY <1>3 DEF SubshellExit, Running, Unsent
  <2> QED BY <1>1, <1>2, <2>1, <2>2
<1>4. ASSUME SubshellSignal(j) PROVE IInv'
  <2>1. /\ inbox' = [inbox EXCEPT ![j] = Tail(inbox[j])] /\ inbox[j] # <<>>
        /\ worker[j] \in Unsent /\ "sending" \in Unsent
    BY <1>4 DEF SubshellSignal, Running, Unsent
  <2>2. Tail(inbox[j]) \in Seq(Signals \cup {0}) /\ Len(Tail(inbox[j])) <= SigCap
    <3>1. inbox[j] \in Seq(Signals \cup {0}) /\ Len(inbox[j]) <= SigCap
      BY <1>2
    <3> QED BY <2>1, <3>1, JobsAssumption
  <2>3. inbox' \in [Ids -> Seq(Signals \cup {0})] /\ \A i \in Ids : Len(inbox'[i]) <= SigCap
    BY <1>2, <2>1, <2>2
  <2>4. Head(inbox[j]) \in Signals \cup {0}
    BY <1>2, <2>1
  <2>5. CASE UNCHANGED <<fate, worker, code, table, pid, ch, waitvars, sigs,
                         lastStatus, pc, told>>
    <3>1. JobsInv'
      <4>1. /\ table' = table /\ pid' = pid /\ ch' = ch /\ told' = told /\ worker' = worker
            /\ pc' = "receive" => target' \in jobs
        BY <2>5 DEF waitvars, IInv, JobsInv
      <4> QED BY <4>1, TableKept
    <3>2. TasksOK' /\ MainOK'
      BY <2>3, <2>5 DEF waitvars, sigs, IInv, TypeOK, TasksOK, MainOK
    <3> QED BY <2>5, <3>1, <3>2, TableOKKept DEF IInv, TypeOK
  <2>6. ASSUME NEW s \in Signals, EndTask(j, Died(s), "sending", SignalExitStatus(s))
        PROVE  IInv'
    BY <1>1, <2>1, <2>3, <2>6
  <2> QED BY <1>4, <2>4, <2>5, <2>6 DEF SubshellSignal
<1>5. ASSUME ProcessExit(j) PROVE IInv'
  <2>1. PICK f \in Fates : EndTask(j, f, "exited", 0)
    BY <1>5 DEF ProcessExit
  <2>2. worker[j] \in Unsent /\ "exited" \in Unsent /\ inbox' = inbox
    BY <1>5 DEF ProcessExit, LiveProcs, Running, Unsent
  <2> QED BY <1>1, <1>2, <2>1, <2>2
<1>6. ASSUME Reap(j) PROVE IInv'
  <2> DEFINE c == IF worker[j] = "exited" THEN GoExitCode(fate[j]) ELSE ExitFailure
  <2>1. fate[j] \in Fates /\ EndTask(j, fate[j], "sending", c) /\ c \in Statuses
    BY <1>6 DEF Reap, IInv, TypeOK, TasksOK
  <2>2. worker[j] \in Unsent /\ "sending" \in Unsent /\ inbox' = inbox
    BY <1>6 DEF Reap, Unsent
  <2> HIDE DEF c
  <2> QED BY <1>1, <1>2, <2>1, <2>2
<1>7. ASSUME Send(j) \/ Close(j) PROVE IInv'
  <2>1. JobsInv'
    BY <1>7, SendInv
  <2>2. UNCHANGED <<table, waitvars, sigs, lastStatus, pc, told>>
    BY <1>7 DEF Send, Close
  <2>3. MainOK'
    BY <2>2 DEF waitvars, sigs, IInv, TypeOK, MainOK
  <2>4. TasksOK'
    <3>1. CASE Send(j)
      <4>1. /\ Append(ch[j].buf, code[j]) \in Seq(Statuses)
            /\ Len(Append(ch[j].buf, code[j])) <= 1
        BY <3>1 DEF Send, IInv, TypeOK, TasksOK
      <4>2. [ch[j] EXCEPT !.buf = Append(@, code[j])] \in [buf : Seq(Statuses), closed : BOOLEAN]
        BY <4>1 DEF IInv, TypeOK, TasksOK
      <4>3. /\ ch' \in [Ids -> [buf : Seq(Statuses), closed : BOOLEAN]]
            /\ \A i \in Ids : Len(ch'[i].buf) <= 1
        BY <3>1, <4>1, <4>2 DEF Send, IInv, TypeOK, TasksOK
      <4> QED BY <3>1, <4>3 DEF Send, IInv, TypeOK, TasksOK
    <3>2. CASE Close(j)
      BY <3>2 DEF Close, IInv, TypeOK, TasksOK
    <3> QED BY <1>7, <3>1, <3>2
  <2> QED BY <2>1, <2>2, <2>3, <2>4, TableOKKept DEF IInv, TypeOK
<1> QED BY <1>3, <1>4, <1>5, <1>6, <1>7 DEF Worker

LEMMA StepInv == ASSUME IInv, [Next]_vars PROVE IInv'
<1>1. CASE Main
  BY <1>1, MainInv
<1>2. CASE SignalArrives
  <2>1. PICK s \in Signals : signalCh' = Offer(signalCh, s)
    BY <1>2 DEF SignalArrives
  <2>2. signalCh' \in Seq(Signals) /\ Len(signalCh') <= SigCap
    BY <2>1, OfferType DEF IInv, TypeOK, MainOK
  <2>3. TableOK' /\ TasksOK' /\ MainOK'
    BY <1>2, <2>2, TableOKKept
       DEF SignalArrives, tasks, waitvars, IInv, TypeOK, TasksOK, MainOK
  <2>4. JobsInv'
    <3>1. /\ table' = table /\ pid' = pid /\ ch' = ch /\ told' = told /\ worker' = worker
          /\ pc' = "receive" => target' \in jobs
      BY <1>2 DEF SignalArrives, tasks, waitvars, IInv, JobsInv
    <3> QED BY <3>1, TableKept
  <2> QED BY <2>3, <2>4 DEF IInv, TypeOK
<1>3. CASE UNCHANGED vars
  <2>1. /\ table' = table /\ pid' = pid /\ ch' = ch /\ told' = told /\ worker' = worker
        /\ pc' = "receive" => target' \in jobs
    BY <1>3 DEF vars, tasks, waitvars, IInv, JobsInv
  <2>2. JobsInv'
    BY <2>1, TableKept
  <2>3. TasksOK' /\ MainOK'
    BY <1>3 DEF vars, tasks, waitvars, sigs, IInv, TypeOK, TasksOK, MainOK
  <2> QED BY <2>1, <2>2, <2>3, TableOKKept DEF IInv, TypeOK
<1>4. ASSUME NEW j \in Ids, Worker(j) PROVE IInv'
  BY <1>4, WorkerInv
<1> QED BY <1>1, <1>2, <1>3, <1>4 DEF Next, Exited

-----------------------------------------------------------------------------
THEOREM InvariantHolds == Spec => []IInv
<1>1. Init => IInv
  BY InitInv
<1>2. IInv /\ [Next]_vars => IInv'
  BY StepInv
<1> QED BY <1>1, <1>2, PTL DEF Spec

\* Every variable keeps its type and no channel exceeds its capacity.
THEOREM TypesHold == Spec => []TypeOK
<1>1. IInv => TypeOK
  BY DEF IInv
<1> QED BY <1>1, InvariantHolds, PTL

\* The table and its order hold the same jobs, oldest first: wait without
\* arguments visits each job once, whatever was waited for or interrupted before.
THEOREM OrderHolds == Spec => []OrderConsistent
<1>1. IInv => OrderConsistent
  BY DEF IInv, JobsInv
<1> QED BY <1>1, InvariantHolds, PTL

\* wait never makes up a status: the branch of waitOne for a closed channel is dead.
THEOREM NoMadeUpStatus == Spec => []StatusStillToCome
<1>1. IInv => StatusStillToCome
  BY DEF IInv, JobsInv
<1> QED BY <1>1, InvariantHolds, PTL

\* No status is lost or told twice.
THEOREM StatusToldOnce == Spec => []ToldOnce
<1>1. IInv => ToldOnce
  BY DEF IInv, JobsInv
<1> QED BY <1>1, InvariantHolds, PTL

-----------------------------------------------------------------------------
(* AshJobs implements JobLedger, and kill and the index of pids are right, *)
(* for any number of jobs, pids, codes and signals, as long as the script  *)
(* names no job that it has waited for and the kernel reuses no pid.  (The *)
(* violation of ExitCodeExtracted shows why the first is needed.)          *)


Args == [kind : {"id", "current", "previous", "pid"}, n : Int]

\* No two jobs had one pid, in the table or not.
PidsApart == \A i, j \in Started : i # j => pid[i] # pid[j]

\* The pids that wait has yet to look at are those of jobs in the table, which
\* is why it never asks wait4: the one it blocks on is not among them.
TodoTracked ==
    /\ todo \in Seq(Args) /\ (waitAll => todo = <<>>)
    /\ \/ \A i \in DOMAIN todo : todo[i].kind # "pid"
       \/ \A i \in DOMAIN todo :
            /\ todo[i].kind = "pid" /\ todo[i].n \in DOMAIN jobByPid
            /\ pc = "receive" => todo[i].n # pid[target]
            /\ \A k \in DOMAIN todo : todo[i].n = todo[k].n => i = k
    /\ pc # "wait4"

\* What a job is about to send, or has sent, reports how it ended.
HonestJob(j) ==
    /\ worker[j] \in {"none", "running"} <=> fate[j] = Alive
    /\ worker[j] # "stolen"
    /\ worker[j] = "sending" => code[j] \in Ledger!Reports(fate[j])
    /\ \A i \in DOMAIN ch[j].buf : ch[j].buf[i] \in Ledger!Reports(fate[j])

Honest == \A j \in Ids : HonestJob(j)

LInv == IInv /\ PidsConsistent /\ PidsApart /\ TodoTracked /\ Honest

\* The fates differ, and what is reported for each.
LEMMA FateFacts ==
    /\ \A c \in Codes : Exit(c) # Alive /\ c \in Ledger!Reports(Exit(c))
    /\ \A s : /\ Died(s) # Alive
              /\ SignalExitStatus(s) \in Ledger!Reports(Died(s))
    /\ \A f : GoExitCode(f) \in Ledger!Reports(f)
<1>1. \A c \in Codes : Exit(c) # Alive /\ c \in Ledger!Reports(Exit(c))
  BY DEF Exit, Alive, Ledger!Reports
<1>2. \A s : Died(s) # Alive /\ SignalExitStatus(s) \in Ledger!Reports(Died(s))
  BY DEF Died, Alive, Ledger!Reports, SignalExitStatus
<1>3. \A f : GoExitCode(f) \in Ledger!Reports(f)
  BY DEF GoExitCode, Ledger!Reports
<1> QED BY <1>1, <1>2, <1>3

LEMMA InitLInv == Init => LInv
<1> SUFFICES ASSUME Init PROVE LInv
  OBVIOUS
<1>1. IInv
  BY InitInv
<1>2. PidsConsistent /\ PidsApart
  BY DEF Init, PidsConsistent, PidsApart, Started
<1>3. TodoTracked
  BY DEF Init, TodoTracked
<1>4. Honest
  BY DEF Init, Honest, HonestJob
<1> QED BY <1>1, <1>2, <1>3, <1>4 DEF LInv

\* Steps that leave the table and the jobs alone.
LEMMA TodoSteps ==
    ASSUME LInv, IInv', UNCHANGED <<table, tasks>>, TodoTracked'
    PROVE  LInv'
<1>1. PidsConsistent' /\ PidsApart'
  BY DEF LInv, table, tasks, PidsConsistent, PidsApart, Started
<1>2. Honest'
  BY DEF LInv, tasks, Honest, HonestJob
<1> QED BY <1>1, <1>2 DEF LInv

\* Steps of the goroutines, which leave the table and the waits alone.
LEMMA JobSteps ==
    ASSUME LInv, IInv', UNCHANGED <<table, pid, waitvars>>,
           pc' \in {pc, "signals"},
           \A j \in Ids : worker[j] # "none" <=> worker'[j] # "none",
           Honest'
    PROVE  LInv'
<1>1. PidsConsistent' /\ PidsApart'
  BY DEF LInv, table, PidsConsistent, PidsApart, Started
<1>2. TodoTracked'
  BY DEF LInv, TodoTracked, table, waitvars
<1> QED BY <1>1, <1>2 DEF LInv

\* addJob, with a pid that no job had.
LEMMA AddJobSteps ==
    ASSUME LInv, IInv', NEW p, AddJob(p), nextJobID \in Ids,
           \A j \in Started : pid[j] # p,
           pc' \notin {"receive", "wait4"}, UNCHANGED waitvars
    PROVE  LInv'
<1> IInv
  BY DEF LInv
<1>1. /\ jobs' = jobs \cup {nextJobID}
      /\ \A j \in Ids : j # nextJobID => /\ pid'[j] = pid[j] /\ worker'[j] = worker[j]
                                        /\ ch'[j] = ch[j]
      /\ pid'[nextJobID] = p /\ worker'[nextJobID] = "running"
      /\ ch'[nextJobID].buf = <<>>
      /\ fate' = fate /\ code' = code
  BY DEF AddJob, IInv, TypeOK, TasksOK
<1>2. worker[nextJobID] = "none" /\ jobs \subseteq Started /\ nextJobID \notin jobs
  BY OrderFacts DEF IInv, JobsInv, Started
<1>3. /\ DOMAIN jobByPid' = DOMAIN jobByPid \cup {p}
      /\ jobByPid'[p] = nextJobID
      /\ \A q \in DOMAIN jobByPid \ {p} : jobByPid'[q] = jobByPid[q]
  BY DEF AddJob
<1>4. PidsConsistent'
  <2>1. \A j \in jobs : pid'[j] = pid[j] /\ pid[j] # p
    BY <1>1, <1>2, OrderFacts DEF LInv
  <2> QED BY <1>1, <1>2, <1>3, <2>1 DEF LInv, PidsConsistent
<1>5. PidsApart'
  BY <1>1, <1>2 DEF LInv, PidsApart, Started
<1>6. TodoTracked'
  BY <1>3 DEF LInv, TodoTracked, waitvars
<1>7. Honest'
  BY <1>1, <1>2 DEF LInv, Honest, HonestJob
<1> QED BY <1>4, <1>5, <1>6, <1>7 DEF LInv

\* What waitOne takes from the channel is a report of how the job ended.
LEMMA ReceiveHonest ==
    ASSUME LInv, Receive
    PROVE  /\ target \in jobs /\ target \in Ids
           /\ status' \in Ledger!Reports(fate[target])
           /\ fate[target] # Alive
<1>1. target \in jobs /\ target \in Ids
  BY OrderFacts DEF Receive, LInv, IInv, JobsInv
<1>2. ch[target].buf # <<>> /\ status' = Head(ch[target].buf)
  BY <1>1 DEF Receive, LInv, IInv, JobsInv, StatusStillToCome
<1>3. 1 \in DOMAIN ch[target].buf /\ Head(ch[target].buf) = ch[target].buf[1]
  BY <1>1, <1>2 DEF LInv, IInv, TypeOK, TasksOK
<1>4. worker[target] \in {"closing", "ended"}
  BY <1>1, <1>2 DEF LInv, IInv, JobsInv
<1> QED BY <1>1, <1>2, <1>3, <1>4 DEF LInv, Honest, HonestJob

LEMMA ReceiveSteps ==
    ASSUME LInv, IInv', Receive
    PROVE  LInv'
<1>0. /\ target \in jobs /\ target \in Ids /\ jobs' = jobs \ {target} /\ pc' = "wait"
      /\ worker' = worker /\ pid' = pid /\ code' = code /\ fate' = fate
      /\ jobByPid' = [q \in DOMAIN jobByPid \ {pid[target]} |-> jobByPid[q]]
      /\ UNCHANGED <<todo, waitAll>> /\ pc = "receive"
  BY ReceiveHonest DEF Receive, RemoveJob
<1>1. PidsConsistent'
  <2>1. \A j \in jobs : j # target => pid[j] # pid[target]
    BY <1>0 DEF LInv, PidsConsistent
  <2> QED BY <1>0, <2>1 DEF LInv, PidsConsistent
<1>2. PidsApart'
  BY <1>0 DEF LInv, PidsApart, Started
<1>3. TodoTracked'
  BY <1>0 DEF LInv, TodoTracked
<1>4. Honest'
  <2>1. \A j \in Ids \ {target} : ch'[j] = ch[j]
    BY DEF Receive, LInv, IInv, TypeOK, TasksOK
  <2>2. ch'[target].buf = <<>>
    <3>1. ch[target].buf \in Seq(Statuses) /\ Len(ch[target].buf) <= 1
      BY <1>0 DEF LInv, IInv, TypeOK, TasksOK
    <3>2. ch[target].buf # <<>> => Tail(ch[target].buf) = <<>>
      BY <3>1
    <3> QED BY <1>0, <3>2 DEF Receive, LInv, IInv, TypeOK, TasksOK
  <2> QED BY <1>0, <2>1, <2>2 DEF LInv, Honest, HonestJob
<1> QED BY <1>1, <1>2, <1>3, <1>4 DEF LInv

-----------------------------------------------------------------------------
(* The commands of the script.                                              *)

\* A pid the script can name is in the index.
LEMMA NamedInTable ==
    ASSUME LInv, ~StaleRefs PROVE Named \subseteq DOMAIN jobByPid
  BY DEF Named, LInv, PidsConsistent

\* A pid that is free was never that of a job.
LEMMA FreeIsNew ==
    ASSUME ~RecyclePids, NEW p, FreePid(p) PROVE \A j \in Started : pid[j] # p
  BY DEF FreePid

LEMMA StartSteps ==
    ASSUME LInv, IInv', ~RecyclePids, StartSubshell \/ StartCommand PROVE LInv'
<1> IInv
  BY DEF LInv
<1>1. nextJobID \in Ids
  BY OrderFacts DEF StartSubshell, StartCommand, Ids
<1>2. pc' \notin {"receive", "wait4"} /\ UNCHANGED waitvars
  BY DEF StartSubshell, StartCommand, Return
<1>3. ASSUME AddJob(-nextJobID) PROVE LInv'
  <2>1. \A j \in Started : pid[j] # -nextJobID
    BY OrderFacts, JobsAssumption DEF IInv, JobsInv, Started
  <2> QED BY <1>1, <1>2, <1>3, <2>1, AddJobSteps
<1>4. ASSUME NEW p \in Pids, FreePid(p), AddJob(p) PROVE LInv'
  BY <1>1, <1>2, <1>4, FreeIsNew, AddJobSteps
<1>5. ASSUME UNCHANGED <<table, tasks>> PROVE LInv'
  <2>1. TodoTracked'
    BY <1>2, <1>5 DEF LInv, TodoTracked, table, waitvars
  <2> QED BY <1>5, <2>1, TodoSteps
<1> QED BY <1>3, <1>4, <1>5 DEF StartSubshell, StartCommand

LEMMA StartWaitSteps ==
    ASSUME LInv, IInv', ~StaleRefs,
           NEW args, StartWait(args),
           \/ args = <<>>
           \/ \E n \in 1..MaxArgs : args \in [1..n -> WaitTargets] /\ Distinct(args)
    PROVE  LInv'
<1> IInv
  BY DEF LInv
<1>1. UNCHANGED <<table, tasks>> /\ pc' \notin {"receive", "wait4"}
  BY DEF StartWait, Return
<1>2. CASE UNCHANGED waitvars
  <2>1. TodoTracked'
    BY <1>1, <1>2 DEF LInv, TodoTracked, table, waitvars
  <2> QED BY <1>1, <2>1, TodoSteps
<1>3. CASE todo' = args /\ waitAll' = (args = <<>>)
  <2>1. CASE args = <<>>
    <3>1. TodoTracked'
      BY <1>1, <1>3, <2>1 DEF TodoTracked
    <3> QED BY <1>1, <3>1, TodoSteps
  <2>2. ASSUME NEW n \in 1..MaxArgs, args \in [1..n -> WaitTargets], Distinct(args)
        PROVE  LInv'
    <3>1. \A a \in WaitTargets : a \in Args /\ (a.kind = "pid" => a.n \in DOMAIN jobByPid)
      <4>1. Pids \subseteq Int /\ \A j \in Ids : j \in Int /\ -j \in Int
        BY OrderFacts, JobsAssumption
      <4>2. DOMAIN jobByPid \subseteq Int
        BY <4>1 DEF IInv, TypeOK, TableOK
      <4>3. Named \subseteq DOMAIN jobByPid
        BY NamedInTable
      <4> QED BY <4>1, <4>2, <4>3 DEF WaitTargets, Args
    <3>2. n \in Nat /\ args \in Seq(Args) /\ args # <<>> /\ DOMAIN args = 1..n
      BY <2>2, <3>1, JobsAssumption
    <3>3. \/ \A i \in DOMAIN args : args[i].kind # "pid"
          \/ \A i \in DOMAIN args :
               /\ args[i].kind = "pid" /\ args[i].n \in DOMAIN jobByPid
               /\ \A k \in DOMAIN args : args[i].n = args[k].n => i = k
      <4>1. \A i \in DOMAIN args : args[i] \in WaitTargets /\ args[i] \in Args
        BY <2>2, <3>1, <3>2
      <4>2. \A a, b \in Args : a.kind = b.kind /\ a.n = b.n => a = b
        BY DEF Args
      <4> QED BY <2>2, <3>1, <4>1, <4>2 DEF Distinct
    <3>4. TodoTracked'
      BY <1>1, <1>3, <3>2, <3>3 DEF TodoTracked, table
    <3> QED BY <1>1, <3>4, TodoSteps
  <2> QED BY <2>1, <2>2
<1> QED BY <1>2, <1>3 DEF StartWait

LEMMA WaitNextSteps == ASSUME LInv, IInv', WaitNext PROVE LInv'
<1> IInv
  BY DEF LInv
<1>1. UNCHANGED <<table, tasks>>
  BY DEF WaitNext
<1>2. CASE waitAll /\ pc' = "receive" /\ UNCHANGED <<todo, waitAll>>
  <2>1. TodoTracked'
    BY <1>1, <1>2 DEF LInv, TodoTracked
  <2> QED BY <1>1, <2>1, TodoSteps
<1>3. ASSUME NEW st, WaitReturn(st) PROVE LInv'
  <2>1. TodoTracked'
    BY <1>1, <1>3 DEF WaitReturn, Return, TodoTracked
  <2> QED BY <1>1, <2>1, TodoSteps
<1>4. CASE todo # <<>> /\ ~waitAll /\ Resolve(Head(todo)) = 0 /\ Head(todo).kind = "pid"
  <2>1. 1 \in DOMAIN todo /\ Head(todo) = todo[1]
    BY <1>4 DEF LInv, TodoTracked
  <2>2. Head(todo).n \in DOMAIN jobByPid
    BY <1>4, <2>1 DEF LInv, TodoTracked
  <2>3. Resolve(Head(todo)) \in Ids
    BY <1>4, <2>2 DEF Resolve, IInv, TypeOK, TableOK
  <2> QED BY <1>4, <2>3 DEF Ids
<1>5. CASE /\ ~waitAll /\ todo # <<>> /\ Resolve(Head(todo)) # 0 /\ pc' = "receive"
           /\ target' = Resolve(Head(todo)) /\ todo' = Tail(todo) /\ UNCHANGED waitAll
  <2>1. /\ Len(todo) \in Nat \ {0} /\ DOMAIN todo = 1..Len(todo) /\ Head(todo) = todo[1]
        /\ Tail(todo) \in Seq(Args) /\ DOMAIN Tail(todo) = 1..(Len(todo) - 1)
        /\ \A i \in 1..(Len(todo) - 1) : Tail(todo)[i] = todo[i + 1] /\ i + 1 \in DOMAIN todo
    BY <1>5 DEF LInv, TodoTracked
  <2>2. CASE \A i \in DOMAIN todo : todo[i].kind # "pid"
    <3>1. TodoTracked'
      BY <1>1, <1>5, <2>1, <2>2 DEF TodoTracked
    <3> QED BY <1>1, <3>1, TodoSteps
  <2>3. CASE \A i \in DOMAIN todo :
               /\ todo[i].kind = "pid" /\ todo[i].n \in DOMAIN jobByPid
               /\ \A k \in DOMAIN todo : todo[i].n = todo[k].n => i = k
    <3>1. pid[target'] = todo[1].n
      BY <1>5, <2>1, <2>3 DEF Resolve, IInv, JobsInv
    <3>2. \A i \in DOMAIN todo' :
            /\ todo'[i].kind = "pid" /\ todo'[i].n \in DOMAIN jobByPid
            /\ todo'[i].n # pid[target']
            /\ \A k \in DOMAIN todo' : todo'[i].n = todo'[k].n => i = k
      <4> TAKE i \in DOMAIN todo'
      <4>1. i \in 1..(Len(todo) - 1) /\ todo'[i] = todo[i + 1] /\ i + 1 \in DOMAIN todo
        BY <1>5, <2>1
      <4>2. todo[i + 1].n # todo[1].n
        BY <2>1, <2>3, <4>1
      <4>3. ASSUME NEW k \in DOMAIN todo', todo'[i].n = todo'[k].n PROVE i = k
        <5>1. k \in 1..(Len(todo) - 1) /\ todo'[k] = todo[k + 1] /\ k + 1 \in DOMAIN todo
          BY <1>5, <2>1, <4>3
        <5>2. i + 1 = k + 1
          BY <2>3, <4>1, <4>3, <5>1
        <5> QED BY <4>1, <5>1, <5>2
      <4> QED BY <2>3, <3>1, <4>1, <4>2, <4>3
    <3>3. TodoTracked'
      BY <1>1, <1>5, <2>1, <3>2 DEF TodoTracked, table, tasks
    <3> QED BY <1>1, <3>3, TodoSteps
  <2> QED BY <2>2, <2>3 DEF LInv, TodoTracked
<1> QED BY <1>2, <1>3, <1>4, <1>5 DEF WaitNext

\* kill: of a subshell in the table, its inbox; else of processes with the pid.
LEMMA KillSteps ==
    ASSUME LInv, IInv', NEW p, NEW s \in Signals \cup {0}, KillJob(p, s)
    PROVE  LInv'
<1>1. /\ UNCHANGED <<table, pid, ch, code, waitvars>> /\ pc' = "signals"
  BY DEF KillJob, Return
<1>2. CASE UNCHANGED <<worker, fate>>
  <2>1. Honest'
    BY <1>1, <1>2 DEF LInv, Honest, HonestJob
  <2> QED BY <1>1, <1>2, <2>1, JobSteps
<1>3. CASE \E hit \in IF s = 0 THEN {{}} ELSE SUBSET KillSet(p) :
            /\ worker' = [j \in Ids |-> IF j \in hit THEN "exited" ELSE worker[j]]
            /\ fate' = [j \in Ids |-> IF j \in hit THEN Died(s) ELSE fate[j]]
  <2>1. PICK hit \in IF s = 0 THEN {{}} ELSE SUBSET KillSet(p) :
            /\ worker' = [j \in Ids |-> IF j \in hit THEN "exited" ELSE worker[j]]
            /\ fate' = [j \in Ids |-> IF j \in hit THEN Died(s) ELSE fate[j]]
    BY <1>3
  <2>2. \A j \in hit : worker[j] = "running" /\ ch[j].buf = <<>>
    BY <2>1 DEF KillSet, LiveProcs, Running, LInv, IInv, JobsInv
  <2>3. ASSUME NEW j \in Ids PROVE HonestJob(j)'
    <3>1. CASE j \in hit
      BY <1>1, <2>1, <2>2, <3>1, FateFacts DEF HonestJob
    <3>2. CASE j \notin hit
      BY <1>1, <2>1, <3>2 DEF HonestJob, LInv, Honest
    <3> QED BY <3>1, <3>2
  <2>4. \A j \in Ids : worker[j] # "none" <=> worker'[j] # "none"
    BY <2>1, <2>2
  <2> QED BY <1>1, <2>3, <2>4, JobSteps DEF Honest
<1> QED BY <1>2, <1>3 DEF KillJob

LEMMA MainSteps ==
    ASSUME LInv, IInv', ~StaleRefs, ~RecyclePids, Main PROVE LInv'
<1>1. ASSUME Wait \/ WaitFor PROVE LInv'
  BY <1>1, StartWaitSteps DEF Wait, WaitFor
<1>2. CASE WaitSignal
  <2>1. /\ UNCHANGED <<table, tasks>> /\ pc = "receive"
        /\ \/ \E st : WaitReturn(st)
           \/ pc' = "exited" /\ UNCHANGED waitvars
           \/ UNCHANGED <<pc, waitvars>>
    BY <1>2 DEF WaitSignal
  <2>2. TodoTracked'
    <3>1. ASSUME NEW st, WaitReturn(st) PROVE TodoTracked'
      BY <3>1 DEF TodoTracked, WaitReturn, Return
    <3>2. CASE UNCHANGED waitvars /\ pc' \in {pc, "exited"}
      BY <2>1, <3>2 DEF LInv, TodoTracked, waitvars, table, tasks
    <3> QED BY <2>1, <3>1, <3>2
  <2> QED BY <2>1, <2>2, TodoSteps
<1>3. CASE Wait4
  BY <1>3 DEF Wait4, LInv, TodoTracked
<1>4. CASE ExitShell \/ HandleSignals
  <2>1. UNCHANGED <<table, tasks, waitvars>> /\ pc' \notin {"receive", "wait4"}
    BY <1>4 DEF ExitShell, HandleSignals
  <2>2. TodoTracked'
    BY <2>1 DEF LInv, TodoTracked, waitvars, table
  <2> QED BY <2>1, <2>2, TodoSteps
<1>5. CASE Kill
  BY <1>5, KillSteps DEF Kill
<1> QED BY <1>1, <1>2, <1>3, <1>4, <1>5, StartSteps, WaitNextSteps, ReceiveSteps DEF Main

\* The goroutine of a job, and the process it waits for.
LEMMA WorkerSteps ==
    ASSUME LInv, IInv', NEW j \in Ids, Worker(j) PROVE LInv'
<1>0. /\ UNCHANGED <<table, pid, waitvars, pc>>
      /\ \A i \in Ids : worker[i] # "none" <=> worker'[i] # "none"
      /\ \A i \in Ids \ {j} : UNCHANGED <<worker[i], code[i], fate[i], ch[i]>>
  BY DEF Worker, SubshellExit, SubshellSignal, ProcessExit, Reap, Send, Close, EndTask,
         Running, LiveProcs, LInv, IInv, TypeOK, TasksOK
<1>1. HonestJob(j)
  BY DEF LInv, Honest
<1>2. ASSUME NEW f, NEW w, NEW c, EndTask(j, f, w, c), f # Alive,
             w \in {"exited", "sending"}, w = "sending" => c \in Ledger!Reports(f),
             f = fate[j] \/ worker[j] = "running"
      PROVE  HonestJob(j)'
  <2>1. /\ fate'[j] = f /\ worker'[j] = w /\ code'[j] = c /\ ch' = ch
    BY <1>2 DEF EndTask, LInv, IInv, TypeOK, TasksOK
  <2>2. worker[j] = "running" => ch[j].buf = <<>>
    BY DEF LInv, IInv, JobsInv
  <2> QED BY <1>1, <1>2, <2>1, <2>2 DEF HonestJob
<1>3. ASSUME SubshellExit(j) PROVE HonestJob(j)'
  BY <1>2, <1>3, FateFacts DEF SubshellExit, Running
<1>4. ASSUME SubshellSignal(j) PROVE HonestJob(j)'
  BY <1>1, <1>2, <1>4, FateFacts DEF SubshellSignal, HonestJob, Running
<1>5. ASSUME ProcessExit(j) PROVE HonestJob(j)'
  BY <1>2, <1>5 DEF ProcessExit, LiveProcs, Running
<1>6. ASSUME Reap(j) PROVE HonestJob(j)'
  <2>1. worker[j] = "exited" /\ fate[j] # Alive
    BY <1>1, <1>6 DEF Reap, HonestJob
  <2> QED BY <1>2, <1>6, <2>1, FateFacts DEF Reap
<1>7. ASSUME Send(j) PROVE HonestJob(j)'
  <2>1. /\ worker[j] = "sending" /\ worker'[j] = "closing" /\ fate' = fate
        /\ ch'[j].buf = Append(ch[j].buf, code[j]) /\ ch[j].buf = <<>>
    BY <1>7 DEF Send, LInv, IInv, TypeOK, TasksOK
  <2>2. ch'[j].buf = <<code[j]>>
    BY <2>1
  <2> QED BY <1>1, <2>1, <2>2 DEF HonestJob
<1>8. ASSUME Close(j) PROVE HonestJob(j)'
  <2>1. /\ worker[j] = "closing" /\ worker'[j] = "ended" /\ fate' = fate
        /\ ch'[j].buf = ch[j].buf
    BY <1>8 DEF Close, LInv, IInv, TypeOK, TasksOK
  <2> QED BY <1>1, <2>1 DEF HonestJob
<1>9. HonestJob(j)'
  BY <1>3, <1>4, <1>5, <1>6, <1>7, <1>8 DEF Worker
<1>10. Honest'
  BY <1>0, <1>9 DEF Honest, HonestJob, LInv
<1> QED BY <1>0, <1>10, JobSteps

LEMMA StepLInv ==
    ASSUME LInv, ~StaleRefs, ~RecyclePids, [Next]_vars PROVE LInv'
<1>1. IInv'
  BY StepInv DEF LInv
<1>2. CASE Main
  BY <1>1, <1>2, MainSteps
<1>3. CASE SignalArrives \/ UNCHANGED vars
  <2>1. UNCHANGED <<table, tasks, waitvars, pc>>
    BY <1>3 DEF SignalArrives, vars
  <2>2. TodoTracked'
    BY <2>1 DEF LInv, TodoTracked, waitvars, table, tasks
  <2> QED BY <1>1, <2>1, <2>2, TodoSteps
<1>4. ASSUME NEW j \in Ids, Worker(j) PROVE LInv'
  BY <1>1, <1>4, WorkerSteps
<1> QED BY <1>2, <1>3, <1>4 DEF Next, Exited

-----------------------------------------------------------------------------
(* The refinement: a start is Start, the end of a job and kill are End, what *)
(* waitOne takes is Tell, and every other step is a stutter.                 *)

ledger == <<nextJobID - 1, fate, told>>

LEMMA InitRefines == Init => Ledger!Init
  BY DEF Init, Ledger!Init, Ids, Ledger!Ids, Alive, Ledger!Alive

\* A job that has not ended may end.
LEMMA EndRefines ==
    ASSUME LInv, NEW hit \in SUBSET {j \in Ids : worker[j] = "running"},
           NEW f \in Fates \ {Alive},
           fate' = [j \in Ids |-> IF j \in hit THEN f ELSE fate[j]],
           UNCHANGED <<nextJobID, told>>
    PROVE  Ledger!Next
<1> IInv
  BY DEF LInv
<1>1. hit \in SUBSET {j \in 1..(nextJobID - 1) : fate[j] = Ledger!Alive}
  <2>1. \A j \in hit : j \in Ids /\ j < nextJobID
    BY OrderFacts DEF IInv, JobsInv
  <2>2. \A j \in hit : fate[j] = Alive
    BY DEF LInv, Honest, HonestJob
  <2> QED BY <2>1, <2>2, OrderFacts DEF Ids, Alive, Ledger!Alive
<1>2. f \in Ledger!Endings
  BY DEF Fates, Exit, Died, Ledger!Endings, Ledger!Exit, Ledger!Died
<1>3. Ledger!End
  BY <1>1, <1>2 DEF Ledger!End, Ids, Ledger!Ids
<1> QED BY <1>3 DEF Ledger!Next

LEMMA StartRefines ==
    ASSUME LInv, StartSubshell \/ StartCommand
    PROVE  Ledger!Next \/ UNCHANGED ledger
<1> IInv
  BY DEF LInv
<1>1. ASSUME NEW p, AddJob(p) PROVE Ledger!Start
  <2>1. nextJobID <= MaxJobs /\ nextJobID' = nextJobID + 1 /\ UNCHANGED <<fate, told>>
    BY <1>1 DEF StartSubshell, StartCommand, AddJob
  <2> QED BY <2>1, OrderFacts, JobsAssumption DEF Ledger!Start
<1>2. CASE UNCHANGED <<table, tasks>>
  BY <1>2 DEF StartSubshell, StartCommand, table, tasks, ledger
<1> QED BY <1>1, <1>2 DEF StartSubshell, StartCommand, Ledger!Next

LEMMA ReceiveRefines == ASSUME LInv, Receive PROVE Ledger!Next
<1>1. /\ target \in jobs /\ target \in Ids
      /\ status' \in Ledger!Reports(fate[target]) /\ fate[target] # Alive
  BY ReceiveHonest
<1>2. told[target] = <<>>
  BY <1>1 DEF LInv, IInv, JobsInv, ToldOnce, TypeOK, MainOK
<1>3. told' = [told EXCEPT ![target] = <<status'>>]
  <2>1. told' = [told EXCEPT ![target] = Append(told[target], status')]
    BY DEF Receive
  <2> QED BY <1>2, <2>1
<1>4. UNCHANGED <<nextJobID, fate>>
  BY DEF Receive, RemoveJob
<1>5. Ledger!Tell(target)
  BY <1>1, <1>2, <1>3, <1>4 DEF Ledger!Tell, Alive, Ledger!Alive
<1> QED BY <1>1, <1>5 DEF Ledger!Next, Ids, Ledger!Ids

LEMMA KillRefines ==
    ASSUME LInv, NEW p, NEW s \in Signals \cup {0}, KillJob(p, s)
    PROVE  Ledger!Next \/ UNCHANGED ledger
<1>1. UNCHANGED <<nextJobID, told>>
  BY DEF KillJob, table
<1>2. CASE UNCHANGED fate
  BY <1>1, <1>2 DEF ledger
<1>3. ASSUME NEW hit \in IF s = 0 THEN {{}} ELSE SUBSET KillSet(p),
             fate' = [j \in Ids |-> IF j \in hit THEN Died(s) ELSE fate[j]]
      PROVE  Ledger!Next \/ UNCHANGED ledger
  <2>1. CASE s = 0
    <3>1. fate' = fate
      BY <1>3, <2>1 DEF LInv, IInv, TypeOK, TasksOK
    <3> QED BY <1>2, <3>1
  <2>2. CASE s # 0
    <3>1. hit \in SUBSET {j \in Ids : worker[j] = "running"}
      BY <1>3, <2>2 DEF KillSet, LiveProcs, Running
    <3>2. Died(s) \in Fates \ {Alive}
      BY <2>2, FateTypes, FateFacts
    <3> QED BY <1>1, <1>3, <3>1, <3>2, EndRefines
  <2> QED BY <2>1, <2>2
<1> QED BY <1>2, <1>3 DEF KillJob

LEMMA WorkerRefines ==
    ASSUME LInv, NEW j \in Ids, Worker(j)
    PROVE  Ledger!Next \/ UNCHANGED ledger
<1>1. UNCHANGED <<nextJobID, told>>
  BY DEF Worker, SubshellExit, SubshellSignal, ProcessExit, Reap, Send, Close, EndTask, table
<1>2. fate \in [Ids -> Fates]
  BY DEF LInv, IInv, TypeOK, TasksOK
<1>3. ASSUME NEW f \in Fates \ {Alive}, NEW w, NEW c, EndTask(j, f, w, c),
             worker[j] = "running"
      PROVE  Ledger!Next
  <2>1. fate' = [i \in Ids |-> IF i \in {j} THEN f ELSE fate[i]]
    BY <1>2, <1>3 DEF EndTask
  <2> QED BY <1>1, <1>3, <2>1, EndRefines
<1>4. ASSUME SubshellExit(j) PROVE Ledger!Next
  BY <1>3, <1>4, FateTypes, FateFacts DEF SubshellExit, Running
<1>5. ASSUME SubshellSignal(j) PROVE Ledger!Next \/ UNCHANGED fate
  <2>1. inbox[j] # <<>> /\ Head(inbox[j]) \in Signals \cup {0} /\ worker[j] = "running"
    BY <1>5 DEF SubshellSignal, Running, LInv, IInv, TypeOK, TasksOK
  <2> QED BY <1>3, <1>5, <2>1, FateTypes, FateFacts DEF SubshellSignal
<1>6. ASSUME ProcessExit(j) PROVE Ledger!Next
  BY <1>3, <1>6 DEF ProcessExit, LiveProcs, Running
<1>7. ASSUME Reap(j) \/ Send(j) \/ Close(j) PROVE UNCHANGED fate
  BY <1>2, <1>7 DEF Reap, Send, Close, EndTask
<1> QED BY <1>1, <1>4, <1>5, <1>6, <1>7 DEF Worker, ledger

LEMMA StepRefines ==
    ASSUME LInv, [Next]_vars
    PROVE  [Ledger!Next]_ledger
<1>1. CASE StartSubshell \/ StartCommand
  BY <1>1, StartRefines
<1>2. CASE Wait \/ WaitFor \/ WaitNext \/ WaitSignal \/ Wait4 \/ ExitShell \/ HandleSignals
           \/ SignalArrives \/ UNCHANGED vars
  <2>1. UNCHANGED <<nextJobID, fate, told>>
    BY <1>2 DEF Wait, WaitFor, StartWait, WaitNext, WaitSignal, Wait4, ExitShell,
                HandleSignals, SignalArrives, vars, table, tasks
  <2> QED BY <2>1 DEF ledger
<1>3. CASE Receive
  BY <1>3, ReceiveRefines
<1>4. CASE Kill
  BY <1>4, KillRefines DEF Kill
<1>5. ASSUME NEW j \in Ids, Worker(j) PROVE [Ledger!Next]_ledger
  BY <1>5, WorkerRefines
<1> QED BY <1>1, <1>2, <1>3, <1>4, <1>5 DEF Next, Main, Exited

-----------------------------------------------------------------------------
LEMMA LInvHolds == ASSUME ~StaleRefs, ~RecyclePids PROVE Spec => []LInv
<1>1. Init => LInv
  BY InitLInv
<1>2. LInv /\ [Next]_vars => LInv'
  BY StepLInv
<1> QED BY <1>1, <1>2, PTL DEF Spec

\* The jobs of the shell are a ledger: a job ends once, and what wait tells of
\* it is told once, after it has ended, and reports how.
THEOREM JobsAreALedger ==
    ASSUME ~StaleRefs, ~RecyclePids PROVE Spec => ImplementsLedger
<1>1. Init => Ledger!Init
  BY InitRefines
<1>2. LInv /\ [Next]_vars => [Ledger!Next]_ledger
  BY StepRefines
<1>3. Spec => []LInv
  BY LInvHolds
<1> QED BY <1>1, <1>2, <1>3, PTL DEF Spec, ImplementsLedger, Ledger!Spec, ledger

\* The index of pids leads to the jobs of the table, and to no other.
THEOREM IndexHolds ==
    ASSUME ~StaleRefs, ~RecyclePids PROVE Spec => []PidsConsistent
<1>1. LInv => PidsConsistent
  BY DEF LInv
<1> QED BY <1>1, LInvHolds, PTL

\* kill of a job reaches that job, and no other job.
THEOREM KillHolds ==
    ASSUME ~StaleRefs, ~RecyclePids PROVE Spec => KillHitsItsTarget
<1> DEFINE Hits(p) == (\E s \in Signals \cup {0} : KillJob(p, s)) =>
              \A j \in Ids : pid[j] # p => inbox'[j] = inbox[j] /\ fate'[j] = fate[j]
<1>1. ASSUME LInv, NEW p \in Named PROVE Hits(p)
  <2> SUFFICES ASSUME NEW s \in Signals \cup {0}, KillJob(p, s), NEW j \in Ids, pid[j] # p
               PROVE  inbox'[j] = inbox[j] /\ fate'[j] = fate[j]
    OBVIOUS
  <2>1. p \in DOMAIN jobByPid
    BY <1>1, NamedInTable
  <2>2. pid[jobByPid[p]] = p
    BY <1>1, <2>1 DEF LInv, IInv, JobsInv
  <2>3. inbox \in [Ids -> Seq(Signals \cup {0})] /\ fate \in [Ids -> Fates]
    BY <1>1 DEF LInv, IInv, TypeOK, TasksOK
  <2>4. CASE p < 0
    <3>1. inbox' = [inbox EXCEPT ![jobByPid[p]] = Offer(@, s)] /\ fate' = fate
      BY <2>1, <2>4 DEF KillJob
    <3> QED BY <2>2, <2>3, <3>1
  <2>5. CASE ~(p < 0)
    <3>1. PICK hit \in IF s = 0 THEN {{}} ELSE SUBSET KillSet(p) :
              /\ fate' = [i \in Ids |-> IF i \in hit THEN Died(s) ELSE fate[i]]
              /\ inbox' = inbox
      BY <2>5 DEF KillJob
    <3>2. j \notin hit
      BY <2>5, <3>1 DEF KillSet
    <3> QED BY <3>1, <3>2
  <2> QED BY <2>4, <2>5
<1>2. LInv /\ [Next]_vars =>
        [\A p \in Named : (\E s \in Signals \cup {0} : KillJob(p, s)) =>
            \A j \in Ids : pid[j] # p => /\ inbox'[j] = inbox[j]
                                        /\ fate'[j] = fate[j]]_vars
  BY <1>1
<1> QED BY <1>2, LInvHolds, PTL DEF Spec, KillHitsItsTarget
=============================================================================
