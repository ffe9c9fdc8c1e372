----------------------- MODULE LinuxLifecycleProofs -----------------------
(***************************************************************************)
(* Proofs about the lifecycle of Linux pthreads: whatever the number of    *)
(* threads, and however workers, creators, joiners, detachers and reaper   *)
(* interleave.                                                             *)
(***************************************************************************)
EXTENDS LinuxPthreadLifecycle, TLAPS

LifecycleTypeOK ==
  /\ disciplined \in BOOLEAN
  /\ ctl \in [Threads -> ControlBlocks] /\ at \in [Agents -> Steps]
  /\ list \in Seq(Threads) /\ sequence \in Nat /\ started \in {-1, 0, 1, 2}
  /\ reaper \in ReaperStates

(* The block x of a thread whose caller is at step k and which itself is   *)
(* at step w; listed: the block is in the list, taken: the reaper is about *)
(* to destroy it.                                                          *)

Creating == CreateSteps \ {"storeTid"}
CallerSteps ==
  {"none", "idle", "done"} \union CreateSteps \union DetachSteps \union EnqueueSteps
     \union JoinSteps
ThreadSteps == {"none"} \union DetachSteps \union EnqueueSteps \union WorkerSteps

(* The tid word tells whether the thread runs, on a stack that is there.   *)
LifeOK(x, k, w) ==
  /\ k \in CallerSteps /\ w \in ThreadSteps
  /\ x.mem = "unborn" <=> k = "none"
  /\ x.tid = 0 <=> w \in {"none", "kernelWake", "dead"}
  /\ x.tid # 0 => x.mem = "live"
  /\ k \in Creating => x.mem = "live"
  /\ k \in {"none"} \union Creating => w = "none"
  /\ w = "none" => k \in {"none", "done"} \union Creating

(* Who detaches a thread, and who joins it.                                *)
RoleOK(x, k, w) ==
  /\ x.role = "joined" => ~ x.detached
  /\ x.role = "detachedByOther" /\ x.detached => k \in {"detachLoad", "done"} \union EnqueueSteps
  /\ k \in JoinSteps => x.role = "joined"
  /\ k = "joinDestroy" => x.tid = 0
  /\ k \in DetachSteps \union EnqueueSteps => x.role = "detachedByOther"
  /\ k \in {"detachLoad"} \union EnqueueSteps => x.detached
  /\ w \in DetachSteps => x.role \in {"detachedBySelf", "detachedInExit"}
  /\ w \in {"exitDetached"} \union EnqueueSteps => x.detached

(* A block is claimed before it is put into the list, by one of the two.   *)
ClaimOK(x, k, w, listed, taken) ==
  /\ x.queued => x.detached /\ w # "none"
  /\ listed \/ taken => x.queued /\ x.mem = "live"
  /\ taken => ~ listed /\ x.tid = 0
  /\ k \in EnqueueSteps \ {"reapCas"} \/ w \in EnqueueSteps \ {"reapCas"} => x.queued
  /\ k = "reapPush" \/ w = "reapPush" => ~ listed /\ ~ taken /\ x.mem = "live"
  /\ ~ (k = "reapPush" /\ w = "reapPush")

(* A program that lets no thread end while another works on it.            *)
DisciplineOK(x, k, w) ==
  disciplined =>
    /\ k = "storeTid" => \/ w = "run"
                         \/ w \in DetachSteps /\ x.role = "detachedBySelf"
    /\ k \in DetachSteps => w \in {"run", "dead"} /\ ~ x.queued
    /\ k = "reapCas" => w = "dead" /\ ~ x.queued
    /\ /\ x.detached /\ w \in {"exitAttached", "exit", "kernelWake", "dead"}
       /\ k \notin DetachSteps \union EnqueueSteps /\ x.role # "detachedInExit"
       => x.queued
    /\ x.mem = "freed" => \/ k \in {"done", "reapBump", "reapWake"}
                          \/ k = "idle" /\ x.role \notin {"joined", "detachedByOther"}

BlockOK(x, k, w, listed, taken) ==
  LifeOK(x, k, w) /\ RoleOK(x, k, w) /\ ClaimOK(x, k, w, listed, taken) /\ DisciplineOK(x, k, w)

ThreadsOK ==
  \A c \in Threads :
    BlockOK(ctl[c], at[Caller(c)], at[Worker(c)], Queued(c), reaper.victim = c)

(* A remembered tid word is that of a block in the list, unless the round  *)
(* is going to be repeated.                                                *)
ReaperOK ==
  /\ \A i, j \in DOMAIN list : list[i] = list[j] => i = j
  /\ reaper.victim # NoThread <=> reaper.at = "destroy"
  /\ reaper.at = "reload" => reaper.pos \in DOMAIN list
  /\ reaper.at \in {"tidWait", "tidAsleep"} => ~ reaper.reaped /\ reaper.waitTid # NoThread
  /\ /\ reaper.at \in {"scan", "reload", "tidWait", "tidAsleep"}
     /\ ~ reaper.reaped /\ reaper.waitTid # NoThread
     => Queued(reaper.waitTid)

(* One agent at most starts the reaper, and once.                          *)
StartOK ==
  /\ started = 0 => reaper.at = "none"
  /\ \A a \in Agents : Starting(a) => started = 1 /\ reaper.at = "none"
  /\ \A a \in Agents : Publishing(a) => reaper.at # "none"
  /\ \A a, b \in Agents : Starting(a) /\ Starting(b) => a = b

(* The inductive invariant.                                                *)
LifecycleInv == LifecycleTypeOK /\ ThreadsOK /\ ReaperOK /\ StartOK

-----------------------------------------------------------------------------
(* What every step needs                                                   *)

LEMMA TwoAgents ==
  /\ \A c \in Threads : /\ Caller(c) \in Agents /\ Caller(c)[2] = c /\ Caller(c)[1] = "caller"
                        /\ Worker(c) \in Agents /\ Worker(c)[2] = c /\ Worker(c)[1] = "worker"
  /\ \A c, d \in Threads : Caller(c) # Worker(d)
  /\ \A a \in Agents : /\ a[2] \in Threads
                       /\ \/ a = Caller(a[2]) /\ a[1] = "caller"
                          \/ a = Worker(a[2]) /\ a[1] = "worker"
BY DEF Agents, Caller, Worker

(* A step of a thread's caller, of the thread itself or of both, which     *)
(* wakes the reaper at most.                                               *)
LEMMA BlockChanges ==
  ASSUME LifecycleInv, NEW c \in Threads, NEW x \in ControlBlocks, NEW k, NEW w,
         at' \in [Agents -> Steps], at'[Caller(c)] = k, at'[Worker(c)] = w,
         \A a \in Agents : a[2] # c => at'[a] = at[a],
         ctl' = [ctl EXCEPT ![c] = x],
         BlockOK(x, k, w, Queued(c), reaper.victim = c),
         UNCHANGED <<disciplined, list>>, sequence' \in Nat, started' \in {-1, 0, 1, 2},
         \/ reaper' = reaper
         \/ /\ reaper' = [reaper EXCEPT !.at = "lock"]
            /\ reaper.at \in {"none", "seqAsleep", "tidAsleep"},
         StartOK'
  PROVE  LifecycleInv'
<1> USE DEF LifecycleInv
<1>1. /\ reaper' \in ReaperStates /\ reaper'.victim = reaper.victim
      /\ reaper'.at \in {reaper.at, "lock"}
      /\ reaper'.at # reaper.at => reaper.at \in {"none", "seqAsleep", "tidAsleep"}
      /\ reaper'.pos = reaper.pos /\ reaper'.reaped = reaper.reaped
      /\ reaper'.waitTid = reaper.waitTid
  BY DEF LifecycleTypeOK, ReaperStates, ReaperSteps
<1>2. /\ ctl' \in [Threads -> ControlBlocks] /\ ctl'[c] = x
      /\ \A d \in Threads : d # c => ctl'[d] = ctl[d]
  BY DEF LifecycleTypeOK
<1>3. LifecycleTypeOK'
  BY <1>1, <1>2 DEF LifecycleTypeOK
<1>4. \A d \in Threads : Queued(d)' <=> Queued(d)
  BY DEF Queued
<1>5. ASSUME NEW d \in Threads
      PROVE  BlockOK(ctl[d], at[Caller(d)], at[Worker(d)], Queued(d), reaper.victim = d)'
  <2>1. CASE d = c
    BY <1>1, <1>2, <1>4, <2>1 DEF BlockOK, DisciplineOK, LifeOK, RoleOK, ClaimOK
  <2>2. CASE d # c
    <3>1. /\ at'[Caller(d)] = at[Caller(d)] /\ at'[Worker(d)] = at[Worker(d)]
          /\ ctl'[d] = ctl[d]
      BY <1>2, <2>2, TwoAgents
    <3>2. BlockOK(ctl[d], at[Caller(d)], at[Worker(d)], Queued(d), reaper.victim = d)
      BY DEF ThreadsOK
    <3> QED
      BY <1>1, <1>4, <3>1, <3>2 DEF BlockOK, DisciplineOK, LifeOK, RoleOK,
         ClaimOK
  <2> QED
    BY <2>1, <2>2
<1>6. ThreadsOK'
  BY <1>5 DEF ThreadsOK
<1>7. ReaperOK'
  <2>1. reaper'.waitTid = reaper.waitTid /\ (Queued(reaper.waitTid)' <=> Queued(reaper.waitTid))
    BY <1>1 DEF Queued
  <2> QED
    BY <1>1, <2>1 DEF ReaperOK
<1> QED
  BY <1>3, <1>6, <1>7

(* Agent a, which works on c, moves to a step: caller and thread are then  *)
(* at steps k and w.                                                       *)
Moves(a, c, step, k, w) ==
  \/ a = Caller(c) /\ k = step /\ w = at[Worker(c)]
  \/ a = Worker(c) /\ k = at[Caller(c)] /\ w = step

(* One of the agents moves, and may wake the reaper.                       *)
LEMMA AgentMoves ==
  ASSUME LifecycleInv, NEW c \in Threads, NEW a \in {Caller(c), Worker(c)},
         NEW step \in Steps, NEW x \in ControlBlocks, NEW k, NEW w, Moves(a, c, step, k, w),
         Goto(a, step), ctl' = [ctl EXCEPT ![c] = x],
         BlockOK(x, k, w, Queued(c), reaper.victim = c), StartOK',
         UNCHANGED <<disciplined, list>>, sequence' \in Nat, started' \in {-1, 0, 1, 2},
         \/ reaper' = reaper
         \/ reaper' = [reaper EXCEPT !.at = "lock"] /\ reaper.at \in {"none", "seqAsleep"}
  PROVE  LifecycleInv'
<1>1. a \in Agents /\ at \in [Agents -> Steps] /\ at' = [at EXCEPT ![a] = step]
  BY TwoAgents DEF LifecycleInv, LifecycleTypeOK, Goto
<1>2. /\ at' \in [Agents -> Steps] /\ at'[a] = step
      /\ \A b \in Agents : b # a => at'[b] = at[b]
  BY <1>1
<1>3. \A b \in Agents : b[2] # c => at'[b] = at[b]
  BY <1>2, TwoAgents
<1>4. at'[Caller(c)] = k /\ at'[Worker(c)] = w
  <2>1. CASE a = Caller(c)
    BY <1>2, <2>1, TwoAgents DEF Moves
  <2>2. CASE a = Worker(c)
    BY <1>2, <2>2, TwoAgents DEF Moves
  <2> QED
    BY <2>1, <2>2
<1> QED
  BY <1>2, <1>3, <1>4, BlockChanges

(* One of the agents goes on, in a call that does not start the reaper.    *)
LEMMA AgentGoesOn ==
  ASSUME LifecycleInv, NEW c \in Threads, NEW a \in {Caller(c), Worker(c)},
         NEW step \in Steps \ {"createStart", "detachStart", "createPublish", "detachPublish"},
         NEW x \in ControlBlocks, NEW k, NEW w, Moves(a, c, step, k, w),
         Goto(a, step), ctl' = [ctl EXCEPT ![c] = x],
         BlockOK(x, k, w, Queued(c), reaper.victim = c),
         UNCHANGED <<disciplined, list, started>>, sequence' \in Nat,
         \/ reaper' = reaper
         \/ reaper' = [reaper EXCEPT !.at = "lock"] /\ reaper.at = "seqAsleep"
  PROVE  LifecycleInv'
<1>1. a \in Agents /\ at \in [Agents -> Steps] /\ at' = [at EXCEPT ![a] = step]
  BY TwoAgents DEF LifecycleInv, LifecycleTypeOK, Goto
<1>2. at'[a] = step /\ \A b \in Agents : b # a => at'[b] = at[b]
  BY <1>1
<1>3. StartOK'
  <2>1. \A b \in Agents : (Starting(b)' => Starting(b)) /\ (Publishing(b)' => Publishing(b))
    BY <1>2 DEF Starting, Publishing
  <2>2. reaper'.at = "none" <=> reaper.at = "none"
    BY DEF LifecycleInv, LifecycleTypeOK, ReaperStates
  <2> QED
    BY <2>1, <2>2 DEF LifecycleInv, StartOK
<1>4. started' \in {-1, 0, 1, 2}
  BY DEF LifecycleInv, LifecycleTypeOK
<1> QED
  BY <1>3, <1>4, AgentMoves

LEMMA ThreadFacts ==
  ASSUME LifecycleInv, NEW c \in Threads
  PROVE  /\ ctl[c] \in ControlBlocks /\ ctl \in [Threads -> ControlBlocks]
         /\ at[Caller(c)] \in Steps /\ at[Worker(c)] \in Steps /\ at \in [Agents -> Steps]
         /\ sequence \in Nat /\ LifeOK(ctl[c], at[Caller(c)], at[Worker(c)])
         /\ RoleOK(ctl[c], at[Caller(c)], at[Worker(c)])
         /\ ClaimOK(ctl[c], at[Caller(c)], at[Worker(c)], Queued(c), reaper.victim = c)
         /\ DisciplineOK(ctl[c], at[Caller(c)], at[Worker(c)])
BY TwoAgents DEF LifecycleInv, LifecycleTypeOK, ThreadsOK, BlockOK

(* One field of a block changes.                                           *)
LEMMA FieldChanges ==
  ASSUME NEW x \in ControlBlocks
  PROVE  /\ LET y == [x EXCEPT !.mem = "freed"]
            IN  /\ y \in ControlBlocks /\ y.mem = "freed" /\ y.role = x.role /\ y.tid = x.tid
                /\ y.detached = x.detached /\ y.queued = x.queued
         /\ \A v \in {0, 1} :
              LET y == [x EXCEPT !.tid = v]
              IN  /\ y \in ControlBlocks /\ y.mem = x.mem /\ y.role = x.role /\ y.tid = v
                  /\ y.detached = x.detached /\ y.queued = x.queued
         /\ LET y == [x EXCEPT !.detached = TRUE]
            IN  /\ y \in ControlBlocks /\ y.mem = x.mem /\ y.role = x.role /\ y.tid = x.tid
                /\ y.detached /\ y.queued = x.queued
         /\ LET y == [x EXCEPT !.queued = TRUE]
            IN  /\ y \in ControlBlocks /\ y.mem = x.mem /\ y.role = x.role /\ y.tid = x.tid
                /\ y.detached = x.detached /\ y.queued
BY DEF ControlBlocks

(* A step that the caller of c takes, which changes the block at most.     *)
LEMMA CallerGoesOn ==
  ASSUME LifecycleInv, NEW c \in Threads, NEW x \in ControlBlocks,
         NEW step \in Steps \ {"createStart", "detachStart", "createPublish", "detachPublish"},
         Goto(Caller(c), step), ctl' = [ctl EXCEPT ![c] = x], UNCHANGED reap,
         BlockOK(x, step, at[Worker(c)], Queued(c), reaper.victim = c)
  PROVE  LifecycleInv'
<1>1. UNCHANGED <<disciplined, list, started>> /\ sequence' \in Nat /\ reaper' = reaper
  BY ThreadFacts DEF reap
<1> QED
  BY <1>1, AgentGoesOn DEF Moves

-----------------------------------------------------------------------------
(* Creating and joining                                                    *)

LEMMA CreateWell ==
  ASSUME LifecycleInv, NEW c \in Threads, NEW role \in Roles, Create(c, role)
  PROVE  LifecycleInv'
<1> DEFINE own == role = "createdDetached"
           x == [ctl[c] EXCEPT !.mem = "live", !.role = role, !.detached = own]
           step == IF own THEN "createEnsure" ELSE "clone"
<1>1. /\ at[Caller(c)] = "none" /\ ctl' = [ctl EXCEPT ![c] = x]
      /\ Goto(Caller(c), step) /\ UNCHANGED reap
  BY DEF Create
<1>2. /\ own \in BOOLEAN /\ step \in {"createEnsure", "clone"}
      /\ own => role = "createdDetached"
  OBVIOUS
<1> HIDE DEF own, step
<1>3. /\ x \in ControlBlocks /\ x.mem = "live" /\ x.role = role /\ x.detached = own
      /\ x.tid = ctl[c].tid /\ x.queued = ctl[c].queued
  <2>1. ctl[c] \in ControlBlocks
    BY ThreadFacts
  <2>2. x \in ControlBlocks
    BY <1>2, <2>1 DEF ControlBlocks
  <2>3. x.mem = "live" /\ x.role = role /\ x.tid = ctl[c].tid /\ x.queued = ctl[c].queued
    BY <2>1 DEF ControlBlocks
  <2>4. x.detached = own
    BY <2>1 DEF ControlBlocks
  <2> QED
    BY <2>2, <2>3, <2>4
<1> HIDE DEF x
<1>4. at[Worker(c)] = "none" /\ ~ ctl[c].queued /\ ctl[c].tid = 0
  BY <1>1, ThreadFacts DEF LifeOK, ClaimOK
<1>5. BlockOK(x, step, at[Worker(c)], Queued(c), reaper.victim = c)
  <2>1. LifeOK(x, step, at[Worker(c)])
    BY <1>2, <1>3, <1>4 DEF LifeOK, CallerSteps, ThreadSteps, Creating,
       CreateSteps
  <2>2. RoleOK(x, step, at[Worker(c)])
    BY <1>2, <1>3, <1>4 DEF RoleOK, DetachSteps, EnqueueSteps, JoinSteps
  <2>3. ClaimOK(x, step, at[Worker(c)], Queued(c), reaper.victim = c)
    BY <1>2, <1>3, <1>4, ThreadFacts DEF ClaimOK, EnqueueSteps
  <2>4. DisciplineOK(x, step, at[Worker(c)])
    BY <1>2, <1>3, <1>4 DEF DisciplineOK, DetachSteps
  <2> QED
    BY <2>1, <2>2, <2>3, <2>4 DEF BlockOK
<1>6. step \in Steps \ {"createStart", "detachStart", "createPublish", "detachPublish"}
  BY <1>2 DEF Steps, CreateSteps
<1> QED
  BY <1>1, <1>3, <1>5, <1>6, CallerGoesOn

(* Neither memory nor a thread: the block goes before anybody knew it.     *)
LEMMA CloneFailsWell ==
  ASSUME LifecycleInv, NEW c \in Threads, CloneFails(c)
  PROVE  LifecycleInv'
<1> DEFINE x == [ctl[c] EXCEPT !.mem = "freed"]
<1>1. /\ at[Caller(c)] = "clone" /\ Goto(Caller(c), "done") /\ UNCHANGED reap
      /\ ctl' = [ctl EXCEPT ![c] = x]
  BY ThreadFacts DEF CloneFails, Free
<1>2. /\ x \in ControlBlocks /\ x.mem = "freed" /\ x.role = ctl[c].role /\ x.tid = ctl[c].tid
      /\ x.detached = ctl[c].detached /\ x.queued = ctl[c].queued
  BY ThreadFacts, FieldChanges
<1> HIDE DEF x
<1>3. at[Worker(c)] = "none" /\ ~ ctl[c].queued /\ ctl[c].tid = 0
  BY <1>1, ThreadFacts DEF LifeOK, ClaimOK, Creating, CreateSteps
<1>4. BlockOK(x, "done", at[Worker(c)], Queued(c), reaper.victim = c)
  <2>1. LifeOK(x, "done", at[Worker(c)])
    BY <1>2, <1>3 DEF LifeOK, CallerSteps, ThreadSteps, Creating, CreateSteps
  <2>2. RoleOK(x, "done", at[Worker(c)])
    BY <1>1, <1>2, <1>3, ThreadFacts DEF RoleOK, DetachSteps, EnqueueSteps,
       JoinSteps
  <2>3. ClaimOK(x, "done", at[Worker(c)], Queued(c), reaper.victim = c)
    BY <1>2, <1>3, ThreadFacts DEF ClaimOK, EnqueueSteps
  <2>4. DisciplineOK(x, "done", at[Worker(c)])
    BY <1>2, <1>3 DEF DisciplineOK, DetachSteps
  <2> QED
    BY <2>1, <2>2, <2>3, <2>4 DEF BlockOK
<1> QED
  BY <1>1, <1>2, <1>4, CallerGoesOn DEF Steps

(* The thread begins to run, while its creator is in the call.             *)
LEMMA CloneWell ==
  ASSUME LifecycleInv, NEW c \in Threads, Clone(c)
  PROVE  LifecycleInv'
<1> DEFINE x == [ctl[c] EXCEPT !.tid = 1]
<1>1. /\ at[Caller(c)] = "clone" /\ ctl' = [ctl EXCEPT ![c] = x] /\ UNCHANGED reap
      /\ at' = [at EXCEPT ![Caller(c)] = "storeTid", ![Worker(c)] = "run"]
  BY ThreadFacts DEF Clone
<1>2. /\ x \in ControlBlocks /\ x.mem = ctl[c].mem /\ x.role = ctl[c].role /\ x.tid = 1
      /\ x.detached = ctl[c].detached /\ x.queued = ctl[c].queued
  BY ThreadFacts, FieldChanges
<1> HIDE DEF x
<1>3. /\ at[Worker(c)] = "none" /\ ~ ctl[c].queued /\ ctl[c].mem = "live"
  BY <1>1, ThreadFacts DEF LifeOK, ClaimOK, Creating, CreateSteps
<1>4. BlockOK(x, "storeTid", "run", Queued(c), reaper.victim = c)
  <2>1. LifeOK(x, "storeTid", "run")
    BY <1>2, <1>3 DEF LifeOK, CallerSteps, ThreadSteps, Creating, CreateSteps,
       WorkerSteps
  <2>2. RoleOK(x, "storeTid", "run")
    BY <1>1, <1>2, <1>3, ThreadFacts DEF RoleOK, DetachSteps, EnqueueSteps,
       JoinSteps
  <2>3. ClaimOK(x, "storeTid", "run", Queued(c), reaper.victim = c)
    BY <1>2, <1>3, ThreadFacts DEF ClaimOK, EnqueueSteps
  <2>4. DisciplineOK(x, "storeTid", "run")
    BY <1>2, <1>3 DEF DisciplineOK, DetachSteps
  <2> QED
    BY <2>1, <2>2, <2>3, <2>4 DEF BlockOK
<1>5. /\ at' \in [Agents -> Steps] /\ at'[Caller(c)] = "storeTid" /\ at'[Worker(c)] = "run"
      /\ \A a \in Agents : a # Caller(c) /\ a # Worker(c) => at'[a] = at[a]
  BY <1>1, TwoAgents, ThreadFacts DEF Steps, CreateSteps, WorkerSteps
<1>6. \A a \in Agents : a[2] # c => at'[a] = at[a]
  BY <1>5, TwoAgents
<1>7. /\ UNCHANGED <<disciplined, list, reaper>> /\ sequence' \in Nat
      /\ started' = started /\ started \in {-1, 0, 1, 2}
  BY <1>1 DEF reap, LifecycleInv, LifecycleTypeOK
<1>8. StartOK'
  <2>1. \A a \in Agents : (Starting(a)' => Starting(a)) /\ (Publishing(a)' => Publishing(a))
    BY <1>5 DEF Starting, Publishing
  <2> QED
    BY <1>7, <2>1 DEF LifecycleInv, StartOK
<1> QED
  BY <1>1, <1>2, <1>4, <1>5, <1>6, <1>7, <1>8, BlockChanges

(* The steps of the caller that leave the block as it is.                  *)
LEMMA CallerLeavesBlock ==
  ASSUME LifecycleInv, NEW c \in Threads,
         \/ StoreTid(c) \/ JoinCall(c) \/ JoinTest(c) \/ JoinLoad(c) \/ JoinWait(c)
         \/ JoinInterrupted(c) \/ DetachCall(Caller(c))
  PROVE  LifecycleInv'
<1>1. /\ Caller(c)[1] = "caller" /\ Caller(c)[2] = c /\ Caller(c)[1] # "worker"
      /\ ctl' = ctl /\ UNCHANGED reap /\ ctl = [ctl EXCEPT ![c] = ctl[c]]
  BY TwoAgents, ThreadFacts
     DEF StoreTid, JoinCall, JoinTest, JoinLoad, JoinWait, JoinInterrupted, DetachCall
<1>2. ASSUME NEW step \in Steps \ {"createStart", "detachStart", "createPublish", "detachPublish"},
             Goto(Caller(c), step),
             BlockOK(ctl[c], step, at[Worker(c)], Queued(c), reaper.victim = c)
      PROVE  LifecycleInv'
  BY <1>1, <1>2, ThreadFacts, CallerGoesOn
<1>3. CASE StoreTid(c)
  <2>1. at[Caller(c)] = "storeTid" /\ Goto(Caller(c), "idle") /\ ctl[c].mem = "live"
    BY <1>3 DEF StoreTid, Live
  <2>2. LifeOK(ctl[c], "idle", at[Worker(c)])
    BY <2>1, ThreadFacts DEF LifeOK, CallerSteps, Creating, CreateSteps
  <2>3. RoleOK(ctl[c], "idle", at[Worker(c)])
    BY <2>1, ThreadFacts DEF RoleOK, DetachSteps, EnqueueSteps, JoinSteps
  <2>4. ClaimOK(ctl[c], "idle", at[Worker(c)], Queued(c), reaper.victim = c)
    BY <2>1, ThreadFacts DEF ClaimOK, EnqueueSteps
  <2>5. DisciplineOK(ctl[c], "idle", at[Worker(c)])
    BY <2>1, ThreadFacts DEF DisciplineOK, DetachSteps, EnqueueSteps
  <2> QED
    BY <1>2, <2>1, <2>2, <2>3, <2>4, <2>5 DEF BlockOK, Steps
<1>4. CASE JoinCall(c) \/ JoinTest(c) \/ JoinLoad(c) \/ JoinWait(c) \/ JoinInterrupted(c)
  <2>1. PICK step \in JoinSteps :
               /\ at[Caller(c)] \in {"idle"} \union JoinSteps /\ ctl[c].role = "joined"
               /\ step = "joinDestroy" => ctl[c].tid = 0
               /\ Goto(Caller(c), step)
               /\ disciplined => ctl[c].mem # "freed"
    BY <1>4, ThreadFacts
       DEF JoinCall, JoinTest, JoinLoad, JoinWait, JoinInterrupted, JoinSteps, RoleOK,
           DisciplineOK
  <2>2. LifeOK(ctl[c], step, at[Worker(c)])
    BY <2>1, ThreadFacts DEF LifeOK, CallerSteps, Creating, CreateSteps,
       JoinSteps
  <2>3. RoleOK(ctl[c], step, at[Worker(c)])
    BY <2>1, ThreadFacts DEF RoleOK, DetachSteps, EnqueueSteps, JoinSteps
  <2>4. ClaimOK(ctl[c], step, at[Worker(c)], Queued(c), reaper.victim = c)
    BY <2>1, ThreadFacts DEF ClaimOK, EnqueueSteps, JoinSteps
  <2>5. DisciplineOK(ctl[c], step, at[Worker(c)])
    BY <2>1, ThreadFacts DEF DisciplineOK, RoleOK, DetachSteps, EnqueueSteps,
       JoinSteps
  <2>6. step \in Steps \ {"createStart", "detachStart", "createPublish", "detachPublish"}
    BY DEF Steps, JoinSteps
  <2> QED
    BY <1>2, <2>1, <2>2, <2>3, <2>4, <2>5, <2>6 DEF BlockOK
<1>5. CASE DetachCall(Caller(c))
  <2>1. /\ at[Caller(c)] = "idle" /\ ctl[c].role = "detachedByOther"
        /\ disciplined => at[Worker(c)] \in {"run", "dead"}
        /\ Goto(Caller(c), "detachEnsure")
    BY <1>1, <1>5 DEF DetachCall
  <2>2. ~ ctl[c].detached /\ ~ ctl[c].queued
    BY <2>1, ThreadFacts DEF RoleOK, ClaimOK, EnqueueSteps
  <2>3. LifeOK(ctl[c], "detachEnsure", at[Worker(c)])
    BY <2>1, ThreadFacts DEF LifeOK, CallerSteps, Creating, CreateSteps,
       DetachSteps
  <2>4. RoleOK(ctl[c], "detachEnsure", at[Worker(c)])
    BY <2>1, <2>2, ThreadFacts DEF RoleOK, DetachSteps, EnqueueSteps, JoinSteps
  <2>5. ClaimOK(ctl[c], "detachEnsure", at[Worker(c)], Queued(c), reaper.victim = c)
    BY <2>1, ThreadFacts DEF ClaimOK, EnqueueSteps
  <2>6. DisciplineOK(ctl[c], "detachEnsure", at[Worker(c)])
    BY <2>1, <2>2, ThreadFacts DEF DisciplineOK, DetachSteps, EnqueueSteps
  <2> QED
    BY <1>2, <2>1, <2>3, <2>4, <2>5, <2>6 DEF BlockOK, Steps, DetachSteps
<1> QED
  BY <1>3, <1>4, <1>5

(* pthread_join gives the stack and the block back.                        *)
LEMMA JoinDestroyWell ==
  ASSUME LifecycleInv, NEW c \in Threads, JoinDestroy(c)
  PROVE  LifecycleInv'
<1> DEFINE x == [ctl[c] EXCEPT !.mem = "freed"]
<1>1. /\ at[Caller(c)] = "joinDestroy" /\ Goto(Caller(c), "done") /\ UNCHANGED reap
      /\ ctl' = [ctl EXCEPT ![c] = x]
  BY ThreadFacts DEF JoinDestroy, Free
<1>2. /\ x \in ControlBlocks /\ x.mem = "freed" /\ x.role = ctl[c].role /\ x.tid = ctl[c].tid
      /\ x.detached = ctl[c].detached /\ x.queued = ctl[c].queued
  BY ThreadFacts, FieldChanges
<1> HIDE DEF x
<1>3. ctl[c].role = "joined" /\ ctl[c].tid = 0 /\ ~ ctl[c].detached /\ ~ ctl[c].queued
  BY <1>1, ThreadFacts DEF RoleOK, ClaimOK, JoinSteps
<1>4. BlockOK(x, "done", at[Worker(c)], Queued(c), reaper.victim = c)
  <2>1. LifeOK(x, "done", at[Worker(c)])
    BY <1>1, <1>2, <1>3, ThreadFacts
       DEF LifeOK, CallerSteps, Creating, CreateSteps
  <2>2. RoleOK(x, "done", at[Worker(c)])
    BY <1>1, <1>2, <1>3, ThreadFacts DEF RoleOK, DetachSteps, EnqueueSteps,
       JoinSteps
  <2>3. ClaimOK(x, "done", at[Worker(c)], Queued(c), reaper.victim = c)
    <3>1. at[Worker(c)] \notin EnqueueSteps
      BY <1>3, ThreadFacts DEF RoleOK
    <3> QED
      BY <1>2, <1>3, <3>1, ThreadFacts DEF ClaimOK, EnqueueSteps
  <2>4. DisciplineOK(x, "done", at[Worker(c)])
    BY <1>2, <1>3 DEF DisciplineOK, DetachSteps
  <2> QED
    BY <2>1, <2>2, <2>3, <2>4 DEF BlockOK
<1> QED
  BY <1>1, <1>2, <1>4, CallerGoesOn DEF Steps

-----------------------------------------------------------------------------
(* The thread itself                                                       *)

LEMMA WorkerGoesOn ==
  ASSUME LifecycleInv, NEW c \in Threads, NEW x \in ControlBlocks,
         NEW step \in Steps \ {"createStart", "detachStart", "createPublish", "detachPublish"},
         Goto(Worker(c), step), ctl' = [ctl EXCEPT ![c] = x], UNCHANGED reap,
         BlockOK(x, at[Caller(c)], step, Queued(c), reaper.victim = c)
  PROVE  LifecycleInv'
<1>1. UNCHANGED <<disciplined, list, started>> /\ sequence' \in Nat /\ reaper' = reaper
  BY ThreadFacts DEF reap
<1> QED
  BY <1>1, AgentGoesOn DEF Moves

(* The steps of the thread that leave its block as it is.                  *)
LEMMA WorkerLeavesBlock ==
  ASSUME LifecycleInv, NEW c \in Threads,
         RoutineReturns(c) \/ RoutineExits(c) \/ DestructorsEnd(c) \/ DetachCall(Worker(c))
  PROVE  LifecycleInv'
<1>1. /\ Worker(c)[1] = "worker" /\ Worker(c)[2] = c /\ Worker(c)[1] # "caller"
      /\ ctl' = ctl /\ UNCHANGED reap /\ ctl = [ctl EXCEPT ![c] = ctl[c]]
  BY TwoAgents, ThreadFacts 
     DEF RoutineReturns, RoutineExits, DestructorsEnd, DetachCall
<1>2. ASSUME NEW step \in Steps \ {"createStart", "detachStart", "createPublish", "detachPublish"},
             Goto(Worker(c), step),
             BlockOK(ctl[c], at[Caller(c)], step, Queued(c), reaper.victim = c)
      PROVE  LifecycleInv'
  BY <1>1, <1>2, ThreadFacts, WorkerGoesOn
<1>3. CASE RoutineReturns(c) \/ RoutineExits(c)
  <2>1. /\ at[Worker(c)] = "run"
        /\ disciplined => at[Caller(c)] \notin CreateSteps \union DetachSteps
    BY <1>3 DEF RoutineReturns, RoutineExits, MayEnd
  <2>2. PICK step : /\ Goto(Worker(c), step)
                    /\ \/ ctl[c].detached /\ step \in {"reapCas", "exitDetached"}
                       \/ ~ ctl[c].detached /\ step \in {"exit", "exitAttached"}
    BY <1>3, ThreadFacts DEF RoutineReturns, RoutineExits
  <2>3. LifeOK(ctl[c], at[Caller(c)], step)
    BY <2>1, <2>2, ThreadFacts DEF LifeOK, ThreadSteps, WorkerSteps, EnqueueSteps
  <2>4. RoleOK(ctl[c], at[Caller(c)], step)
    BY <2>1, <2>2, ThreadFacts DEF RoleOK, DetachSteps, EnqueueSteps
  <2>5. ClaimOK(ctl[c], at[Caller(c)], step, Queued(c), reaper.victim = c)
    BY <2>1, <2>2, ThreadFacts DEF ClaimOK, EnqueueSteps
  <2>6. DisciplineOK(ctl[c], at[Caller(c)], step)
    BY <2>1, <2>2, ThreadFacts DEF DisciplineOK, CreateSteps
  <2> QED
    BY <1>2, <2>2, <2>3, <2>4, <2>5, <2>6 DEF BlockOK, Steps, WorkerSteps, EnqueueSteps
<1>4. CASE DestructorsEnd(c)
  <2>1. PICK step \in {"reapCas", "exit"} :
               /\ at[Worker(c)] = (IF step = "reapCas" THEN "exitDetached" ELSE "exitAttached")
               /\ Goto(Worker(c), step)
    BY <1>4 DEF DestructorsEnd
  <2>2. LifeOK(ctl[c], at[Caller(c)], step)
    BY <2>1, ThreadFacts DEF LifeOK, ThreadSteps, WorkerSteps, EnqueueSteps
  <2>3. RoleOK(ctl[c], at[Caller(c)], step)
    BY <2>1, ThreadFacts DEF RoleOK, DetachSteps, EnqueueSteps
  <2>4. ClaimOK(ctl[c], at[Caller(c)], step, Queued(c), reaper.victim = c)
    BY <2>1, ThreadFacts DEF ClaimOK, EnqueueSteps
  <2>5. DisciplineOK(ctl[c], at[Caller(c)], step)
    BY <2>1, ThreadFacts DEF DisciplineOK, DetachSteps
  <2> QED
    BY <1>2, <2>1, <2>2, <2>3, <2>4, <2>5 DEF BlockOK, Steps, WorkerSteps,
       EnqueueSteps
<1>5. CASE DetachCall(Worker(c))
  <2>1. /\ Goto(Worker(c), "detachEnsure")
        /\ \/ at[Worker(c)] = "run" /\ ctl[c].role = "detachedBySelf"
           \/ at[Worker(c)] = "exitAttached" /\ ctl[c].role = "detachedInExit"
    BY <1>1, <1>5 DEF DetachCall
  <2>2. at[Caller(c)] \notin DetachSteps \union EnqueueSteps
    BY <2>1, ThreadFacts DEF RoleOK
  <2>3. LifeOK(ctl[c], at[Caller(c)], "detachEnsure")
    BY <2>1, ThreadFacts DEF LifeOK, ThreadSteps, DetachSteps
  <2>4. RoleOK(ctl[c], at[Caller(c)], "detachEnsure")
    BY <2>1, ThreadFacts DEF RoleOK, EnqueueSteps
  <2>5. ClaimOK(ctl[c], at[Caller(c)], "detachEnsure", Queued(c), reaper.victim = c)
    BY <2>1, ThreadFacts DEF ClaimOK, EnqueueSteps
  <2>6. DisciplineOK(ctl[c], at[Caller(c)], "detachEnsure")
    BY <2>1, <2>2, ThreadFacts DEF DisciplineOK, DetachSteps, EnqueueSteps
  <2> QED
    BY <1>2, <2>1, <2>3, <2>4, <2>5, <2>6 DEF BlockOK, Steps, DetachSteps
<1> QED
  BY <1>3, <1>4, <1>5

(* The kernel has left the stack.                                          *)
LEMMA KernelClearsTidWell ==
  ASSUME LifecycleInv, NEW c \in Threads, KernelClearsTid(c)
  PROVE  LifecycleInv'
<1> DEFINE x == [ctl[c] EXCEPT !.tid = 0]
<1>1. /\ at[Worker(c)] = "exit" /\ ctl[c].mem = "live" /\ Goto(Worker(c), "kernelWake")
      /\ UNCHANGED reap /\ ctl' = [ctl EXCEPT ![c] = x]
  BY ThreadFacts DEF KernelClearsTid, Live
<1>2. /\ x \in ControlBlocks /\ x.mem = ctl[c].mem /\ x.role = ctl[c].role /\ x.tid = 0
      /\ x.detached = ctl[c].detached /\ x.queued = ctl[c].queued
  BY ThreadFacts, FieldChanges
<1> HIDE DEF x
<1>3. LifeOK(x, at[Caller(c)], "kernelWake")
  BY <1>1, <1>2, ThreadFacts DEF LifeOK, ThreadSteps, WorkerSteps
<1>4. RoleOK(x, at[Caller(c)], "kernelWake")
  BY <1>1, <1>2, ThreadFacts DEF RoleOK, DetachSteps, EnqueueSteps
<1>5. ClaimOK(x, at[Caller(c)], "kernelWake", Queued(c), reaper.victim = c)
  BY <1>1, <1>2, ThreadFacts DEF ClaimOK, EnqueueSteps
<1>6. DisciplineOK(x, at[Caller(c)], "kernelWake")
  BY <1>1, <1>2, ThreadFacts DEF DisciplineOK, DetachSteps
<1> QED
  BY <1>1, <1>2, <1>3, <1>4, <1>5, <1>6, WorkerGoesOn DEF BlockOK, Steps,
     WorkerSteps

(* The kernel wakes the joiner or the reaper.                              *)
LEMMA KernelWakesWell ==
  ASSUME LifecycleInv, NEW c \in Threads, KernelWakes(c)
  PROVE  LifecycleInv'
<1>1. PICK woken \in WakeOne(TidSleepers(c)) :
             /\ at' = [at EXCEPT ![Worker(c)] = "dead",
                                 ![Caller(c)] = IF "joiner" \in woken THEN "joinLoad" ELSE @]
             /\ reaper' = [reaper EXCEPT !.at = IF "reaper" \in woken THEN "lock" ELSE @]
  BY DEF KernelWakes
<1>2. at[Worker(c)] = "kernelWake" /\ UNCHANGED <<disciplined, ctl, list, sequence, started>>
  BY DEF KernelWakes
<1>3. woken \subseteq TidSleepers(c)
  BY DEF WakeOne
<1>4. /\ "joiner" \in woken => at[Caller(c)] = "joinAsleep"
      /\ "reaper" \in woken => reaper.at = "tidAsleep"
  BY <1>3 DEF TidSleepers
<1> DEFINE k == IF "joiner" \in woken THEN "joinLoad" ELSE at[Caller(c)]
<1>5. /\ \/ k = at[Caller(c)]
         \/ k = "joinLoad" /\ at[Caller(c)] = "joinAsleep"
      /\ k \in Steps
  <2>1. "joinLoad" \in Steps /\ at[Caller(c)] \in Steps
    BY ThreadFacts DEF Steps, JoinSteps
  <2> QED
    BY <1>4, <2>1
<1>6. /\ at' \in [Agents -> Steps] /\ at'[Worker(c)] = "dead" /\ at'[Caller(c)] = k
      /\ \A a \in Agents : a # Caller(c) /\ a # Worker(c) => at'[a] = at[a]
  BY <1>1, <1>5, TwoAgents, ThreadFacts DEF Steps, WorkerSteps
<1> HIDE DEF k
<1>7. BlockOK(ctl[c], k, "dead", Queued(c), reaper.victim = c)
  <2>1. LifeOK(ctl[c], k, "dead")
    BY <1>2, <1>5, ThreadFacts
       DEF LifeOK, CallerSteps, ThreadSteps, WorkerSteps, Creating, CreateSteps, JoinSteps
  <2>2. RoleOK(ctl[c], k, "dead")
    BY <1>2, <1>5, ThreadFacts DEF RoleOK, DetachSteps, EnqueueSteps, JoinSteps
  <2>3. ClaimOK(ctl[c], k, "dead", Queued(c), reaper.victim = c)
    BY <1>2, <1>5, ThreadFacts DEF ClaimOK, EnqueueSteps
  <2>4. DisciplineOK(ctl[c], k, "dead")
    BY <1>2, <1>5, ThreadFacts DEF DisciplineOK, DetachSteps, EnqueueSteps
  <2> QED
    BY <2>1, <2>2, <2>3, <2>4 DEF BlockOK
<1>8. \/ reaper' = reaper
      \/ reaper' = [reaper EXCEPT !.at = "lock"] /\ reaper.at = "tidAsleep"
  BY <1>1, <1>4 DEF LifecycleInv, LifecycleTypeOK, ReaperStates
<1>9. StartOK'
  <2>1. \A a \in Agents : (Starting(a)' => Starting(a)) /\ (Publishing(a)' => Publishing(a))
    BY <1>5, <1>6 DEF Starting, Publishing
  <2>2. reaper'.at = "none" <=> reaper.at = "none"
    BY <1>8 DEF LifecycleInv, LifecycleTypeOK, ReaperStates
  <2> QED
    BY <1>2, <2>1, <2>2 DEF LifecycleInv, StartOK
<1>10. /\ \A a \in Agents : a[2] # c => at'[a] = at[a]
       /\ ctl[c] \in ControlBlocks /\ ctl' = [ctl EXCEPT ![c] = ctl[c]]
       /\ sequence' \in Nat /\ started' \in {-1, 0, 1, 2}
       /\ UNCHANGED <<disciplined, list>>
  BY <1>2, <1>6, TwoAgents, ThreadFacts DEF LifecycleInv, LifecycleTypeOK
<1>11. \/ reaper' = reaper
       \/ /\ reaper' = [reaper EXCEPT !.at = "lock"]
          /\ reaper.at \in {"none", "seqAsleep", "tidAsleep"}
  BY <1>8
<1> QED
  BY <1>6, <1>7, <1>9, <1>10, <1>11, BlockChanges

-----------------------------------------------------------------------------
(* The calls that start the reaper                                         *)

LEMMA AgentFacts ==
  ASSUME LifecycleInv, NEW a \in Agents
  PROVE  /\ a[2] \in Threads /\ a \in {Caller(a[2]), Worker(a[2])} /\ at[a] \in Steps
         /\ a = Caller(a[2]) <=> a[1] = "caller"
         /\ a = Worker(a[2]) <=> a[1] = "worker"
         /\ \A step : \E k, w : Moves(a, a[2], step, k, w)
         /\ at[a] \in CreateSteps => a = Caller(a[2])
         /\ at[a] \in CreateSteps => at[a] \notin DetachSteps
<1>1. /\ a[2] \in Threads /\ at[a] \in Steps
      /\ \/ a = Caller(a[2]) /\ a[1] = "caller" /\ a # Worker(a[2])
         \/ a = Worker(a[2]) /\ a[1] = "worker" /\ a # Caller(a[2])
  BY TwoAgents DEF LifecycleInv, LifecycleTypeOK
<1>2. at[Worker(a[2])] \notin CreateSteps
  BY <1>1, ThreadFacts
     DEF LifeOK, ThreadSteps, CreateSteps, DetachSteps, EnqueueSteps, WorkerSteps
<1>3. \A step : step \in CreateSteps => step \notin DetachSteps
  BY DEF CreateSteps, DetachSteps
<1> QED
  BY <1>1, <1>2, <1>3 DEF Moves

(* The call goes on towards its end or is still about the reaper.          *)
LEMMA EnsureBlock ==
  ASSUME LifecycleInv, NEW a \in Agents, Ensuring(a) \/ Starting(a) \/ Publishing(a),
         NEW step,
         at[a] \in CreateSteps => step \in {"createStart", "createPublish", "clone"},
         at[a] \notin CreateSteps => step \in {"detachStart", "detachPublish", "detachCas"},
         NEW k, NEW w, Moves(a, a[2], step, k, w)
  PROVE  step \in Steps /\ BlockOK(ctl[a[2]], k, w, Queued(a[2]), reaper.victim = a[2])
<1> DEFINE c == a[2]
<1>1. c \in Threads
  BY AgentFacts
<1>2. /\ \/ a = Caller(c) /\ k = step /\ w = at[Worker(c)] /\ at[Caller(c)] = at[a]
         \/ a = Worker(c) /\ k = at[Caller(c)] /\ w = step /\ at[Worker(c)] = at[a]
      /\ at[a] \in CreateSteps => a = Caller(c)
      /\ at[a] \in {"createEnsure", "createStart", "createPublish",
                    "detachEnsure", "detachStart", "detachPublish"}
  BY AgentFacts DEF Moves, Ensuring, Starting, Publishing
<1> HIDE DEF c
<1>3. \/ /\ at[Caller(c)] \in {"createEnsure", "createStart", "createPublish"}
         /\ k \in {"createStart", "createPublish", "clone"} /\ w = at[Worker(c)]
      \/ /\ at[Caller(c)] \in {"detachEnsure", "detachStart", "detachPublish"}
         /\ k \in {"detachStart", "detachPublish", "detachCas"} /\ w = at[Worker(c)]
      \/ /\ at[Worker(c)] \in {"detachEnsure", "detachStart", "detachPublish"}
         /\ w \in {"detachStart", "detachPublish", "detachCas"} /\ k = at[Caller(c)]
  <2>1. CASE at[a] \in CreateSteps
    <3>1. /\ a = Caller(c) /\ k = step /\ w = at[Worker(c)] /\ at[Caller(c)] = at[a]
          /\ step \in {"createStart", "createPublish", "clone"}
          /\ at[a] \in {"createEnsure", "createStart", "createPublish"}
      BY <1>1, <1>2, <2>1, TwoAgents DEF CreateSteps
    <3> QED
      BY <3>1
  <2>2. CASE at[a] \notin CreateSteps
    <3>1. /\ step \in {"detachStart", "detachPublish", "detachCas"}
          /\ at[a] \in {"detachEnsure", "detachStart", "detachPublish"}
      BY <1>2, <2>2 DEF CreateSteps
    <3> QED
      BY <1>2, <3>1
  <2> QED
    BY <2>1, <2>2
<1>4. LifeOK(ctl[c], k, w)
  BY <1>1, <1>3, ThreadFacts
     DEF LifeOK, CallerSteps, ThreadSteps, Creating, CreateSteps, DetachSteps
<1>5. RoleOK(ctl[c], k, w)
  BY <1>1, <1>3, ThreadFacts DEF RoleOK, DetachSteps, EnqueueSteps, JoinSteps
<1>6. ClaimOK(ctl[c], k, w, Queued(c), reaper.victim = c)
  BY <1>1, <1>3, ThreadFacts DEF ClaimOK, EnqueueSteps
<1>7. DisciplineOK(ctl[c], k, w)
  <2>1. at[Worker(c)] \in DetachSteps => at[Caller(c)] \notin DetachSteps \union EnqueueSteps
    BY <1>1, ThreadFacts DEF RoleOK
  <2> QED
    BY <1>1, <1>3, <2>1, ThreadFacts DEF DisciplineOK, DetachSteps, EnqueueSteps
<1>8. step \in Steps
  BY DEF Steps, CreateSteps, DetachSteps
<1> QED
  BY <1>4, <1>5, <1>6, <1>7, <1>8 DEF BlockOK, c

(* The call cannot have a reaper: it fails, and a thread that was to be    *)
(* created is not.                                                         *)
LEMMA NoReaperBlock ==
  ASSUME LifecycleInv, NEW a \in Agents, Ensuring(a) \/ Starting(a), WithoutReaper(a),
         NEW k, NEW w, Moves(a, a[2], Back(a), k, w)
  PROVE  \E x \in ControlBlocks : /\ ctl' = [ctl EXCEPT ![a[2]] = x]
                                  /\ BlockOK(x, k, w, Queued(a[2]), reaper.victim = a[2])
<1> DEFINE c == a[2]
           freed == [ctl[c] EXCEPT !.mem = "freed"]
<1>1. c \in Threads /\ at[a] \in {"createEnsure", "createStart", "detachEnsure", "detachStart"}
  BY AgentFacts DEF Ensuring, Starting
<1>2. CASE at[a] \in CreateSteps
  <2>1. /\ a = Caller(c) /\ at[Caller(c)] \in {"createEnsure", "createStart"}
        /\ k = "done" /\ w = at[Worker(c)]
    BY <1>1, <1>2, AgentFacts, TwoAgents DEF Moves, CreateSteps, Back
  <2>2. ctl' = [ctl EXCEPT ![c] = freed]
    BY <1>1, <1>2, ThreadFacts DEF WithoutReaper, Free
  <2>3. /\ freed \in ControlBlocks /\ freed.mem = "freed" /\ freed.role = ctl[c].role
        /\ freed.tid = ctl[c].tid /\ freed.detached = ctl[c].detached
        /\ freed.queued = ctl[c].queued
    BY <1>1, ThreadFacts, FieldChanges
  <2> HIDE DEF freed, c
  <2>4. w = "none" /\ ~ ctl[c].queued /\ ctl[c].tid = 0
    BY <1>1, <2>1, ThreadFacts DEF LifeOK, ClaimOK, Creating, CreateSteps
  <2>5. LifeOK(freed, k, w)
    BY <2>1, <2>3, <2>4 DEF LifeOK, CallerSteps, ThreadSteps, Creating,
       CreateSteps
  <2>6. RoleOK(freed, k, w)
    BY <1>1, <2>1, <2>3, <2>4, ThreadFacts DEF RoleOK, DetachSteps,
       EnqueueSteps, JoinSteps
  <2>7. ClaimOK(freed, k, w, Queued(c), reaper.victim = c)
    BY <1>1, <2>1, <2>3, <2>4, ThreadFacts DEF ClaimOK, EnqueueSteps
  <2>8. DisciplineOK(freed, k, w)
    BY <2>1, <2>3, <2>4 DEF DisciplineOK, DetachSteps
  <2> QED
    BY <2>2, <2>3, <2>5, <2>6, <2>7, <2>8 DEF BlockOK, c
<1>3. CASE at[a] \notin CreateSteps
  <2>1. ctl' = [ctl EXCEPT ![c] = ctl[c]] /\ ctl[c] \in ControlBlocks
    BY <1>1, <1>3, ThreadFacts DEF WithoutReaper
  <2>2. \/ /\ at[Caller(c)] \in {"detachEnsure", "detachStart"}
           /\ k = "done" /\ w = at[Worker(c)]
        \/ /\ at[Worker(c)] \in {"detachEnsure", "detachStart"}
           /\ k = at[Caller(c)]
           /\ w = (IF ctl[c].role = "detachedInExit" THEN "exitAttached" ELSE "run")
    <3>1. at[a] \in {"detachEnsure", "detachStart"} /\ at[a] \in DetachSteps
      BY <1>1, <1>3 DEF CreateSteps, DetachSteps
    <3> QED
      BY <3>1, AgentFacts, TwoAgents DEF Moves, Back
  <2> HIDE DEF c
  <2>3. LifeOK(ctl[c], k, w)
    BY <1>1, <2>2, ThreadFacts
       DEF LifeOK, CallerSteps, ThreadSteps, Creating, CreateSteps, DetachSteps, WorkerSteps
  <2>4. RoleOK(ctl[c], k, w)
    BY <1>1, <2>2, ThreadFacts DEF RoleOK, DetachSteps, EnqueueSteps, JoinSteps
  <2>5. ClaimOK(ctl[c], k, w, Queued(c), reaper.victim = c)
    BY <1>1, <2>2, ThreadFacts DEF ClaimOK, EnqueueSteps
  <2>6. DisciplineOK(ctl[c], k, w)
    <3>1. at[Worker(c)] \in DetachSteps => at[Caller(c)] \notin DetachSteps \union EnqueueSteps
      BY <1>1, ThreadFacts DEF RoleOK
    <3>2. at[Caller(c)] \in {"detachEnsure", "detachStart"} => ~ ctl[c].detached
      BY <1>1, ThreadFacts DEF RoleOK, DetachSteps, EnqueueSteps
    <3> QED
      BY <1>1, <2>2, <3>1, <3>2, ThreadFacts DEF DisciplineOK, DetachSteps,
         EnqueueSteps
  <2> QED
    BY <2>1, <2>3, <2>4, <2>5, <2>6 DEF BlockOK, c
<1> QED
  BY <1>2, <1>3

(* linux_reaper_ensure_started.                                            *)
LEMMA EnsureWell ==
  ASSUME LifecycleInv, NEW a \in Agents, EnsureStep(a)
  PROVE  LifecycleInv'
<1>1. /\ a[2] \in Threads /\ a \in {Caller(a[2]), Worker(a[2])}
      /\ ctl = [ctl EXCEPT ![a[2]] = ctl[a[2]]] /\ ctl[a[2]] \in ControlBlocks
      /\ sequence \in Nat /\ started \in {-1, 0, 1, 2} /\ at \in [Agents -> Steps]
  BY AgentFacts, ThreadFacts DEF LifecycleInv, LifecycleTypeOK
<1>0. /\ started = 0 => reaper.at = "none"
      /\ \A b \in Agents : Starting(b) => started = 1 /\ reaper.at = "none"
      /\ \A b \in Agents : Publishing(b) => reaper.at # "none"
      /\ \A b, d \in Agents : Starting(b) /\ Starting(d) => b = d
  BY DEF LifecycleInv, StartOK
<1>2. UNCHANGED <<disciplined, list, sequence>>
  BY DEF EnsureStep, EnsureStarted, StartReaper, PublishReaper
<1>3. ASSUME NEW step, Goto(a, step)
      PROVE  \A b \in Agents : b # a => at'[b] = at[b]
  BY <1>1, <1>3 DEF Goto
<1>4. CASE UNCHANGED <<ctl, reaper, started>> /\ WithReaper(a) /\ Ensuring(a)
  <2>1. PICK step : /\ step = (IF at[a] \in CreateSteps THEN "clone" ELSE "detachCas")
                    /\ Goto(a, step)
    BY <1>4 DEF WithReaper
  <2>2. PICK k, w : Moves(a, a[2], step, k, w)
    BY AgentFacts
  <2>3. step \in Steps /\ BlockOK(ctl[a[2]], k, w, Queued(a[2]), reaper.victim = a[2])
    BY <1>4, <2>1, <2>2, EnsureBlock
  <2>4. at'[a] = step
    BY <1>1, <2>1 DEF Goto
  <2>5. \A b \in Agents : (Starting(b)' => Starting(b)) /\ (Publishing(b)' => Publishing(b))
    BY <1>3, <2>1, <2>4 DEF Starting, Publishing
  <2>6. StartOK'
    BY <1>4, <2>5 DEF LifecycleInv, StartOK
  <2> QED
    BY <1>1, <1>2, <1>4, <2>1, <2>2, <2>3, <2>6, AgentMoves
<1>5. CASE /\ started' = -1 /\ UNCHANGED reaper /\ WithoutReaper(a)
           /\ (Ensuring(a) /\ started = -1) \/ Starting(a)
  <2>1. PICK step : step = Back(a) /\ Goto(a, step)
    BY <1>5 DEF WithoutReaper
  <2>2. PICK k, w : Moves(a, a[2], step, k, w)
    BY AgentFacts
  <2>3. PICK x \in ControlBlocks : /\ ctl' = [ctl EXCEPT ![a[2]] = x]
                                   /\ BlockOK(x, k, w, Queued(a[2]), reaper.victim = a[2])
    BY <1>5, <2>1, <2>2, NoReaperBlock
  <2>4. at'[a] = step /\ step \in {"done", "exit", "exitAttached", "run"}
    BY <1>1, <2>1 DEF Goto, Back
  <2>5. \A b \in Agents : /\ Starting(b)' => Starting(b) /\ b # a
                          /\ Publishing(b)' => Publishing(b)
    BY <1>3, <2>1, <2>4 DEF Starting, Publishing
  <2>6. \A b \in Agents : ~ Starting(b)'
    <3>1. CASE started = -1
      <4>1. \A b \in Agents : ~ Starting(b)
        BY <1>0, <3>1
      <4> QED
        BY <2>5, <4>1 DEF Starting
    <3>2. CASE Starting(a)
      BY <1>0, <2>5, <3>2 DEF Starting
    <3> QED
      BY <1>5, <3>1, <3>2
  <2>7. StartOK'
    <3>1. started' # 0 /\ reaper'.at = reaper.at
      BY <1>5
    <3> QED
      BY <2>5, <2>6, <3>1 DEF LifecycleInv, StartOK
  <2>8. step \in Steps /\ started' \in {-1, 0, 1, 2}
    BY <1>1, <1>5, <2>4 DEF Steps, WorkerSteps
  <2> QED
    BY <1>1, <1>2, <1>5, <2>1, <2>2, <2>3, <2>7, <2>8, AgentMoves
<1>6. CASE /\ EnsureStarted(a) /\ started = 0 /\ started' = 1 /\ UNCHANGED <<ctl, reaper>>
           /\ Goto(a, IF at[a] \in CreateSteps THEN "createStart" ELSE "detachStart")
  <2>1. PICK step : /\ step = (IF at[a] \in CreateSteps THEN "createStart" ELSE "detachStart")
                    /\ Goto(a, step)
    BY <1>6
  <2>2. PICK k, w : Moves(a, a[2], step, k, w)
    BY AgentFacts
  <2>3. step \in Steps /\ BlockOK(ctl[a[2]], k, w, Queued(a[2]), reaper.victim = a[2])
    BY <1>6, <2>1, <2>2, EnsureBlock DEF EnsureStarted
  <2>4. at'[a] = step /\ step \in {"createStart", "detachStart"}
    BY <1>1, <2>1 DEF Goto
  <2>5. \A b \in Agents : /\ Starting(b)' => b = a
                          /\ Publishing(b)' => Publishing(b)
    <3>1. \A b \in Agents : ~ Starting(b)
      BY <1>6 DEF LifecycleInv, StartOK
    <3> QED
      BY <1>3, <2>1, <2>4, <3>1 DEF Starting, Publishing
  <2>6. StartOK'
    <3>1. started' = 1 /\ reaper'.at = "none" /\ reaper'.at = reaper.at
      BY <1>0, <1>6
    <3>2. \A b \in Agents : ~ Publishing(b)'
      BY <1>0, <2>5, <3>1 DEF Publishing
    <3> QED
      BY <2>5, <3>1, <3>2 DEF StartOK, Starting, Publishing
  <2> QED
    BY <1>1, <1>2, <1>6, <2>1, <2>2, <2>3, <2>6, AgentMoves
<1>7. CASE /\ Starting(a) /\ reaper' = [reaper EXCEPT !.at = "lock"]
           /\ UNCHANGED <<ctl, started>>
           /\ Goto(a, IF at[a] \in CreateSteps THEN "createPublish" ELSE "detachPublish")
  <2>1. PICK step : /\ step = (IF at[a] \in CreateSteps THEN "createPublish"
                               ELSE "detachPublish")
                    /\ Goto(a, step)
    BY <1>7
  <2>2. PICK k, w : Moves(a, a[2], step, k, w)
    BY AgentFacts
  <2>3. step \in Steps /\ BlockOK(ctl[a[2]], k, w, Queued(a[2]), reaper.victim = a[2])
    BY <1>7, <2>1, <2>2, EnsureBlock
  <2>4. at'[a] = step /\ step \in {"createPublish", "detachPublish"}
    BY <1>1, <2>1 DEF Goto
  <2>5. started = 1 /\ reaper.at = "none" /\ reaper'.at = "lock"
    BY <1>7 DEF LifecycleInv, LifecycleTypeOK, ReaperStates, StartOK
  <2>6. \A b \in Agents : ~ Starting(b)'
    <3>1. \A b \in Agents : Starting(b)' => Starting(b) /\ b # a
      BY <1>3, <2>1, <2>4 DEF Starting
    <3> QED
      BY <1>7, <3>1 DEF LifecycleInv, StartOK
  <2>7. StartOK'
    BY <1>7, <2>5, <2>6 DEF StartOK
  <2> QED
    BY <1>1, <1>2, <1>7, <2>1, <2>2, <2>3, <2>5, <2>7, AgentMoves
<1>8. CASE PublishReaper(a)
  <2>1. PICK step : /\ step = (IF at[a] \in CreateSteps THEN "clone" ELSE "detachCas")
                    /\ Goto(a, step)
    BY <1>8 DEF PublishReaper, WithReaper
  <2>2. PICK k, w : Moves(a, a[2], step, k, w)
    BY AgentFacts
  <2>3. step \in Steps /\ BlockOK(ctl[a[2]], k, w, Queued(a[2]), reaper.victim = a[2])
    BY <1>8, <2>1, <2>2, EnsureBlock DEF PublishReaper
  <2>4. /\ at'[a] = step /\ step \in {"clone", "detachCas"}
        /\ Publishing(a) /\ started' = 2 /\ UNCHANGED <<ctl, reaper>>
    BY <1>1, <1>8, <2>1 DEF Goto, PublishReaper
  <2>5. \A b \in Agents : /\ Starting(b)' => Starting(b)
                          /\ Publishing(b)' => Publishing(b)
    BY <1>3, <2>1, <2>4 DEF Starting, Publishing
  <2>6. \A b \in Agents : ~ Starting(b)'
    <3>1. reaper.at # "none"
      BY <1>0, <2>4
    <3> QED
      BY <1>0, <2>5, <3>1 DEF Starting
  <2>7. StartOK'
    <3>1. started' # 0 /\ reaper'.at = reaper.at
      BY <2>4
    <3> QED
      BY <2>5, <2>6, <3>1 DEF LifecycleInv, StartOK
  <2> QED
    BY <1>1, <1>2, <2>1, <2>2, <2>3, <2>4, <2>7, AgentMoves
<1>9. CASE EnsureStarted(a)
  BY <1>4, <1>5, <1>6, <1>9 DEF EnsureStarted
<1>10. CASE StartReaper(a)
  BY <1>5, <1>7, <1>10 DEF StartReaper
<1> QED
  BY <1>8, <1>9, <1>10 DEF EnsureStep

-----------------------------------------------------------------------------
(* Detaching and queuing                                                   *)

(* Agent a, which works on c, moves to the step and leaves block x.        *)
LEMMA AgentStep ==
  ASSUME LifecycleInv, NEW a \in Agents, NEW x \in ControlBlocks,
         NEW step \in Steps \ {"createStart", "detachStart", "createPublish", "detachPublish"},
         NEW k, NEW w, Moves(a, a[2], step, k, w),
         Goto(a, step), ctl' = [ctl EXCEPT ![a[2]] = x],
         LifeOK(x, k, w), RoleOK(x, k, w), DisciplineOK(x, k, w),
         ClaimOK(x, k, w, Queued(a[2]), reaper.victim = a[2]),
         UNCHANGED <<disciplined, list, started>>, sequence' \in Nat,
         \/ reaper' = reaper
         \/ reaper' = [reaper EXCEPT !.at = "lock"] /\ reaper.at = "seqAsleep"
  PROVE  LifecycleInv'
<1>1. a[2] \in Threads /\ a \in {Caller(a[2]), Worker(a[2])}
  BY AgentFacts
<1>2. BlockOK(x, k, w, Queued(a[2]), reaper.victim = a[2])
  BY DEF BlockOK
<1> QED
  BY <1>1, <1>2, AgentGoesOn

LEMMA DetachExchangeWell ==
  ASSUME LifecycleInv, NEW a \in Agents, DetachExchange(a)
  PROVE  LifecycleInv'
<1> DEFINE c == a[2]
           marked == [ctl[c] EXCEPT !.detached = TRUE]
<1>1. /\ c \in Threads /\ ctl[c] \in ControlBlocks /\ at[a] = "detachCas"
      /\ ctl[c].mem = "live" /\ ctl = [ctl EXCEPT ![c] = ctl[c]] /\ UNCHANGED reap
  BY AgentFacts, ThreadFacts DEF DetachExchange, Live
<1>2. UNCHANGED <<disciplined, list, started, reaper>> /\ sequence' \in Nat
  BY <1>1, ThreadFacts DEF reap
<1>3. \/ a = Caller(c) /\ at[Caller(c)] = "detachCas" /\ ctl[c].role = "detachedByOther"
      \/ /\ a = Worker(c) /\ at[Worker(c)] = "detachCas"
         /\ ctl[c].role \in {"detachedBySelf", "detachedInExit"}
  BY <1>1, AgentFacts, ThreadFacts DEF RoleOK, DetachSteps
<1>4. CASE ctl[c].detached /\ Goto(a, Back(a)) /\ UNCHANGED ctl
  <2>1. a # Caller(c)
    BY <1>1, <1>3, <1>4, ThreadFacts, TwoAgents DEF RoleOK, EnqueueSteps
  <2>2. PICK step : /\ a = Worker(c) /\ at[Worker(c)] = "detachCas" /\ Back(a) = step
                    /\ \/ ctl[c].role = "detachedBySelf" /\ step = "run"
                       \/ ctl[c].role = "detachedInExit" /\ step = "exitAttached"
    BY <1>1, <1>3, <2>1, TwoAgents DEF Back, DetachSteps
  <2> DEFINE k == at[Caller(c)]
  <2>3. Moves(a, c, step, k, step)
    BY <2>2 DEF Moves
  <2> HIDE DEF c
  <2>4. LifeOK(ctl[c], k, step)
    BY <1>1, <2>2, ThreadFacts DEF LifeOK, ThreadSteps, WorkerSteps
  <2>5. RoleOK(ctl[c], k, step) /\ ClaimOK(ctl[c], k, step, Queued(c), reaper.victim = c)
    BY <1>1, <2>2, ThreadFacts DEF RoleOK, ClaimOK, DetachSteps, EnqueueSteps
  <2>6. DisciplineOK(ctl[c], k, step)
    <3>1. k \notin DetachSteps \union EnqueueSteps
      BY <1>1, <2>2, ThreadFacts DEF RoleOK
    <3> QED
      BY <1>1, <2>2, <3>1, ThreadFacts DEF DisciplineOK, DetachSteps,
         EnqueueSteps
  <2>7. step \in Steps \ {"createStart", "detachStart", "createPublish", "detachPublish"}
    BY <2>2 DEF Steps, WorkerSteps
  <2> QED
    BY <1>1, <1>2, <1>4, <2>2, <2>3, <2>4, <2>5, <2>6, <2>7, AgentStep DEF c
<1>5. CASE ~ ctl[c].detached /\ ctl' = [ctl EXCEPT ![c] = marked] /\ Goto(a, "detachLoad")
  <2>1. /\ marked \in ControlBlocks /\ marked.mem = ctl[c].mem /\ marked.role = ctl[c].role
        /\ marked.tid = ctl[c].tid /\ marked.detached /\ marked.queued = ctl[c].queued
    BY <1>1, FieldChanges
  <2>2. PICK k, w : Moves(a, c, "detachLoad", k, w)
    BY AgentFacts
  <2>3. \/ /\ k = "detachLoad" /\ w = at[Worker(c)] /\ at[Caller(c)] = "detachCas"
           /\ ctl[c].role = "detachedByOther"
        \/ /\ k = at[Caller(c)] /\ w = "detachLoad" /\ at[Worker(c)] = "detachCas"
           /\ ctl[c].role \in {"detachedBySelf", "detachedInExit"}
    BY <1>1, <1>3, <2>2, TwoAgents DEF Moves
  <2> HIDE DEF marked, c
  <2>4. ~ ctl[c].queued
    BY <1>1, <1>5, ThreadFacts DEF ClaimOK
  <2>5. LifeOK(marked, k, w)
    BY <1>1, <2>1, <2>3, ThreadFacts
       DEF LifeOK, CallerSteps, ThreadSteps, DetachSteps, Creating, CreateSteps
  <2>6. RoleOK(marked, k, w)
    BY <1>1, <2>1, <2>3, ThreadFacts DEF RoleOK, DetachSteps, EnqueueSteps,
       JoinSteps
  <2>7. ClaimOK(marked, k, w, Queued(c), reaper.victim = c)
    BY <1>1, <2>1, <2>3, <2>4, ThreadFacts DEF ClaimOK, EnqueueSteps
  <2>8. DisciplineOK(marked, k, w)
    <3>1. at[Worker(c)] = "detachCas" => at[Caller(c)] \notin DetachSteps \union EnqueueSteps
      BY <1>1, <2>3, ThreadFacts DEF RoleOK, DetachSteps
    <3> QED
      BY <1>1, <2>1, <2>3, <2>4, <3>1, ThreadFacts DEF DisciplineOK,
         DetachSteps, EnqueueSteps
  <2>9. "detachLoad" \in Steps \ {"createStart", "detachStart", "createPublish", "detachPublish"}
    BY DEF Steps, DetachSteps
  <2> QED
    BY <1>1, <1>2, <1>5, <2>1, <2>2, <2>5, <2>6, <2>7, <2>8, <2>9, AgentStep
       DEF c
<1> QED
  BY <1>4, <1>5, ThreadFacts, AgentFacts DEF DetachExchange

LEMMA DetachLoadWell ==
  ASSUME LifecycleInv, NEW a \in Agents, DetachLoad(a)
  PROVE  LifecycleInv'
<1> DEFINE c == a[2]
           step == IF ctl[c].tid = 0 THEN "reapCas" ELSE Back(a)
<1>1. /\ c \in Threads /\ ctl[c] \in ControlBlocks /\ at[a] = "detachLoad"
      /\ ctl[c].mem = "live" /\ ctl' = [ctl EXCEPT ![c] = ctl[c]]
      /\ UNCHANGED reap /\ Goto(a, step)
  BY AgentFacts, ThreadFacts DEF DetachLoad, Live
<1>2. UNCHANGED <<disciplined, list, started, reaper>> /\ sequence' \in Nat
  BY <1>1, ThreadFacts DEF reap
<1>3. PICK k, w : Moves(a, c, step, k, w)
  BY AgentFacts
<1>4. \/ /\ a = Caller(c) /\ a # Worker(c) /\ a[1] = "caller" /\ at[Caller(c)] = "detachLoad"
      \/ /\ a = Worker(c) /\ a # Caller(c) /\ a[1] # "caller" /\ at[Worker(c)] = "detachLoad"
  BY <1>1, AgentFacts, TwoAgents
<1>5. /\ a = Caller(c) => ctl[c].role = "detachedByOther" /\ ctl[c].detached
      /\ a = Worker(c) => /\ ctl[c].role \in {"detachedBySelf", "detachedInExit"}
                          /\ ctl[c].tid # 0
  BY <1>1, <1>4, ThreadFacts DEF LifeOK, RoleOK, DetachSteps
<1>6. \/ /\ w = at[Worker(c)] /\ at[Caller(c)] = "detachLoad" /\ k = step
         /\ ctl[c].role = "detachedByOther" /\ ctl[c].detached
         /\ \/ k = "reapCas" /\ ctl[c].tid = 0
            \/ k = "done" /\ ctl[c].tid # 0
      \/ /\ k = at[Caller(c)] /\ at[Worker(c)] = "detachLoad" /\ w = step
         /\ \/ ctl[c].role = "detachedBySelf" /\ w = "run"
            \/ ctl[c].role = "detachedInExit" /\ w = "exitAttached"
         /\ ctl[c].tid # 0
  BY <1>1, <1>3, <1>4, <1>5 DEF Moves, Back, DetachSteps
<1>7. step \in {"reapCas", "done", "run", "exitAttached"}
  BY <1>6
<1> HIDE DEF c, step
<1>8. LifeOK(ctl[c], k, w)
  BY <1>1, <1>6, ThreadFacts
     DEF LifeOK, CallerSteps, ThreadSteps, DetachSteps, EnqueueSteps, WorkerSteps, Creating,
         CreateSteps
<1>9. RoleOK(ctl[c], k, w)
  BY <1>1, <1>6, ThreadFacts DEF RoleOK, DetachSteps, EnqueueSteps, JoinSteps
<1>10. ClaimOK(ctl[c], k, w, Queued(c), reaper.victim = c)
  BY <1>1, <1>6, ThreadFacts DEF ClaimOK, EnqueueSteps
<1>11. DisciplineOK(ctl[c], k, w)
  <2>1. at[Worker(c)] = "detachLoad" => at[Caller(c)] \notin DetachSteps \union EnqueueSteps
    BY <1>1, ThreadFacts DEF RoleOK, DetachSteps
  <2>2. ctl[c].tid = 0 => at[Worker(c)] # "run"
    BY <1>1, ThreadFacts DEF LifeOK
  <2>3. ctl[c].tid # 0 => at[Worker(c)] # "dead"
    BY <1>1, ThreadFacts DEF LifeOK
  <2> QED
    BY <1>1, <1>6, <2>1, <2>2, <2>3, ThreadFacts DEF DisciplineOK, DetachSteps,
       EnqueueSteps
<1>12. step \in Steps \ {"createStart", "detachStart", "createPublish", "detachPublish"}
  BY <1>7 DEF Steps, EnqueueSteps, WorkerSteps
<1> QED
  BY <1>1, <1>2, <1>3, <1>8, <1>9, <1>10, <1>11, <1>12, AgentStep DEF c

(* What is known of an agent in linux_reap_enqueue, and where it goes on.  *)
LEMMA Enqueuing ==
  ASSUME LifecycleInv, NEW a \in Agents, at[a] \in EnqueueSteps
  PROVE  /\ a[2] \in Threads /\ ctl[a[2]] \in ControlBlocks /\ sequence \in Nat
         /\ ctl[a[2]].detached /\ ctl = [ctl EXCEPT ![a[2]] = ctl[a[2]]]
         /\ \/ /\ a = Caller(a[2]) /\ a # Worker(a[2]) /\ at[Caller(a[2])] = at[a]
               /\ Back(a) = "done"
            \/ /\ a = Worker(a[2]) /\ a # Caller(a[2]) /\ at[Worker(a[2])] = at[a]
               /\ Back(a) = "exit"
<1>1. at[a] \notin DetachSteps
  BY DEF DetachSteps, EnqueueSteps
<1>2. /\ a[2] \in Threads
      /\ \/ a = Caller(a[2]) /\ a # Worker(a[2]) /\ a[1] = "caller"
         \/ a = Worker(a[2]) /\ a # Caller(a[2]) /\ a[1] # "caller"
  BY AgentFacts, TwoAgents
<1>3. ctl[a[2]].detached
  BY <1>2, ThreadFacts DEF RoleOK
<1> QED
  BY <1>1, <1>2, <1>3, ThreadFacts DEF Back

LEMMA EnqueueClaimWell ==
  ASSUME LifecycleInv, NEW a \in Agents, EnqueueClaim(a)
  PROVE  LifecycleInv'
<1> DEFINE c == a[2]
           claimed == [ctl[c] EXCEPT !.queued = TRUE]
<1>1. at[a] = "reapCas" /\ at[a] \in EnqueueSteps /\ ctl[c].mem = "live" /\ UNCHANGED reap
  BY DEF EnqueueClaim, Live, EnqueueSteps
<1>2. /\ c \in Threads /\ ctl[c] \in ControlBlocks /\ ctl[c].detached
      /\ ctl = [ctl EXCEPT ![c] = ctl[c]]
      /\ \/ /\ a = Caller(c) /\ a # Worker(c) /\ at[Caller(c)] = "reapCas"
            /\ Back(a) = "done"
         \/ /\ a = Worker(c) /\ a # Caller(c) /\ at[Worker(c)] = "reapCas"
            /\ Back(a) = "exit"
  BY <1>1, Enqueuing
<1>3. UNCHANGED <<disciplined, list, started, reaper>> /\ sequence' \in Nat
  BY <1>1, <1>2, ThreadFacts DEF reap
<1>4. CASE ctl[c].queued /\ Goto(a, Back(a)) /\ UNCHANGED ctl
  <2>1. PICK step : step = Back(a)
    OBVIOUS
  <2>2. PICK k, w : Moves(a, c, step, k, w)
    BY AgentFacts
  <2>3. \/ k = "done" /\ w = at[Worker(c)] /\ at[Caller(c)] = "reapCas"
        \/ k = at[Caller(c)] /\ w = "exit" /\ at[Worker(c)] = "reapCas"
    BY <1>2, <2>1, <2>2 DEF Moves
  <2>4. step \in Steps \ {"createStart", "detachStart", "createPublish", "detachPublish"}
    BY <1>2, <2>1 DEF Steps, WorkerSteps
  <2> HIDE DEF c
  <2>5. LifeOK(ctl[c], k, w)
    BY <1>2, <2>3, ThreadFacts
       DEF LifeOK, CallerSteps, ThreadSteps, WorkerSteps, EnqueueSteps, Creating, CreateSteps
  <2>6. RoleOK(ctl[c], k, w)
    BY <1>2, <2>3, ThreadFacts DEF RoleOK, DetachSteps, EnqueueSteps, JoinSteps
  <2>7. ClaimOK(ctl[c], k, w, Queued(c), reaper.victim = c)
    BY <1>2, <2>3, ThreadFacts DEF ClaimOK, EnqueueSteps
  <2>8. DisciplineOK(ctl[c], k, w)
    BY <1>2, <1>4, <2>3, ThreadFacts DEF DisciplineOK, DetachSteps, EnqueueSteps
  <2> QED
    BY <1>2, <1>3, <1>4, <2>1, <2>2, <2>4, <2>5, <2>6, <2>7, <2>8, AgentStep
       DEF c
<1>5. CASE ~ ctl[c].queued /\ ctl' = [ctl EXCEPT ![c] = claimed] /\ Goto(a, "reapPush")
  <2>1. /\ claimed \in ControlBlocks /\ claimed.mem = ctl[c].mem /\ claimed.role = ctl[c].role
        /\ claimed.tid = ctl[c].tid /\ claimed.detached = ctl[c].detached /\ claimed.queued
    BY <1>2, FieldChanges
  <2>2. PICK k, w : Moves(a, c, "reapPush", k, w)
    BY AgentFacts
  <2>3. \/ k = "reapPush" /\ w = at[Worker(c)] /\ at[Caller(c)] = "reapCas"
        \/ k = at[Caller(c)] /\ w = "reapPush" /\ at[Worker(c)] = "reapCas"
    BY <1>2, <2>2 DEF Moves
  <2> HIDE DEF claimed, c
  <2>4. /\ at[Caller(c)] \notin EnqueueSteps \ {"reapCas"}
        /\ at[Worker(c)] \notin EnqueueSteps \ {"reapCas"}
        /\ ~ Queued(c) /\ reaper.victim # c
    BY <1>2, <1>5, ThreadFacts DEF ClaimOK
  <2>5. LifeOK(claimed, k, w)
    BY <1>2, <2>1, <2>3, ThreadFacts
       DEF LifeOK, CallerSteps, ThreadSteps, WorkerSteps, EnqueueSteps, Creating, CreateSteps
  <2>6. RoleOK(claimed, k, w)
    BY <1>2, <2>1, <2>3, ThreadFacts DEF RoleOK, DetachSteps, EnqueueSteps,
       JoinSteps
  <2>7. ClaimOK(claimed, k, w, Queued(c), reaper.victim = c)
    <3>1. at[Worker(c)] # "none" \/ w = "reapPush"
      BY <1>2, <2>3, ThreadFacts DEF LifeOK, Creating, CreateSteps
    <3> QED
      BY <1>1, <1>2, <2>1, <2>3, <2>4, <3>1 DEF ClaimOK, EnqueueSteps, c
  <2>8. DisciplineOK(claimed, k, w)
    BY <1>2, <2>1, <2>3, ThreadFacts DEF DisciplineOK, DetachSteps, EnqueueSteps
  <2>9. "reapPush" \in Steps \ {"createStart", "detachStart", "createPublish", "detachPublish"}
    BY DEF Steps, EnqueueSteps
  <2> QED
    BY <1>2, <1>3, <1>5, <2>1, <2>2, <2>5, <2>6, <2>7, <2>8, <2>9, AgentStep
       DEF c
<1> QED
  BY <1>2, <1>4, <1>5, ThreadFacts DEF EnqueueClaim

(* The sequence is bumped, the reaper woken.                               *)
LEMMA EnqueueTellsWell ==
  ASSUME LifecycleInv, NEW a \in Agents, EnqueueBump(a) \/ EnqueueWake(a)
  PROVE  LifecycleInv'
<1> DEFINE c == a[2]
<1>1. at[a] \in {"reapBump", "reapWake"} /\ at[a] \in EnqueueSteps
  BY DEF EnqueueBump, EnqueueWake, EnqueueSteps
<1>2. /\ c \in Threads /\ ctl[c] \in ControlBlocks /\ sequence \in Nat
      /\ ctl = [ctl EXCEPT ![c] = ctl[c]]
      /\ \/ /\ a = Caller(c) /\ a # Worker(c) /\ at[Caller(c)] = at[a]
            /\ Back(a) = "done"
         \/ /\ a = Worker(c) /\ a # Caller(c) /\ at[Worker(c)] = at[a]
            /\ Back(a) = "exit"
  BY <1>1, Enqueuing
<1>3. /\ UNCHANGED <<disciplined, ctl, list, started>> /\ sequence' \in Nat
      /\ \/ reaper' = reaper
         \/ reaper' = [reaper EXCEPT !.at = "lock"] /\ reaper.at = "seqAsleep"
  <2>1. reaper = [reaper EXCEPT !.at = reaper.at]
    BY DEF LifecycleInv, LifecycleTypeOK, ReaperStates
  <2> QED
    BY <1>2, <2>1 DEF EnqueueBump, EnqueueWake
<1>4. PICK step : step \in {"reapWake", Back(a)} /\ Goto(a, step)
  BY DEF EnqueueBump, EnqueueWake
<1>5. PICK k, w : Moves(a, c, step, k, w)
  BY AgentFacts
<1>6. \/ /\ k \in {"reapWake", "done"} /\ w = at[Worker(c)]
         /\ at[Caller(c)] \in {"reapBump", "reapWake"}
      \/ /\ k = at[Caller(c)] /\ w \in {"reapWake", "exit"}
         /\ at[Worker(c)] \in {"reapBump", "reapWake"}
  BY <1>1, <1>2, <1>4, <1>5 DEF Moves
<1>7. step \in Steps \ {"createStart", "detachStart", "createPublish", "detachPublish"}
  BY <1>2, <1>4 DEF Steps, WorkerSteps, EnqueueSteps
<1> HIDE DEF c
<1>8. ctl[c].queued
  BY <1>2, <1>6, ThreadFacts DEF ClaimOK, EnqueueSteps
<1>9. LifeOK(ctl[c], k, w)
  BY <1>2, <1>6, ThreadFacts
     DEF LifeOK, CallerSteps, ThreadSteps, WorkerSteps, EnqueueSteps, Creating, CreateSteps
<1>10. RoleOK(ctl[c], k, w)
  BY <1>2, <1>6, ThreadFacts DEF RoleOK, DetachSteps, EnqueueSteps, JoinSteps
<1>11. ClaimOK(ctl[c], k, w, Queued(c), reaper.victim = c)
  BY <1>2, <1>6, ThreadFacts DEF ClaimOK, EnqueueSteps
<1>12. DisciplineOK(ctl[c], k, w)
  BY <1>2, <1>6, <1>8, ThreadFacts DEF DisciplineOK, DetachSteps, EnqueueSteps
<1> QED
  BY <1>2, <1>3, <1>4, <1>5, <1>7, <1>9, <1>10, <1>11, <1>12, AgentStep DEF c

-----------------------------------------------------------------------------
(* The list                                                                *)

Among(d, l) == \E i \in DOMAIN l : l[i] = d
NoneTwice(l) == \A i, j \in DOMAIN l : l[i] = l[j] => i = j

LEMMA PutInFront ==
  ASSUME NEW S, NEW l \in Seq(S), NEW c \in S, NEW longer, longer = <<c>> \o l
  PROVE  /\ longer \in Seq(S)
         /\ \A d : Among(d, longer) <=> d = c \/ Among(d, l)
         /\ NoneTwice(l) /\ ~ Among(c, l) => NoneTwice(longer)
<1>1. /\ longer \in Seq(S) /\ Len(l) \in Nat /\ DOMAIN l = 1 .. Len(l)
      /\ DOMAIN longer = 1 .. Len(l) + 1 /\ longer[1] = c
  OBVIOUS
<1>2. \A i \in 2 .. Len(l) + 1 : longer[i] = l[i - 1]
  OBVIOUS
<1>3. ASSUME NEW d PROVE Among(d, longer) <=> d = c \/ Among(d, l)
  <2>1. ASSUME NEW i \in DOMAIN l, l[i] = d PROVE Among(d, longer)
    <3>1. i + 1 \in 2 .. Len(l) + 1 /\ (i + 1) - 1 = i /\ i + 1 \in DOMAIN longer
      BY <1>1
    <3>2. longer[i + 1] = l[(i + 1) - 1]
      BY <1>2, <3>1
    <3> QED
      BY <2>1, <3>1, <3>2 DEF Among
  <2>2. ASSUME NEW i \in DOMAIN longer, longer[i] = d PROVE d = c \/ Among(d, l)
    <3>1. CASE i = 1
      BY <1>1, <2>2, <3>1
    <3>2. CASE i # 1
      <4>1. i \in 2 .. Len(l) + 1 /\ i - 1 \in DOMAIN l
        BY <1>1, <3>2
      <4> QED
        BY <1>2, <2>2, <4>1 DEF Among
    <3> QED
      BY <3>1, <3>2
  <2>3. Among(c, longer)
    BY <1>1 DEF Among
  <2> QED
    BY <2>1, <2>2, <2>3 DEF Among
<1>4. ASSUME NoneTwice(l), ~ Among(c, l),
             NEW i \in DOMAIN longer, NEW j \in DOMAIN longer, longer[i] = longer[j]
      PROVE  i = j
  <2>1. ASSUME NEW k \in DOMAIN longer, k # 1
        PROVE  k - 1 \in DOMAIN l /\ longer[k] = l[k - 1] /\ longer[k] # c
    <3>1. k \in 2 .. Len(l) + 1 /\ k - 1 \in DOMAIN l
      BY <1>1, <2>1
    <3> QED
      BY <1>2, <1>4, <3>1 DEF Among
  <2>2. i \in Nat /\ j \in Nat
    BY <1>1
  <2>3. CASE i = 1 \/ j = 1
    BY <1>1, <1>4, <2>1, <2>3
  <2>4. CASE i # 1 /\ j # 1
    <3>1. i - 1 = j - 1
      BY <1>4, <2>1, <2>4 DEF NoneTwice
    <3> QED
      BY <2>2, <3>1
  <2> QED
    BY <2>3, <2>4
<1> QED
  BY <1>1, <1>3, <1>4 DEF NoneTwice

(* What stands where when the element at n is taken out.                   *)
Front(l, n) == SubSeq(l, 1, n - 1)
Rear(l, n) == SubSeq(l, n + 1, Len(l))
Without(l, n) == Front(l, n) \o Rear(l, n)

LEMMA FrontAndRear ==
  ASSUME NEW S, NEW l \in Seq(S), NEW n \in 1 .. Len(l)
  PROVE  /\ Front(l, n) \in Seq(S) /\ Len(Front(l, n)) = n - 1
         /\ \A i \in 1 .. n - 1 : Front(l, n)[i] = l[i]
         /\ Rear(l, n) \in Seq(S) /\ Len(Rear(l, n)) = Len(l) - n
         /\ \A i \in 1 .. Len(l) - n : Rear(l, n)[i] = l[n + i]
<1>1. Len(l) \in Nat /\ n \in Nat
  OBVIOUS
<1>2. /\ Front(l, n) \in Seq(S) /\ Len(Front(l, n)) = n - 1
      /\ \A i \in 1 .. n - 1 : Front(l, n)[i] = l[i]
  BY <1>1 DEF Front
<1>3. Rear(l, n) \in Seq(S) /\ Len(Rear(l, n)) = Len(l) - n
  BY <1>1 DEF Rear
<1>4. \A i \in 1 .. Len(l) - n : Rear(l, n)[i] = l[n + i]
  BY <1>1, <1>3 DEF Rear
<1> QED
  BY <1>2, <1>3, <1>4

Joined(both, f, b) ==
  /\ Len(both) = Len(f) + Len(b)
  /\ \A i \in 1 .. Len(f) : both[i] = f[i]
  /\ \A i \in 1 .. Len(b) : both[Len(f) + i] = b[i]

LEMMA Joining ==
  ASSUME NEW S, NEW f \in Seq(S), NEW b \in Seq(S), NEW both, both = f \o b
  PROVE  both \in Seq(S) /\ Joined(both, f, b)
<1>1. both \in Seq(S) /\ Len(both) = Len(f) + Len(b) /\ Len(f) \in Nat /\ Len(b) \in Nat
  OBVIOUS
<1>2. \A i \in 1 .. Len(f) : both[i] = f[i]
  BY <1>1
<1>3. \A i \in 1 .. Len(b) : both[Len(f) + i] = b[i]
  BY <1>1
<1> QED
  BY <1>1, <1>2, <1>3 DEF Joined

(* The others stay, in their order, the later ones one place up.           *)
MovedUp(shorter, l, n) ==
  /\ Len(shorter) = Len(l) - 1
  /\ \A i \in 1 .. n - 1 : shorter[i] = l[i]
  /\ \A i \in n .. Len(l) - 1 : shorter[i] = l[i + 1]

LEMMA WhatIsLeft ==
  ASSUME NEW S, NEW l \in Seq(S), NEW n \in 1 .. Len(l), NEW shorter,
         shorter = Without(l, n)
  PROVE  shorter \in Seq(S) /\ MovedUp(shorter, l, n)
<1>1. Len(l) \in Nat /\ n \in Nat
  OBVIOUS
<1>2. PICK front, back :
        /\ front \in Seq(S) /\ back \in Seq(S)
        /\ front = Front(l, n) /\ back = Rear(l, n)
        /\ Len(front) = n - 1 /\ \A i \in 1 .. n - 1 : front[i] = l[i]
        /\ Len(back) = Len(l) - n /\ \A i \in 1 .. Len(l) - n : back[i] = l[n + i]
  <2>1. /\ Front(l, n) \in Seq(S) /\ Len(Front(l, n)) = n - 1
        /\ \A i \in 1 .. n - 1 : Front(l, n)[i] = l[i]
        /\ Rear(l, n) \in Seq(S) /\ Len(Rear(l, n)) = Len(l) - n
        /\ \A i \in 1 .. Len(l) - n : Rear(l, n)[i] = l[n + i]
    BY FrontAndRear
  <2> QED
    BY <2>1, Zenon
<1>3. /\ shorter \in Seq(S) /\ Len(shorter) = Len(front) + Len(back)
      /\ \A i \in 1 .. Len(front) : shorter[i] = front[i]
      /\ \A i \in 1 .. Len(back) : shorter[Len(front) + i] = back[i]
  <2>1. front \in Seq(S) /\ back \in Seq(S) /\ shorter = front \o back
    BY <1>2 DEF Without
  <2>2. shorter \in Seq(S) /\ Joined(shorter, front, back)
    BY <2>1, Joining
  <2> QED
    BY <2>2 DEF Joined
<1>4. Len(shorter) = Len(l) - 1
  BY <1>1, <1>2, <1>3
<1>5. ASSUME NEW i \in 1 .. n - 1 PROVE shorter[i] = l[i]
  BY <1>2, <1>3
<1>6. ASSUME NEW i \in n .. Len(l) - 1 PROVE shorter[i] = l[i + 1]
  <2>1. PICK j \in 1 .. Len(l) - n : n + j = i + 1 /\ (n - 1) + j = i
    <3>1. /\ i - (n - 1) \in 1 .. Len(l) - n /\ n + (i - (n - 1)) = i + 1
          /\ (n - 1) + (i - (n - 1)) = i
      BY <1>1
    <3> QED
      BY <3>1
  <2>2. shorter[(n - 1) + j] = back[j] /\ back[j] = l[n + j]
    BY <1>2, <1>3
  <2> QED
    BY <2>1, <2>2
<1> QED
  BY <1>3, <1>4, <1>5, <1>6 DEF MovedUp

(* One element is taken out.                                               *)
LEMMA TakenOut ==
  ASSUME NEW S, NEW l \in Seq(S), NEW n \in 1 .. Len(l), NoneTwice(l),
         NEW shorter \in Seq(S), MovedUp(shorter, l, n)
  PROVE  /\ NoneTwice(shorter)
         /\ \A d : Among(d, shorter) <=> Among(d, l) /\ d # l[n]
<1>1. Len(l) \in Nat /\ n \in 1 .. Len(l) /\ DOMAIN l = 1 .. Len(l)
  OBVIOUS
<1>2. /\ DOMAIN shorter = 1 .. Len(l) - 1
      /\ \A i \in 1 .. n - 1 : shorter[i] = l[i]
      /\ \A i \in n .. Len(l) - 1 : shorter[i] = l[i + 1]
  BY DEF MovedUp
<1>3. ASSUME NEW i \in DOMAIN shorter
      PROVE  \E p \in DOMAIN l : /\ (i < n /\ p = i) \/ (i >= n /\ p = i + 1)
                                 /\ shorter[i] = l[p]
  <2>1. i \in 1 .. Len(l) - 1
    BY <1>2
  <2>2. CASE i < n
    <3>1. i \in 1 .. n - 1 /\ i \in DOMAIN l
      BY <1>1, <2>1, <2>2
    <3> QED
      BY <1>2, <2>2, <3>1
  <2>3. CASE i >= n
    <3>1. i \in n .. Len(l) - 1 /\ i + 1 \in DOMAIN l
      BY <1>1, <2>1, <2>3
    <3> QED
      BY <1>2, <2>3, <3>1
  <2> QED
    BY <1>1, <2>1, <2>2, <2>3
<1>4. NoneTwice(shorter)
  <2> SUFFICES ASSUME NEW i \in DOMAIN shorter, NEW j \in DOMAIN shorter,
                      shorter[i] = shorter[j]
               PROVE  i = j
    BY DEF NoneTwice
  <2>1. i \in Int /\ j \in Int /\ n \in Int
    BY <1>1, <1>2
  <2>2. PICK p \in DOMAIN l : /\ (i < n /\ p = i) \/ (i >= n /\ p = i + 1)
                              /\ shorter[i] = l[p]
    BY <1>3
  <2>3. PICK q \in DOMAIN l : /\ (j < n /\ q = j) \/ (j >= n /\ q = j + 1)
                              /\ shorter[j] = l[q]
    BY <1>3
  <2>4. p = q
    BY <2>2, <2>3 DEF NoneTwice
  <2> QED
    BY <2>1, <2>2, <2>3, <2>4
<1>5. ASSUME NEW d PROVE Among(d, shorter) <=> Among(d, l) /\ d # l[n]
  <2>1. ASSUME NEW i \in DOMAIN shorter, shorter[i] = d PROVE Among(d, l) /\ d # l[n]
    <3>1. PICK p \in DOMAIN l : p # n /\ l[p] = d
      BY <1>1, <1>2, <1>3, <2>1
    <3> QED
      BY <3>1 DEF Among, NoneTwice
  <2>2. ASSUME NEW p \in DOMAIN l, l[p] = d, p # n PROVE Among(d, shorter)
    <3>1. CASE p < n
      <4>1. p \in 1 .. n - 1 /\ p \in DOMAIN shorter
        BY <1>1, <1>2, <3>1
      <4> QED
        BY <1>2, <2>2, <4>1 DEF Among
    <3>2. CASE p > n
      <4>1. p - 1 \in n .. Len(l) - 1 /\ p - 1 \in DOMAIN shorter /\ (p - 1) + 1 = p
        BY <1>1, <1>2, <3>2
      <4>2. shorter[p - 1] = l[(p - 1) + 1]
        BY <1>2, <4>1
      <4> QED
        BY <2>2, <4>1, <4>2 DEF Among
    <3> QED
      BY <1>1, <2>2, <3>1, <3>2
  <2> QED
    BY <2>1, <2>2 DEF Among
<1> QED
  BY <1>4, <1>5

(* The claimed block is put in front of the list.                          *)
LEMMA EnqueuePushWell ==
  ASSUME LifecycleInv, NEW a \in Agents, EnqueuePush(a)
  PROVE  LifecycleInv'
<1> DEFINE c == a[2]
<1>1. /\ at[a] = "reapPush" /\ ctl[c].mem = "live" /\ reaper.at \notin {"scan", "reload"}
      /\ list' = <<c>> \o list /\ Goto(a, "reapBump")
      /\ UNCHANGED <<disciplined, ctl, sequence, started, reaper>>
  BY DEF EnqueuePush, Live, LockFree
<1>2. /\ c \in Threads /\ ctl[c].detached
      /\ \/ a = Caller(c) /\ a # Worker(c) /\ at[Caller(c)] = "reapPush"
         \/ a = Worker(c) /\ a # Caller(c) /\ at[Worker(c)] = "reapPush"
  BY <1>1, Enqueuing DEF EnqueueSteps
<1>3. PICK k, w : Moves(a, c, "reapBump", k, w)
  BY AgentFacts
<1> HIDE DEF c
<1>4. \/ k = "reapBump" /\ w = at[Worker(c)] /\ at[Caller(c)] = "reapPush" /\ a = Caller(c)
      \/ k = at[Caller(c)] /\ w = "reapBump" /\ at[Worker(c)] = "reapPush" /\ a = Worker(c)
  BY <1>2, <1>3 DEF Moves
<1>5. /\ at' \in [Agents -> Steps] /\ at'[a] = "reapBump"
      /\ \A b \in Agents : b # a => at'[b] = at[b]
  BY <1>1, <1>2, ThreadFacts DEF Goto, Steps, EnqueueSteps
<1>6. at'[Caller(c)] = k /\ at'[Worker(c)] = w
  BY <1>2, <1>4, <1>5, TwoAgents
<1>7. ~ Queued(c) /\ reaper.victim # c /\ ctl[c].queued
  BY <1>2, ThreadFacts DEF ClaimOK, EnqueueSteps
<1>8. /\ list \in Seq(Threads) /\ NoneTwice(list)
      /\ \A d : Queued(d) <=> Among(d, list)
      /\ \A d : Queued(d)' <=> Among(d, list')
  BY DEF LifecycleInv, LifecycleTypeOK, ReaperOK, NoneTwice, Among, Queued
<1>9. /\ list' \in Seq(Threads) /\ NoneTwice(list')
      /\ \A d : Queued(d)' <=> d = c \/ Queued(d)
  <2>1. PICK longer : longer = list' /\ longer = <<c>> \o list
    BY <1>1 DEF c
  <2>2. longer \in Seq(Threads) /\ (\A d : Among(d, longer) <=> d = c \/ Among(d, list))
    BY <1>2, <1>8, <2>1, PutInFront
  <2>3. NoneTwice(longer)
    BY <1>2, <1>7, <1>8, <2>1, PutInFront
  <2> QED
    BY <1>8, <2>1, <2>2, <2>3
<1>10. LifecycleTypeOK'
  BY <1>1, <1>5, <1>9 DEF LifecycleInv, LifecycleTypeOK
<1>11. ThreadsOK'
  <2> SUFFICES ASSUME NEW d \in Threads
               PROVE  BlockOK(ctl[d], at[Caller(d)], at[Worker(d)], Queued(d), reaper.victim = d)'
    BY DEF ThreadsOK
  <2>1. CASE d = c
    <3>1. LifeOK(ctl[c], k, w)
      BY <1>2, <1>4, ThreadFacts
         DEF LifeOK, CallerSteps, ThreadSteps, EnqueueSteps, Creating, CreateSteps
    <3>2. RoleOK(ctl[c], k, w)
      BY <1>2, <1>4, ThreadFacts DEF RoleOK, DetachSteps, EnqueueSteps,
         JoinSteps
    <3>3. ClaimOK(ctl[c], k, w, TRUE, FALSE)
      BY <1>1, <1>2, <1>4, <1>7, ThreadFacts DEF ClaimOK, EnqueueSteps, c
    <3>4. DisciplineOK(ctl[c], k, w)
      BY <1>2, <1>4, <1>7, ThreadFacts DEF DisciplineOK, DetachSteps,
         EnqueueSteps
    <3> QED
      BY <1>1, <1>2, <1>6, <1>7, <1>9, <2>1, <3>1, <3>2, <3>3, <3>4
         DEF BlockOK, LifeOK, RoleOK, ClaimOK, DisciplineOK
  <2>2. CASE d # c
    <3>1. at'[Caller(d)] = at[Caller(d)] /\ at'[Worker(d)] = at[Worker(d)]
      BY <1>2, <1>5, <2>2, TwoAgents
    <3>2. BlockOK(ctl[d], at[Caller(d)], at[Worker(d)], Queued(d), reaper.victim = d)
      BY DEF LifecycleInv, ThreadsOK
    <3> QED
      BY <1>1, <1>9, <2>2, <3>1, <3>2 DEF BlockOK, LifeOK, RoleOK, ClaimOK,
         DisciplineOK
  <2> QED
    BY <2>1, <2>2
<1>12. ReaperOK'
  <2>1. reaper' = reaper /\ (Queued(reaper.waitTid) => Queued(reaper.waitTid)')
    BY <1>1, <1>9 DEF Queued
  <2> QED
    BY <1>1, <1>9, <2>1 DEF LifecycleInv, ReaperOK, NoneTwice
<1>13. StartOK'
  <2>1. \A b \in Agents : (Starting(b)' => Starting(b)) /\ (Publishing(b)' => Publishing(b))
    BY <1>5 DEF Starting, Publishing
  <2> QED
    BY <1>1, <2>1 DEF LifecycleInv, StartOK
<1> QED
  BY <1>10, <1>11, <1>12, <1>13 DEF LifecycleInv

-----------------------------------------------------------------------------
(* The reaper                                                              *)

(* A step of the reaper which leaves list and blocks as they are.          *)
LEMMA ReaperGoesOn ==
  ASSUME LifecycleInv, UNCHANGED <<disciplined, ctl, at, list, sequence, started>>,
         reaper' \in ReaperStates, reaper'.victim = reaper.victim,
         reaper.at # "none", reaper'.at # "none", ReaperOK'
  PROVE  LifecycleInv'
<1>1. LifecycleTypeOK'
  BY DEF LifecycleInv, LifecycleTypeOK
<1>2. ThreadsOK'
  BY DEF LifecycleInv, ThreadsOK, BlockOK, LifeOK, RoleOK, ClaimOK,
     DisciplineOK, Queued
<1>3. StartOK'
  BY DEF LifecycleInv, StartOK, Starting, Publishing
<1> QED
  BY <1>1, <1>2, <1>3 DEF LifecycleInv

(* A walk begins, looks at a tid word again, ends or is waited for.        *)
LEMMA ReaperWalksWell ==
  ASSUME LifecycleInv,
         \/ ReaperLocks \/ ReaperReloads \/ ReaperEndsScan \/ ReaperWaits \/ ReaperInterrupted
  PROVE  LifecycleInv'
<1>1. /\ UNCHANGED <<disciplined, ctl, at, list, sequence, started>>
      /\ reaper \in ReaperStates /\ sequence \in Nat /\ ctl \in [Threads -> ControlBlocks]
      /\ list \in Seq(Threads) /\ ReaperOK
  BY DEF ReaperLocks, ReaperReloads, ReaperEndsScan, ReaperWaits,
     ReaperInterrupted,
         LifecycleInv, LifecycleTypeOK
<1>2. \A c : Queued(c)' <=> Queued(c)
  BY <1>1 DEF Queued
<1>3. CASE ReaperLocks
  <2>1. /\ reaper' \in ReaperStates /\ reaper'.victim = reaper.victim /\ reaper'.at = "scan"
        /\ reaper'.reaped = TRUE \/ reaper'.waitTid = NoThread
        /\ reaper.at \in {"lock", "relock"}
    <3>0. reaper \in ReaperStates /\ 1 \in Nat \ {0}
      BY <1>1
    <3>1. CASE /\ reaper.at = "lock"
               /\ reaper' = [reaper EXCEPT !.at = "scan", !.pos = 1, !.waitTid = NoThread,
                                           !.waitValue = 0, !.reaped = FALSE]
      <4>1. reaper' \in ReaperStates
        BY <3>0, <3>1 DEF ReaperStates, ReaperSteps
      <4>2. reaper'.victim = reaper.victim /\ reaper'.at = "scan" /\ reaper'.waitTid = NoThread
        BY <3>0, <3>1 DEF ReaperStates
      <4> QED
        BY <3>1, <4>1, <4>2
    <3>2. CASE /\ reaper.at = "relock"
               /\ reaper' = [reaper EXCEPT !.at = "scan", !.pos = 1, !.reaped = TRUE]
      <4>1. reaper' \in ReaperStates
        BY <3>0, <3>2 DEF ReaperStates, ReaperSteps
      <4>2. reaper'.victim = reaper.victim /\ reaper'.at = "scan" /\ reaper'.reaped = TRUE
        BY <3>0, <3>2 DEF ReaperStates
      <4> QED
        BY <3>2, <4>1, <4>2
    <3> QED
      BY <1>3, <3>1, <3>2 DEF ReaperLocks
  <2>2. ReaperOK'
    BY <1>1, <2>1 DEF ReaperOK
  <2> QED
    BY <1>1, <2>1, <2>2, ReaperGoesOn
<1>4. CASE ReaperReloads
  <2>1. /\ Current \in Threads /\ reaper.at = "reload" /\ ctl[Current].tid \in {0, 1}
        /\ reaper.pos + 1 \in Nat \ {0}
    BY <1>1, <1>4 DEF ReaperReloads, ReaperOK, Current, ControlBlocks,
       ReaperStates
  <2>2. /\ reaper' \in ReaperStates /\ reaper'.victim = reaper.victim /\ reaper'.at = "scan"
        /\ reaper'.reaped = reaper.reaped /\ reaper'.waitTid = reaper.waitTid
    BY <1>1, <1>4, <2>1 DEF ReaperReloads, ReaperStates, ReaperSteps
  <2>3. ReaperOK'
    BY <1>1, <1>2, <2>1, <2>2 DEF ReaperOK
  <2> QED
    BY <1>1, <2>1, <2>2, <2>3, ReaperGoesOn
<1>5. CASE ReaperEndsScan
  <2>1. /\ reaper' \in ReaperStates /\ reaper'.victim = reaper.victim /\ reaper.at = "scan"
        /\ \/ reaper'.at \in {"lock", "seqWait"}
           \/ reaper'.at = "tidWait" /\ ~ reaper.reaped /\ reaper.waitTid # NoThread
        /\ reaper'.reaped = reaper.reaped /\ reaper'.waitTid = reaper.waitTid
    BY <1>1, <1>5 DEF ReaperEndsScan, ReaperStates, ReaperSteps
  <2>2. ReaperOK'
    BY <1>1, <1>2, <2>1 DEF ReaperOK
  <2> QED
    BY <1>1, <2>1, <2>2, ReaperGoesOn
<1>6. CASE ReaperWaits \/ ReaperInterrupted
  <2>1. PICK place \in {"lock", "seqAsleep", "tidAsleep"} :
          /\ reaper' = [reaper EXCEPT !.at = place]
          /\ reaper.at \in {"tidWait", "seqWait", "tidAsleep", "seqAsleep"}
          /\ place = "tidAsleep" => reaper.at = "tidWait"
    BY <1>6 DEF ReaperWaits, ReaperInterrupted
  <2>2. /\ reaper' \in ReaperStates /\ reaper'.victim = reaper.victim /\ reaper'.at = place
        /\ reaper'.reaped = reaper.reaped /\ reaper'.waitTid = reaper.waitTid
    BY <1>1, <2>1 DEF ReaperStates, ReaperSteps
  <2>3. ReaperOK'
    BY <1>1, <1>2, <2>1, <2>2 DEF ReaperOK
  <2> QED
    BY <1>1, <2>1, <2>2, <2>3, ReaperGoesOn
<1> QED
  BY <1>3, <1>4, <1>5, <1>6

(* A block that still has a thread is remembered or passed over.           *)
LEMMA ReaperPassesWell ==
  ASSUME LifecycleInv, Scanning, ctl[Current].tid # 0,
         reaper' = IF reaper.waitTid = NoThread
                   THEN [reaper EXCEPT !.at = "reload", !.waitTid = Current]
                   ELSE [reaper EXCEPT !.pos = @ + 1],
         UNCHANGED <<disciplined, ctl, at, list, sequence, started>>
  PROVE  LifecycleInv'
<1>1. /\ reaper \in ReaperStates /\ list \in Seq(Threads) /\ ReaperOK /\ reaper.at = "scan"
      /\ reaper.pos \in DOMAIN list /\ reaper.pos + 1 \in Nat \ {0}
  BY DEF Scanning, LifecycleInv, LifecycleTypeOK, ReaperStates
<1>2. Current \in Threads /\ Queued(Current) /\ Current # NoThread
  BY <1>1, LifecycleAssumption DEF Current, Queued
<1>3. \A c : Queued(c)' <=> Queued(c)
  BY DEF Queued
<1>4. CASE reaper.waitTid = NoThread
  <2>1. /\ reaper' \in ReaperStates /\ reaper'.victim = reaper.victim /\ reaper'.at = "reload"
        /\ reaper'.waitTid = Current /\ reaper'.pos = reaper.pos
    BY <1>1, <1>2, <1>4 DEF ReaperStates, ReaperSteps
  <2>2. ReaperOK'
    BY <1>1, <1>2, <1>3, <2>1 DEF ReaperOK
  <2> QED
    BY <1>1, <2>1, <2>2, ReaperGoesOn
<1>5. CASE reaper.waitTid # NoThread
  <2>1. /\ reaper' \in ReaperStates /\ reaper'.victim = reaper.victim /\ reaper'.at = "scan"
        /\ reaper'.waitTid = reaper.waitTid /\ reaper'.reaped = reaper.reaped
    BY <1>1, <1>5 DEF ReaperStates, ReaperSteps
  <2>2. ReaperOK'
    BY <1>1, <1>3, <2>1 DEF ReaperOK
  <2> QED
    BY <1>1, <2>1, <2>2, ReaperGoesOn
<1> QED
  BY <1>4, <1>5

(* A block whose thread is gone is unlinked, and nobody's but the reaper's.*)
LEMMA UnlinkWell ==
  ASSUME LifecycleInv, Scanning, ctl[Current].tid = 0, Unlink,
         UNCHANGED <<disciplined, ctl, at, sequence, started>>
  PROVE  LifecycleInv'
<1>1. /\ reaper \in ReaperStates /\ list \in Seq(Threads) /\ ReaperOK /\ reaper.at = "scan"
      /\ reaper.pos \in 1 .. Len(list) /\ DOMAIN list = 1 .. Len(list)
  BY DEF Scanning, LifecycleInv, LifecycleTypeOK, ReaperStates
<1>2. Current \in Threads /\ Queued(Current) /\ Current # NoThread
  BY <1>1, LifecycleAssumption DEF Current, Queued
<1>3. /\ reaper' \in ReaperStates /\ reaper'.victim = Current /\ reaper'.at = "destroy"
  BY <1>1, <1>2 DEF Unlink, ReaperStates, ReaperSteps
<1>4. /\ NoneTwice(list) /\ \A d : Queued(d) <=> Among(d, list)
      /\ \A d : Queued(d)' <=> Among(d, list')
  BY <1>1 DEF ReaperOK, NoneTwice, Among, Queued
<1>5. PICK n \in 1 .. Len(list), shorter \in {list'} :
        /\ n = reaper.pos
        /\ shorter = Without(list, n)
  BY <1>1 DEF Unlink, Without, Front, Rear
<1>6. shorter \in Seq(Threads) /\ MovedUp(shorter, list, n)
  <2>1. list \in Seq(Threads)
    BY <1>1
  <2> QED
    BY <1>5, <2>1, WhatIsLeft
<1>7. NoneTwice(shorter) /\ \A d : Among(d, shorter) <=> Among(d, list) /\ d # list[n]
  BY <1>1, <1>4, <1>6, TakenOut
<1>8. \A d : Queued(d)' <=> Queued(d) /\ d # Current
  BY <1>4, <1>5, <1>7 DEF Current
<1>9. LifecycleTypeOK'
  BY <1>3, <1>5, <1>6 DEF LifecycleInv, LifecycleTypeOK
<1>10. ThreadsOK'
  <2> SUFFICES ASSUME NEW d \in Threads
               PROVE  BlockOK(ctl[d], at[Caller(d)], at[Worker(d)], Queued(d), reaper.victim = d)'
    BY DEF ThreadsOK
  <2>1. BlockOK(ctl[d], at[Caller(d)], at[Worker(d)], Queued(d), FALSE)
    <3>1. BlockOK(ctl[d], at[Caller(d)], at[Worker(d)], Queued(d), reaper.victim = d)
      BY DEF LifecycleInv, ThreadsOK
    <3>2. reaper.victim # d
      BY <1>1, LifecycleAssumption DEF ReaperOK
    <3> QED
      BY <3>1, <3>2 DEF BlockOK, ClaimOK
  <2>2. CASE d = Current
    <3>1. (reaper.victim = d)' /\ ~ Queued(d)'
      BY <1>3, <1>8, <2>2
    <3>2. ClaimOK(ctl[d], at[Caller(d)], at[Worker(d)], FALSE, TRUE)
      BY <1>2, <2>1, <2>2 DEF BlockOK, ClaimOK
    <3> QED
      BY <2>1, <3>1, <3>2 DEF BlockOK, LifeOK, RoleOK, ClaimOK, DisciplineOK
  <2>3. CASE d # Current
    <3>1. ~ (reaper.victim = d)' /\ (Queued(d)' <=> Queued(d))
      BY <1>3, <1>8, <2>3
    <3> QED
      BY <2>1, <3>1 DEF BlockOK, LifeOK, RoleOK, ClaimOK, DisciplineOK
  <2> QED
    BY <2>2, <2>3
<1>11. ReaperOK'
  BY <1>2, <1>3, <1>5, <1>7 DEF ReaperOK, NoneTwice
<1>12. StartOK'
  BY <1>1, <1>3 DEF LifecycleInv, StartOK, Starting, Publishing
<1> QED
  BY <1>9, <1>10, <1>11, <1>12 DEF LifecycleInv

(* The block that was unlinked is freed: nobody works on it any more.      *)
LEMMA ReaperDestroysWell ==
  ASSUME LifecycleInv, ReaperDestroys
  PROVE  LifecycleInv'
<1> DEFINE v == reaper.victim
           x == [ctl[v] EXCEPT !.mem = "freed"]
<1>1. /\ reaper.at = "destroy" /\ ctl[v].mem = "live"
      /\ reaper' = [reaper EXCEPT !.at = "relock", !.victim = NoThread]
      /\ UNCHANGED <<disciplined, at, list, sequence, started>>
      /\ reaper \in ReaperStates /\ ReaperOK
  BY DEF ReaperDestroys, Live, LifecycleInv, LifecycleTypeOK
<1>2. v \in Threads
  BY <1>1 DEF ReaperOK, ReaperStates
<1>3. ctl' = [ctl EXCEPT ![v] = x]
  BY <1>2, ThreadFacts DEF ReaperDestroys, Free
<1>4. /\ x \in ControlBlocks /\ x.mem = "freed" /\ x.role = ctl[v].role /\ x.tid = ctl[v].tid
      /\ x.detached = ctl[v].detached /\ x.queued = ctl[v].queued
  BY <1>2, ThreadFacts, FieldChanges
<1> HIDE DEF x
<1>5. /\ ctl' \in [Threads -> ControlBlocks] /\ ctl'[v] = x
      /\ \A d \in Threads : d # v => ctl'[d] = ctl[d]
  BY <1>2, <1>3, <1>4, ThreadFacts
<1>6. /\ reaper' \in ReaperStates /\ reaper'.at = "relock" /\ reaper'.victim = NoThread
  BY <1>1 DEF ReaperStates, ReaperSteps
<1>7. \A d : Queued(d)' <=> Queued(d)
  BY <1>1 DEF Queued
<1>8. LifecycleTypeOK'
  BY <1>1, <1>5, <1>6 DEF LifecycleInv, LifecycleTypeOK
<1>9. ThreadsOK'
  <2> SUFFICES ASSUME NEW d \in Threads
               PROVE  BlockOK(ctl[d], at[Caller(d)], at[Worker(d)], Queued(d), reaper.victim = d)'
    BY DEF ThreadsOK
  <2>1. BlockOK(ctl[d], at[Caller(d)], at[Worker(d)], Queued(d), reaper.victim = d)
    BY DEF LifecycleInv, ThreadsOK
  <2>2. ~ (reaper.victim = d)' /\ (Queued(d)' <=> Queued(d))
    BY <1>6, <1>7, LifecycleAssumption
  <2>3. at'[Caller(d)] = at[Caller(d)] /\ at'[Worker(d)] = at[Worker(d)]
    BY <1>1
  <2>4. CASE d # v
    <3>1. ctl'[d] = ctl[d]
      BY <1>5, <2>4
    <3> QED
      BY <1>1, <2>1, <2>2, <2>3, <2>4, <3>1 DEF BlockOK, LifeOK, RoleOK,
         ClaimOK, DisciplineOK
  <2>5. CASE d = v
    <3> DEFINE k == at[Caller(v)]
               w == at[Worker(v)]
    <3>1. /\ ctl[v].queued /\ ctl[v].tid = 0 /\ ~ Queued(v) /\ ctl[v].detached /\ w # "none"
          /\ k # "reapPush" /\ w # "reapPush"
      BY <1>2, ThreadFacts DEF ClaimOK
    <3>2. w \in {"kernelWake", "dead"} /\ k \notin {"none"} \union Creating
      BY <1>2, <3>1, ThreadFacts DEF LifeOK
    <3>3. LifeOK(x, k, w)
      BY <1>1, <1>2, <1>4, <3>1, <3>2, ThreadFacts DEF LifeOK
    <3>4. RoleOK(x, k, w)
      BY <1>2, <1>4, ThreadFacts DEF RoleOK
    <3>5. ClaimOK(x, k, w, FALSE, FALSE)
      BY <1>2, <1>4, <3>1, ThreadFacts DEF ClaimOK
    <3>6. DisciplineOK(x, k, w)
      <4> SUFFICES ASSUME disciplined
                   PROVE  DisciplineOK(x, k, w)
        BY DEF DisciplineOK
      <4>1. k \notin {"storeTid", "reapCas"} \union DetachSteps \union JoinSteps
        BY <1>2, <3>1, <3>2, ThreadFacts DEF DisciplineOK, RoleOK, DetachSteps
      <4>2. k \in {"idle", "done", "reapBump", "reapWake"}
        BY <1>2, <3>1, <3>2, <4>1, ThreadFacts
           DEF LifeOK, CallerSteps, Creating, CreateSteps, EnqueueSteps
      <4>3. k = "idle" => x.role \notin {"joined", "detachedByOther"}
        <5>1. x.role \in Roles
          BY <1>4 DEF ControlBlocks
        <5> QED
          BY <1>2, <1>4, <3>1, <5>1, ThreadFacts DEF RoleOK, Roles, EnqueueSteps
      <4> QED
        BY <1>4, <3>1, <4>1, <4>2, <4>3 DEF DisciplineOK, DetachSteps
    <3> HIDE DEF k, w
    <3>7. ctl'[d] = x /\ at'[Caller(d)] = k /\ at'[Worker(d)] = w
      BY <1>5, <2>3, <2>5 DEF k, w
    <3>8. ~ Queued(d)'
      BY <2>2, <2>5, <3>1
    <3> QED
      BY <1>1, <2>2, <3>3, <3>4, <3>5, <3>6, <3>7, <3>8
         DEF BlockOK, LifeOK, RoleOK, ClaimOK, DisciplineOK
  <2> QED
    BY <2>4, <2>5
<1>10. ReaperOK'
  BY <1>1, <1>6 DEF ReaperOK
<1>11. StartOK'
  BY <1>1, <1>6 DEF LifecycleInv, StartOK, Starting, Publishing
<1> QED
  BY <1>8, <1>9, <1>10, <1>11 DEF LifecycleInv

-----------------------------------------------------------------------------
(* The invariant is inductive                                              *)

LEMMA LifecycleInitInv == Init => LifecycleInv
<1> SUFFICES ASSUME Init PROVE LifecycleInv
  OBVIOUS
<1>1. /\ \A c \in Threads : /\ ctl[c] = [mem |-> "unborn", role |-> "joined", tid |-> 0,
                                         detached |-> FALSE, queued |-> FALSE]
                            /\ at[Caller(c)] = "none" /\ at[Worker(c)] = "none"
      /\ \A a \in Agents : at[a] = "none"
      /\ \A c : ~ Queued(c)
      /\ reaper.victim = NoThread /\ reaper.at = "none" /\ started = 0
  BY TwoAgents DEF Init, Queued
<1>2. LifecycleTypeOK
  <2>1. ctl \in [Threads -> ControlBlocks] /\ at \in [Agents -> Steps]
    BY DEF Init, ControlBlocks, Roles, Steps
  <2>2. reaper \in ReaperStates
    BY DEF Init, ReaperStates, ReaperSteps
  <2> QED
    BY <2>1, <2>2 DEF Init, LifecycleTypeOK
<1>3. ThreadsOK
  <2> SUFFICES ASSUME NEW c \in Threads
               PROVE  BlockOK(ctl[c], at[Caller(c)], at[Worker(c)], Queued(c), reaper.victim = c)
    BY DEF ThreadsOK
  <2> DEFINE x == ctl[c]
  <2>1. /\ x.mem = "unborn" /\ x.role = "joined" /\ x.tid = 0 /\ ~ x.detached /\ ~ x.queued
        /\ at[Caller(c)] = "none" /\ at[Worker(c)] = "none"
        /\ ~ Queued(c) /\ reaper.victim # c
    BY <1>1, LifecycleAssumption
  <2> HIDE DEF x
  <2>2. LifeOK(x, "none", "none")
    BY <2>1 DEF LifeOK, CallerSteps, ThreadSteps, Creating, CreateSteps
  <2>3. RoleOK(x, "none", "none")
    BY <2>1 DEF RoleOK, DetachSteps, EnqueueSteps, JoinSteps
  <2>4. ClaimOK(x, "none", "none", FALSE, FALSE)
    BY <2>1 DEF ClaimOK, EnqueueSteps
  <2>5. DisciplineOK(x, "none", "none")
    BY <2>1 DEF DisciplineOK, DetachSteps
  <2> QED
    BY <2>1, <2>2, <2>3, <2>4, <2>5 DEF BlockOK, LifeOK, RoleOK, ClaimOK,
       DisciplineOK, x
<1>4. ReaperOK
  BY <1>1 DEF Init, ReaperOK
<1>5. StartOK
  BY <1>1 DEF StartOK, Starting, Publishing
<1> QED
  BY <1>2, <1>3, <1>4, <1>5 DEF LifecycleInv

LEMMA AgentWell ==
  ASSUME LifecycleInv, NEW a \in Agents, DetachCall(a) \/ Agent(a)
  PROVE  LifecycleInv'
<1>1. CASE DetachCall(a)
  <2>1. a[2] \in Threads /\ (a = Caller(a[2]) \/ a = Worker(a[2]))
    BY TwoAgents
  <2> QED
    BY <1>1, <2>1, CallerLeavesBlock, WorkerLeavesBlock
<1>2. CASE EnsureStep(a)
  BY <1>2, EnsureWell
<1>3. CASE DetachStep(a)
  BY <1>3, DetachExchangeWell, DetachLoadWell DEF DetachStep
<1>4. CASE EnqueueStep(a)
  BY <1>4, EnqueueClaimWell, EnqueuePushWell, EnqueueTellsWell DEF EnqueueStep
<1> QED
  BY <1>1, <1>2, <1>3, <1>4 DEF Agent

LEMMA ThreadWell ==
  ASSUME LifecycleInv, NEW c \in Threads,
         \/ \E role \in Roles : Create(c, role)
         \/ JoinCall(c) \/ JoinInterrupted(c)
         \/ RoutineReturns(c) \/ RoutineExits(c) \/ DestructorsEnd(c)
         \/ Own(c) \/ ExitStep(c)
  PROVE  LifecycleInv'
<1>1. CASE \E role \in Roles : Create(c, role)
  BY <1>1, CreateWell
<1>2. CASE \/ JoinCall(c) \/ JoinInterrupted(c)
           \/ RoutineReturns(c) \/ RoutineExits(c) \/ DestructorsEnd(c)
  BY <1>2, CallerLeavesBlock, WorkerLeavesBlock
<1>3. CASE CreateStep(c)
  BY <1>3, CloneFailsWell, CloneWell, CallerLeavesBlock DEF CreateStep
<1>4. CASE JoinStep(c)
  BY <1>4, CallerLeavesBlock, JoinDestroyWell DEF JoinStep
<1>5. CASE ExitStep(c)
  BY <1>5, KernelClearsTidWell, KernelWakesWell DEF ExitStep
<1> QED
  BY <1>1, <1>2, <1>3, <1>4, <1>5 DEF Own

LEMMA ReaperWell ==
  ASSUME LifecycleInv, ReaperStep \/ ReaperInterrupted
  PROVE  LifecycleInv'
<1>1. CASE ReaperTests
  <2>1. Scanning /\ UNCHANGED <<disciplined, ctl, at, sequence, started>>
    BY <1>1 DEF ReaperTests
  <2>2. CASE ctl[Current].tid = 0
    <3>1. Unlink
      BY <1>1, <2>2 DEF ReaperTests
    <3> QED
      BY <2>1, <2>2, <3>1, UnlinkWell
  <2>3. CASE ctl[Current].tid # 0
    <3>1. /\ UNCHANGED list
          /\ reaper' = IF reaper.waitTid = NoThread
                       THEN [reaper EXCEPT !.at = "reload", !.waitTid = Current]
                       ELSE [reaper EXCEPT !.pos = @ + 1]
      BY <1>1, <2>3 DEF ReaperTests
    <3> QED
      BY <2>1, <2>3, <3>1, ReaperPassesWell
  <2> QED
    BY <2>2, <2>3
<1>2. CASE ReaperDestroys
  BY <1>2, ReaperDestroysWell
<1>3. CASE \/ ReaperLocks \/ ReaperReloads \/ ReaperEndsScan \/ ReaperWaits
           \/ ReaperInterrupted
  BY <1>3, ReaperWalksWell
<1> QED
  BY <1>1, <1>2, <1>3 DEF ReaperStep

LEMMA LifecycleStepInv == LifecycleInv /\ [Next]_vars => LifecycleInv'
<1> SUFFICES ASSUME LifecycleInv, [Next]_vars PROVE LifecycleInv'
  OBVIOUS
<1>1. CASE \E c \in Threads : \/ \E role \in Roles : Create(c, role)
                              \/ JoinCall(c) \/ JoinInterrupted(c)
                              \/ RoutineReturns(c) \/ RoutineExits(c) \/ DestructorsEnd(c)
                              \/ Own(c) \/ ExitStep(c)
  BY <1>1, ThreadWell
<1>2. CASE \E a \in Agents : DetachCall(a) \/ Agent(a)
  BY <1>2, AgentWell
<1>3. CASE ReaperStep \/ ReaperInterrupted
  BY <1>3, ReaperWell
<1>4. CASE UNCHANGED vars
  BY <1>4
     DEF vars, reap, LifecycleInv, LifecycleTypeOK, ThreadsOK, BlockOK, LifeOK, RoleOK, ClaimOK,
         DisciplineOK, ReaperOK, StartOK, Queued, Starting, Publishing
<1> QED
  BY <1>1, <1>2, <1>3, <1>4 DEF Next

(* The inductive invariant holds of every behaviour.                       *)
THEOREM LifecycleInvariant == Spec => []LifecycleInv
BY LifecycleInitInv, LifecycleStepInv, PTL DEF Spec

-----------------------------------------------------------------------------
(* What it shows                                                           *)

(* pthread_control_destroy, by the joiner or the reaper: a stack and its   *)
(* control block go only when the kernel has left them, and the reaper is  *)
(* handed no block twice, with any number of threads.                      *)
THEOREM StackFreedOnceAfterExit == Spec => []FreedOnceAfterExit
<1>1. LifecycleInv => FreedOnceAfterExit
  <2> SUFFICES ASSUME LifecycleInv PROVE FreedOnceAfterExit
    OBVIOUS
  <2>1. \A c \in Threads : Freed(c) => at[Worker(c)] \in {"none", "kernelWake", "dead"}
    BY ThreadFacts DEF Freed, LifeOK
  <2>2. \A i, j \in DOMAIN list : list[i] = list[j] => i = j
    BY DEF LifecycleInv, ReaperOK
  <2>3. ~ Queued(reaper.victim)
    <3>1. CASE reaper.victim \in Threads
      BY <3>1, ThreadFacts DEF ClaimOK
    <3>2. CASE reaper.victim = NoThread
      <4>1. \A i \in DOMAIN list : list[i] \in Threads
        BY DEF LifecycleInv, LifecycleTypeOK
      <4> QED
        BY <3>2, <4>1, LifecycleAssumption DEF Queued
    <3> QED
      BY <3>1, <3>2 DEF LifecycleInv, LifecycleTypeOK, ReaperStates
  <2> QED
    BY <2>1, <2>2, <2>3 DEF FreedOnceAfterExit
<1> QED
  BY <1>1, LifecycleInvariant, PTL

(* pthread_create, pthread_detach, pthread_join, linux_reap_enqueue and    *)
(* the reaper's walk: none of them, nor the thread itself, is about to     *)
(* touch a control block that has been freed, provided the program lets no *)
(* thread end while another works on it.                                   *)
THEOREM NobodyTouchesFreed == Spec => []NoUseAfterFree
<1>1. LifecycleInv => NoUseAfterFree
  <2> SUFFICES ASSUME LifecycleInv, disciplined, NEW c \in Threads, Freed(c)
               PROVE  /\ at[Caller(c)] \notin {"storeTid", "detachCas", "detachLoad", "reapCas",
                                               "reapPush"}
                      /\ at[Caller(c)] \notin JoinSteps
                      /\ at[Worker(c)] \notin {"detachCas", "detachLoad", "reapCas", "reapPush",
                                               "exitAttached", "exitDetached", "exit"}
                      /\ ~ Queued(c) /\ reaper.victim # c
                      /\ reaper.at \in {"tidWait", "tidAsleep"} => reaper.waitTid # c
    BY DEF NoUseAfterFree
  <2>1. ctl[c].mem = "freed"
    BY DEF Freed
  <2>2. at[Caller(c)] \in {"idle", "done", "reapBump", "reapWake"}
    BY <2>1, ThreadFacts DEF DisciplineOK
  <2>3. at[Worker(c)] \in {"none", "kernelWake", "dead"}
    BY <2>1, ThreadFacts DEF LifeOK
  <2>4. ~ Queued(c) /\ reaper.victim # c
    BY <2>1, ThreadFacts DEF ClaimOK
  <2>5. reaper.at \in {"tidWait", "tidAsleep"} => reaper.waitTid # c
    BY <2>4 DEF LifecycleInv, ReaperOK
  <2> QED
    BY <2>2, <2>3, <2>4, <2>5 DEF JoinSteps
<1> QED
  BY <1>1, LifecycleInvariant, PTL

(* pthread_start, pthread_exit and pthread_detach: of a detached thread    *)
(* that is gone, either it or its detacher has queued the block, provided  *)
(* the program lets no thread end while it is being detached, and unless   *)
(* the thread detached itself in a destructor that pthread_exit ran.       *)
THEOREM DetachedReachReaper == Spec => []DetachedIsQueued
<1>1. LifecycleInv => DetachedIsQueued
  BY ThreadFacts DEF DetachedIsQueued, Missed, DisciplineOK
<1> QED
  BY <1>1, LifecycleInvariant, PTL
=============================================================================
