--------------------------- MODULE NewsFeedProofs ---------------------------
(***************************************************************************)
(* Proofs about NewsFeed, for any number of statuses, panels and polls.    *)
(* FeedInv is inductive.  Its heart is StoredOnce: of the panels that have *)
(* stored a status and not yet announced it there is one at most, and only *)
(* while no other has announced it.                                        *)
(***************************************************************************)
EXTENDS NewsFeed, SequenceTheorems, TLAPS

(* A job that waits has an attempt left. *)
Left(job) == job.status \in Waiting => job.attempts < MaxAttempts

(* The map of a panel's jobs agrees with what the panel works on. *)
Agrees(js, w) ==
    /\ \A s \in Statuses : Left(js[s])
    /\ \A s \in Statuses :
          js[s].status = "processing" <=> w.stage # "idle" /\ w.id = s
    /\ \A s \in w.batch : js[s].status \in Waiting
    /\ w.stage = "idle" => w.batch = {}
    /\ w.stage # "idle" => w.id \in Statuses

JobsAgree == \A p \in Panels : Agrees(jobs[p], work[p])

(* A poll that asked the database has the status it asked about, and a     *)
(* positive answer is never out of date.                                   *)
Sound(state) ==
    /\ state.stage \in {"checking", "answered"} => state.list # <<>>
    /\ state.stage = "answered" /\ state.found => Head(state.list) \in news

PollsSound == \A p \in Panels, k \in Polls : Sound(poll[p][k])

StoredOnce ==
    /\ \A p \in Panels :
          work[p].stage = "stored" => work[p].id \in news /\ alerts[work[p].id] = 0
    /\ \A p, q \in Panels :
          work[p].stage = "stored" /\ work[q].stage = "stored" /\ work[p].id = work[q].id
          => p = q

(* A panel that counts a status as processed, and passes over it in every  *)
(* later poll, is right: its news item is stored.                          *)
ProcessedIsStored == \A p \in Panels : processed[p] \subseteq news

FeedInv ==
    /\ FeedTypeOK
    /\ JobsAgree
    /\ PollsSound
    /\ StoredOnce
    /\ AlertedOnce
    /\ ProcessedIsStored

(* What an action that moves the queue of p on leaves behind. *)
QueueMoved(p) ==
    /\ jobs' \in [Panels -> [Statuses -> Jobs]]
    /\ work' \in [Panels -> Works]
    /\ work'[p].stage \in {"idle", "check"}
    /\ \A q \in Panels \ {p} : work'[q] = work[q]
    /\ JobsAgree'

(* The loop of processQueue begins a job that waits.                       *)
LEMMA BeginMovesQueue ==
    ASSUME FeedAssumption, FeedTypeOK, JobsAgree,
           NEW p \in Panels, NEW js \in [Statuses -> Jobs],
           NEW s \in Statuses, NEW rest \in SUBSET Statuses,
           \A t \in Statuses : js[t].status # "processing" /\ Left(js[t]),
           js[s].status \in Waiting, \A t \in rest : js[t].status \in Waiting,
           s \notin rest,
           Begin(p, s, rest, js)
    PROVE  QueueMoved(p)
  <1> DEFINE w == [stage |-> "check", id |-> s, batch |-> rest, keyed |-> FALSE]
             b == Begun(js, s)
  <1>1. b \in [Statuses -> Jobs]
    <2>1. js[s].attempts + 1 \in 0..MaxAttempts
      BY DEF FeedAssumption, Jobs, Left
    <2> QED
      BY <2>1 DEF Begun, Jobs
  <1>2. w \in Works
    BY DEF Works
  <1>3. jobs' = [jobs EXCEPT ![p] = b] /\ work' = [work EXCEPT ![p] = w]
    BY DEF Begin
  <1>4. Agrees(b, w)
    <2>1. b[s].status = "processing" /\ \A t \in Statuses \ {s} : b[t] = js[t]
      BY DEF Begun, Jobs
    <2> QED
      BY <2>1 DEF Agrees, Left, Waiting
  <1> HIDE DEF b, w
  <1>5. jobs' \in [Panels -> [Statuses -> Jobs]] /\ work' \in [Panels -> Works]
    BY <1>1, <1>2, <1>3 DEF FeedTypeOK
  <1>6. work'[p] = w /\ jobs'[p] = b
    BY <1>3 DEF FeedTypeOK
  <1>7. \A q \in Panels \ {p} : work'[q] = work[q] /\ jobs'[q] = jobs[q]
    BY <1>3 DEF FeedTypeOK
  <1>8. \A q \in Panels : Agrees(jobs'[q], work'[q])
    BY <1>4, <1>6, <1>7 DEF JobsAgree
  <1>9. JobsAgree'
    BY <1>8 DEF JobsAgree, Agrees, Left
  <1>10. w.stage = "check"
    BY DEF w
  <1> QED
    BY <1>5, <1>6, <1>7, <1>9, <1>10 DEF QueueMoved

(* The loop goes on after a job, or ends.                                  *)
LEMMA FinishMovesQueue ==
    ASSUME FeedAssumption, FeedTypeOK, JobsAgree,
           NEW p \in Panels, work[p].stage # "idle",
           NEW job \in Jobs, job.status # "processing", Left(job),
           Finish(p, job)
    PROVE  QueueMoved(p)
  <1> DEFINE js == [jobs[p] EXCEPT ![work[p].id] = job]
             rest == work[p].batch
  <1>1. work[p] \in Works /\ jobs[p] \in [Statuses -> Jobs] /\ Agrees(jobs[p], work[p])
    BY DEF FeedTypeOK, JobsAgree
  <1>2. work[p].id \in Statuses /\ rest \in SUBSET Statuses /\ work[p].id \notin rest
    BY <1>1 DEF Works, Agrees, Waiting
  <1>3. js \in [Statuses -> Jobs]
    BY <1>1, <1>2
  <1>4. \A t \in Statuses : js[t].status # "processing" /\ Left(js[t])
    BY <1>1, <1>2 DEF Agrees
  <1>5. \A t \in rest : js[t].status \in Waiting
    BY <1>1, <1>2 DEF Agrees
  <1>6. CASE /\ rest = {}
             /\ jobs' = [jobs EXCEPT ![p] = js]
             /\ work' = [work EXCEPT ![p] = Idle]
    <2> HIDE DEF js, rest
    <2>1. Idle \in Works /\ Idle.stage = "idle" /\ Idle.batch = {}
      BY DEF Idle, Works
    <2>2. jobs' \in [Panels -> [Statuses -> Jobs]] /\ work' \in [Panels -> Works]
      BY <1>3, <1>6, <2>1 DEF FeedTypeOK
    <2>3. /\ work'[p] = Idle /\ jobs'[p] = js
          /\ \A q \in Panels \ {p} : work'[q] = work[q] /\ jobs'[q] = jobs[q]
      BY <1>6 DEF FeedTypeOK
    <2>4. Agrees(js, Idle)
      BY <1>4, <2>1 DEF Agrees
    <2>5. \A q \in Panels : Agrees(jobs'[q], work'[q])
      BY <2>3, <2>4 DEF JobsAgree
    <2>6. JobsAgree'
      BY <2>5 DEF JobsAgree, Agrees, Left
    <2> QED
      BY <2>1, <2>2, <2>3, <2>6 DEF QueueMoved
  <1>7. CASE \E s \in rest : Begin(p, s, rest \ {s}, js)
    <2>1. PICK s \in rest : Begin(p, s, rest \ {s}, js)
      BY <1>7
    <2> HIDE DEF js, rest
    <2> QED
      BY <1>2, <1>3, <1>4, <1>5, <2>1, BeginMovesQueue
  <1> QED
    BY <1>6, <1>7 DEF Finish

(* The loop of a poll goes on to an unknown status or ends.                *)
LEMMA ProceedIsSound ==
    ASSUME FeedTypeOK, PollsSound,
           NEW p \in Panels, NEW k \in Polls, NEW list \in Seq(Statuses),
           NEW done, NEW js, Proceed(p, k, list, done, js)
    PROVE  /\ poll' \in [Panels -> [Polls -> PollStates]]
           /\ \A q \in Panels, l \in Polls : Sound(poll'[q][l])
  <1>1. CASE poll' = [poll EXCEPT ![p][k] = NoPoll]
    <2>1. NoPoll \in PollStates /\ Sound(NoPoll)
      BY DEF NoPoll, PollStates, Sound
    <2>2. poll' \in [Panels -> [Polls -> PollStates]]
      BY <1>1, <2>1 DEF FeedTypeOK
    <2>3. \A q \in Panels, l \in Polls :
             poll'[q][l] = IF q = p /\ l = k THEN NoPoll ELSE poll[q][l]
      BY <1>1 DEF FeedTypeOK
    <2> QED
      BY <2>1, <2>2, <2>3 DEF PollsSound
  <1>2. ASSUME NEW i \in DOMAIN list,
               poll' = [poll EXCEPT ![p][k] =
                          [stage |-> "checking", list |-> SubSeq(list, i, Len(list)),
                           found |-> FALSE]]
        PROVE  /\ poll' \in [Panels -> [Polls -> PollStates]]
               /\ \A q \in Panels, l \in Polls : Sound(poll'[q][l])
    <2> DEFINE rest == SubSeq(list, i, Len(list))
               state == [stage |-> "checking", list |-> rest, found |-> FALSE]
    <2>1. rest \in Seq(Statuses) /\ rest # <<>>
      <3>1. i \in 1..Len(list) /\ Len(list) \in Nat
        BY LenProperties
      <3>2. rest \in Seq(Statuses) /\ Len(rest) = Len(list) - i + 1
        BY <3>1, SubSeqProperties
      <3>3. Len(rest) # 0
        BY <3>1, <3>2
      <3> HIDE DEF rest
      <3> QED
        BY <3>2, <3>3, EmptySeq
    <2>2. state \in PollStates /\ Sound(state)
      BY <2>1 DEF PollStates, Sound
    <2> HIDE DEF state
    <2>3. poll' = [poll EXCEPT ![p][k] = state]
      BY <1>2 DEF state
    <2>4. poll' \in [Panels -> [Polls -> PollStates]]
      BY <2>2, <2>3 DEF FeedTypeOK
    <2>5. \A q \in Panels, l \in Polls :
             poll'[q][l] = IF q = p /\ l = k THEN state ELSE poll[q][l]
      BY <2>3 DEF FeedTypeOK
    <2> QED
      BY <2>2, <2>4, <2>5 DEF PollsSound
  <1> QED
    BY <1>1, <1>2 DEF Proceed

(* An action that only moves a poll of p keeps the invariant.              *)
LEMMA PollMoves ==
    ASSUME FeedInv,
           poll' \in [Panels -> [Polls -> PollStates]], PollsSound',
           UNCHANGED <<news, skipped, key, open, processed, jobs, work, alerts>>
    PROVE  FeedInv'
  <1>1. FeedTypeOK' /\ JobsAgree' /\ StoredOnce' /\ AlertedOnce' /\ ProcessedIsStored'
    BY DEF FeedInv, FeedTypeOK, JobsAgree, Agrees, Left, StoredOnce, AlertedOnce,
           ProcessedIsStored
  <1> QED
    BY <1>1 DEF FeedInv

(* Polls stay sound as long as nothing leaves the news.                    *)
LEMMA MovedPollsSound ==
    ASSUME news \subseteq news',
           \A q \in Panels, l \in Polls : Sound(poll'[q][l])
    PROVE  PollsSound'
  <1> QED
    BY DEF PollsSound, Sound

(* So does one that gives a poll a new, sound state.                       *)
LEMMA PollReplaced ==
    ASSUME FeedInv, NEW p \in Panels, NEW k \in Polls, NEW state \in PollStates,
           Sound(state), poll' = [poll EXCEPT ![p][k] = state],
           UNCHANGED <<news, skipped, key, open, processed, jobs, work, alerts>>
    PROVE  FeedInv'
  <1>1. poll' \in [Panels -> [Polls -> PollStates]]
    BY DEF FeedInv, FeedTypeOK
  <1>2. \A q \in Panels, l \in Polls :
           poll'[q][l] = IF q = p /\ l = k THEN state ELSE poll[q][l]
    BY DEF FeedInv, FeedTypeOK
  <1>3. \A q \in Panels, l \in Polls : Sound(poll'[q][l])
    BY <1>2 DEF FeedInv, PollsSound
  <1>4. PollsSound'
    BY <1>3, MovedPollsSound
  <1> QED
    BY <1>1, <1>4, PollMoves

-----------------------------------------------------------------------------
(* The actions of a poll.                                                  *)

LEMMA PollStartsKeeps ==
    ASSUME FeedInv, NEW p \in Panels, NEW k \in Polls, PollStarts(p, k)
    PROVE  FeedInv'
  <1> DEFINE state == [stage |-> "fetching", list |-> <<>>, found |-> FALSE]
  <1>1. state \in PollStates /\ Sound(state)
    BY EmptySeq DEF PollStates, Sound
  <1>2. poll' = [poll EXCEPT ![p][k] = state]
    BY DEF PollStarts
  <1> HIDE DEF state
  <1> QED
    BY <1>1, <1>2, PollReplaced DEF PollStarts

LEMMA FetchedKeeps ==
    ASSUME FeedAssumption, FeedInv, NEW p \in Panels, NEW k \in Polls,
           NEW list \in Listings \cup {<<>>}, Fetched(p, k, list)
    PROVE  FeedInv'
  <1>1. list \in Seq(Statuses)
    BY EmptySeq DEF FeedAssumption
  <1>2. /\ poll' \in [Panels -> [Polls -> PollStates]]
        /\ \A q \in Panels, l \in Polls : Sound(poll'[q][l])
    BY <1>1, ProceedIsSound DEF Fetched, FeedInv
  <1>3. PollsSound'
    BY <1>2, MovedPollsSound DEF FeedInv, Fetched
  <1> QED
    BY <1>2, <1>3, PollMoves DEF Fetched

LEMMA LookKeeps ==
    ASSUME FeedInv, NEW p \in Panels, NEW k \in Polls, NEW found \in BOOLEAN,
           Look(p, k, found)
    PROVE  FeedInv'
  <1> DEFINE list == poll[p][k].list
             state == [stage |-> "answered", list |-> list, found |-> found]
  <1>1. /\ list \in Seq(Statuses) /\ list # <<>>
        /\ found => Head(list) \in news
    BY DEF Look, FeedInv, FeedTypeOK, PollStates, PollsSound, Sound
  <1>2. state \in PollStates /\ Sound(state)
    BY <1>1 DEF PollStates, Sound
  <1>3. poll' = [poll EXCEPT ![p][k] = state]
    BY DEF Look
  <1> HIDE DEF state
  <1> QED
    BY <1>2, <1>3, PollReplaced DEF Look

LEMMA PollContinuesKeeps ==
    ASSUME FeedAssumption, FeedInv, NEW p \in Panels, NEW k \in Polls,
           PollContinues(p, k)
    PROVE  FeedInv'
  <1> DEFINE list == poll[p][k].list
             s == Head(list)
             found == poll[p][k].found
             done == Seen(p, s, found)
             js == IF found THEN jobs[p] ELSE AddJob(jobs[p], s)
  <1>1. /\ poll[p][k] \in PollStates /\ Sound(poll[p][k])
        /\ poll[p][k].stage = "answered"
    BY DEF FeedInv, FeedTypeOK, PollsSound, PollContinues
  <1>2. list \in Seq(Statuses) /\ list # <<>>
    BY <1>1 DEF PollStates, Sound
  <1>3. s \in Statuses /\ Tail(list) \in Seq(Statuses)
    BY <1>2, HeadTailProperties
  <1>4. done \in SUBSET Statuses /\ done \subseteq news
    BY <1>1, <1>3 DEF FeedInv, FeedTypeOK, ProcessedIsStored, Seen, Sound
  <1>5. js \in [Statuses -> Jobs] /\ Agrees(js, work[p])
    <2>1. jobs[p] \in [Statuses -> Jobs] /\ Agrees(jobs[p], work[p])
      BY DEF FeedInv, FeedTypeOK, JobsAgree
    <2>2. [status |-> "pending", attempts |-> 0] \in Jobs
      BY DEF FeedAssumption, Jobs, Waiting
    <2>3. CASE found \/ jobs[p][s].status # "none"
      BY <2>1, <2>3 DEF AddJob
    <2>4. CASE ~found /\ jobs[p][s].status = "none"
      <3>1. js = [jobs[p] EXCEPT ![s] = [status |-> "pending", attempts |-> 0]]
        BY <2>4 DEF AddJob
      <3> HIDE DEF js, s
      <3> QED
        BY <1>3, <2>1, <2>2, <2>4, <3>1 DEF FeedAssumption, Agrees, Left, Waiting
    <2> QED
      BY <2>3, <2>4
  <1>6. /\ processed' = [processed EXCEPT ![p] = done]
        /\ jobs' = [jobs EXCEPT ![p] = js]
        /\ Proceed(p, k, Tail(list), done, js)
        /\ UNCHANGED <<news, skipped, key, open, work, alerts>>
    BY DEF PollContinues
  <1>7. /\ poll' \in [Panels -> [Polls -> PollStates]]
        /\ \A q \in Panels, l \in Polls : Sound(poll'[q][l])
    BY <1>3, <1>6, ProceedIsSound DEF FeedInv
  <1> HIDE DEF list, s, found, done, js
  <1>8. PollsSound'
    BY <1>6, <1>7, MovedPollsSound DEF FeedInv
  <1>9. FeedTypeOK'
    BY <1>4, <1>5, <1>6, <1>7 DEF FeedInv, FeedTypeOK
  <1>10. JobsAgree'
    <2>1. \A q \in Panels : Agrees(jobs'[q], work[q])
      BY <1>5, <1>6 DEF FeedInv, FeedTypeOK, JobsAgree
    <2> QED
      BY <1>6, <2>1 DEF JobsAgree, Agrees, Left
  <1>11. ProcessedIsStored'
    BY <1>4, <1>6 DEF FeedInv, FeedTypeOK, ProcessedIsStored
  <1>12. StoredOnce' /\ AlertedOnce'
    BY <1>6 DEF FeedInv, StoredOnce, AlertedOnce
  <1> QED
    BY <1>8, <1>9, <1>10, <1>11, <1>12 DEF FeedInv

-----------------------------------------------------------------------------
(* The actions of the user.                                                *)

LEMMA ChangeKeyKeeps ==
    ASSUME FeedAssumption, FeedInv, ChangeKey
    PROVE  FeedInv'
  <1>1. key' \in BOOLEAN
    BY DEF FeedAssumption, ChangeKey
  <1>2. FeedTypeOK'
    BY <1>1 DEF FeedInv, FeedTypeOK, ChangeKey
  <1>3. JobsAgree' /\ PollsSound' /\ StoredOnce' /\ AlertedOnce' /\ ProcessedIsStored'
    BY DEF FeedInv, ChangeKey, JobsAgree, Agrees, Left, PollsSound, Sound, StoredOnce,
           AlertedOnce, ProcessedIsStored
  <1> QED
    BY <1>2, <1>3 DEF FeedInv

LEMMA OpenKeeps ==
    ASSUME FeedInv, NEW p \in Panels, Open(p)
    PROVE  FeedInv'
  <1>1. FeedTypeOK'
    BY DEF FeedInv, FeedTypeOK, Open
  <1>2. JobsAgree' /\ PollsSound' /\ StoredOnce' /\ AlertedOnce' /\ ProcessedIsStored'
    BY DEF FeedInv, Open, JobsAgree, Agrees, Left, PollsSound, Sound, StoredOnce,
           AlertedOnce, ProcessedIsStored
  <1> QED
    BY <1>1, <1>2 DEF FeedInv

LEMMA CloseKeeps ==
    ASSUME FeedAssumption, FeedInv, NEW p \in Panels, Close(p)
    PROVE  FeedInv'
  <1> DEFINE js == [s \in Statuses |-> NoJob]
             polls == [k \in Polls |-> NoPoll]
  <1>1. js \in [Statuses -> Jobs] /\ Idle \in Works /\ Agrees(js, Idle)
    BY DEF FeedAssumption, NoJob, Jobs, Idle, Works, Agrees, Left, Waiting
  <1>2. polls \in [Polls -> PollStates] /\ \A k \in Polls : Sound(polls[k])
    BY DEF NoPoll, PollStates, Sound
  <1>3. /\ jobs' = [jobs EXCEPT ![p] = js]
        /\ work' = [work EXCEPT ![p] = Idle]
        /\ poll' = [poll EXCEPT ![p] = polls]
        /\ processed' = [processed EXCEPT ![p] = {}]
        /\ open' = [open EXCEPT ![p] = FALSE]
        /\ UNCHANGED <<news, skipped, key, alerts>>
    BY DEF Close
  <1>4. Idle.stage = "idle"
    BY DEF Idle
  <1> HIDE DEF js, polls
  <1>5. FeedTypeOK'
    BY <1>1, <1>2, <1>3 DEF FeedInv, FeedTypeOK
  <1>6. JobsAgree'
    <2>1. \A q \in Panels : Agrees(jobs'[q], work'[q])
      BY <1>1, <1>3 DEF FeedInv, FeedTypeOK, JobsAgree
    <2> QED
      BY <2>1 DEF JobsAgree, Agrees, Left
  <1>7. PollsSound'
    <2>1. \A q \in Panels, l \in Polls : Sound(poll'[q][l])
      BY <1>2, <1>3 DEF FeedInv, FeedTypeOK, PollsSound
    <2> QED
      BY <1>3, <2>1, MovedPollsSound
  <1>8. StoredOnce'
    BY <1>3, <1>4 DEF FeedInv, FeedTypeOK, StoredOnce
  <1>9. AlertedOnce' /\ ProcessedIsStored'
    BY <1>3 DEF FeedInv, FeedTypeOK, AlertedOnce, ProcessedIsStored
  <1> QED
    BY <1>5, <1>6, <1>7, <1>8, <1>9 DEF FeedInv

-----------------------------------------------------------------------------
(* The actions of the queue.                                               *)

(* An action that moves the queue of p on, stores nothing and announces    *)
(* nothing keeps the invariant.                                            *)
LEMMA QueueMoves ==
    ASSUME FeedInv, NEW p \in Panels, QueueMoved(p),
           processed' \in [Panels -> SUBSET Statuses], ProcessedIsStored',
           UNCHANGED <<news, skipped, key, open, poll, alerts>>
    PROVE  FeedInv'
  <1>1. FeedTypeOK'
    BY DEF FeedInv, FeedTypeOK, QueueMoved
  <1>2. PollsSound' /\ AlertedOnce'
    BY DEF FeedInv, PollsSound, Sound, AlertedOnce
  <1>3. StoredOnce'
    <2>1. \A q \in Panels : work'[q].stage = "stored" => work'[q] = work[q]
      BY DEF QueueMoved
    <2> QED
      BY <2>1 DEF FeedInv, StoredOnce
  <1> QED
    BY <1>1, <1>2, <1>3 DEF FeedInv, QueueMoved

LEMMA TakeJobsKeeps ==
    ASSUME FeedAssumption, FeedInv, NEW p \in Panels, NEW due \in SUBSET Statuses,
           TakeJobs(p, due)
    PROVE  QueueMoved(p) /\ FeedInv'
  <1>1. PICK s \in due : Begin(p, s, due \ {s}, jobs[p])
    BY DEF TakeJobs
  <1>2. jobs[p] \in [Statuses -> Jobs] /\ Agrees(jobs[p], work[p]) /\ work[p].stage = "idle"
    BY DEF FeedInv, FeedTypeOK, JobsAgree, TakeJobs, QueueIsFree
  <1>3. \A t \in Statuses : jobs[p][t].status # "processing" /\ Left(jobs[p][t])
    BY <1>2 DEF Agrees
  <1>4. \A t \in due : jobs[p][t].status \in Waiting
    BY DEF TakeJobs, Due, Waiting
  <1>5. QueueMoved(p)
    BY <1>1, <1>2, <1>3, <1>4, BeginMovesQueue DEF FeedInv
  <1> QED
    BY <1>5, QueueMoves DEF TakeJobs, FeedInv, FeedTypeOK, ProcessedIsStored

LEMMA FailKeeps ==
    ASSUME FeedAssumption, FeedInv, NEW p \in Panels, Fail(p)
    PROVE  QueueMoved(p) /\ FeedInv'
  <1> DEFINE job == AfterFailure(jobs[p][work[p].id])
  <1>1. work[p].stage # "idle" /\ work[p].id \in Statuses
    BY DEF Fail, FeedInv, JobsAgree, Agrees
  <1>2. jobs[p][work[p].id] \in Jobs
    BY <1>1 DEF FeedInv, FeedTypeOK
  <1>3. job \in Jobs /\ job.status # "processing" /\ Left(job)
    BY <1>2 DEF FeedAssumption, AfterFailure, NoJob, Jobs, Left, Waiting
  <1>4. QueueMoved(p)
    BY <1>1, <1>3, FinishMovesQueue DEF FeedInv, Fail
  <1> QED
    BY <1>4, QueueMoves DEF Fail, FeedInv, FeedTypeOK, ProcessedIsStored

LEMMA NoJobIsDone ==
    ASSUME FeedAssumption
    PROVE  NoJob \in Jobs /\ NoJob.status # "processing" /\ Left(NoJob)
  <1> QED
    BY DEF FeedAssumption, NoJob, Jobs, Left, Waiting

LEMMA AlreadyStoredKeeps ==
    ASSUME FeedAssumption, FeedInv, NEW p \in Panels, NEW stage \in {"check", "create"},
           AlreadyStored(p, stage)
    PROVE  QueueMoved(p) /\ FeedInv'
  <1>1. work[p].stage # "idle" /\ work[p].id \in news
    BY DEF AlreadyStored, Exists
  <1>2. QueueMoved(p)
    BY <1>1, NoJobIsDone, FinishMovesQueue DEF FeedInv, AlreadyStored
  <1>3. processed' \in [Panels -> SUBSET Statuses] /\ ProcessedIsStored'
    BY <1>1 DEF AlreadyStored, FeedInv, FeedTypeOK, ProcessedIsStored
  <1> QED
    BY <1>2, <1>3, QueueMoves DEF AlreadyStored

(* A queue in the middle of a job goes from one await to the next.         *)
LEMMA StageMoves ==
    ASSUME FeedInv, NEW p \in Panels, NEW w \in Works,
           work[p].stage # "idle", w.stage # "idle",
           w.id = work[p].id, w.batch = work[p].batch,
           work' = [work EXCEPT ![p] = w],
           UNCHANGED <<open, processed, jobs, poll, alerts>>, key' = key
    PROVE  work' \in [Panels -> Works] /\ JobsAgree'
  <1>1. \A q \in Panels : Agrees(jobs[q], work'[q])
    BY DEF FeedInv, FeedTypeOK, JobsAgree, Agrees
  <1> QED
    BY <1>1 DEF FeedInv, FeedTypeOK, JobsAgree, Agrees, Left

LEMMA StageMovesKeeps ==
    ASSUME FeedInv, NEW p \in Panels, NEW w \in Works,
           work[p].stage # "idle", w.stage \notin {"idle", "stored"},
           w.id = work[p].id, w.batch = work[p].batch,
           work' = [work EXCEPT ![p] = w],
           UNCHANGED <<news, skipped, key, open, processed, jobs, poll, alerts>>
    PROVE  FeedInv'
  <1>1. work' \in [Panels -> Works] /\ JobsAgree'
    BY StageMoves
  <1>2. FeedTypeOK'
    BY <1>1 DEF FeedInv, FeedTypeOK
  <1>3. StoredOnce'
    BY DEF FeedInv, FeedTypeOK, StoredOnce
  <1>4. PollsSound' /\ AlertedOnce' /\ ProcessedIsStored'
    BY DEF FeedInv, PollsSound, Sound, AlertedOnce, ProcessedIsStored
  <1> QED
    BY <1>1, <1>2, <1>3, <1>4 DEF FeedInv

LEMMA ReachKeeps ==
    ASSUME FeedInv, NEW p \in Panels, NEW stage \in {"analyze", "create", "add"},
           NEW keyed \in BOOLEAN, work[p].stage # "idle", Reach(p, stage, keyed),
           UNCHANGED <<news, skipped, key, open, processed, jobs, poll, alerts>>
    PROVE  FeedInv'
  <1> DEFINE w == [stage |-> stage, id |-> work[p].id, batch |-> work[p].batch,
                   keyed |-> keyed]
  <1>1. w \in Works /\ w.stage = stage /\ w.id = work[p].id /\ w.batch = work[p].batch
    BY DEF FeedInv, FeedTypeOK, Works
  <1>2. work' = [work EXCEPT ![p] = w]
    BY DEF Reach
  <1> HIDE DEF w
  <1> QED
    BY <1>1, <1>2, StageMovesKeeps

LEMMA AnalyzeKeeps ==
    ASSUME FeedInv, NEW p \in Panels, Analyze(p)
    PROVE  FeedInv'
  <1> QED
    BY ReachKeeps DEF Analyze, FeedInv, FeedTypeOK

LEMMA AnalyzedKeeps ==
    ASSUME FeedInv, NEW p \in Panels, Analyzed(p)
    PROVE  FeedInv'
  <1>1. work[p].keyed \in BOOLEAN
    BY DEF FeedInv, FeedTypeOK, Works
  <1> QED
    BY <1>1, ReachKeeps DEF Analyzed

LEMMA CreateKeeps ==
    ASSUME FeedInv, NEW p \in Panels, Create(p)
    PROVE  FeedInv'
  <1>1. work[p].keyed \in BOOLEAN
    BY DEF FeedInv, FeedTypeOK, Works
  <1> QED
    BY <1>1, ReachKeeps DEF Create

(* The index admits one item of a status: no panel has stored it before,   *)
(* and none has announced it.                                              *)
LEMMA AddKeeps ==
    ASSUME FeedInv, NEW p \in Panels, Add(p)
    PROVE  FeedInv'
  <1> DEFINE s == work[p].id
             w == [stage |-> "stored", id |-> s, batch |-> work[p].batch,
                   keyed |-> work[p].keyed]
  <1>1. s \in Statuses /\ s \notin news /\ work[p].stage = "add"
    BY DEF FeedInv, JobsAgree, Agrees, Add, Unique
  <1>2. w \in Works /\ w.stage = "stored" /\ w.id = s /\ w.batch = work[p].batch
    BY DEF FeedInv, FeedTypeOK, Works
  <1>3. work' = [work EXCEPT ![p] = w]
    BY DEF Add, Reach
  <1>4. /\ news' = news \cup {s}
        /\ skipped' \subseteq skipped \cup {s}
        /\ UNCHANGED <<key, open, processed, jobs, poll, alerts>>
    BY DEF Add
  <1>5. alerts[s] = 0
    <2>1. alerts[s] \in Nat
      BY <1>1 DEF FeedInv, FeedTypeOK
    <2>2. alerts[s] <= 1 /\ alerts[s] # 1
      BY <1>1 DEF FeedInv, AlertedOnce
    <2> QED
      BY <2>1, <2>2
  <1> HIDE DEF s, w
  <1>6. work' \in [Panels -> Works] /\ JobsAgree'
    BY <1>1, <1>2, <1>3, <1>4, StageMoves DEF s
  <1>7. FeedTypeOK'
    BY <1>1, <1>4, <1>6 DEF FeedInv, FeedTypeOK
  <1>8. PollsSound'
    <2>1. \A q \in Panels, l \in Polls : Sound(poll'[q][l])
      BY <1>4 DEF FeedInv, PollsSound
    <2> QED
      BY <1>4, <2>1, MovedPollsSound
  <1>9. StoredOnce'
    <2>1. /\ work'[p].stage = "stored" /\ work'[p].id = s
          /\ \A q \in Panels \ {p} : work'[q] = work[q]
      BY <1>2, <1>3 DEF FeedInv, FeedTypeOK
    <2>2. \A q \in Panels \ {p} : work[q].stage = "stored" => work[q].id # s
      BY <1>1 DEF FeedInv, StoredOnce
    <2>3. \A q \in Panels :
             work'[q].stage = "stored" =>
                work'[q].id \in news' /\ alerts'[work'[q].id] = 0
      BY <1>4, <1>5, <2>1 DEF FeedInv, StoredOnce
    <2>4. \A q, r \in Panels :
             work'[q].stage = "stored" /\ work'[r].stage = "stored"
             /\ work'[q].id = work'[r].id => q = r
      BY <2>1, <2>2 DEF FeedInv, StoredOnce
    <2> QED
      BY <2>3, <2>4 DEF StoredOnce
  <1>10. AlertedOnce' /\ ProcessedIsStored'
    BY <1>4 DEF FeedInv, AlertedOnce, ProcessedIsStored
  <1> QED
    BY <1>6, <1>7, <1>8, <1>9, <1>10 DEF FeedInv

LEMMA AnnounceKeeps ==
    ASSUME FeedAssumption, FeedInv, NEW p \in Panels, Announce(p)
    PROVE  QueueMoved(p) /\ FeedInv'
  <1> DEFINE s == work[p].id
  <1>1. work[p].stage = "stored" /\ s \in Statuses /\ s \in news /\ alerts[s] = 0
    BY DEF Announce, FeedInv, JobsAgree, Agrees, StoredOnce
  <1>2. QueueMoved(p)
    BY <1>1, NoJobIsDone, FinishMovesQueue DEF FeedInv, Announce
  <1>3. /\ alerts' = [alerts EXCEPT ![s] = @ + 1]
        /\ processed' = [processed EXCEPT ![p] = @ \cup {s}]
        /\ UNCHANGED <<news, skipped, key, open, poll>>
    BY DEF Announce
  <1> HIDE DEF s
  <1>4. FeedTypeOK'
    BY <1>1, <1>2, <1>3 DEF FeedInv, FeedTypeOK, QueueMoved
  <1>5. PollsSound'
    BY <1>3 DEF FeedInv, PollsSound, Sound
  <1>6. StoredOnce'
    <2>1. \A q \in Panels :
             work'[q].stage = "stored" => q # p /\ work'[q] = work[q] /\ work[q].id # s
      BY <1>1, <1>2 DEF QueueMoved, FeedInv, StoredOnce, s
    <2>2. \A t : t # s => alerts'[t] = alerts[t]
      BY <1>3 DEF FeedInv, FeedTypeOK
    <2> QED
      BY <1>3, <2>1, <2>2 DEF FeedInv, StoredOnce
  <1>7. AlertedOnce'
    BY <1>1, <1>3 DEF FeedInv, FeedTypeOK, AlertedOnce
  <1>8. ProcessedIsStored'
    BY <1>1, <1>3 DEF FeedInv, FeedTypeOK, ProcessedIsStored
  <1> QED
    BY <1>2, <1>4, <1>5, <1>6, <1>7, <1>8 DEF FeedInv, QueueMoved

-----------------------------------------------------------------------------
LEMMA InitFeed == ASSUME FeedAssumption, Init PROVE FeedInv
  <1>1. NoJob \in Jobs /\ Left(NoJob) /\ NoJob.status = "none"
    BY DEF FeedAssumption, NoJob, Jobs, Left, Waiting
  <1>2. Idle \in Works /\ Idle.stage = "idle" /\ Idle.batch = {}
    BY DEF Idle, Works
  <1>3. NoPoll \in PollStates /\ Sound(NoPoll)
    BY DEF NoPoll, PollStates, Sound
  <1>4. key \in BOOLEAN
    BY DEF FeedAssumption, Init
  <1>5. FeedTypeOK
    BY <1>1, <1>2, <1>3, <1>4 DEF Init, FeedTypeOK
  <1>6. JobsAgree
    BY <1>1, <1>2 DEF Init, JobsAgree, Agrees
  <1>7. PollsSound
    BY <1>3 DEF Init, PollsSound
  <1>8. StoredOnce /\ AlertedOnce /\ ProcessedIsStored
    BY <1>2 DEF Init, StoredOnce, AlertedOnce, ProcessedIsStored
  <1> QED
    BY <1>5, <1>6, <1>7, <1>8 DEF FeedInv

LEMMA NextKeepsFeed == ASSUME FeedAssumption, FeedInv, [Next]_feedVars PROVE FeedInv'
  <1>1. CASE ChangeKey
    BY <1>1, ChangeKeyKeeps
  <1>2. ASSUME NEW p \in Panels, Open(p) PROVE FeedInv'
    BY <1>2, OpenKeeps
  <1>3. ASSUME NEW p \in Panels, Close(p) PROVE FeedInv'
    BY <1>3, CloseKeeps
  <1>4. ASSUME NEW p \in Panels, Polling(p) PROVE FeedInv'
    BY <1>4, PollStartsKeeps, FetchedKeeps, LookKeeps, PollContinuesKeeps DEF Polling
  <1>5. ASSUME NEW p \in Panels, Working(p) PROVE FeedInv'
    BY <1>5, TakeJobsKeeps, FailKeeps, AlreadyStoredKeeps, AnalyzeKeeps, AnalyzedKeeps,
       CreateKeeps, AddKeeps, AnnounceKeeps DEF Working
  <1>6. CASE UNCHANGED feedVars
    BY <1>6 DEF feedVars, FeedInv, FeedTypeOK, JobsAgree, Agrees, Left, PollsSound, Sound,
                StoredOnce, AlertedOnce, ProcessedIsStored
  <1> QED
    BY <1>1, <1>2, <1>3, <1>4, <1>5, <1>6 DEF Next

LEMMA FeedInvariant == Spec => []FeedInv
  <1>1. Init => FeedInv
    BY FeedAssumption, InitFeed
  <1>2. FeedInv /\ [Next]_feedVars => FeedInv'
    BY FeedAssumption, NextKeepsFeed
  <1> QED
    BY <1>1, <1>2, PTL DEF Spec

(* Every variable of the feed keeps its type.                              *)
THEOREM FeedTypeCorrect == Spec => []FeedTypeOK
  <1>1. FeedInv => FeedTypeOK
    BY DEF FeedInv
  <1> QED
    BY <1>1, FeedInvariant, PTL

(* The queue's statuses agree with what it works on, whatever polls, ticks *)
(* and closing panels come in between (JobQueue.processQueue, addJob).     *)
THEOREM QueuesStayInStep == Spec => []QueueInStep
  <1>1. FeedInv => QueueInStep
    BY DEF FeedInv, JobsAgree, Agrees, QueueInStep
  <1> QED
    BY <1>1, FeedInvariant, PTL

(* No news item is announced twice or before it is stored, however many    *)
(* panels analyse its status (createNewsItem, onStatusProcessed).          *)
THEOREM AlertsAreUnique == Spec => []AlertedOnce
  <1>1. FeedInv => AlertedOnce
    BY DEF FeedInv
  <1> QED
    BY <1>1, FeedInvariant, PTL

(* What a panel holds for processed is in the database                     *)
(* (_processedStatusIds).                                                  *)
THEOREM ProcessedStaysStored == Spec => []ProcessedIsStored
  <1>1. FeedInv => ProcessedIsStored
    BY DEF FeedInv
  <1> QED
    BY <1>1, FeedInvariant, PTL

(* Only the action named for it starts an analysis.                        *)
LEMMA OnlyAnalyzeStarts ==
    ASSUME FeedAssumption, FeedInv, Next, NEW p \in Panels, NEW s \in Statuses,
           ~Analyzing(p, s), Analyzing(p, s)'
    PROVE  Analyze(p) /\ work'[p].id = work[p].id
  <1>1. work'[p].stage = "analyze" /\ work'[p] # work[p]
    BY DEF Analyzing
  <1>2. \A q \in Panels : ~QueueMoved(q)
    BY <1>1 DEF QueueMoved
  <1>3. work \in [Panels -> Works] /\ work' # work
    BY <1>1 DEF FeedInv, FeedTypeOK
  <1>4. ~ChangeKey
    BY <1>3 DEF ChangeKey
  <1>5. ASSUME NEW q \in Panels, Open(q) \/ Close(q) \/ Polling(q) PROVE FALSE
    BY <1>1, <1>3, <1>5 DEF Open, Close, Idle, Polling, PollStarts, Fetched, Look,
                            PollContinues
  <1>6. PICK q \in Panels : Working(q)
    BY <1>4, <1>5 DEF Next
  <1>7. Analyze(q) \/ Analyzed(q) \/ Create(q) \/ Add(q)
    BY <1>2, <1>6, TakeJobsKeeps, FailKeeps, AlreadyStoredKeeps, AnnounceKeeps DEF Working
  <1>8. ~Analyzed(q) /\ ~Create(q) /\ ~Add(q)
    BY <1>1, <1>3 DEF Analyzed, Create, Add, Reach
  <1>9. Analyze(q) /\ q = p
    BY <1>1, <1>3, <1>7, <1>8 DEF Analyze, Reach
  <1> QED
    BY <1>3, <1>9 DEF Analyze, Reach

(* No analysis begins of a status its panel has processed.                 *)
THEOREM AnalysesAreNeeded == Spec => NeverAnalyzedAgain
  <1> DEFINE Needed == \A p \in Panels, s \in Statuses :
                          ~Analyzing(p, s) /\ Analyzing(p, s)' => s \notin processed[p]
  <1>1. FeedInv /\ [Next]_feedVars => [Needed]_feedVars
    <2> SUFFICES ASSUME FeedInv, Next, NEW p \in Panels, NEW s \in Statuses,
                        ~Analyzing(p, s), Analyzing(p, s)'
                 PROVE  s \notin processed[p]
      OBVIOUS
    <2>1. Analyze(p) /\ work'[p].id = work[p].id
      BY FeedAssumption, OnlyAnalyzeStarts
    <2> QED
      BY <2>1 DEF Analyze, Exists, Analyzing, FeedInv, ProcessedIsStored
  <1> QED
    BY <1>1, FeedInvariant, PTL DEF Spec, NeverAnalyzedAgain
=============================================================================
