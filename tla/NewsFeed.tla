------------------------------ MODULE NewsFeed ------------------------------
(***************************************************************************)
(* The Truth Social feed of the side panel and the job queue under it      *)
(* (pages/side-panel/src/services/news/truthsocial/truth-social.service.ts *)
(* and pages/side-panel/src/services/utils/JobQueue.ts).                   *)
(*                                                                         *)
(* Every browser window may show a side panel.  Each panel polls the feed, *)
(* queues the statuses it does not know, has them analysed one at a time   *)
(* and stores a news item for each in the database all panels share.  What *)
(* a panel knows is lost when it closes, the database stays.               *)
(*                                                                         *)
(* An action is the code between two awaits.  Polls overlap when one takes *)
(* longer than the interval between them; Polls bounds how many.  The      *)
(* times of retries and ticks are not modelled: a failed job may be due at *)
(* any tick.  The jobs of one tick are taken in any order.                 *)
(***************************************************************************)
EXTENDS Integers, Sequences

CONSTANTS
    Statuses,      \* statuses the feed can list
    Panels,        \* side panels, one for each browser window
    Polls,         \* polls of one panel that can be under way together
    Listings,      \* lists of statuses a fetch can return
    MaxAttempts,   \* Job.maxAttempts, maxRetries + 1
    Keys,          \* whether the user has a Gemini API key configured: the choices
    None           \* the absence of a status

ASSUME FeedAssumption ==
    /\ Listings \subseteq Seq(Statuses)
    /\ MaxAttempts \in Nat \ {0}
    /\ Keys \subseteq BOOLEAN
    /\ None \notin Statuses

Waiting == {"pending", "failed"}

Jobs == [status : {"none", "processing"} \cup Waiting, attempts : 0..MaxAttempts]

(* No entry in the map of jobs.                                            *)
NoJob == [status |-> "none", attempts |-> 0]

Works == [stage : {"idle", "check", "analyze", "create", "add", "stored"},
          id : Statuses \cup {None}, batch : SUBSET Statuses, keyed : BOOLEAN]

Idle == [stage |-> "idle", id |-> None, batch |-> {}, keyed |-> FALSE]

PollStates == [stage : {"idle", "fetching", "checking", "answered"},
               list : Seq(Statuses), found : BOOLEAN]

NoPoll == [stage |-> "idle", list |-> <<>>, found |-> FALSE]

VARIABLES
    news,        \* statuses that have a news item in the database
    skipped,     \* those whose item only says that the analysis was skipped
    key,         \* a Gemini API key is configured
    open,        \* panel -> it is open
    processed,   \* panel -> _processedStatusIds
    jobs,        \* panel -> status -> its entry in JobQueue._jobs
    work,        \* panel -> what processQueue is doing
    poll,        \* panel -> poll -> what _fetchAndEnqueueStatuses is doing
    alerts       \* status -> times onStatusProcessed was fired for it

feedVars == <<news, skipped, key, open, processed, jobs, work, poll, alerts>>

Init ==
    /\ news = {} /\ skipped = {}
    /\ key \in Keys
    /\ open = [p \in Panels |-> FALSE]
    /\ processed = [p \in Panels |-> {}]
    /\ jobs = [p \in Panels |-> [s \in Statuses |-> NoJob]]
    /\ work = [p \in Panels |-> Idle]
    /\ poll = [p \in Panels |-> [k \in Polls |-> NoPoll]]
    /\ alerts = [s \in Statuses |-> 0]

-----------------------------------------------------------------------------
(* The user.                                                               *)

ChangeKey ==
    /\ key' \in Keys \ {key}
    /\ UNCHANGED <<news, skipped, open, processed, jobs, work, poll, alerts>>

Open(p) ==
    /\ ~open[p]
    /\ open' = [open EXCEPT ![p] = TRUE]
    /\ UNCHANGED <<news, skipped, key, processed, jobs, work, poll, alerts>>

(* The panel's page goes away in the middle of whatever it does.           *)
Close(p) ==
    /\ open[p]
    /\ open' = [open EXCEPT ![p] = FALSE]
    /\ processed' = [processed EXCEPT ![p] = {}]
    /\ jobs' = [jobs EXCEPT ![p] = [s \in Statuses |-> NoJob]]
    /\ work' = [work EXCEPT ![p] = Idle]
    /\ poll' = [poll EXCEPT ![p] = [k \in Polls |-> NoPoll]]
    /\ UNCHANGED <<news, skipped, key, alerts>>

-----------------------------------------------------------------------------
(* A poll: _fetchAndEnqueueStatuses.                                       *)

PollStarts(p, k) ==
    /\ open[p]
    /\ poll[p][k].stage = "idle"
    /\ key
    /\ poll' = [poll EXCEPT ![p][k] = [stage |-> "fetching", list |-> <<>>, found |-> FALSE]]
    /\ UNCHANGED <<news, skipped, key, open, processed, jobs, work, alerts>>

(* The poll passes over what the panel knows already.                      *)
Known(s, done, js) == s \in done \/ js[s].status # "none"

(* The loop over the statuses runs on to the first unknown one and asks    *)
(* the database about it, or ends.                                         *)
Proceed(p, k, list, done, js) ==
    \/ /\ \A i \in DOMAIN list : Known(list[i], done, js)
       /\ poll' = [poll EXCEPT ![p][k] = NoPoll]
    \/ \E i \in DOMAIN list :
          /\ ~Known(list[i], done, js)
          /\ \A j \in 1..(i - 1) : Known(list[j], done, js)
          /\ poll' = [poll EXCEPT ![p][k] =
                        [stage |-> "checking", list |-> SubSeq(list, i, Len(list)),
                         found |-> FALSE]]

(* A fetch that fails returns the empty list.                              *)
Fetched(p, k, list) ==
    /\ poll[p][k].stage = "fetching"
    /\ Proceed(p, k, list, processed[p], jobs[p])
    /\ UNCHANGED <<news, skipped, key, open, processed, jobs, work, alerts>>

(* The database looks the status up, an error reads as absent.  The poll   *)
(* learns of it only when it runs again.                                   *)
Look(p, k, found) ==
    /\ poll[p][k].stage = "checking"
    /\ found => Head(poll[p][k].list) \in news
    /\ poll' = [poll EXCEPT ![p][k] =
                  [stage |-> "answered", list |-> poll[p][k].list, found |-> found]]
    /\ UNCHANGED <<news, skipped, key, open, processed, jobs, work, alerts>>

AddJob(js, s) ==
    IF js[s].status = "none"
    THEN [js EXCEPT ![s] = [status |-> "pending", attempts |-> 0]]
    ELSE js

Seen(p, s, found) == IF found THEN processed[p] \cup {s} ELSE processed[p]

PollContinues(p, k) ==
    LET s == Head(poll[p][k].list)
        found == poll[p][k].found
        done == Seen(p, s, found)
        js == IF found THEN jobs[p] ELSE AddJob(jobs[p], s)
    IN  /\ poll[p][k].stage = "answered"
        /\ processed' = [processed EXCEPT ![p] = done]
        /\ jobs' = [jobs EXCEPT ![p] = js]
        /\ Proceed(p, k, Tail(poll[p][k].list), done, js)
        /\ UNCHANGED <<news, skipped, key, open, work, alerts>>

-----------------------------------------------------------------------------
(* The queue: processQueue with the processor of _processJobQueue.         *)

Begun(js, s) ==
    [js EXCEPT ![s] = [status |-> "processing", attempts |-> @.attempts + 1]]

(* Mutant: a call does not look at _processing.                            *)
QueueIsAlwaysFree(p) == TRUE

(* processQueue returns at once while an earlier call is at work.          *)
QueueIsFree(p) == work[p].stage = "idle"

(* The jobs a call takes: all pending ones and the failed ones whose time  *)
(* has come.                                                               *)
Due(p, due) ==
    /\ due # {}
    /\ \A s \in due :
          \/ jobs[p][s].status = "pending"
          \/ jobs[p][s].status = "failed" /\ jobs[p][s].attempts < MaxAttempts
    /\ \A s \in Statuses : jobs[p][s].status = "pending" => s \in due

Begin(p, s, rest, js) ==
    /\ jobs' = [jobs EXCEPT ![p] = Begun(js, s)]
    /\ work' = [work EXCEPT ![p] =
                  [stage |-> "check", id |-> s, batch |-> rest, keyed |-> FALSE]]

TakeJobs(p, due) ==
    /\ open[p]
    /\ QueueIsFree(p)
    /\ Due(p, due)
    /\ \E s \in due : Begin(p, s, due \ {s}, jobs[p])
    /\ UNCHANGED <<news, skipped, key, open, processed, poll, alerts>>

(* The current job's entry becomes job, and the loop goes on.              *)
Finish(p, job) ==
    LET js == [jobs[p] EXCEPT ![work[p].id] = job]
        rest == work[p].batch
    IN  \/ /\ rest = {}
           /\ jobs' = [jobs EXCEPT ![p] = js]
           /\ work' = [work EXCEPT ![p] = Idle]
        \/ \E s \in rest : Begin(p, s, rest \ {s}, js)

(* Mutant: the last attempt is one too late.                               *)
AfterFailureOffByOne(job) ==
    IF job.attempts > MaxAttempts
    THEN NoJob
    ELSE [status |-> "failed", attempts |-> job.attempts]

(* Mutant: a job that failed is pending again.                             *)
AfterFailurePending(job) == [status |-> "pending", attempts |-> job.attempts]

(* What is left of a job whose processor threw.                            *)
AfterFailure(job) ==
    IF job.attempts >= MaxAttempts
    THEN NoJob
    ELSE [status |-> "failed", attempts |-> job.attempts]

(* The processor throws: the database or the analysis failed, the item was *)
(* not valid, or another panel's item came first.                          *)
Fail(p) ==
    /\ work[p].stage \in {"check", "analyze", "create", "add"}
    /\ Finish(p, AfterFailure(jobs[p][work[p].id]))
    /\ UNCHANGED <<news, skipped, key, open, processed, poll, alerts>>

(* Mutant: the processor does not look again before the analysis.          *)
ExistsWhenCreating(p, stage) ==
    /\ stage = "create" /\ work[p].stage = stage
    /\ work[p].id \in news

(* The item exists, so that the status counts as processed.                *)
Exists(p, stage) ==
    /\ work[p].stage = stage
    /\ work[p].id \in news

AlreadyStored(p, stage) ==
    /\ Exists(p, stage)
    /\ processed' = [processed EXCEPT ![p] = @ \cup {work[p].id}]
    /\ Finish(p, NoJob)
    /\ UNCHANGED <<news, skipped, key, open, poll, alerts>>

(* The processor gets as far as its next await.                            *)
Reach(p, stage, keyed) ==
    work' = [work EXCEPT ![p] =
               [stage |-> stage, id |-> work[p].id, batch |-> work[p].batch,
                keyed |-> keyed]]

(* The second look into the database finds nothing; analyzeStatus starts   *)
(* and reads the key.                                                      *)
Analyze(p) ==
    /\ work[p].stage = "check"
    /\ ~Exists(p, "check")
    /\ Reach(p, "analyze", key)
    /\ UNCHANGED <<news, skipped, key, open, processed, jobs, poll, alerts>>

Analyzed(p) ==
    /\ work[p].stage = "analyze"
    /\ Reach(p, "create", work[p].keyed)
    /\ UNCHANGED <<news, skipped, key, open, processed, jobs, poll, alerts>>

(* createNewsItem finds no item of the same status.                        *)
Create(p) ==
    /\ work[p].stage = "create"
    /\ ~Exists(p, "create")
    /\ Reach(p, "add", work[p].keyed)
    /\ UNCHANGED <<news, skipped, key, open, processed, jobs, poll, alerts>>

(* Mutant: the index is not unique.                                        *)
UniqueOrNot(s) == TRUE

(* The table's unique index keeps out a second item of a status.           *)
Unique(s) == s \notin news

Add(p) ==
    /\ work[p].stage = "add"
    /\ Unique(work[p].id)
    /\ news' = news \cup {work[p].id}
    /\ skipped' = IF work[p].keyed THEN skipped ELSE skipped \cup {work[p].id}
    /\ Reach(p, "stored", work[p].keyed)
    /\ UNCHANGED <<key, open, processed, jobs, poll, alerts>>

Announce(p) ==
    /\ work[p].stage = "stored"
    /\ processed' = [processed EXCEPT ![p] = @ \cup {work[p].id}]
    /\ alerts' = [alerts EXCEPT ![work[p].id] = @ + 1]
    /\ Finish(p, NoJob)
    /\ UNCHANGED <<news, skipped, key, open, poll>>

-----------------------------------------------------------------------------
Polling(p) ==
    \E k \in Polls :
        \/ PollStarts(p, k)
        \/ \E list \in Listings \cup {<<>>} : Fetched(p, k, list)
        \/ \E found \in BOOLEAN : Look(p, k, found)
        \/ PollContinues(p, k)

Working(p) ==
    \/ \E due \in SUBSET Statuses : TakeJobs(p, due)
    \/ Fail(p)
    \/ AlreadyStored(p, "check")
    \/ Analyze(p)
    \/ Analyzed(p)
    \/ AlreadyStored(p, "create")
    \/ Create(p)
    \/ Add(p)
    \/ Announce(p)

Next ==
    \/ ChangeKey
    \/ \E p \in Panels : Open(p) \/ Close(p) \/ Polling(p) \/ Working(p)

Spec == Init /\ [][Next]_feedVars

Listed(p, k, s) ==
    \E list \in Listings : s \in {list[i] : i \in DOMAIN list} /\ Fetched(p, k, list)

(* Timers go on ticking and requests get an answer.  What is tried again   *)
(* and again succeeds in the end: fetches list a status that is still in   *)
(* the feed, the database answers, the analysis of a status succeeds, and  *)
(* the time of a retry comes.                                              *)
PanelFairness(p) ==
    /\ \A k \in Polls :
          /\ WF_feedVars(PollStarts(p, k))
          /\ WF_feedVars(\E found \in BOOLEAN : Look(p, k, found))
          /\ WF_feedVars(PollContinues(p, k))
          /\ \A s \in Statuses : SF_feedVars(Listed(p, k, s))
    /\ \A s \in Statuses :
          /\ SF_feedVars(\E due \in SUBSET Statuses : s \in due /\ TakeJobs(p, due))
          /\ SF_feedVars(work[p].id = s /\ Analyze(p))
          /\ SF_feedVars(work[p].id = s /\ Analyzed(p))
          /\ SF_feedVars(work[p].id = s /\ Create(p))
          /\ SF_feedVars(work[p].id = s /\ Add(p))
    /\ WF_feedVars(Working(p))

FairSpec == Spec /\ \A p \in Panels : PanelFairness(p)

-----------------------------------------------------------------------------
(* Every variable has its type.                                            *)
FeedTypeOK ==
    /\ news \subseteq Statuses
    /\ skipped \subseteq news
    /\ key \in BOOLEAN
    /\ open \in [Panels -> BOOLEAN]
    /\ processed \in [Panels -> SUBSET Statuses]
    /\ jobs \in [Panels -> [Statuses -> Jobs]]
    /\ work \in [Panels -> Works]
    /\ poll \in [Panels -> [Polls -> PollStates]]
    /\ alerts \in [Statuses -> Nat]

(* The job whose status says processing is the one its panel works on.     *)
(* None is left behind in that status, where no call of processQueue would *)
(* take it and hasJob would keep later polls from adding it again; and no  *)
(* late poll queues anew what is being worked on.                          *)
QueueInStep ==
    \A p \in Panels, s \in Statuses :
        jobs[p][s].status = "processing" <=> work[p].stage # "idle" /\ work[p].id = s

(* However many panels work on a status, and however often they close in   *)
(* between, its news item is announced once at most, by onStatusProcessed, *)
(* and only when the item is there.                                        *)
AlertedOnce ==
    \A s \in Statuses :
        /\ alerts[s] <= 1
        /\ alerts[s] = 1 => s \in news

Analyzing(p, s) == work[p].stage = "analyze" /\ work[p].id = s

(* A panel never pays for the analysis of a status it has processed, also  *)
(* when a slow poll queues the status again upon an answer of the database *)
(* that is out of date.                                                    *)
NeverAnalyzedAgain ==
    [][\A p \in Panels, s \in Statuses :
          ~Analyzing(p, s) /\ Analyzing(p, s)' => s \notin processed[p]]_feedVars

(* A panel that stays open while a key is configured stores every status   *)
(* the feed goes on listing, whatever number of attempts fails first.      *)
ListedIsStored ==
    \A p \in Panels, s \in Statuses :
        <>[](open[p] /\ key) => <>(s \in news)

(* "Gemini API key not configured, skipping Truth Social processing"       *)
(* (truth-social.service.ts:276): without a key no status is processed, so *)
(* that no news item is stored which only says that it was not analysed.   *)
NothingSkipped == skipped = {}
=============================================================================
