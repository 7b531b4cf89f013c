--------------------------- MODULE ProactiveFeedback ---------------------------
(***************************************************************************)
(* What a proactive fire leaves behind and what later fires read of it: the*)
(* decision row of each fire, the delivered messages with their embeddings *)
(* that the similarity gate compares with, the suppressions and reported   *)
(* ids, the user's replies credited to deliveries, the cooldown after      *)
(* silent fires, and the pruning of it all.  The retries of a failed       *)
(* delivery and the lock of a job are the subject of JobExecutor.          *)
(***************************************************************************)
EXTENDS Naturals, FiniteSets

CONSTANTS
    FbJobs,         \* the schedules, all of one peer
    FbMode,         \* FbJobs -> {"always", "conditional", "silent"}
    FbMessages,     \* messages, one for each class of similar texts
    Cooldown,       \* cooldownAfterSilences
    Lookback,       \* rows of the peer the cooldown reads
    RowDays,        \* how far back the rows are read
    DedupDays,      \* similarityWindowMs
    ReplyDays,      \* the window in which a reply is credited
    KeptDays,       \* retention of rows, deliveries and reported ids
    OneAtATime,     \* whether fires of different jobs never overlap
    MaxFires,       \* bound: fires
    MaxDay          \* bound: time

\* What is kept outlasts the similarity window (engine.ts: 90 days and 48 hours).
ASSUME FeedbackAssumption ==
    /\ {DedupDays, KeptDays, MaxDay} \subseteq Nat /\ DedupDays <= KeptDays

VARIABLES
    day,
    fires,          \* fires begun, which also numbers them
    hushed,         \* presence: do not disturb, quiet hours
    fire,           \* per job, the fire in flight
    decisions,      \* rows of proactive_decisions
    sent,           \* rows of proactive_deliveries with suppressed = 0
    declined,       \* recentSuppressions, and the rows with suppressed = 1
    reported,       \* reported ids, with the day they were marked
    heard           \* what reached the user: every delivery, in full
feedbackVars == <<day, fires, hushed, fire, decisions, sent, declined, reported, heard>>

NoFire == [st |-> "idle"]
FeedbackInit ==
    /\ day = 1 /\ fires = 0 /\ hushed = FALSE /\ fire = [j \in FbJobs |-> NoFire]
    /\ decisions = {} /\ sent = {} /\ declined = {} /\ reported = {} /\ heard = {}

--------------------------------------------------------------------------------
(* recordProactiveDecision(): delivered is 1, or 0 for every suppression.    *)
(* finalizeError() comes with no row at all.                                 *)
Row(j, n, at, how) ==
    [n |-> n, job |-> j, at |-> at, delivered |-> how = "delivered", how |-> how, credited |-> FALSE]
Finalizes(j, how) ==
    /\ decisions' = decisions \cup {Row(j, fire[j].n, fire[j].at, how)}
    /\ fire' = [fire EXCEPT ![j] = NoFire]

(* getRecentProactiveDecisions(), newest first, cut before the job's own     *)
(* rows are picked; and the silent fires at the head of those.               *)
Newest(limit) ==
    {r \in decisions : day - r.at <= RowDays /\ Cardinality({q \in decisions : q.n > r.n}) < limit}
OwnRows(j, limit) == {r \in Newest(limit) : r.job = j}
SilentRun(j) ==
    LET own == OwnRows(j, Lookback)
    IN Cardinality({r \in own : \A q \in own : q.n >= r.n => ~q.delivered})
CoolingDown(j) == SilentRun(j) >= Cooldown

(* executeImpl() up to the agent call: presence, cooldown and the pre-check  *)
(* script each end the fire.                                                 *)
EndsAtOnce(j, how) ==
    /\ decisions' = decisions \cup {Row(j, fires + 1, day, how)} /\ UNCHANGED fire
FireBegins(j) ==
    /\ fire[j].st = "idle" /\ fires < MaxFires /\ fires' = fires + 1
    /\ OneAtATime => \A k \in FbJobs : fire[k].st = "idle"
    /\ IF hushed /\ FbMode[j] # "silent" THEN EndsAtOnce(j, "presence")
       ELSE IF CoolingDown(j) THEN EndsAtOnce(j, "cooldown")
       ELSE \/ EndsAtOnce(j, "precheck")
            \/ /\ fire' = [fire EXCEPT ![j] = [st |-> "agent", n |-> fires + 1, at |-> day]]
               /\ UNCHANGED decisions
    /\ UNCHANGED <<day, hushed, sent, declined, reported, heard>>

(* addSuppression() with recordSuppression(); markReported() with            *)
(* addReportedItem(); addDelivery() with recordDelivery().                   *)
RecordsSuppression(j) == declined' = declined \cup {[job |-> j, at |-> day]}
MarksReported(m) == reported' = reported \cup {[msg |-> m, at |-> day]}
RecordsDelivery(j) ==
    sent' = sent \cup {[n |-> fire[j].n, job |-> j, msg |-> fire[j].msg, at |-> day, embedded |-> fire[j].embedded]}

(* The agent's answer: an error; nothing to tell (deliver=false, [SILENT], a *)
(* placeholder, an unparseable answer), kept as a suppression in conditional *)
(* mode; or a message, whose ids are marked as reported before it is sent.   *)
AgentFails(j) ==
    /\ fire[j].st = "agent" /\ fire' = [fire EXCEPT ![j] = NoFire]
    /\ UNCHANGED <<day, fires, hushed, decisions, sent, declined, reported, heard>>
AgentDeclines(j) ==
    /\ fire[j].st = "agent"
    /\ Finalizes(j, IF FbMode[j] = "silent" THEN "ran" ELSE "declined")
    /\ IF FbMode[j] = "conditional" THEN RecordsSuppression(j) ELSE UNCHANGED declined
    /\ UNCHANGED <<day, fires, hushed, sent, reported, heard>>
AgentWrites(j, m) ==
    /\ fire[j].st = "agent" /\ FbMode[j] # "silent"
    /\ fire' = [fire EXCEPT ![j] = [st |-> "embed", n |-> @.n, at |-> @.at, msg |-> m]]
    /\ MarksReported(m)
    /\ UNCHANGED <<day, fires, hushed, decisions, sent, declined, heard>>

(* deliverResponse(): the embedding, when the embedder answers, the gate of  *)
(* findSimilar(), which "always" skips, and the wait for the channel.        *)
SimilarOfJob(j, m) == {d \in sent : d.msg = m /\ d.embedded /\ d.job = j}
SimilarSent(j, m) == {d \in sent : d.msg = m /\ d.embedded /\ day - d.at <= DedupDays}
SimilarGate(j) ==
    /\ fire[j].st = "embed"
    /\ \E embedded \in BOOLEAN :
        IF embedded /\ FbMode[j] # "always" /\ SimilarSent(j, fire[j].msg) # {}
        THEN Finalizes(j, "similar")
        ELSE /\ fire' = [fire EXCEPT ![j] = [st |-> "send", n |-> @.n, at |-> @.at, msg |-> @.msg, embedded |-> embedded, gated |-> day]]
             /\ UNCHANGED decisions
    /\ UNCHANGED <<day, fires, hushed, sent, declined, reported, heard>>
SendSucceeds(j) ==
    /\ fire[j].st = "send" /\ Finalizes(j, "delivered")
    /\ RecordsDelivery(j)
    /\ heard' = heard \cup {[k |-> Cardinality(heard), n |-> fire[j].n, job |-> j, msg |-> fire[j].msg, at |-> day, gated |-> fire[j].gated, embedded |-> fire[j].embedded]}
    /\ UNCHANGED <<day, fires, hushed, declined, reported>>
SendFails(j) ==
    /\ fire[j].st = "send" /\ fire' = [fire EXCEPT ![j] = NoFire]
    /\ UNCHANGED <<day, fires, hushed, decisions, sent, declined, reported, heard>>

--------------------------------------------------------------------------------
(* onUserActivity(): markUserResponse() credits every recent delivery that   *)
(* has no reply yet.                                                         *)
CreditedAny(r) == day - r.at <= ReplyDays
Credited(r) == r.delivered /\ ~r.credited /\ day - r.at <= ReplyDays
UserReplies ==
    /\ \E r \in decisions : Credited(r)
    /\ decisions' = {IF Credited(r) THEN [r EXCEPT !.credited = TRUE] ELSE r : r \in decisions}
    /\ UNCHANGED <<day, fires, hushed, fire, sent, declined, reported, heard>>

(* prune() of the delivery store and pruneOldRows() of the learning store. *)
KeptRows(R) == {r \in R : day - r.at <= KeptDays}
Prunes ==
    /\ decisions' = KeptRows(decisions) /\ sent' = KeptRows(sent)
    /\ declined' = KeptRows(declined) /\ reported' = KeptRows(reported)
    /\ UNCHANGED <<day, fires, hushed, fire, heard>>
PresenceChanges ==
    /\ hushed' = ~hushed
    /\ UNCHANGED <<day, fires, fire, decisions, sent, declined, reported, heard>>
DayPasses ==
    /\ day < MaxDay /\ day' = day + 1
    /\ UNCHANGED <<fires, hushed, fire, decisions, sent, declined, reported, heard>>

FeedbackNext ==
    \/ \E j \in FbJobs : FireBegins(j) \/ AgentFails(j) \/ AgentDeclines(j) \/ SimilarGate(j) \/ SendSucceeds(j) \/ SendFails(j)
    \/ \E j \in FbJobs, m \in FbMessages : AgentWrites(j, m)
    \/ UserReplies \/ Prunes \/ PresenceChanges \/ DayPasses

--------------------------------------------------------------------------------
(* What the engagement block tells a fire of its job's past (buildMyRecent-  *)
(* Fires(), buildEngagementStats()).                                         *)
ReplyRateOver(j) ==
    LET own == OwnRows(j, 30) IN
    [delivered |-> Cardinality({r \in own : r.delivered}), replied |-> Cardinality({r \in own : r.credited})]

(* The similarity gate works across jobs and days: a message that is not     *)
(* "always" reaches the user only if no similar one did in the window        *)
(* (executor.ts deliverResponse, dedup-store.ts findSimilar).  It holds of   *)
(* fires that do not overlap.                                                *)
NoRepeat ==
    \A a, b \in heard :
        (a.k < b.k /\ a.msg = b.msg /\ a.embedded /\ b.embedded /\ FbMode[b.job] # "always")
            => b.gated - a.at > DedupDays

(* A reply is credited to a message the user got, never to a silent or a     *)
(* failed fire, so no rate told to an agent exceeds one (learning-store.ts   *)
(* markUserResponse, executor.ts finalize).                                  *)
CreditIsEarned ==
    /\ \A r \in decisions : r.credited => \E h \in heard : h.n = r.n
    /\ \A j \in FbJobs : ReplyRateOver(j).replied <= ReplyRateOver(j).delivered

(* A fire is put in cooldown for the agent's own decisions not to deliver    *)
(* (executor.ts executeImpl, the cooldown block).                            *)
CooldownCountsDecisions ==
    \A c \in decisions : c.how = "cooldown" =>
        \E r \in decisions : r.n < c.n /\ r.job = c.job /\ r.how = "declined"
=============================================================================
