----------------------------- MODULE PhmRecovery -----------------------------
(***************************************************************************)
(* Recovery notification between phmd and State Management, and the        *)
(* hardware watchdog phmd falls back on.                                   *)
(*                                                                         *)
(* racom::Client (and hcacom::Client, the same protocol for health         *)
(* channels) sends a request per recovery, waits for the answer of the     *)
(* RecoveryAction server in SM, retries after a timeout and gives up after *)
(* maxRetryTimes, which triggers the watchdog.  Every SendAsync opens an   *)
(* IPC session of its own; a session ends once, by its answer or by its    *)
(* timeout, and an answer to a session that has ended is dropped.  SM runs *)
(* concurrently: it may handle a request long after its session timed out, *)
(* and its application thread offers and stops offering meanwhile.         *)
(***************************************************************************)
EXTENDS Integers

CONSTANTS
    Identifier,       \* instance specifiers in the recovery mapping
    MaxRetry,         \* recoveryNotificationRetry of each
    WatchdogEnabled,  \* watchdogConf_.enable
    RequestMayFail,   \* a request of a retry may fail to be made
    LoopMayStall,     \* the event loop may be late by a watchdog timeout
    MaxSession        \* bound: sessions opened per identifier

ASSUME RecoveryAssumption ==
    /\ MaxRetry \in [Identifier -> Nat]
    /\ WatchdogEnabled \in BOOLEAN
    /\ RequestMayFail \in BOOLEAN
    /\ LoopMayStall \in BOOLEAN
    /\ MaxSession \in Nat

VARIABLES
    pending,     \* identifiers in Client::notifyInfo_
    retried,     \* NotifyInfo::haveRetriedTimes
    session,     \* the session the client waits for, 0 when there is none
    seq, first,  \* last session opened; first one of the current recovery
    requests, answers, \* in flight: <<i, n>> and <<i, n, result>>
    handled,     \* sessions SM invoked the RecoveryHandler for
    outcome,     \* how the last recovery ended, and its first session
    phmOffered,  \* GlobalSupervision::offered_ in phmd
    smOffered,   \* RecoveryActionInfo::isOffered in SM
    call,        \* where Offer / StopOffer of the application is
    feedTimer, triggered, \* PhmContext::feedWatchdogTimer_; triggered_
    late         \* the last feed is older than the watchdog timeout

clientVars   == <<pending, retried, session, seq, first, outcome>>
serverVars   == <<handled, smOffered, call>>
watchdogVars == <<feedTimer, triggered, late>>
vars == <<clientVars, requests, answers, serverVars, phmOffered, watchdogVars>>

Session == 1..MaxSession
Results == {"Success", "NotOffered", "Fail"}

Init ==
    /\ pending = {}
    /\ retried = [i \in Identifier |-> 0]
    /\ session = [i \in Identifier |-> 0]
    /\ seq = [i \in Identifier |-> 0]
    /\ first = [i \in Identifier |-> 0]
    /\ requests = {} /\ answers = {} /\ handled = {}
    /\ outcome = [i \in Identifier |-> [result |-> "none", first |-> 0]]
    /\ phmOffered = [i \in Identifier |-> TRUE]
    /\ smOffered = [i \in Identifier |-> FALSE]
    /\ call = [i \in Identifier |-> "none"]
    /\ feedTimer = WatchdogEnabled
    /\ triggered = FALSE /\ late = FALSE

-----------------------------------------------------------------------------
(***************************************************************************)
(* The client in phmd.                                                     *)
(***************************************************************************)

\* Seeded fault: the feed timer goes on.
FireWithoutStop ==
    /\ triggered' = (triggered \/ WatchdogEnabled)
    /\ UNCHANGED <<feedTimer, late>>

\* PhmContext::_triggerWatchdog.
TriggerWatchdog ==
    /\ feedTimer' = (feedTimer /\ ~WatchdogEnabled)
    /\ triggered' = (triggered \/ WatchdogEnabled)
    /\ UNCHANGED late

\* Client::_processRecoveryResult with _recoveryResultHandler; n is the first
\* session of the recovery.
ProcessRecoveryResult(i, result, n) ==
    /\ pending' = pending \ {i}
    /\ outcome' = [outcome EXCEPT ![i] = [result |-> result, first |-> n]]
    /\ IF result = "Fail" THEN TriggerWatchdog ELSE UNCHANGED watchdogVars

\* SendAsync opens a new session and the request is on its way.
SendAsync(i) ==
    /\ seq' = [seq EXCEPT ![i] = @ + 1]
    /\ session' = [session EXCEPT ![i] = seq[i] + 1]
    /\ requests' = requests \cup {<<i, seq[i] + 1>>}

\* Client::Notify, from _globalSupervisionStatusChanged or from
\* _healthStatusHandler.  Nothing changes when the recovery is not offered, is
\* pending, or the request cannot be made.
Notify(i) ==
    /\ phmOffered[i] /\ i \notin pending
    /\ seq[i] + MaxRetry[i] + 1 <= MaxSession
    /\ retried' = [retried EXCEPT ![i] = 0]
    /\ first' = [first EXCEPT ![i] = seq[i] + 1]
    /\ \/ /\ SendAsync(i)
          /\ pending' = pending \cup {i}
          /\ UNCHANGED <<outcome, watchdogVars>>
       \/ /\ ProcessRecoveryResult(i, "Fail", seq[i] + 1)
          /\ UNCHANGED <<seq, session, requests>>
    /\ UNCHANGED <<answers, serverVars, phmOffered>>

\* Seeded fault: the answer to any session of the identifier is taken.
AnswersAny(i, n) == i \in pending

\* The IPC runtime finds the session of an answer only while it is open.
AnswersSession(i, n) == session[i] = n

\* _responseCallBack with an answer.  The server always puts a result into it, so
\* the branch for an answer without a buffer is not taken.
Response(i, n, result) ==
    /\ <<i, n, result>> \in answers
    /\ answers' = answers \ {<<i, n, result>>}
    /\ IF AnswersSession(i, n)
         THEN /\ ProcessRecoveryResult(i, result, first[i])
              /\ session' = [session EXCEPT ![i] = 0]
         ELSE UNCHANGED <<pending, outcome, watchdogVars, session>>
    /\ UNCHANGED <<retried, seq, first, requests, serverVars, phmOffered>>

\* Seeded fault: the limit is tested before the retry is counted.
GivesUpLate(i) == retried[i] > MaxRetry[i]

GivesUp(i) == retried[i] + 1 > MaxRetry[i]

\* Seeded fault: nothing is done when the last attempt times out.
IgnoresLastTimeout(i) ==
    /\ session[i] # 0 /\ ~GivesUp(i)
    /\ retried' = [retried EXCEPT ![i] = @ + 1]
    /\ SendAsync(i)
    /\ UNCHANGED <<pending, outcome, first, answers, serverVars, phmOffered, watchdogVars>>

\* _responseCallBack with IPC_CLIENT_HANDLER_STATUS_ERR: the session timed out.
\* When the new request cannot be made the code just returns.
Timeout(i) ==
    /\ session[i] # 0
    /\ retried' = [retried EXCEPT ![i] = @ + 1]
    /\ \/ /\ GivesUp(i)
          /\ ProcessRecoveryResult(i, "Fail", first[i])
          /\ session' = [session EXCEPT ![i] = 0]
          /\ UNCHANGED <<seq, requests>>
       \/ /\ ~GivesUp(i)
          /\ \/ /\ SendAsync(i)
                /\ UNCHANGED <<pending, outcome, watchdogVars>>
             \/ /\ ProcessRecoveryResult(i, "Fail", first[i])
                /\ session' = [session EXCEPT ![i] = 0]
                /\ UNCHANGED <<seq, requests>>
             \/ /\ RequestMayFail
                /\ session' = [session EXCEPT ![i] = 0]
                /\ UNCHANGED <<pending, outcome, watchdogVars, seq, requests>>
    /\ UNCHANGED <<first, answers, serverVars, phmOffered>>

-----------------------------------------------------------------------------
(***************************************************************************)
(* The server and the application thread in SM.                            *)
(***************************************************************************)

\* racom::Server::ServerHandler.  When the function group cannot be made the
\* request is left unanswered; an answer may fail to be sent.
ServerHandler(i, n) ==
    /\ <<i, n>> \in requests
    /\ requests' = requests \ {<<i, n>>}
    /\ \/ /\ smOffered[i]
          /\ handled' = handled \cup {<<i, n>>}
          /\ \/ answers' = answers \cup {<<i, n, "Success">>}
             \/ UNCHANGED answers
       \/ smOffered[i] /\ UNCHANGED <<handled, answers>>
       \/ /\ ~smOffered[i]
          /\ \/ answers' = answers \cup {<<i, n, "NotOffered">>}
             \/ UNCHANGED answers
          /\ UNCHANGED handled
    /\ UNCHANGED <<clientVars, smOffered, call, phmOffered, watchdogVars>>

\* RecoveryAction::Offer registers the handler anew, offers it to the server,
\* then tells phmd, which may fail; StopOffer in the same two last steps.
OfferStep(i, from, to, sm, phm) ==
    /\ call[i] = from
    /\ call' = [call EXCEPT ![i] = to]
    /\ smOffered' = [smOffered EXCEPT ![i] = sm]
    /\ phmOffered' \in {phmOffered, [phmOffered EXCEPT ![i] = phm]}
    /\ UNCHANGED <<clientVars, requests, answers, handled, watchdogVars>>

RegisterRecoveryHandler(i) == OfferStep(i, "none", "registered", FALSE, phmOffered[i])
Offer(i)     == OfferStep(i, "registered", "offered", TRUE, phmOffered[i])
OfferTold(i) == OfferStep(i, "offered", "none", smOffered[i], TRUE)
StopOffer(i) == OfferStep(i, "none", "stopped", FALSE, phmOffered[i])
StopTold(i)  == OfferStep(i, "stopped", "none", smOffered[i], FALSE)

-----------------------------------------------------------------------------
(***************************************************************************)
(* The watchdog.                                                           *)
(***************************************************************************)

\* WatchdogInterface::AliveNotification, on the feed timer.
AliveNotification ==
    /\ feedTimer
    /\ late' = FALSE
    /\ UNCHANGED <<clientVars, requests, answers, serverVars, phmOffered,
                   feedTimer, triggered>>

\* Time passes without a feed: the feed timer is stopped, or is not served.
FeedIsLate ==
    /\ WatchdogEnabled /\ ~late
    /\ feedTimer => LoopMayStall
    /\ late' = TRUE
    /\ UNCHANGED <<clientVars, requests, answers, serverVars, phmOffered,
                   feedTimer, triggered>>

\* WatchdogInterface::_watchdogTimeout; the feed timer is not its own.
WatchdogTimeout ==
    /\ WatchdogEnabled /\ late
    /\ triggered' = TRUE
    /\ UNCHANGED <<clientVars, requests, answers, serverVars, phmOffered,
                   feedTimer, late>>

Next ==
    \/ \E i \in Identifier :
          \/ Notify(i) \/ Timeout(i)
          \/ RegisterRecoveryHandler(i) \/ Offer(i) \/ OfferTold(i)
          \/ StopOffer(i) \/ StopTold(i)
          \/ \E n \in Session : \/ ServerHandler(i, n)
                                \/ \E r \in Results : Response(i, n, r)
    \/ AliveNotification \/ FeedIsLate \/ WatchdogTimeout

Spec == Init /\ [][Next]_vars

\* Every IPC session has a timer, which the event loop serves, given that the
\* configured timeout is positive (with 0, its default, no timer is armed); and
\* time passes for a watchdog nobody feeds.  The answers of SM are not assumed to
\* come.
FairSpec ==
    /\ Spec
    /\ \A i \in Identifier : WF_vars(Timeout(i))
    /\ WF_vars(~feedTimer /\ FeedIsLate)

-----------------------------------------------------------------------------
(***************************************************************************)
(* Properties.                                                             *)
(***************************************************************************)
ClientTypeOK ==
    /\ pending \subseteq Identifier
    /\ retried \in [Identifier -> Nat]
    /\ session \in [Identifier -> 0..MaxSession]
    /\ seq \in [Identifier -> 0..MaxSession]
    /\ first \in [Identifier -> 0..MaxSession]

OutcomeTypeOK ==
    outcome \in [Identifier -> [result : Results \cup {"none"},
                               first : 0..MaxSession]]

NetworkTypeOK ==
    /\ requests \subseteq Identifier \X Session
    /\ answers \subseteq Identifier \X Session \X {"Success", "NotOffered"}
    /\ handled \subseteq Identifier \X Session

OfferTypeOK ==
    /\ phmOffered \in [Identifier -> BOOLEAN]
    /\ smOffered \in [Identifier -> BOOLEAN]
    /\ call \in [Identifier -> {"none", "registered", "offered", "stopped"}]

WatchdogTypeOK ==
    feedTimer \in BOOLEAN /\ triggered \in BOOLEAN /\ late \in BOOLEAN

\* The types of all variables; in particular the sessions opened stay within
\* the bound, since no recovery retries more often than it may.
TypeOK ==
    /\ ClientTypeOK /\ OutcomeTypeOK /\ NetworkTypeOK
    /\ OfferTypeOK /\ WatchdogTypeOK

\* A recovery phmd logs as successful was carried out: SM invoked the
\* RecoveryHandler for a request of this very recovery, not for a late one of
\* a recovery given up before.
SuccessMeansHandled ==
    \A i \in Identifier : outcome[i].result = "Success" =>
        \E n \in Session : n >= outcome[i].first /\ <<i, n>> \in handled

\* A recovery opens at most maxRetryTimes + 1 sessions: the first request and
\* the retries counted by haveRetriedTimes.
AttemptsBounded ==
    \A i \in pending : seq[i] - first[i] <= MaxRetry[i]

\* What becomes of an entry of notifyInfo_ through timeouts, late answers, retries
\* and failing requests: it waits in the session of its last attempt, which is the
\* one haveRetriedTimes counts, or it was left behind by a retry below the limit
\* that was counted and never sent, the early returns of _responseCallBack.  A
\* session that is waited for has its entry.
EntryIsAccounted ==
    /\ \A i \in pending :
         \/ session[i] # 0 /\ session[i] = seq[i] /\ retried[i] = seq[i] - first[i]
         \/ /\ session[i] = 0 /\ retried[i] = seq[i] - first[i] + 1
            /\ retried[i] <= MaxRetry[i]
    /\ \A i \in Identifier : session[i] # 0 => i \in pending

\* A pending entry, which makes Notify ignore every further notification
\* ("Recovery in progress, do not send repeatedly"), always has an open session
\* whose end will remove it.  It does not hold when the request of a retry fails.
PendingIsInProgress == \A i \in Identifier : i \in pending <=> session[i] # 0

\* A hardware watchdog that was triggered is not fed any more ("do not feed the
\* watchdog, then the system will restart").  It does not hold when the loop
\* stalled and _watchdogTimeout was the trigger, since the feed timer goes on.
TriggeredIsNeverFed == [][triggered /\ late => late']_vars

\* Every recovery is answered by SM or ends in a reset: whatever is lost, late or
\* retried, and however the loop stalls, SM has answered it, or the hardware
\* watchdog is never fed again, in spite of later recoveries that succeed.  Excused
\* is the entry that the failing request of a retry left behind.
AnsweredOrReset ==
    \A i \in Identifier :
        i \in pending ~> \/ i \notin pending /\ outcome[i].result # "Fail"
                         \/ i \in pending /\ session[i] = 0
                         \/ [](WatchdogEnabled => late)

\* No recovery is waited for for ever, whatever SM answers or does not: it is
\* concluded, and the identifier becomes free for the next notification, unless
\* the request of a retry could not be made and its entry was left behind.
RecoveryConcludes ==
    \A i \in Identifier : i \in pending ~> (i \notin pending \/ session[i] = 0)
=============================================================================
