------------------------- MODULE PhmRecoveryProofs -------------------------
(***************************************************************************)
(* Proofs of the safety properties of PhmRecovery, for any set of          *)
(* identifiers, any numbers of retries and any bound on the sessions.      *)
(***************************************************************************)
EXTENDS PhmRecovery, TLAPS

(***************************************************************************)
(* The inductive invariant.  OpenSession ties the open session to the      *)
(* counters, which bounds the sessions; Room keeps the retries of a        *)
(* recovery inside the bound; AnswerIsEarned and Earned carry the handler  *)
(* invocation from SM through the answer to the outcome.                   *)
(***************************************************************************)
OpenSession ==
    \A i \in Identifier : session[i] # 0 =>
        /\ i \in pending
        /\ session[i] = seq[i]
        /\ seq[i] = first[i] + retried[i]

Room ==
    \A i \in pending : /\ seq[i] - first[i] <= MaxRetry[i]
                       /\ first[i] + MaxRetry[i] <= MaxSession

AnswerIsEarned ==
    \A i \in Identifier, n \in Session :
        <<i, n, "Success">> \in answers => <<i, n>> \in handled

IInv == /\ TypeOK
        /\ OpenSession
        /\ Room
        /\ AnswerIsEarned
        /\ SuccessMeansHandled

\* The initial state of the client, the server and the watchdog is in IInv.
LEMMA InitIInv == Init => IInv
  <1> SUFFICES ASSUME Init PROVE IInv
    OBVIOUS
  <1> USE RecoveryAssumption DEF Init
  <1>1. ClientTypeOK /\ OutcomeTypeOK
    BY DEF ClientTypeOK, OutcomeTypeOK, Results
  <1>2. NetworkTypeOK
    BY DEF NetworkTypeOK
  <1>3. OfferTypeOK
    BY DEF OfferTypeOK
  <1>4. WatchdogTypeOK
    BY Zenon DEF WatchdogTypeOK
  <1>5. OpenSession /\ Room /\ AnswerIsEarned /\ SuccessMeansHandled
    BY DEF OpenSession, Room, AnswerIsEarned, SuccessMeansHandled, Session
  <1> QED BY <1>1, <1>2, <1>3, <1>4, <1>5 DEF IInv, TypeOK

\* _triggerWatchdog and the watchdog callbacks keep the watchdog's flags Boolean.
LEMMA WatchdogTypes ==
    WatchdogTypeOK /\ [Next]_vars => WatchdogTypeOK'
  <1> SUFFICES ASSUME WatchdogTypeOK, [Next]_vars PROVE WatchdogTypeOK'
    OBVIOUS
  <1> USE DEF WatchdogTypeOK, watchdogVars
  <1>1. ASSUME NEW i \in Identifier, NEW r, NEW n, ProcessRecoveryResult(i, r, n)
        PROVE  WatchdogTypeOK'
    <2>1. CASE r = "Fail"
      BY <1>1, <2>1, RecoveryAssumption, Zenon DEF ProcessRecoveryResult, TriggerWatchdog
    <2>2. CASE r # "Fail"
      BY <1>1, <2>2, Zenon DEF ProcessRecoveryResult
    <2> QED BY <2>1, <2>2
  <1>2. ASSUME NEW i \in Identifier, Notify(i) PROVE WatchdogTypeOK'
    BY <1>1, <1>2, Zenon DEF Notify
  <1>3. ASSUME NEW i \in Identifier, Timeout(i) PROVE WatchdogTypeOK'
    BY <1>1, <1>3, Zenon DEF Timeout
  <1>4. ASSUME NEW i \in Identifier, NEW n \in Session, NEW r \in Results,
               Response(i, n, r)
        PROVE  WatchdogTypeOK'
    BY <1>1, <1>4, Zenon DEF Response
  <1>5. ASSUME NEW i \in Identifier,
               \/ RegisterRecoveryHandler(i) \/ Offer(i) \/ OfferTold(i)
               \/ StopOffer(i) \/ StopTold(i)
               \/ \E n \in Session : ServerHandler(i, n)
        PROVE  WatchdogTypeOK'
    BY <1>5, Zenon DEF RegisterRecoveryHandler, Offer, OfferTold, StopOffer,
           StopTold, OfferStep, ServerHandler
  <1>6. CASE AliveNotification
    BY <1>6, Zenon DEF AliveNotification
  <1>7. CASE FeedIsLate \/ WatchdogTimeout
    BY <1>7, Zenon DEF FeedIsLate, WatchdogTimeout
  <1>8. CASE UNCHANGED vars
    BY <1>8, Zenon DEF vars
  <1> QED BY <1>2, <1>3, <1>4, <1>5, <1>6, <1>7, <1>8, Zenon DEF Next

\* Every step of the client, the network, the server and the application
\* thread preserves the invariant.
LEMMA NextIInv == IInv /\ [Next]_vars => IInv'
  <1> SUFFICES ASSUME IInv, [Next]_vars PROVE IInv'
    OBVIOUS
  <1>w. WatchdogTypeOK'
    BY WatchdogTypes DEF IInv, TypeOK
  <1> USE RecoveryAssumption DEF IInv, TypeOK, ClientTypeOK, NetworkTypeOK,
          OfferTypeOK, Session, Results
  <1>c. ASSUME NEW i \in Identifier, NEW r \in Results, NEW n \in 0..MaxSession,
               ProcessRecoveryResult(i, r, n)
        PROVE  /\ pending' = pending \ {i}
               /\ OutcomeTypeOK'
               /\ outcome'[i].result = r /\ outcome'[i].first = n
               /\ \A j \in Identifier \ {i} : outcome'[j] = outcome[j]
    BY <1>c DEF ProcessRecoveryResult, OutcomeTypeOK
  <1>1. ASSUME NEW i \in Identifier, Notify(i)
        PROVE  IInv'
    <2> USE <1>1 DEF Notify, serverVars
    <2>1. /\ seq[i] + 1 \in 1..MaxSession /\ seq[i] + 1 + MaxRetry[i] <= MaxSession
          /\ session[i] = 0
      BY DEF OpenSession
    <2>2. CASE SendAsync(i) /\ pending' = pending \cup {i} /\ UNCHANGED outcome
      <3> USE <2>1, <2>2 DEF SendAsync
      <3>1. ClientTypeOK' /\ OutcomeTypeOK' /\ NetworkTypeOK' /\ OfferTypeOK'
        BY DEF OutcomeTypeOK
      <3>2. OpenSession' /\ Room'
        BY DEF OpenSession, Room
      <3>3. AnswerIsEarned' /\ SuccessMeansHandled'
        BY DEF AnswerIsEarned, SuccessMeansHandled
      <3> QED BY <1>w, <3>1, <3>2, <3>3
    <2>3. CASE /\ ProcessRecoveryResult(i, "Fail", seq[i] + 1)
               /\ UNCHANGED <<seq, session, requests>>
      <3>0. /\ pending' = pending \ {i}
            /\ OutcomeTypeOK'
            /\ outcome'[i].result = "Fail"
            /\ \A j \in Identifier \ {i} : outcome'[j] = outcome[j]
        BY <1>c, <2>1, <2>3
      <3> USE <2>1, <2>3, <3>0
      <3>1. ClientTypeOK' /\ OutcomeTypeOK' /\ NetworkTypeOK' /\ OfferTypeOK'
        OBVIOUS
      <3>2. OpenSession' /\ Room'
        BY DEF OpenSession, Room
      <3>3. AnswerIsEarned' /\ SuccessMeansHandled'
        BY DEF AnswerIsEarned, SuccessMeansHandled
      <3> QED BY <1>w, <3>1, <3>2, <3>3
    <2> QED BY <2>2, <2>3
  <1>2. ASSUME NEW i \in Identifier, Timeout(i)
        PROVE  IInv'
    <2> USE <1>2 DEF Timeout, serverVars
    <2>1. i \in pending /\ seq[i] = first[i] + retried[i]
      BY DEF OpenSession
    <2>2. CASE ~GivesUp(i) /\ SendAsync(i) /\ UNCHANGED <<pending, outcome>>
      <3>0. /\ seq[i] + 1 \in 1..MaxSession
            /\ seq[i] + 1 - first[i] <= MaxRetry[i]
        BY <2>1, <2>2 DEF GivesUp, Room
      <3> USE <2>1, <2>2, <3>0 DEF SendAsync
      <3>1. ClientTypeOK' /\ OutcomeTypeOK' /\ NetworkTypeOK' /\ OfferTypeOK'
        BY DEF OutcomeTypeOK
      <3>2. OpenSession' /\ Room'
        BY DEF OpenSession, Room
      <3>3. AnswerIsEarned' /\ SuccessMeansHandled'
        BY DEF AnswerIsEarned, SuccessMeansHandled
      <3> QED BY <1>w, <3>1, <3>2, <3>3
    <2>3. CASE /\ ProcessRecoveryResult(i, "Fail", first[i])
               /\ session' = [session EXCEPT ![i] = 0]
               /\ UNCHANGED <<seq, requests>>
      <3>0. /\ pending' = pending \ {i}
            /\ OutcomeTypeOK'
            /\ outcome'[i].result = "Fail"
            /\ \A j \in Identifier \ {i} : outcome'[j] = outcome[j]
        BY <1>c, <2>3
      <3> USE <2>1, <2>3, <3>0
      <3>1. ClientTypeOK' /\ OutcomeTypeOK' /\ NetworkTypeOK' /\ OfferTypeOK'
        OBVIOUS
      <3>2. OpenSession' /\ Room'
        BY DEF OpenSession, Room
      <3>3. AnswerIsEarned' /\ SuccessMeansHandled'
        BY DEF AnswerIsEarned, SuccessMeansHandled
      <3> QED BY <1>w, <3>1, <3>2, <3>3
    <2>4. CASE /\ session' = [session EXCEPT ![i] = 0]
               /\ UNCHANGED <<pending, outcome, seq, requests>>
      <3> USE <2>4
      <3>1. ClientTypeOK' /\ OutcomeTypeOK' /\ NetworkTypeOK' /\ OfferTypeOK'
        BY DEF OutcomeTypeOK
      <3>2. OpenSession' /\ Room' /\ AnswerIsEarned' /\ SuccessMeansHandled'
        BY DEF OpenSession, Room, AnswerIsEarned, SuccessMeansHandled
      <3> QED BY <1>w, <3>1, <3>2
    <2> QED BY <2>2, <2>3, <2>4
  <1>3. ASSUME NEW i \in Identifier, NEW n \in Session, NEW r \in Results,
               Response(i, n, r)
        PROVE  IInv'
    <2> USE <1>3 DEF Response, serverVars
    <2>1. CASE AnswersSession(i, n)
      <3>0. /\ pending' = pending \ {i}
            /\ OutcomeTypeOK'
            /\ outcome'[i].result = r /\ outcome'[i].first = first[i]
            /\ \A j \in Identifier \ {i} : outcome'[j] = outcome[j]
        BY <1>c, <2>1
      <3> USE <2>1, <3>0
      <3>1. ClientTypeOK' /\ OutcomeTypeOK' /\ NetworkTypeOK' /\ OfferTypeOK'
        OBVIOUS
      <3>2. OpenSession' /\ Room' /\ AnswerIsEarned'
        BY DEF OpenSession, Room, AnswerIsEarned
      <3>3. n >= first[i]
        BY DEF AnswersSession, OpenSession
      <3>4. r = "Success" => <<i, n>> \in handled
        BY DEF AnswerIsEarned
      <3>5. SuccessMeansHandled'
        BY <3>3, <3>4 DEF SuccessMeansHandled
      <3> QED BY <1>w, <3>1, <3>2, <3>5
    <2>2. CASE ~AnswersSession(i, n)
      <3> USE <2>2
      <3>1. ClientTypeOK' /\ OutcomeTypeOK' /\ NetworkTypeOK' /\ OfferTypeOK'
        BY DEF OutcomeTypeOK
      <3>2. OpenSession' /\ Room' /\ AnswerIsEarned' /\ SuccessMeansHandled'
        BY DEF OpenSession, Room, AnswerIsEarned, SuccessMeansHandled
      <3> QED BY <1>w, <3>1, <3>2
    <2> QED BY <2>1, <2>2
  <1>4. ASSUME NEW i \in Identifier, NEW n \in Session, ServerHandler(i, n)
        PROVE  IInv'
    <2> USE <1>4 DEF ServerHandler, clientVars
    <2>1. ClientTypeOK' /\ OutcomeTypeOK' /\ NetworkTypeOK' /\ OfferTypeOK'
      BY DEF OutcomeTypeOK
    <2>2. OpenSession' /\ Room' /\ AnswerIsEarned' /\ SuccessMeansHandled'
      BY DEF OpenSession, Room, AnswerIsEarned, SuccessMeansHandled
    <2> QED BY <1>w, <2>1, <2>2
  <1>5. ASSUME NEW i \in Identifier,
               \/ RegisterRecoveryHandler(i) \/ Offer(i) \/ OfferTold(i)
               \/ StopOffer(i) \/ StopTold(i)
        PROVE  IInv'
    <2> USE <1>5 DEF RegisterRecoveryHandler, Offer, OfferTold, StopOffer,
                     StopTold, OfferStep, clientVars
    <2>1. ClientTypeOK' /\ OutcomeTypeOK' /\ NetworkTypeOK' /\ OfferTypeOK'
      BY DEF OutcomeTypeOK
    <2>2. OpenSession' /\ Room' /\ AnswerIsEarned' /\ SuccessMeansHandled'
      BY DEF OpenSession, Room, AnswerIsEarned, SuccessMeansHandled
    <2> QED BY <1>w, <2>1, <2>2
  <1>6. CASE AliveNotification \/ FeedIsLate \/ WatchdogTimeout \/ UNCHANGED vars
    <2> USE <1>6 DEF AliveNotification, FeedIsLate, WatchdogTimeout, vars,
                     clientVars, serverVars
    <2>1. ClientTypeOK' /\ OutcomeTypeOK' /\ NetworkTypeOK' /\ OfferTypeOK'
      BY DEF OutcomeTypeOK
    <2>2. OpenSession' /\ Room' /\ AnswerIsEarned' /\ SuccessMeansHandled'
      BY DEF OpenSession, Room, AnswerIsEarned, SuccessMeansHandled
    <2> QED BY <1>w, <2>1, <2>2
  <1> QED BY <1>1, <1>2, <1>3, <1>4, <1>5, <1>6 DEF Next

\* The invariant holds throughout every behaviour.
THEOREM RecoveryInvariant == Spec => []IInv
  BY InitIInv, NextIInv, PTL DEF Spec

\* Type correctness: no recovery ever opens a session beyond the bound the
\* first request left room for.
THEOREM RecoveryTypes == Spec => []TypeOK
  BY RecoveryInvariant, PTL DEF IInv

\* A recovery reported as successful was carried out by SM, for a request of
\* that recovery, whatever timed out, was answered late or was retried.
THEOREM RecoverySuccess == Spec => []SuccessMeansHandled
  BY RecoveryInvariant, PTL DEF IInv

\* _responseCallBack opens at most maxRetryTimes + 1 sessions per recovery.
THEOREM RecoveryAttempts == Spec => []AttemptsBounded
  <1>1. IInv => AttemptsBounded
    BY DEF IInv, Room, AttemptsBounded
  <1> QED BY <1>1, RecoveryInvariant, PTL

\* _responseCallBack and Notify leave no entry of notifyInfo_ behind but at a
\* retry, below the limit, whose request could not be made; every other entry has
\* the open session of its last attempt.
THEOREM RecoveryEntries == Spec => []EntryIsAccounted
  <1> DEFINE P == EntryIsAccounted
  <1>1. Init => P
    BY DEF Init, EntryIsAccounted
  <1>2. IInv /\ P /\ [Next]_vars => P'
    <2> SUFFICES ASSUME IInv, P, [Next]_vars PROVE P'
      OBVIOUS
    <2> USE RecoveryAssumption
        DEF EntryIsAccounted, IInv, TypeOK, ClientTypeOK
    <2>1. ASSUME NEW i \in Identifier, Notify(i) PROVE P'
      <3>1. i \notin pending /\ session[i] = 0
        BY <2>1 DEF Notify
      <3>2. CASE SendAsync(i) /\ pending' = pending \cup {i}
        <4>1. session'[i] = seq'[i] /\ seq'[i] = seq[i] + 1 /\ first'[i] = seq[i] + 1
              /\ retried'[i] = 0
          BY <2>1, <3>2 DEF Notify, SendAsync
        <4>2. \A j \in Identifier \ {i} : /\ session'[j] = session[j] /\ seq'[j] = seq[j]
                                         /\ first'[j] = first[j] /\ retried'[j] = retried[j]
          BY <2>1, <3>2 DEF Notify, SendAsync
        <4> QED BY <3>1, <3>2, <4>1, <4>2
      <3>3. CASE pending' = pending \ {i} /\ UNCHANGED <<seq, session>>
        BY <2>1, <3>1, <3>3 DEF Notify
      <3> QED BY <2>1, <3>2, <3>3 DEF Notify, ProcessRecoveryResult
    <2>2. ASSUME NEW i \in Identifier, Timeout(i) PROVE P'
      <3>1. /\ i \in pending /\ session[i] = seq[i] /\ retried[i] = seq[i] - first[i]
            /\ retried' = [retried EXCEPT ![i] = retried[i] + 1] /\ first' = first
        BY <2>2 DEF Timeout
      <3>2. CASE ~GivesUp(i) /\ SendAsync(i) /\ UNCHANGED pending
        BY <3>1, <3>2 DEF SendAsync
      <3>3. CASE pending' = pending \ {i} /\ session' = [session EXCEPT ![i] = 0] /\ seq' = seq
        BY <3>1, <3>3
      <3>4. CASE ~GivesUp(i) /\ pending' = pending /\ session' = [session EXCEPT ![i] = 0]
                 /\ seq' = seq
        BY <3>1, <3>4 DEF GivesUp
      <3> QED BY <2>2, <3>2, <3>3, <3>4 DEF Timeout, ProcessRecoveryResult
    <2>3. ASSUME NEW i \in Identifier, NEW n \in Session, NEW r \in Results,
                 Response(i, n, r)
          PROVE  P'
      BY <2>3 DEF Response, ProcessRecoveryResult
    <2>4. ASSUME NEW i \in Identifier,
                 \/ RegisterRecoveryHandler(i) \/ Offer(i) \/ OfferTold(i)
                 \/ StopOffer(i) \/ StopTold(i)
                 \/ \E n \in Session : ServerHandler(i, n)
          PROVE  P'
      BY <2>4 DEF RegisterRecoveryHandler, Offer, OfferTold, StopOffer,
             StopTold, OfferStep, ServerHandler, clientVars
    <2>5. CASE AliveNotification \/ FeedIsLate \/ WatchdogTimeout \/ UNCHANGED vars
      BY <2>5 DEF AliveNotification, FeedIsLate, WatchdogTimeout, vars, clientVars
    <2> QED BY <2>1, <2>2, <2>3, <2>4, <2>5 DEF Next
  <1> QED BY <1>1, <1>2, RecoveryInvariant, PTL DEF Spec
=============================================================================
