-------------------------- MODULE EmailDeliveryProofs --------------------------
(***************************************************************************)
(* The ledger of e-mail messages (module EmailDelivery), which every other *)
(* sender uses. What it records is what happened, for every number of      *)
(* messages, attempts and tries. The invariant follows what an attempt     *)
(* carries from one of its steps to the next: an attempt that is going to  *)
(* ask the provider has its envelope stored, and one that is going to      *)
(* record an acceptance was told of one.                                   *)
(***************************************************************************)
EXTENDS EmailDelivery, TLAPS

\* What an attempt relies on at the stage it has reached.
AttemptIsSound(w) ==
    attempt[w] # NoAttempt =>
        /\ attempt[w].replay => KeyOf(w) \in envelopes
        /\ At(w, "request") => KeyOf(w) \in envelopes
        /\ At(w, "accept") => KeyOf(w) \in taken

AttemptsAreSound == \A w \in Workers : AttemptIsSound(w)

LedgerInv ==
    /\ DeliveryTypeOK
    /\ SentWasTaken
    /\ StoredBeforeTaken
    /\ AttemptsAreSound

USE DEF NoAttempt, At, KeyOf

\* An attempt that is under way is a record of an attempt.
LEMMA UnderWay ==
    ASSUME DeliveryTypeOK, NEW w \in Workers, attempt[w].at # "idle"
    PROVE  attempt[w] \in Attempts
<1>1. attempt[w] \in Attempts \cup {NoAttempt}
  BY DEF DeliveryTypeOK
<1> QED
  BY <1>1

\* No worker has begun an attempt at the start.
LEMMA InitLedger == DeliveryInit => LedgerInv
  BY DeliveryAssumption DEF DeliveryInit, LedgerInv, DeliveryTypeOK, Rows,
     NoDelivery, DeliveryStates, SentWasTaken, StoredBeforeTaken,
     AttemptsAreSound, AttemptIsSound

-----------------------------------------------------------------------------
(* Each step keeps the types. *)

LEMMA TypeOfTakeRow ==
    ASSUME DeliveryTypeOK, NEW w \in Workers, attempt[w] \in Attempts,
           TakeRow(w), UNCHANGED <<envelopes, taken, now>>
    PROVE  DeliveryTypeOK'
<1>1. now + Lease \in Nat
  BY DeliveryAssumption DEF DeliveryTypeOK
<1>2. delivery' \in [Keys -> Rows]
  <2>1. [status |-> "sending", lease |-> now + Lease] \in Rows
    BY <1>1 DEF Rows, DeliveryStates
  <2> QED
    BY <2>1 DEF TakeRow, Record, DeliveryTypeOK, Attempts
<1>3. attempt' \in [Workers -> Attempts \cup {NoAttempt}]
  <2>1. [attempt[w] EXCEPT
            !.at = IF attempt[w].replay THEN "request" ELSE "persist"]
            \in Attempts
    BY DEF Attempts, Stages
  <2> QED
    BY <2>1 DEF TakeRow, GoTo, DeliveryTypeOK
<1> QED
  BY <1>2, <1>3 DEF DeliveryTypeOK

LEMMA TypeOfAttemptStep ==
    ASSUME DeliveryTypeOK, NEW w \in Workers, AttemptStep(w)
    PROVE  DeliveryTypeOK'
<1> USE DEF DeliveryTypeOK, Rows, DeliveryStates
<1>0. attempt[w] \in Attempts \/ attempt[w] = NoAttempt
  OBVIOUS
<1>1. CASE Reserve(w)
  <2>1. attempt[w] \in Attempts
    BY <1>1, UnderWay DEF Reserve
  <2>2. CASE TakeRow(w)
    BY <1>1, <2>1, <2>2, TypeOfTakeRow DEF Reserve
  <2>3. CASE GoTo(w, "look") /\ UNCHANGED delivery
    BY <1>1, <2>1, <2>3 DEF Reserve, GoTo, Attempts, Stages
  <2> QED
    BY <1>1, <2>2, <2>3 DEF Reserve
<1>2. CASE Look(w)
  BY <1>2, UnderWay DEF Look, GoTo, Leave, Attempts, Stages
<1>3. CASE FinishEarlier(w)
  BY <1>3, UnderWay
  DEF FinishEarlier, RecordIf, Record, Recorded, Leave, Attempts, Stages
<1>4. CASE Claim(w)
  <2>1. attempt[w] \in Attempts
    BY <1>4, UnderWay DEF Claim
  <2>2. CASE TakeRow(w)
    BY <1>4, <2>1, <2>2, TypeOfTakeRow DEF Claim
  <2>3. CASE Leave(w) /\ UNCHANGED delivery
    BY <1>4, <2>3 DEF Claim, Leave
  <2> QED
    BY <1>4, <2>2, <2>3 DEF Claim
<1>5. CASE Persist(w)
  BY <1>5, UnderWay DEF Persist, GoTo, Attempts, Stages
<1>6. CASE ProviderAccepts(w)
  BY <1>6, UnderWay DEF ProviderAccepts, GoTo, Attempts, Stages
<1>7. CASE ProviderRefuses(w)
  BY <1>7, UnderWay DEF ProviderRefuses, GoTo, Attempts, Stages
<1>8. CASE ProviderIsBusy(w)
  BY <1>8, UnderWay, DeliveryAssumption
  DEF ProviderIsBusy, UseTry, TriesLeft, Attempts, Stages
<1>9. CASE AnswerIsLost(w)
  BY <1>9, UnderWay, DeliveryAssumption
  DEF AnswerIsLost, UseTry, TriesLeft, Attempts, Stages
<1>10. CASE MarkFailed(w)
  BY <1>10, UnderWay
  DEF MarkFailed, RecordIf, Record, Recorded, Leave, Attempts, Stages
<1>11. CASE MarkAccepted(w)
  BY <1>11, UnderWay
  DEF MarkAccepted, RecordIf, Record, GoTo, Attempts, Stages
<1>12. CASE Finalize(w)
  BY <1>12, UnderWay
  DEF Finalize, RecordIf, Record, Recorded, Leave, Attempts, Stages
<1>13. CASE Stop(w)
  BY <1>13 DEF Stop, Leave
<1> QED
  BY <1>1, <1>2, <1>3, <1>4, <1>5, <1>6, <1>7, <1>8, <1>9, <1>10, <1>11,
     <1>12, <1>13 DEF AttemptStep

LEMMA TypeOfStep == DeliveryTypeOK /\ [DeliveryNext]_deliveryVars => DeliveryTypeOK'
<1> SUFFICES ASSUME DeliveryTypeOK, [DeliveryNext]_deliveryVars
             PROVE  DeliveryTypeOK'
  OBVIOUS
<1>1. CASE Tick
  BY <1>1 DEF Tick, DeliveryTypeOK
<1>2. CASE \E w \in Workers : AttemptStep(w)
  BY <1>2, TypeOfAttemptStep
<1>3. CASE \E w \in Workers, k \in Keys : Send(w, k) \/ Replay(w, k)
  <2>1. PICK w \in Workers, k \in Keys : Send(w, k) \/ Replay(w, k)
    BY <1>3
  <2>2. PICK replay \in BOOLEAN :
            /\ BeginAttempt(w, k, replay)
            /\ UNCHANGED <<delivery, envelopes, taken, now>>
    BY <2>1 DEF Send, Replay
  <2>3. [at |-> "reserve", key |-> k, replay |-> replay, tries |-> Tries]
            \in Attempts
    BY DeliveryAssumption DEF Attempts, Stages
  <2> QED
    BY <2>2, <2>3 DEF BeginAttempt, DeliveryTypeOK
<1>4. CASE UNCHANGED deliveryVars
  BY <1>4 DEF deliveryVars, DeliveryTypeOK
<1> QED
  BY <1>1, <1>2, <1>3, <1>4 DEF DeliveryNext

-----------------------------------------------------------------------------
(* Each step keeps the rest of the invariant. *)

\* A step that adds nothing wrong to the row of one message, and moves one
\* attempt to a stage it is entitled to, keeps the invariant.
LEMMA SoundStep ==
    ASSUME LedgerInv, DeliveryTypeOK', NEW w \in Workers, NEW k \in Keys,
           taken \subseteq taken', envelopes \subseteq envelopes',
           taken' \subseteq envelopes',
           \A j \in Keys \ {k} : delivery'[j] = delivery[j],
           delivery'[k].status \in {"provider_accepted", "sent"} => k \in taken',
           \A v \in Workers \ {w} : attempt'[v] = attempt[v],
           AttemptIsSound(w)'
    PROVE  LedgerInv'
<1>1. SentWasTaken'
  BY DEF LedgerInv, SentWasTaken
<1>2. AttemptsAreSound'
  <2> SUFFICES ASSUME NEW v \in Workers \ {w}
               PROVE  AttemptIsSound(v)'
    BY DEF AttemptsAreSound
  <2>1. AttemptIsSound(v)
    BY DEF LedgerInv, AttemptsAreSound
  <2> QED
    BY <2>1 DEF AttemptIsSound
<1> QED
  BY <1>1, <1>2 DEF LedgerInv, StoredBeforeTaken

LEMMA TakeRowKeepsLedger ==
    ASSUME LedgerInv, DeliveryTypeOK', NEW w \in Workers,
           attempt[w] \in Attempts, TakeRow(w),
           UNCHANGED <<envelopes, taken, now>>
    PROVE  LedgerInv'
<1> DEFINE k == KeyOf(w)
<1>1. /\ attempt \in [Workers -> Attempts \cup {NoAttempt}]
      /\ delivery \in [Keys -> Rows]
      /\ k \in Keys
  BY DEF LedgerInv, DeliveryTypeOK, Attempts
<1>2. /\ attempt'[w].at = (IF attempt[w].replay THEN "request" ELSE "persist")
      /\ attempt'[w].key = k
      /\ attempt'[w].replay = attempt[w].replay
  BY <1>1 DEF TakeRow, GoTo, Attempts
<1>3. AttemptIsSound(w)
  BY DEF LedgerInv, AttemptsAreSound
<1>4. AttemptIsSound(w)'
  BY <1>2, <1>3 DEF AttemptIsSound, Attempts, Stages
<1>5. \A v \in Workers \ {w} : attempt'[v] = attempt[v]
  BY <1>1 DEF TakeRow, GoTo
<1>6. /\ \A j \in Keys \ {k} : delivery'[j] = delivery[j]
      /\ delivery'[k].status = "sending"
  BY <1>1 DEF TakeRow, Record
<1> QED
  BY <1>1, <1>4, <1>5, <1>6, SoundStep DEF LedgerInv, StoredBeforeTaken

LEMMA AttemptStepKeepsLedger ==
    ASSUME LedgerInv, NEW w \in Workers, AttemptStep(w)
    PROVE  LedgerInv'
<1>1. DeliveryTypeOK'
  BY TypeOfAttemptStep DEF LedgerInv
<1>2. DeliveryTypeOK /\ SentWasTaken /\ taken \subseteq envelopes /\ AttemptIsSound(w)
  BY DEF LedgerInv, StoredBeforeTaken, AttemptsAreSound
<1> DEFINE k == KeyOf(w)
<1>3. CASE attempt[w] \in Attempts
  <2>0. k \in Keys /\ attempt[w] # NoAttempt
    BY <1>3 DEF Attempts, Stages
  <2> USE DEF DeliveryTypeOK, Rows
  <2>1. CASE Reserve(w)
    <3>1. CASE TakeRow(w)
      BY <3>1, <2>1, <1>1, <1>3, TakeRowKeepsLedger DEF Reserve
    <3>2. CASE GoTo(w, "look") /\ UNCHANGED delivery
      <4>1. AttemptIsSound(w)'
        BY <2>0, <2>1, <3>2, <1>2, <1>3
        DEF Reserve, GoTo, AttemptIsSound, Attempts
      <4> QED
        BY <4>1, <1>1, <1>2, <2>0, <2>1, <3>2, SoundStep
        DEF Reserve, GoTo, SentWasTaken
    <3> QED
      BY <2>1, <3>1, <3>2 DEF Reserve
  <2>2. CASE Look(w)
    <3>1. AttemptIsSound(w)'
      BY <2>0, <2>2, <1>2, <1>3 DEF Look, GoTo, Leave, AttemptIsSound, Attempts
    <3> QED
      BY <3>1, <1>1, <1>2, <2>0, <2>2, SoundStep
      DEF Look, GoTo, Leave, SentWasTaken
  <2>3. CASE FinishEarlier(w)
    BY <1>1, <1>2, <2>0, <2>3, SoundStep
    DEF FinishEarlier, RecordIf, Record, Recorded, Leave, SentWasTaken,
        AttemptIsSound
  <2>4. CASE Claim(w)
    <3>1. CASE TakeRow(w)
      BY <3>1, <2>4, <1>1, <1>3, TakeRowKeepsLedger DEF Claim
    <3>2. CASE Leave(w) /\ UNCHANGED delivery
      BY <1>1, <1>2, <2>0, <2>4, <3>2, SoundStep
      DEF Claim, Leave, SentWasTaken, AttemptIsSound
    <3> QED
      BY <2>4, <3>1, <3>2 DEF Claim
  <2>5. CASE Persist(w)
    <3>1. AttemptIsSound(w)'
      BY <2>0, <2>5, <1>2, <1>3 DEF Persist, GoTo, AttemptIsSound, Attempts
    <3> QED
      BY <3>1, <1>1, <1>2, <2>0, <2>5, SoundStep
      DEF Persist, GoTo, SentWasTaken
  <2>6. CASE ProviderAccepts(w)
    <3>1. AttemptIsSound(w)' /\ k \in envelopes
      BY <2>0, <2>6, <1>2, <1>3
      DEF ProviderAccepts, GoTo, AttemptIsSound, Attempts
    <3> QED
      BY <3>1, <1>1, <1>2, <2>0, <2>6, SoundStep
      DEF ProviderAccepts, GoTo, SentWasTaken
  <2>7. CASE ProviderRefuses(w)
    <3>1. AttemptIsSound(w)'
      BY <2>0, <2>7, <1>2, <1>3
      DEF ProviderRefuses, GoTo, AttemptIsSound, Attempts
    <3> QED
      BY <3>1, <1>1, <1>2, <2>0, <2>7, SoundStep
      DEF ProviderRefuses, GoTo, SentWasTaken
  <2>8. CASE ProviderIsBusy(w)
    <3>1. AttemptIsSound(w)'
      BY <2>0, <2>8, <1>2, <1>3
      DEF ProviderIsBusy, UseTry, AttemptIsSound, Attempts
    <3> QED
      BY <3>1, <1>1, <1>2, <2>0, <2>8, SoundStep
      DEF ProviderIsBusy, UseTry, SentWasTaken
  <2>9. CASE AnswerIsLost(w)
    <3>1. AttemptIsSound(w)' /\ k \in envelopes
      BY <2>0, <2>9, <1>2, <1>3
      DEF AnswerIsLost, UseTry, AttemptIsSound, Attempts
    <3> QED
      BY <3>1, <1>1, <1>2, <2>0, <2>9, SoundStep
      DEF AnswerIsLost, UseTry, SentWasTaken
  <2>10. CASE MarkFailed(w)
    BY <1>1, <1>2, <2>0, <2>10, SoundStep
    DEF MarkFailed, RecordIf, Record, Recorded, Leave, SentWasTaken,
        AttemptIsSound
  <2>11. CASE MarkAccepted(w)
    <3>1. AttemptIsSound(w)' /\ k \in taken
      BY <2>0, <2>11, <1>2, <1>3
      DEF MarkAccepted, GoTo, AttemptIsSound, Attempts
    <3> QED
      BY <3>1, <1>1, <1>2, <2>0, <2>11, SoundStep
      DEF MarkAccepted, RecordIf, Record, GoTo, SentWasTaken
  <2>12. CASE Finalize(w)
    BY <1>1, <1>2, <2>0, <2>12, SoundStep
    DEF Finalize, RecordIf, Record, Recorded, Leave, SentWasTaken,
        AttemptIsSound
  <2>13. CASE Stop(w)
    BY <1>1, <1>2, <2>0, <2>13, SoundStep
    DEF Stop, Leave, SentWasTaken, AttemptIsSound
  <2> QED
    BY <2>1, <2>2, <2>3, <2>4, <2>5, <2>6, <2>7, <2>8, <2>9, <2>10, <2>11,
       <2>12, <2>13 DEF AttemptStep
<1>4. CASE attempt[w] = NoAttempt
  BY <1>4 DEF AttemptStep, Reserve, Look, FinishEarlier, Claim, Persist,
     ProviderAccepts, ProviderRefuses, ProviderIsBusy, AnswerIsLost,
     MarkFailed, MarkAccepted, Finalize, Stop
<1> QED
  BY <1>2, <1>3, <1>4 DEF DeliveryTypeOK

LEMMA StepKeepsLedger == LedgerInv /\ [DeliveryNext]_deliveryVars => LedgerInv'
<1> SUFFICES ASSUME LedgerInv, [DeliveryNext]_deliveryVars
             PROVE  LedgerInv'
  OBVIOUS
<1>0. DeliveryTypeOK'
  BY TypeOfStep DEF LedgerInv
<1>1. CASE Tick
  BY <1>0, <1>1 DEF Tick, LedgerInv, SentWasTaken, StoredBeforeTaken,
     AttemptsAreSound, AttemptIsSound
<1>2. CASE \E w \in Workers : AttemptStep(w)
  BY <1>2, AttemptStepKeepsLedger
<1>3. CASE \E w \in Workers, k \in Keys : Send(w, k) \/ Replay(w, k)
  <2>1. PICK w \in Workers, k \in Keys : Send(w, k) \/ Replay(w, k)
    BY <1>3
  <2>2. UNCHANGED <<delivery, envelopes, taken, now>>
    BY <2>1 DEF Send, Replay
  <2>3. AttemptIsSound(w)' /\ \A v \in Workers \ {w} : attempt'[v] = attempt[v]
    BY <2>1 DEF Send, Replay, BeginAttempt, AttemptIsSound, LedgerInv,
       DeliveryTypeOK
  <2> QED
    BY <1>0, <2>2, <2>3, SoundStep DEF LedgerInv, SentWasTaken, StoredBeforeTaken
<1>4. CASE UNCHANGED deliveryVars
  BY <1>4 DEF deliveryVars, LedgerInv, DeliveryTypeOK, SentWasTaken,
     StoredBeforeTaken, AttemptsAreSound, AttemptIsSound
<1> QED
  BY <1>1, <1>2, <1>3, <1>4 DEF DeliveryNext

-----------------------------------------------------------------------------

\* The invariant of the ledger holds in every run.
THEOREM LedgerHolds == DeliverySpec => []LedgerInv
  BY InitLedger, StepKeepsLedger, PTL DEF DeliverySpec

\* The ledger calls a message accepted or sent only if the provider has taken
\* it on, and whatever the provider has taken on can be replayed
\* (resend.ts:138-147, 186-209, 279-306).
THEOREM LedgerSafety == DeliverySpec => []LedgerIsTrue
<1>1. LedgerInv => LedgerIsTrue
  BY DEF LedgerInv, LedgerIsTrue
<1> QED
  BY <1>1, LedgerHolds, PTL

\* Only a failed, reserved or sending row is ever claimed or marked failed.
LEMMA StepKeepsSent ==
    ASSUME DeliveryTypeOK, [DeliveryNext]_deliveryVars, NEW k \in Keys
    PROVE  /\ delivery[k].status = "sent" => delivery'[k].status = "sent"
           /\ delivery[k].status = "provider_accepted" =>
                 delivery'[k].status \in {"provider_accepted", "sent"}
<1>1. CASE UNCHANGED delivery
  BY <1>1
<1>2. CASE \E w \in Workers : AttemptStep(w)
  <2>1. PICK w \in Workers : AttemptStep(w)
    BY <1>2
  <2> USE DEF DeliveryTypeOK, Rows
  <2>2. CASE Reserve(w)
    BY <2>2 DEF Reserve, TakeRow, Record
  <2>3. CASE Claim(w)
    BY <2>3 DEF Claim, Claimable, TakeRow, Record
  <2>4. CASE FinishEarlier(w) \/ MarkFailed(w) \/ MarkAccepted(w) \/ Finalize(w)
    BY <2>4 DEF FinishEarlier, MarkFailed, MarkAccepted, Finalize, RecordIf,
       Record, Recorded
  <2>5. CASE \/ Look(w) \/ Persist(w) \/ ProviderAccepts(w) \/ ProviderRefuses(w)
             \/ ProviderIsBusy(w) \/ AnswerIsLost(w) \/ Stop(w)
    BY <2>5, <1>1 DEF Look, Persist, ProviderAccepts, ProviderRefuses,
       ProviderIsBusy, AnswerIsLost, Stop
  <2> QED
    BY <2>1, <2>2, <2>3, <2>4, <2>5 DEF AttemptStep
<1> QED
  BY <1>1, <1>2 DEF DeliveryNext, Tick, Send, Replay, deliveryVars

\* No late attempt takes back what the ledger has recorded as accepted or
\* sent (resend.ts:161-209).
THEOREM SentStaysSent == DeliverySpec => SentIsFinal
<1>1. LedgerInv /\ [DeliveryNext]_deliveryVars =>
        [\A k \in Keys :
            /\ delivery[k].status = "sent" => delivery'[k].status = "sent"
            /\ delivery[k].status = "provider_accepted" =>
                  delivery'[k].status \in {"provider_accepted", "sent"}
          ]_deliveryVars
  BY StepKeepsSent DEF LedgerInv
<1> QED
  BY <1>1, LedgerHolds, PTL DEF DeliverySpec, SentIsFinal

=============================================================================
