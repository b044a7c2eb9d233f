---------------------------- MODULE EmailDelivery ----------------------------
(***************************************************************************)
(* The ledger of outgoing e-mail (src/src/lib/email/resend.ts).  A message *)
(* is one row of email_deliveries, under a key computed from its contents, *)
(* which is also the idempotency key its provider is given.  An attempt    *)
(* reserves the row under a lease, stores the envelope, asks the provider, *)
(* and records the answer; each database statement is one step, and other  *)
(* attempts, a crash or the passing of time may come between any two.      *)
(*                                                                         *)
(* The provider is external: what is modelled of it is which keys it has   *)
(* taken on, and the answers the code distinguishes.                       *)
(***************************************************************************)
EXTENDS Integers, FiniteSets

CONSTANTS
    Keys,       \* messages, by delivery key
    Workers,    \* Worker requests that may be sending
    Lease,      \* SEND_LEASE_MS, in ticks of the model's clock
    Tries,      \* requests to the provider in one attempt
    MaxTime     \* bound of the model: the last tick of its clock

ASSUME DeliveryAssumption ==
    /\ Lease \in Nat \ {0}
    /\ Tries \in Nat \ {0}
    /\ MaxTime \in Nat

VARIABLES
    delivery,   \* the row of each key: its status and its lease
    envelopes,  \* keys with a row in email_delivery_envelopes
    taken,      \* keys whose message the provider has taken on
    now,        \* Date.now()
    attempt     \* where each worker is in its attempt

deliveryVars == <<delivery, envelopes, taken, now, attempt>>

DeliveryStates == {"none", "reserved", "sending", "provider_accepted",
                   "sent", "failed"}

\* A NULL lease is 0, as COALESCE reads it.
Rows == [status : DeliveryStates, lease : Nat]
NoDelivery == [status |-> "none", lease |-> 0]
Recorded(s) == [status |-> s, lease |-> 0]

NoAttempt == [at |-> "idle"]
Stages == {"reserve", "look", "finish", "claim", "persist", "request",
           "fail", "accept", "finalize"}
Attempts == [at : Stages, key : Keys, replay : BOOLEAN, tries : 1..Tries]

DeliveryTypeOK ==
    /\ delivery \in [Keys -> Rows]
    /\ envelopes \subseteq Keys
    /\ taken \subseteq Keys
    /\ now \in Nat
    /\ attempt \in [Workers -> Attempts \cup {NoAttempt}]

DeliveryInit ==
    /\ delivery = [k \in Keys |-> NoDelivery]
    /\ envelopes = {}
    /\ taken = {}
    /\ now = 0
    /\ attempt = [w \in Workers |-> NoAttempt]

-----------------------------------------------------------------------------

At(w, stage) == attempt[w].at = stage
KeyOf(w) == attempt[w].key

GoTo(w, stage) == attempt' = [attempt EXCEPT ![w].at = stage]
Leave(w) == attempt' = [attempt EXCEPT ![w] = NoAttempt]

Record(k, row) == delivery' = [delivery EXCEPT ![k] = row]

BeginAttempt(w, k, replay) ==
    attempt' = [attempt EXCEPT ![w] =
        [at |-> "reserve", key |-> k, replay |-> replay, tries |-> Tries]]

\* sendTemplatedEmail is called.
Send(w, k) ==
    /\ attempt[w] = NoAttempt
    /\ BeginAttempt(w, k, FALSE)
    /\ UNCHANGED <<delivery, envelopes, taken, now>>

\* retryEmailDelivery finds the stored envelope.
Replay(w, k) ==
    /\ attempt[w] = NoAttempt
    /\ k \in envelopes
    /\ BeginAttempt(w, k, TRUE)
    /\ UNCHANGED <<delivery, envelopes, taken, now>>

-----------------------------------------------------------------------------
(* reserveEmailDelivery *)

\* The row is this attempt's for the time of the lease; a replay need not
\* store its envelope again.
TakeRow(w) ==
    /\ Record(KeyOf(w), [status |-> "sending", lease |-> now + Lease])
    /\ GoTo(w, IF attempt[w].replay THEN "request" ELSE "persist")

\* INSERT ... ON CONFLICT DO NOTHING
Reserve(w) ==
    /\ At(w, "reserve")
    /\ IF delivery[KeyOf(w)].status = "none"
       THEN TakeRow(w)
       ELSE GoTo(w, "look") /\ UNCHANGED delivery
    /\ UNCHANGED <<envelopes, taken, now>>

Look(w) ==
    /\ At(w, "look")
    /\ \/ /\ delivery[KeyOf(w)].status = "sent"
          /\ Leave(w)
       \/ /\ delivery[KeyOf(w)].status = "provider_accepted"
          /\ GoTo(w, "finish")
       \/ /\ delivery[KeyOf(w)].status \notin {"sent", "provider_accepted"}
          /\ GoTo(w, "claim")
    /\ UNCHANGED <<delivery, envelopes, taken, now>>

\* An update of the row that only applies in one status.
RecordIf(k, status, row) ==
    IF delivery[k].status = status THEN Record(k, row) ELSE UNCHANGED delivery

\* An earlier attempt's last write was lost: make it, and report "sent".
FinishEarlier(w) ==
    /\ At(w, "finish")
    /\ RecordIf(KeyOf(w), "provider_accepted", Recorded("sent"))
    /\ Leave(w)
    /\ UNCHANGED <<envelopes, taken, now>>

Claimable(k) ==
    \/ delivery[k].status \in {"reserved", "failed"}
    \/ delivery[k].status = "sending" /\ delivery[k].lease <= now

\* Otherwise another attempt has it: "in_flight".
Claim(w) ==
    /\ At(w, "claim")
    /\ IF Claimable(KeyOf(w))
       THEN TakeRow(w)
       ELSE Leave(w) /\ UNCHANGED delivery
    /\ UNCHANGED <<envelopes, taken, now>>

-----------------------------------------------------------------------------
(* sendTemplatedEmail after the reservation, and sendReservedEnvelope *)

\* Mutant: the provider is asked before the envelope is stored.
PersistLater(w) ==
    /\ At(w, "persist")
    /\ \/ envelopes' = envelopes \cup {KeyOf(w)}
       \/ UNCHANGED envelopes
    /\ GoTo(w, "request")
    /\ UNCHANGED <<delivery, taken, now>>

\* The envelope is stored, or storing it fails.
Persist(w) ==
    /\ At(w, "persist")
    /\ \/ /\ envelopes' = envelopes \cup {KeyOf(w)}
          /\ GoTo(w, "request")
       \/ /\ UNCHANGED envelopes
          /\ GoTo(w, "fail")
    /\ UNCHANGED <<delivery, taken, now>>

\* Mutant: counts the tries down to zero and on.
TriesLeftMiscounted(w) == attempt[w].tries > 0

TriesLeft(w) == attempt[w].tries > 1

\* A request of fetchWithBoundedRetry went without a final answer: it is made
\* again, or the attempt ends as "last".
UseTry(w, last) ==
    attempt' = [attempt EXCEPT ![w] =
        IF TriesLeft(w) THEN [attempt[w] EXCEPT !.tries = @ - 1] ELSE last]

\* A request with a 2xx answer.  The provider takes a key on once.
ProviderAccepts(w) ==
    /\ At(w, "request")
    /\ taken' = taken \cup {KeyOf(w)}
    /\ GoTo(w, "accept")
    /\ UNCHANGED <<delivery, envelopes, now>>

\* Mutant: the answer's status is not looked at.
ProviderRefusesUnseen(w) ==
    /\ At(w, "request")
    /\ KeyOf(w) \notin taken
    /\ GoTo(w, "accept")
    /\ UNCHANGED <<delivery, envelopes, taken, now>>

\* A final refusal, or a deployment without RESEND_API_KEY.  A provider that
\* has taken the key on repeats its first answer.
ProviderRefuses(w) ==
    /\ At(w, "request")
    /\ KeyOf(w) \notin taken
    /\ GoTo(w, "fail")
    /\ UNCHANGED <<delivery, envelopes, taken, now>>

\* A transient status (408, 425, 429, 5xx), after which the request is made
\* again; the last one is returned as the answer, and is not ok.
ProviderIsBusy(w) ==
    /\ At(w, "request")
    /\ UseTry(w, [attempt[w] EXCEPT !.at = "fail"])
    /\ UNCHANGED <<delivery, envelopes, taken, now>>

\* A timeout or a broken connection: the provider may have taken the message
\* on.  markEmailDeliveryAmbiguous leaves the row as it is.
AnswerIsLost(w) ==
    /\ At(w, "request")
    /\ taken' \in {taken, taken \cup {KeyOf(w)}}
    /\ UseTry(w, NoAttempt)
    /\ UNCHANGED <<delivery, envelopes, now>>

\* Mutant: no condition on the status.
MarkFailedAlways(w) ==
    /\ At(w, "fail")
    /\ Record(KeyOf(w), Recorded("failed"))
    /\ Leave(w)
    /\ UNCHANGED <<envelopes, taken, now>>

MarkFailed(w) ==
    /\ At(w, "fail")
    /\ RecordIf(KeyOf(w), "sending", Recorded("failed"))
    /\ Leave(w)
    /\ UNCHANGED <<envelopes, taken, now>>

MarkAccepted(w) ==
    /\ At(w, "accept")
    /\ RecordIf(KeyOf(w), "sending",
                [delivery[KeyOf(w)] EXCEPT !.status = "provider_accepted"])
    /\ GoTo(w, "finalize")
    /\ UNCHANGED <<envelopes, taken, now>>

Finalize(w) ==
    /\ At(w, "finalize")
    /\ RecordIf(KeyOf(w), "provider_accepted", Recorded("sent"))
    /\ Leave(w)
    /\ UNCHANGED <<envelopes, taken, now>>

\* The worker dies, or a statement throws and the attempt is left ambiguous.
Stop(w) ==
    /\ attempt[w] # NoAttempt
    /\ Leave(w)
    /\ UNCHANGED <<delivery, envelopes, taken, now>>

Tick ==
    /\ now < MaxTime
    /\ now' = now + 1
    /\ UNCHANGED <<delivery, envelopes, taken, attempt>>

AttemptStep(w) ==
    \/ Reserve(w)
    \/ Look(w)
    \/ FinishEarlier(w)
    \/ Claim(w)
    \/ Persist(w)
    \/ ProviderAccepts(w)
    \/ ProviderRefuses(w)
    \/ ProviderIsBusy(w)
    \/ AnswerIsLost(w)
    \/ MarkFailed(w)
    \/ MarkAccepted(w)
    \/ Finalize(w)
    \/ Stop(w)

DeliveryNext ==
    \/ Tick
    \/ \E w \in Workers : AttemptStep(w)
    \/ \E w \in Workers, k \in Keys : Send(w, k) \/ Replay(w, k)

DeliverySpec == DeliveryInit /\ [][DeliveryNext]_deliveryVars

-----------------------------------------------------------------------------
(* Properties *)

\* The ledger calls a message accepted or sent only if the provider has taken
\* it on, whichever attempt found out (resend.ts:138-147, 186-209).
SentWasTaken ==
    \A k \in Keys :
        delivery[k].status \in {"provider_accepted", "sent"} => k \in taken

\* Whatever the provider may have taken on can be replayed from its stored
\* envelope (resend.ts:279-306, 388-421).
StoredBeforeTaken == taken \subseteq envelopes

\* What the ledger says of a message is true of it, and it can be sent again,
\* wherever a Worker has died or overrun its lease.
LedgerIsTrue == SentWasTaken /\ StoredBeforeTaken

\* No late attempt takes back what the ledger has recorded as accepted or
\* sent (the conditions on status, resend.ts:161-209).
SentIsFinal ==
    [][\A k \in Keys :
        /\ delivery[k].status = "sent" => delivery'[k].status = "sent"
        /\ delivery[k].status = "provider_accepted" =>
              delivery'[k].status \in {"provider_accepted", "sent"}
      ]_deliveryVars

\* A recorded failure is one of a message the provider did not take on:
\* "Transport and local finalization errors remain sending or
\* provider_accepted" (migrations/0014_delivery_claim_hardening.sql:12-14).
FailedWasNotTaken ==
    \A k \in Keys : delivery[k].status = "failed" => k \notin taken
=============================================================================
