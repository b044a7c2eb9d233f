------------------------- MODULE OrganizerDeskProofs ------------------------
(***************************************************************************)
(* The desks of the organizers: the invitations of co-speakers (module     *)
(* CoSpeakers), whose requests use the e-mail ledger as any other sender   *)
(* does, the address book (ContactBook), the form desk (FormDesk) and the  *)
(* schedule board (AgendaBoard), each for any number of requests that      *)
(* overlap and fail, and the four side by side, whichever of them are open *)
(* (MCOrganizerDesks).                                                     *)
(***************************************************************************)
EXTENDS MCOrganizerDesks, EmailDeliveryProofs, SequenceTheorems,
        WellFoundedInduction, TLAPS

(***************************************************************************)
(* The link, for every number of speakers, generations and overlapping     *)
(* requests. The type invariant and LiveLinkIsClaimed are inductive        *)
(* together: every write of a token is conditional, in the same statement  *)
(* or batch, on the claim's generation.                                    *)
(***************************************************************************)

CoSpeakersInv == TypeOK /\ LiveLinkIsClaimed

USE DEF NoHandler, Handles, Who, MoveTo, Return, NoAttempt, At, KeyOf

HandlerTypes == Inviting \cup Answering \cup Reviving \cup {NoHandler}

\* A worker at a stage of an invitation carries an invitation.
LEMMA StageOfHandler ==
    ASSUME TypeOK, NEW w \in Workers
    PROVE  /\ handler[w].at \in {"invite", "look", "first", "rotate", "link"} =>
                handler[w] \in Inviting
           /\ handler[w].at \in {"read", "answer"} => handler[w] \in Answering
           /\ handler[w].at = "revive" => handler[w] \in Reviving
<1>1. handler[w] \in HandlerTypes
  BY DEF TypeOK, HandlerTypes
<1> QED
  BY <1>1 DEF HandlerTypes, Inviting, Answering, Reviving

LEMMA InitCoSpeakers == Init => CoSpeakersInv
<1> SUFFICES ASSUME Init
             PROVE  CoSpeakersInv
  OBVIOUS
<1>1. DeliveryTypeOK
  BY DeliveryAssumption
  DEF Init, DeliveryInit, DeliveryTypeOK, Rows, NoDelivery, DeliveryStates
<1> QED
  BY <1>1 DEF Init, CoSpeakersInv, TypeOK, LiveLinkIsClaimed, Invited,
     NoToken, SpeakerStatuses

-----------------------------------------------------------------------------
(* Steps that change the row, the claim or the revived generation of one   *)
(* speaker, and the place of one worker.                                   *)

\* One lemma for every handler step: what it may do to its own speaker and
\* worker, and what it leaves alone.
LEMMA OneHandlerMoves ==
    ASSUME CoSpeakersInv, DeliveryTypeOK', NEW w \in Workers,
           NEW s \in Speakers, NEW h \in HandlerTypes,
           NEW row \in [status : SpeakerStatuses,
                        token : Generations \cup {NoToken}],
           NEW g \in Generations \cup {0}, NEW r \in Generations \cup {0},
           handler' = [handler EXCEPT ![w] = h],
           speaker' = [speaker EXCEPT ![s] = row],
           claim' = [claim EXCEPT ![s] = g],
           retired' = [retired EXCEPT ![s] = r],
           row.token # NoToken => row.token = g /\ row.status # "removed"
    PROVE  CoSpeakersInv'
<1>1. TypeOK'
  BY DEF CoSpeakersInv, TypeOK, HandlerTypes
<1>2. LiveLinkIsClaimed'
  BY DEF CoSpeakersInv, TypeOK, LiveLinkIsClaimed
<1> QED
  BY <1>1, <1>2 DEF CoSpeakersInv

\* The same for a step that moves a worker only.
LEMMA OnlyAHandlerMoves ==
    ASSUME CoSpeakersInv, DeliveryTypeOK', NEW w \in Workers,
           NEW h \in HandlerTypes,
           handler' = [handler EXCEPT ![w] = h],
           UNCHANGED <<speaker, claim, retired>>
    PROVE  CoSpeakersInv'
  BY DEF CoSpeakersInv, TypeOK, HandlerTypes, LiveLinkIsClaimed

\* The message an invitation sends is one of the ledger's.
LEMMA LinkSends ==
    ASSUME TypeOK, NEW w \in Workers, LinkAndSend(w)
    PROVE  \E k \in Keys : Send(w, k)
<1>1. handler[w] \in Inviting
  BY StageOfHandler DEF LinkAndSend
<1>2. <<Who(w), handler[w].generation>> \in Keys
  BY <1>1, CoSpeakersAssumption DEF Inviting
<1> QED
  BY <1>2 DEF LinkAndSend

\* Whatever happens to co-speakers is a step of the ledger, or no concern of it.
LEMMA StepOfLedger ==
    TypeOK /\ [Next]_vars => [DeliveryNext]_deliveryVars
<1> SUFFICES ASSUME TypeOK, [Next]_vars
             PROVE  [DeliveryNext]_deliveryVars
  OBVIOUS
<1>1. CASE Deliver
  BY <1>1 DEF Deliver, DeliveryNext
<1>2. CASE \E w \in Workers : HandlerStep(w)
  <2>1. PICK w \in Workers : HandlerStep(w)
    BY <1>2
  <2>2. CASE LinkAndSend(w)
    BY <2>2, LinkSends DEF DeliveryNext
  <2>3. CASE ~LinkAndSend(w)
    BY <2>1, <2>3 DEF HandlerStep, ReadInvited, LookAtClaim, FirstClaim,
       Rotate, ReadAnswering, WriteAnswer, Revive, StopHandler
  <2> QED
    BY <2>2, <2>3
<1>3. CASE \E w \in Workers, s \in Speakers : Request(w, s)
  BY <1>3 DEF Request, Invite, OpenLink, ConfirmForThem, BeginAnswer,
     BeginRevive
<1>4. CASE \E s \in Speakers : Remove(s)
  BY <1>4 DEF Remove
<1>5. CASE UNCHANGED vars
  BY <1>5 DEF vars
<1> QED
  BY <1>1, <1>2, <1>3, <1>4, <1>5 DEF Next

-----------------------------------------------------------------------------
(* Each step keeps the invariant. *)

LEMMA HandlerStepKeepsLink ==
    ASSUME CoSpeakersInv, DeliveryTypeOK', NEW w \in Workers, HandlerStep(w)
    PROVE  CoSpeakersInv'
<1> DEFINE s == Who(w)
<1>0. /\ TypeOK
      /\ handler \in [Workers -> HandlerTypes]
      /\ speaker \in [Speakers -> [status : SpeakerStatuses,
                                   token : Generations \cup {NoToken}]]
      /\ claim \in [Speakers -> Generations \cup {0}]
      /\ retired \in [Speakers -> Generations \cup {0}]
  BY DEF CoSpeakersInv, TypeOK, HandlerTypes
<1>a. /\ NoHandler \in HandlerTypes
      /\ Inviting \subseteq HandlerTypes
      /\ Answering \subseteq HandlerTypes
  BY DEF HandlerTypes
<1>b. ASSUME NEW h \in HandlerTypes, handler' = [handler EXCEPT ![w] = h],
             UNCHANGED <<speaker, claim, retired>>
      PROVE  CoSpeakersInv'
  BY <1>b, OnlyAHandlerMoves
<1>1. CASE ReadInvited(w)
  <2>1. handler[w] \in Inviting
    BY <1>0, <1>1, StageOfHandler DEF ReadInvited
  <2>2. [handler[w] EXCEPT !.at = "look"] \in Inviting
    BY <2>1 DEF Inviting
  <2> QED
    BY <1>1, <1>a, <1>b, <2>2 DEF ReadInvited
<1>2. CASE LookAtClaim(w)
  <2>1. handler[w] \in Inviting /\ s \in Speakers
    BY <1>0, <1>2, StageOfHandler DEF LookAtClaim, Inviting
  <2>2. [handler[w] EXCEPT !.at = "first"] \in Inviting
    BY <2>1 DEF Inviting
  <2>3. CASE claim[s] \in 1..(MaxGeneration - 1)
    <3>1. claim[s] + 1 \in Generations
      BY <2>3, CoSpeakersAssumption DEF Generations
    <3>2. [handler[w] EXCEPT !.at = "rotate", !.generation = claim[s] + 1]
            \in Inviting
      BY <2>1, <3>1 DEF Inviting
    <3>3. claim[s] \in Generations
      BY <2>3, CoSpeakersAssumption DEF Generations
    <3>4. [handler[w] EXCEPT !.at = "link", !.generation = claim[s]] \in Inviting
      BY <2>1, <3>3 DEF Inviting
    <3>5. CASE handler' = [handler EXCEPT
                ![w].at = "rotate", ![w].generation = claim[s] + 1]
      <4>1. handler' = [handler EXCEPT ![w] = [handler[w] EXCEPT
                !.at = "rotate", !.generation = claim[s] + 1]]
        BY <3>5
      <4> QED
        BY <1>2, <1>a, <1>b, <3>2, <4>1 DEF LookAtClaim
    <3>6. CASE handler' = [handler EXCEPT
                ![w].at = "link", ![w].generation = claim[s]]
      <4>1. handler' = [handler EXCEPT ![w] = [handler[w] EXCEPT
                !.at = "link", !.generation = claim[s]]]
        BY <3>6
      <4> QED
        BY <1>2, <1>a, <1>b, <3>4, <4>1 DEF LookAtClaim
    <3>7. CASE handler' = [handler EXCEPT ![w].at = "first"]
      BY <1>2, <1>a, <1>b, <2>2, <3>7 DEF LookAtClaim
    <3> QED
      BY <1>2, <3>5, <3>6, <3>7 DEF LookAtClaim
  <2>4. CASE claim[s] \notin 1..(MaxGeneration - 1) /\ claim[s] # 0
    <3>1. [handler[w] EXCEPT !.at = "link", !.generation = claim[s]] \in Inviting
      BY <1>0, <2>1, <2>4 DEF Inviting
    <3> QED
      BY <1>2, <1>a, <1>b, <2>4, <3>1 DEF LookAtClaim
  <2>5. CASE claim[s] = 0
    BY <1>2, <1>a, <1>b, <2>2, <2>5 DEF LookAtClaim
  <2> QED
    BY <2>3, <2>4, <2>5
<1>c. ASSUME handler[w] \in Inviting
      PROVE  /\ [handler[w] EXCEPT !.at = "link"] \in HandlerTypes
             /\ LookAgain(w) => \E h \in HandlerTypes :
                    handler' = [handler EXCEPT ![w] = h]
  <2>1. [handler[w] EXCEPT !.at = "link"] \in Inviting
    BY <1>c DEF Inviting
  <2>2. handler[w].round < 4 =>
            [handler[w] EXCEPT !.at = "look", !.round = @ + 1] \in Inviting
    <3>1. handler[w].round < 4 => handler[w].round + 1 \in Rounds
      BY <1>c DEF Inviting, Rounds
    <3> QED
      BY <1>c, <3>1 DEF Inviting
  <2> QED
    BY <1>a, <2>1, <2>2 DEF LookAgain
<1>3. CASE FirstClaim(w)
  <2>1. handler[w] \in Inviting /\ s \in Speakers
    BY <1>0, <1>3, StageOfHandler DEF FirstClaim, Inviting
  <2>2. CASE claim[s] = 0
    <3>1. speaker[s].token = NoToken
      BY <2>1, <2>2 DEF CoSpeakersInv, LiveLinkIsClaimed, NoToken
    <3>2. handler[w].generation \in Generations
      BY <2>1 DEF Inviting
    <3>3. /\ speaker' = [speaker EXCEPT ![s] = speaker[s]]
          /\ retired' = [retired EXCEPT ![s] = retired[s]]
      BY <1>0, <1>3 DEF FirstClaim
    <3>4. handler' = [handler EXCEPT ![w] = [handler[w] EXCEPT !.at = "link"]]
      BY <1>0, <1>3, <2>2 DEF FirstClaim
    <3>5. claim' = [claim EXCEPT ![s] = handler[w].generation]
      BY <1>3, <2>2 DEF FirstClaim
    <3>6. [handler[w] EXCEPT !.at = "link"] \in HandlerTypes
      BY <1>c, <2>1
    <3>7. /\ speaker[s] \in [status : SpeakerStatuses,
                             token : Generations \cup {NoToken}]
          /\ retired[s] \in Generations \cup {0}
      BY <1>0, <2>1
    <3> QED
      BY <2>1, <3>1, <3>2, <3>3, <3>4, <3>5, <3>6, <3>7, OneHandlerMoves
  <2>3. CASE claim[s] # 0
    BY <1>3, <1>b, <1>c, <2>1, <2>3 DEF FirstClaim
  <2> QED
    BY <2>2, <2>3
<1>4. CASE Rotate(w)
  <2>1. handler[w] \in Inviting /\ s \in Speakers
    BY <1>0, <1>4, StageOfHandler DEF Rotate, Inviting
  <2> DEFINE g == handler[w].generation
  <2>2. /\ g \in Generations
        /\ Invited(g) \in [status : SpeakerStatuses,
                           token : Generations \cup {NoToken}]
    BY <2>1 DEF Inviting, Invited, SpeakerStatuses
  <2>3. retired' = [retired EXCEPT ![s] = retired[s]] /\ retired[s] \in Generations \cup {0}
    BY <1>0, <1>4, <2>1 DEF Rotate
  <2>4. CASE Rotates(w)
    <3>1. /\ handler' = [handler EXCEPT ![w] = [handler[w] EXCEPT !.at = "link"]]
          /\ speaker' = [speaker EXCEPT ![s] = Invited(g)]
          /\ claim' = [claim EXCEPT ![s] = g]
      BY <1>0, <1>4, <2>4 DEF Rotate
    <3>2. [handler[w] EXCEPT !.at = "link"] \in HandlerTypes
      BY <1>c, <2>1
    <3>3. Invited(g).token = g /\ Invited(g).status # "removed"
      BY DEF Invited
    <3> HIDE DEF g
    <3> QED
      BY <2>1, <2>2, <2>3, <3>1, <3>2, <3>3, OneHandlerMoves
  <2>5. CASE ~Rotates(w) /\ claim[s] = g
    <3>1. PICK h \in HandlerTypes : handler' = [handler EXCEPT ![w] = h]
      BY <1>4, <1>c, <2>1, <2>5 DEF Rotate
    <3>2. /\ speaker' = [speaker EXCEPT ![s] = Invited(g)]
          /\ claim' = [claim EXCEPT ![s] = g]
      BY <1>0, <1>4, <2>5 DEF Rotate
    <3>3. Invited(g).token = g /\ Invited(g).status # "removed"
      BY DEF Invited
    <3> HIDE DEF g
    <3> QED
      BY <2>1, <2>2, <2>3, <3>1, <3>2, <3>3, OneHandlerMoves
  <2>6. CASE ~Rotates(w) /\ claim[s] # g
    BY <1>4, <1>b, <1>c, <2>1, <2>6 DEF Rotate
  <2> QED
    BY <2>4, <2>5, <2>6
<1>5. CASE LinkAndSend(w)
  <2>1. handler[w] \in Inviting /\ s \in Speakers
    BY <1>0, <1>5, StageOfHandler DEF LinkAndSend, Inviting
  <2> DEFINE g == handler[w].generation
  <2>2. CASE claim[s] = g
    <3>1. /\ Invited(g) \in [status : SpeakerStatuses,
                             token : Generations \cup {NoToken}]
          /\ g \in Generations
          /\ retired[s] \in Generations \cup {0}
      BY <1>0, <2>1 DEF Inviting, Invited, SpeakerStatuses
    <3>2. /\ handler' = [handler EXCEPT ![w] = NoHandler]
          /\ speaker' = [speaker EXCEPT ![s] = Invited(g)]
          /\ claim' = [claim EXCEPT ![s] = g]
          /\ retired' = [retired EXCEPT ![s] = retired[s]]
      BY <1>0, <1>5, <2>2 DEF LinkAndSend, StillClaimed
    <3>3. Invited(g).token = g /\ Invited(g).status # "removed"
      BY DEF Invited
    <3> HIDE DEF g
    <3> QED
      BY <1>a, <2>1, <3>1, <3>2, <3>3, OneHandlerMoves
  <2>3. CASE claim[s] # g
    BY <1>5, <1>a, <1>b, <2>3 DEF LinkAndSend, StillClaimed
  <2> QED
    BY <2>2, <2>3
<1>6. CASE ReadAnswering(w)
  <2>1. handler[w] \in Answering
    BY <1>0, <1>6, StageOfHandler DEF ReadAnswering
  <2>2. [handler[w] EXCEPT !.at = "answer"] \in Answering
    BY <2>1 DEF Answering
  <2> QED
    BY <1>6, <1>a, <1>b, <2>2 DEF ReadAnswering
<1>7. CASE WriteAnswer(w)
  <2>1. handler[w] \in Answering /\ s \in Speakers
    BY <1>0, <1>7, StageOfHandler DEF WriteAnswer, Answering
  <2> DEFINE row == [speaker[s] EXCEPT !.status = handler[w].answer]
  <2>2. /\ row \in [status : SpeakerStatuses,
                    token : Generations \cup {NoToken}]
        /\ row.token = speaker[s].token /\ row.status # "removed"
    BY <1>0, <2>1 DEF Answering, SpeakerStatuses
  <2>3. /\ handler' = [handler EXCEPT ![w] = NoHandler]
        /\ speaker' = [speaker EXCEPT ![s] = row]
        /\ claim' = [claim EXCEPT ![s] = claim[s]]
        /\ retired' = [retired EXCEPT ![s] = retired[s]]
        /\ claim[s] \in Generations \cup {0} /\ retired[s] \in Generations \cup {0}
    BY <1>0, <1>7, <2>1 DEF WriteAnswer
  <2>4. row.token # NoToken => row.token = claim[s]
    BY <2>1, <2>2 DEF CoSpeakersInv, LiveLinkIsClaimed
  <2> HIDE DEF row
  <2> QED
    BY <1>a, <2>1, <2>2, <2>3, <2>4, OneHandlerMoves
<1>8. CASE Revive(w)
  <2>1. handler[w] \in Reviving /\ s \in Speakers
    BY <1>0, <1>8, StageOfHandler DEF Revive, Reviving
  <2> DEFINE h == [at |-> "invite", who |-> s, resend |-> TRUE, round |-> 1,
                   generation |-> FirstGeneration]
             r == IF Delivered(s) THEN claim[s] ELSE retired[s]
  <2>2. h \in HandlerTypes
    <3>1. FirstGeneration \in Generations /\ 1 \in Rounds
      BY CoSpeakersAssumption DEF FirstGeneration, Generations, Rounds
    <3> QED
      BY <1>a, <2>1, <3>1 DEF Inviting
  <2>3. /\ Invited(NoToken) \in [status : SpeakerStatuses,
                                 token : Generations \cup {NoToken}]
        /\ Invited(NoToken).token = NoToken
    BY DEF Invited, SpeakerStatuses
  <2>4. /\ handler' = [handler EXCEPT ![w] = h]
        /\ speaker' = [speaker EXCEPT ![s] = Invited(NoToken)]
        /\ retired' = [retired EXCEPT ![s] = r]
    BY <1>8 DEF Revive, CallInvite
  <2>5. /\ claim' = [claim EXCEPT ![s] = claim[s]]
        /\ claim[s] \in Generations \cup {0} /\ r \in Generations \cup {0}
    BY <1>0, <1>8, <2>1 DEF Revive
  <2> HIDE DEF h, r
  <2> QED
    BY <2>1, <2>2, <2>3, <2>4, <2>5, OneHandlerMoves
<1>9. CASE StopHandler(w)
  BY <1>9, <1>a, <1>b DEF StopHandler
<1> QED
  BY <1>1, <1>2, <1>3, <1>4, <1>5, <1>6, <1>7, <1>8, <1>9 DEF HandlerStep

LEMMA RequestKeepsLink ==
    ASSUME CoSpeakersInv, DeliveryTypeOK', NEW w \in Workers,
           NEW s \in Speakers, Request(w, s)
    PROVE  CoSpeakersInv'
<1>1. CASE \E resend \in BOOLEAN : Invite(w, s, resend)
  <2>1. PICK resend \in BOOLEAN : Invite(w, s, resend)
    BY <1>1
  <2> DEFINE h == [at |-> "invite", who |-> s, resend |-> resend, round |-> 1,
                   generation |-> FirstGeneration]
  <2>2. h \in HandlerTypes
    <3>1. FirstGeneration \in Generations /\ 1 \in Rounds
      BY CoSpeakersAssumption DEF FirstGeneration, Generations, Rounds
    <3> QED
      BY <3>1 DEF HandlerTypes, Inviting
  <2>3. handler' = [handler EXCEPT ![w] = h] /\ UNCHANGED <<speaker, claim, retired>>
    BY <2>1 DEF Invite, CallInvite
  <2> HIDE DEF h
  <2> QED
    BY <2>2, <2>3, OnlyAHandlerMoves
<1>2. CASE \E answer \in {"confirmed", "declined"} : BeginAnswer(w, s, answer)
  <2>1. PICK answer \in {"confirmed", "declined"} : BeginAnswer(w, s, answer)
    BY <1>2
  <2>2. [at |-> "read", who |-> s, answer |-> answer] \in HandlerTypes
    BY DEF HandlerTypes, Answering
  <2> QED
    BY <2>1, <2>2, OnlyAHandlerMoves DEF BeginAnswer
<1>3. CASE BeginRevive(w, s)
  <2>1. [at |-> "revive", who |-> s] \in HandlerTypes
    BY DEF HandlerTypes, Reviving
  <2> QED
    BY <1>3, <2>1, OnlyAHandlerMoves DEF BeginRevive
<1> QED
  BY <1>1, <1>2, <1>3 DEF Request, OpenLink, ConfirmForThem

LEMMA StepKeepsLink == CoSpeakersInv /\ [Next]_vars => CoSpeakersInv'
<1> SUFFICES ASSUME CoSpeakersInv, [Next]_vars
             PROVE  CoSpeakersInv'
  OBVIOUS
<1>0. DeliveryTypeOK'
  BY StepOfLedger, TypeOfStep DEF CoSpeakersInv, TypeOK
<1>1. CASE Deliver
  BY <1>0, <1>1 DEF Deliver, coSpeakerVars, CoSpeakersInv, TypeOK,
     LiveLinkIsClaimed
<1>2. CASE \E w \in Workers : HandlerStep(w)
  BY <1>0, <1>2, HandlerStepKeepsLink
<1>3. CASE \E w \in Workers, s \in Speakers : Request(w, s)
  BY <1>0, <1>3, RequestKeepsLink
<1>4. CASE \E s \in Speakers : Remove(s)
  <2>1. PICK s \in Speakers : Remove(s)
    BY <1>4
  <2> DEFINE row == [speaker[s] EXCEPT !.status = "removed", !.token = NoToken]
  <2>2. /\ speaker \in [Speakers -> [status : SpeakerStatuses,
                                   token : Generations \cup {NoToken}]]
        /\ speaker' = [speaker EXCEPT ![s].status = "removed",
                                       ![s].token = NoToken]
    BY <2>1 DEF Remove, CoSpeakersInv, TypeOK
  <2>3. /\ row \in [status : SpeakerStatuses, token : Generations \cup {NoToken}]
        /\ row.token = NoToken
    BY <2>2 DEF SpeakerStatuses
  <2>4. speaker' = [speaker EXCEPT ![s] = row]
    BY <2>2
  <2> HIDE DEF row
  <2>5. TypeOK'
    BY <1>0, <2>1, <2>2, <2>3, <2>4 DEF Remove, CoSpeakersInv, TypeOK
  <2>6. LiveLinkIsClaimed'
    <3> SUFFICES ASSUME NEW o \in Speakers, speaker'[o].token # NoToken
                 PROVE  /\ speaker'[o].token = claim'[o]
                        /\ speaker'[o].status # "removed"
      BY DEF LiveLinkIsClaimed
    <3>1. o # s
      BY <2>2, <2>3, <2>4
    <3>2. speaker'[o] = speaker[o] /\ claim' = claim
      BY <2>1, <2>2, <2>4, <3>1 DEF Remove
    <3> QED
      BY <3>2 DEF CoSpeakersInv, LiveLinkIsClaimed
  <2> QED
    BY <2>5, <2>6 DEF CoSpeakersInv
<1>5. CASE UNCHANGED vars
  BY <1>0, <1>5 DEF vars, coSpeakerVars, CoSpeakersInv, TypeOK,
     LiveLinkIsClaimed
<1> QED
  BY <1>1, <1>2, <1>3, <1>4, <1>5 DEF Next

-----------------------------------------------------------------------------

\* The types and the one live link hold in every run
\* (co-speakers.ts:144-155, 226-250, 465-472).
THEOREM LinkHolds == Spec => [](TypeOK /\ LiveLinkIsClaimed)
  BY InitCoSpeakers, StepKeepsLink, PTL DEF Spec, CoSpeakersInv

\* Requests about co-speakers use the ledger as any sender does.
THEOREM CoSpeakersUseTheLedger == Spec => DeliverySpec
<1>1. Init => DeliveryInit
  BY DEF Init
<1>2. TypeOK /\ [Next]_vars => [DeliveryNext]_deliveryVars
  BY StepOfLedger
<1> QED
  BY <1>1, <1>2, LinkHolds, PTL DEF Spec, DeliverySpec

\* So no invitation is recorded as sent that the provider was not given, and
\* none that it was given is beyond replay (resend.ts:138-147, 186-209).
THEOREM InvitationsAreRecorded ==
    Spec => []LedgerIsTrue
  BY CoSpeakersUseTheLedger, LedgerSafety, PTL

\* Only a batch that found the claim rotatable moves it on.
LEMMA StepRotatesJustly ==
    ASSUME TypeOK, [Next]_vars, NEW s \in Speakers,
           claim[s] # 0, claim'[s] # claim[s]
    PROVE  /\ claim'[s] = claim[s] + 1
           /\ \/ delivery[<<s, claim[s]>>].status = "failed"
              \/ /\ delivery[<<s, claim[s]>>].status = "sent"
                 /\ \E w \in Workers : /\ Handles(w, "rotate")
                                       /\ handler[w].resend /\ Who(w) = s
<1>0. claim \in [Speakers -> Generations \cup {0}]
  BY DEF TypeOK
<1>1. PICK w \in Workers : FirstClaim(w) \/ Rotate(w)
  BY DEF Next, Deliver, HandlerStep, Request, Remove, ReadInvited,
     LookAtClaim, LinkAndSend, ReadAnswering, WriteAnswer, Revive,
     StopHandler, Invite, OpenLink, ConfirmForThem, BeginAnswer,
     BeginRevive, coSpeakerVars, vars
<1>2. CASE FirstClaim(w)
  BY <1>0, <1>2 DEF FirstClaim
<1>3. CASE Rotate(w)
  <2>1. Rotates(w) /\ claim' = [claim EXCEPT ![Who(w)] = handler[w].generation]
    BY <1>3 DEF Rotate
  <2>2. handler[w] \in Inviting
    BY <1>3, StageOfHandler DEF Rotate
  <2>3. Who(w) = s
    BY <1>0, <2>1
  <2>4. claim'[s] = handler[w].generation /\ claim[s] = handler[w].generation - 1
    BY <1>0, <2>1, <2>3 DEF Rotates
  <2>5. handler[w].generation \in Int
    BY <2>2, CoSpeakersAssumption DEF Inviting, Generations
  <2>6. claim'[s] = claim[s] + 1
    BY <2>4, <2>5
  <2> QED
    BY <1>3, <2>1, <2>3, <2>6 DEF Rotates, MayRotate, Rotate
<1> QED
  BY <1>1, <1>2, <1>3

\* A claim moves on by one generation, and only from a message recorded as
\* refused or, for a resend, as delivered (co-speakers.ts:222-254).
THEOREM RotationsAreJustified == Spec => RotationIsJustified
<1>1. TypeOK /\ [Next]_vars =>
        [\A s \in Speakers : claim[s] # 0 /\ claim'[s] # claim[s] =>
            /\ claim'[s] = claim[s] + 1
            /\ \/ delivery[<<s, claim[s]>>].status = "failed"
               \/ /\ delivery[<<s, claim[s]>>].status = "sent"
                  /\ \E w \in Workers : /\ Handles(w, "rotate")
                                        /\ handler[w].resend /\ Who(w) = s
          ]_vars
  BY StepRotatesJustly
<1> QED
  BY <1>1, LinkHolds, PTL DEF Spec, RotationIsJustified

HIDE DEF NoHandler, Handles, Who, MoveTo, Return, NoAttempt, At, KeyOf

-----------------------------------------------------------------------------

(***************************************************************************)
(* Contacts. BookInv follows what a caller read to the write that relies   *)
(* on it; a merge moves what it found and nothing is left pointing at the  *)
(* contact it takes away.                                                  *)
(***************************************************************************)

CallerRecords ==
    [at : {"idle", "insert", "write", "jot", "push", "overlap", "merge"},
     of : Contacts \cup {SomeContact}, into : Contacts \cup {SomeContact},
     mail : Addresses \cup {SomeAddress}, note : Jottings \cup {SomeNote},
     both : BOOLEAN, seen : [Addresses -> Contacts \cup {Gone}]]

BookTables ==
    /\ address \in [Contacts -> Addresses \cup {Gone}]
    /\ made \subseteq Contacts
    /\ jotted \in [Jottings -> Contacts \cup {Gone}]
    /\ saved \subseteq Jottings
    /\ merged \subseteq Contacts \X Contacts
    /\ link \in [Addresses -> Contacts \cup {Gone}]
    /\ caller \in [Callers -> CallerRecords]

\* What a request has in hand between two of its steps.
SoundCaller(k) ==
    /\ k.at \in {"insert", "write", "push"} => k.of \in Contacts /\ k.mail \in Addresses
    /\ k.at \in {"write", "jot"} => k.note \in Jottings
    /\ k.at \in {"overlap", "merge"} =>
           k.of \in Contacts /\ k.into \in Contacts /\ k.of # k.into
    /\ k.at = "merge" =>
           (k.both <=> /\ \E a \in Addresses : k.seen[a] = k.into
                       /\ \E a \in Addresses : k.seen[a] = k.of)

\* A merge hangs on a contact that is there, whatever became of it since.
MergesAreKept == \A m \in merged : m[2] \in Live

BookInv == /\ BookTables
           /\ \A q \in Callers : SoundCaller(caller[q])
           /\ MergesAreKept
           /\ BookIsWhole

LEMMA BookStarts == BookInit => BookInv
<1> SUFFICES ASSUME BookInit PROVE BookInv
  OBVIOUS
<1>1. IdleCaller \in CallerRecords /\ SoundCaller(IdleCaller)
  BY DEF IdleCaller, CallerRecords, SoundCaller, Nobody
<1> QED
  BY <1>1 DEF BookInit, BookInv, BookTables, MergesAreKept, BookIsWhole, RecordsSurviveMerges,
     LinksAreOneToOne, Nobody

\* A request goes on with what is its own.
LEMMA CallerMoves ==
    ASSUME BookTables, \A q \in Callers : SoundCaller(caller[q]), NEW q \in Callers, NEW k,
           k \in CallerRecords, SoundCaller(k), caller' = [caller EXCEPT ![q] = k]
    PROVE  /\ caller' \in [Callers -> CallerRecords]
           /\ \A r \in Callers : SoundCaller(caller'[r])
BY DEF BookTables

\* Nothing of the book is touched.
LEMMA BookIsLeft ==
    ASSUME BookInv, NEW q \in Callers, NEW k \in CallerRecords, SoundCaller(k),
           caller' = [caller EXCEPT ![q] = k], UNCHANGED bookVars
    PROVE  BookInv'
<1>1. /\ caller' \in [Callers -> CallerRecords]
      /\ (\A r \in Callers : SoundCaller(caller[r]))'
  BY CallerMoves DEF BookInv
<1> QED
  BY <1>1 DEF BookInv, bookVars, BookTables, MergesAreKept, BookIsWhole, RecordsSurviveMerges,
     LinksAreOneToOne, LinkFree, Live

LEMMA CallerEnds ==
    ASSUME BookInv, NEW q \in Callers, CallerOver(q)
    PROVE  /\ caller' \in [Callers -> CallerRecords]
           /\ (\A r \in Callers : SoundCaller(caller[r]))'
<1>1. IdleCaller \in CallerRecords /\ SoundCaller(IdleCaller)
  BY DEF IdleCaller, CallerRecords, SoundCaller, Nobody
<1>2. caller' = [caller EXCEPT ![q] = IdleCaller]
  BY DEF CallerOver
<1> HIDE DEF IdleCaller
<1> QED
  BY <1>1, <1>2, CallerMoves DEF BookInv

LEMMA BookOpens ==
    ASSUME BookInv, NEW q \in Callers,
           \/ \E c \in Contacts, a \in Addresses : StartCreate(q, c, a)
           \/ \E c \in Contacts, a \in Addresses, n \in Jottings : StartUpdate(q, c, a, n)
           \/ \E c \in Contacts : StartPush(q, c)
           \/ \E c, d \in Contacts : StartMerge(q, d, c)
           \/ ReadOverlap(q)
    PROVE  BookInv'
<1>1. caller[q] \in CallerRecords /\ SoundCaller(caller[q]) /\ link \in [Addresses -> Contacts \cup {Gone}]
      /\ address \in [Contacts -> Addresses \cup {Gone}]
  BY DEF BookInv, BookTables
<1>2. UNCHANGED bookVars
  BY DEF StartCreate, StartUpdate, StartPush, StartMerge, ReadOverlap
<1>3. ASSUME NEW c \in Contacts, NEW a \in Addresses, StartCreate(q, c, a)
      PROVE  \E k \in CallerRecords : SoundCaller(k) /\ caller' = [caller EXCEPT ![q] = k]
  <2> DEFINE k == [caller[q] EXCEPT !.at = "insert", !.of = c, !.mail = a]
  <2>1. k \in CallerRecords /\ SoundCaller(k)
    BY <1>1 DEF CallerRecords, SoundCaller
  <2>2. caller' = [caller EXCEPT ![q] = k]
    BY <1>1, <1>3 DEF StartCreate, BookInv, BookTables, CallerRecords
  <2> HIDE DEF k
  <2> QED
    BY <2>1, <2>2
<1>4. ASSUME NEW c \in Contacts, NEW a \in Addresses, NEW n \in Jottings, StartUpdate(q, c, a, n)
      PROVE  \E k \in CallerRecords : SoundCaller(k) /\ caller' = [caller EXCEPT ![q] = k]
  <2> DEFINE k == [caller[q] EXCEPT !.at = "write", !.of = c, !.mail = a, !.note = n]
  <2>1. k \in CallerRecords /\ SoundCaller(k)
    BY <1>1 DEF CallerRecords, SoundCaller
  <2>2. caller' = [caller EXCEPT ![q] = k]
    BY <1>1, <1>4 DEF StartUpdate, BookInv, BookTables, CallerRecords
  <2> HIDE DEF k
  <2> QED
    BY <2>1, <2>2
<1>5. ASSUME NEW c \in Contacts, StartPush(q, c)
      PROVE  \E k \in CallerRecords : SoundCaller(k) /\ caller' = [caller EXCEPT ![q] = k]
  <2> DEFINE k == [caller[q] EXCEPT !.at = "push", !.of = c, !.mail = address[c]]
  <2>1. address[c] \in Addresses
    BY <1>1, <1>5 DEF StartPush, Live
  <2>2. k \in CallerRecords /\ SoundCaller(k)
    BY <1>1, <2>1 DEF CallerRecords, SoundCaller
  <2>3. caller' = [caller EXCEPT ![q] = k]
    BY <1>1, <1>5 DEF StartPush, BookInv, BookTables, CallerRecords
  <2> HIDE DEF k
  <2> QED
    BY <2>2, <2>3
<1>6. ASSUME NEW c \in Contacts, NEW d \in Contacts, StartMerge(q, d, c)
      PROVE  \E k \in CallerRecords : SoundCaller(k) /\ caller' = [caller EXCEPT ![q] = k]
  <2> DEFINE k == [caller[q] EXCEPT !.at = "overlap", !.of = d, !.into = c]
  <2>1. k \in CallerRecords /\ SoundCaller(k)
    BY <1>1, <1>6 DEF CallerRecords, SoundCaller, StartMerge
  <2>2. caller' = [caller EXCEPT ![q] = k]
    BY <1>1, <1>6 DEF StartMerge, BookInv, BookTables, CallerRecords
  <2> HIDE DEF k
  <2> QED
    BY <2>1, <2>2
<1>7. ASSUME ReadOverlap(q)
      PROVE  \E k \in CallerRecords : SoundCaller(k) /\ caller' = [caller EXCEPT ![q] = k]
  <2> DEFINE both == BothLinked(caller[q].into, caller[q].of)
             k == [caller[q] EXCEPT !.at = "merge", !.both = both, !.seen = link]
  <2>1. both <=> /\ \E a \in Addresses : link[a] = caller[q].into
                 /\ \E a \in Addresses : link[a] = caller[q].of
    BY DEF BothLinked, LinkOf
  <2>2. both \in BOOLEAN
    BY DEF BothLinked
  <2>3. caller' = [caller EXCEPT ![q].at = "merge", ![q].both = both, ![q].seen = link]
        /\ caller[q].at = "overlap"
    BY <1>7 DEF ReadOverlap
  <2> HIDE DEF both
  <2>4. k \in CallerRecords /\ SoundCaller(k)
    BY <1>1, <2>1, <2>2, <2>3 DEF CallerRecords, SoundCaller
  <2>5. caller' = [caller EXCEPT ![q] = k]
    BY <1>1, <2>3 DEF BookInv, BookTables, CallerRecords
  <2> HIDE DEF k
  <2> QED
    BY <2>4, <2>5
<1>8. PICK k \in CallerRecords : SoundCaller(k) /\ caller' = [caller EXCEPT ![q] = k]
  BY <1>3, <1>4, <1>5, <1>6, <1>7
<1> QED
  BY <1>2, <1>8, BookIsLeft

\* An address is written; nobody goes.
LEMMA WritesKeep ==
    ASSUME BookInv, NEW q \in Callers, InsertContact(q) \/ WriteContact(q)
    PROVE  BookInv'
<1> DEFINE c == caller[q].of
           a == caller[q].mail
<1>1. /\ caller[q] \in CallerRecords /\ SoundCaller(caller[q])
      /\ address \in [Contacts -> Addresses \cup {Gone}]
  BY DEF BookInv, BookTables
<1>2. c \in Contacts /\ a \in Addresses /\ a # Gone
  BY <1>1, GoneIsNobody DEF InsertContact, WriteContact, SoundCaller
<1>3. /\ caller' \in [Callers -> CallerRecords]
      /\ (\A r \in Callers : SoundCaller(caller[r]))'
  <2>1. CASE CallerOver(q)
    BY <2>1, CallerEnds
  <2>2. CASE ~CallerOver(q)
    <3> DEFINE k == [caller[q] EXCEPT !.at = "jot"]
    <3>1. caller' = [caller EXCEPT ![q].at = "jot"] /\ caller[q].at = "write"
      BY <2>2 DEF InsertContact, WriteContact
    <3>2. k \in CallerRecords /\ SoundCaller(k)
      BY <1>1, <3>1 DEF CallerRecords, SoundCaller
    <3>3. caller' = [caller EXCEPT ![q] = k]
      BY <1>1, <3>1 DEF BookInv, BookTables, CallerRecords
    <3> HIDE DEF k
    <3> QED
      BY <3>2, <3>3, CallerMoves DEF BookInv
  <2> QED
    BY <2>1, <2>2
<1>4. /\ address' \in {address, [address EXCEPT ![c] = a]}
      /\ UNCHANGED <<jotted, saved, merged, link>>
  BY DEF InsertContact, WriteContact
<1>5. made' \subseteq made \cup {c} /\ (made' # made => address' = [address EXCEPT ![c] = a])
  BY DEF InsertContact, WriteContact
<1>6. /\ address' \in [Contacts -> Addresses \cup {Gone}]
      /\ \A d \in Contacts : address[d] # Gone => address'[d] # Gone
      /\ address' = [address EXCEPT ![c] = a] => address'[c] # Gone
  BY <1>1, <1>2, <1>4
<1> HIDE DEF c, a
<1>7. BookTables'
  BY <1>2, <1>3, <1>4, <1>5, <1>6 DEF BookInv, BookTables
<1>8. Live \subseteq Live' /\ \A d \in made' : d \in made \/ d \in Live'
  BY <1>2, <1>5, <1>6 DEF Live
<1>9. RecordsSurviveMerges'
  BY <1>4, <1>8 DEF BookInv, BookIsWhole, RecordsSurviveMerges
<1>10. LinksAreOneToOne'
  BY <1>4, <1>8 DEF BookInv, BookIsWhole, LinksAreOneToOne, LinkFree
<1>11. MergesAreKept'
  BY <1>4, <1>8 DEF BookInv, MergesAreKept
<1> QED
  BY <1>3, <1>7, <1>9, <1>10, <1>11 DEF BookInv, BookIsWhole

LEMMA JotKeeps ==
    ASSUME BookInv, NEW q \in Callers, Jot(q)
    PROVE  BookInv'
<1>1. /\ caller' \in [Callers -> CallerRecords]
      /\ (\A r \in Callers : SoundCaller(caller[r]))'
  BY CallerEnds DEF Jot
<1>2. UNCHANGED <<address, made, merged, link>> /\ Live' = Live
  BY DEF Jot, Live
<1>3. caller[q].note \in Jottings
  BY DEF BookInv, SoundCaller, Jot
<1>4. /\ jotted' \in [Jottings -> Contacts \cup {Gone}] /\ saved' \subseteq Jottings
      /\ \A n \in saved' : jotted'[n] \in Live
  BY <1>3 DEF BookInv, BookTables, Jot, RowOf, Live, BookIsWhole, RecordsSurviveMerges
<1>5. BookTables'
  BY <1>1, <1>2, <1>4 DEF BookInv, BookTables
<1>6. RecordsSurviveMerges'
  BY <1>2, <1>4 DEF BookInv, BookIsWhole, RecordsSurviveMerges
<1>7. LinksAreOneToOne' /\ MergesAreKept'
  BY <1>2 DEF BookInv, BookIsWhole, LinksAreOneToOne, LinkFree, MergesAreKept
<1> QED
  BY <1>1, <1>5, <1>6, <1>7 DEF BookInv, BookIsWhole

LEMMA PushKeeps ==
    ASSUME BookInv, NEW q \in Callers, PushLink(q)
    PROVE  BookInv'
<1> DEFINE c == caller[q].of
           p == caller[q].mail
<1>1. /\ caller' \in [Callers -> CallerRecords]
      /\ (\A r \in Callers : SoundCaller(caller[r]))'
  BY CallerEnds DEF PushLink
<1>2. UNCHANGED <<address, made, jotted, saved, merged>> /\ Live' = Live
  BY DEF PushLink, Live
<1>3. c \in Contacts /\ p \in Addresses
  BY DEF BookInv, SoundCaller, PushLink
<1>4. link' = IF c \in Live /\ LinkFree(c, p) THEN [link EXCEPT ![p] = c] ELSE link
  BY DEF PushLink, MayLink
<1>5. link \in [Addresses -> Contacts \cup {Gone}]
  BY DEF BookInv, BookTables
<1> HIDE DEF c, p
<1>6. BookTables'
  BY <1>1, <1>2, <1>3, <1>4, <1>5 DEF BookInv, BookTables
<1>7. RecordsSurviveMerges' /\ MergesAreKept'
  BY <1>2 DEF BookInv, BookIsWhole, RecordsSurviveMerges, MergesAreKept
<1>8. LinksAreOneToOne'
  <2>1. CASE link' = link
    BY <1>2, <2>1 DEF BookInv, BookIsWhole, LinksAreOneToOne, LinkFree
  <2>2. CASE link' # link
    <3>1. c \in Live /\ LinkFree(c, p) /\ \A a \in Addresses : link'[a] = IF a = p THEN c ELSE link[a]
      BY <1>3, <1>4, <1>5, <2>2
    <3> QED
      BY <1>2, <3>1 DEF BookInv, BookIsWhole, LinksAreOneToOne, LinkFree
  <2> QED
    BY <2>1, <2>2
<1> QED
  BY <1>1, <1>6, <1>7, <1>8 DEF BookInv, BookIsWhole

\* The batch of a merge: whatever hung on the second hangs on the first.
LEMMA MergeKeeps ==
    ASSUME BookInv, NEW q \in Callers, Merge(q)
    PROVE  BookInv'
<1> DEFINE d == caller[q].of
           c == caller[q].into
           Moved(x) == IF x = d THEN c ELSE x
<1>1. /\ caller' \in [Callers -> CallerRecords]
      /\ (\A r \in Callers : SoundCaller(caller[r]))'
  BY CallerEnds DEF Merge
<1>2. UNCHANGED <<made, saved>>
  BY DEF Merge
<1>3. c \in Contacts /\ d \in Contacts /\ c # d /\ d # Gone
  BY GoneIsNobody DEF BookInv, SoundCaller, Merge
<1>4. CASE ~BatchStands(q)
  <2>1. UNCHANGED <<address, jotted, merged, link>> /\ Live' = Live
    BY <1>4 DEF Merge, Live
  <2> QED
    BY <1>1, <1>2, <2>1 DEF BookInv, BookTables, MergesAreKept, BookIsWhole, RecordsSurviveMerges,
       LinksAreOneToOne, LinkFree
<1>5. CASE BatchStands(q)
  <2>1. /\ jotted' = [n \in Jottings |-> Moved(jotted[n])]
        /\ merged' = {<<m[1], Moved(m[2])>> : m \in merged} \cup {<<d, c>>}
        /\ link' = [a \in Addresses |->
                      IF link[a] = d /\ caller[q].both THEN Gone ELSE Moved(link[a])]
        /\ address' = [address EXCEPT ![d] = Gone]
    BY <1>5 DEF Merge
  <2>2. c \in Live /\ LinksMove(q)
    BY <1>5 DEF BatchStands
  <2>3. address \in [Contacts -> Addresses \cup {Gone}]
    BY DEF BookInv, BookTables
  <2>4. \A x \in Contacts : x \in Live' <=> x \in Live /\ x # d
    BY <1>3, <2>1, <2>3 DEF Live
  <2>5. Live \subseteq Contacts /\ Live' \subseteq Contacts
    BY DEF Live
  <2>6. \A x \in Live : Moved(x) \in Live'
    BY <1>3, <2>2, <2>4, <2>5
  <2>7. \A m \in merged : m \in Contacts \X Contacts /\ m[2] \in Live
    BY DEF BookInv, BookTables, MergesAreKept
  <2>8. /\ jotted' \in [Jottings -> Contacts \cup {Gone}]
        /\ link' \in [Addresses -> Contacts \cup {Gone}]
        /\ address' \in [Contacts -> Addresses \cup {Gone}]
    BY <1>3, <2>1 DEF BookInv, BookTables
  <2>9. merged' \subseteq Contacts \X Contacts
    <3> SUFFICES ASSUME NEW m \in merged PROVE <<m[1], Moved(m[2])>> \in Contacts \X Contacts
      BY <1>3, <2>1
    <3> QED
      BY <1>3, <2>7
  <2>10. BookTables'
    BY <1>1, <1>2, <2>8, <2>9 DEF BookInv, BookTables
  <2>11. MergesAreKept'
    <3> SUFFICES ASSUME NEW m \in merged' PROVE m[2] \in Live'
      BY DEF MergesAreKept
    <3>1. CASE m = <<d, c>>
      BY <1>3, <2>2, <2>4, <3>1
    <3>2. CASE \E k \in merged : m = <<k[1], Moved(k[2])>>
      BY <2>6, <2>7, <3>2
    <3> QED
      BY <2>1, <3>1, <3>2
  <2>12. RecordsSurviveMerges'
    <3>1. ASSUME NEW x \in made PROVE x \in Live' \/ \E m \in merged' : m[1] = x /\ m[2] \in Live'
      <4>1. CASE x = d
        <5> DEFINE m == <<d, c>>
        <5>1. m \in merged' /\ m[1] = x /\ m[2] \in Live'
          BY <1>3, <2>1, <2>2, <2>4, <4>1
        <5> HIDE DEF m
        <5> QED
          BY <5>1
      <4>2. CASE x # d /\ x \in Live
        BY <2>4, <2>5, <4>2
      <4>3. CASE x \notin Live
        <5>1. PICK k \in merged : k[1] = x /\ k[2] \in Live
          BY <4>3 DEF BookInv, BookIsWhole, RecordsSurviveMerges
        <5>2. <<k[1], Moved(k[2])>> \in merged'
          BY <2>1
        <5>3. Moved(k[2]) \in Live'
          BY <2>6, <5>1
        <5> DEFINE m == <<k[1], Moved(k[2])>>
        <5>4. m \in merged' /\ m[1] = x /\ m[2] \in Live'
          BY <5>1, <5>2, <5>3
        <5> HIDE DEF m
        <5> QED
          BY <5>4
      <4> QED
        BY <4>1, <4>2, <4>3
    <3>2. ASSUME NEW n \in saved PROVE jotted'[n] \in Live'
      <4>1. n \in Jottings /\ jotted[n] \in Live
        BY DEF BookInv, BookTables, BookIsWhole, RecordsSurviveMerges
      <4> QED
        BY <2>1, <2>6, <4>1
    <3> QED
      BY <1>2, <3>1, <3>2 DEF RecordsSurviveMerges
  <2>13. LinksAreOneToOne'
    <3> SUFFICES ASSUME NEW a \in Addresses, link'[a] # Gone
                 PROVE  link'[a] \in Live' /\ \A b \in Addresses \ {a} : link'[b] # link'[a]
      BY DEF LinksAreOneToOne, LinkFree
    <3>1. \A e \in Addresses : link'[e] = IF link[e] = d /\ caller[q].both THEN Gone ELSE Moved(link[e])
      BY <2>1
    <3>2. \A e \in Addresses : link[e] # Gone => link[e] \in Live
                                 /\ \A b \in Addresses \ {e} : link[b] # link[e]
      BY DEF BookInv, BookIsWhole, LinksAreOneToOne, LinkFree
    <3>3. link[a] # Gone /\ link'[a] = Moved(link[a])
      BY <1>3, <3>1
    <3>4. link'[a] \in Live'
      BY <2>6, <3>2, <3>3
    <3>5. ASSUME NEW b \in Addresses \ {a}, link'[b] = link'[a]
          PROVE  FALSE
      <4>1. link'[b] # Gone
        BY <3>5
      <4>2. link'[b] = Moved(link[b]) /\ link[b] # Gone
        BY <1>3, <3>1, <4>1
      <4>3. link[b] # link[a]
        BY <3>2, <3>3
      <4>4. {link[a], link[b]} = {c, d}
        BY <3>3, <3>5, <4>2, <4>3
      <4>5. LinkOf(d) # {} /\ LinkOf(c) # {} /\ ~caller[q].both
        BY <3>1, <3>3, <3>5, <4>1, <4>4 DEF LinkOf
      <4> QED
        BY <2>2, <4>5 DEF LinksMove
    <3> QED
      BY <3>4, <3>5
  <2> QED
    BY <1>1, <2>10, <2>11, <2>12, <2>13 DEF BookInv, BookIsWhole
<1> QED
  BY <1>4, <1>5

LEMMA BookGoesOn == BookInv /\ [BookNext]_contactVars => BookInv'
<1> SUFFICES ASSUME BookInv, [BookNext]_contactVars PROVE BookInv'
  OBVIOUS
<1>1. CASE UNCHANGED contactVars
  BY <1>1 DEF contactVars, BookInv, BookTables, MergesAreKept, BookIsWhole, RecordsSurviveMerges,
     LinksAreOneToOne, LinkFree, Live
<1>2. ASSUME NEW q \in Callers, BookStep(q) PROVE BookInv'
  BY <1>2, BookOpens, WritesKeep, JotKeeps, PushKeeps, MergeKeeps DEF BookStep
<1> QED
  BY <1>1, <1>2 DEF BookNext

\* Creating, editing, pushing and merging lose no contact and no note, and an
\* event knows a contact by one address (contacts.ts, merge.ts, push.ts).
THEOREM BookStaysWhole == BookSpec => []BookIsWhole
<1>1. BookInv => BookIsWhole
  BY DEF BookInv
<1> QED
  BY <1>1, BookStarts, BookGoesOn, PTL DEF BookSpec

\* A merge whose contacts are there and whose links nobody touched goes
\* through: what it read of them decides nothing wrongly (merge.ts).
THEOREM MergesDoTheirWork == BookSpec => MergesGoThrough
<1>1. BookInv /\ [BookNext]_contactVars =>
        [\A q \in Callers :
           caller[q].at = "merge" /\ caller'[q].at = "idle"
             => \/ address'[caller[q].of] = Gone
                \/ caller[q].into \notin Live
                \/ link # caller[q].seen]_contactVars
  <2> SUFFICES ASSUME BookInv, BookNext, NEW q \in Callers,
                      caller[q].at = "merge", caller'[q].at = "idle",
                      caller[q].into \in Live, link = caller[q].seen
               PROVE  address'[caller[q].of] = Gone
    OBVIOUS
  <2>1. PICK r \in Callers : BookStep(r)
    BY DEF BookNext
  <2>2. caller \in [Callers -> CallerRecords] /\ SoundCaller(caller[q])
        /\ address \in [Contacts -> Addresses \cup {Gone}]
    BY DEF BookInv, BookTables
  <2>3. r = q
    BY <2>1, <2>2 DEF BookStep, StartCreate, StartUpdate, StartPush, StartMerge, InsertContact,
       WriteContact, Jot, PushLink, ReadOverlap, Merge, CallerOver
  <2>4. Merge(q)
    BY <2>1, <2>3 DEF BookStep, StartCreate, StartUpdate, StartPush, StartMerge, InsertContact,
       WriteContact, Jot, PushLink, ReadOverlap, CallerFree
  <2>5. LinksMove(q)
    BY <2>2 DEF LinksMove, LinkOf, SoundCaller
  <2>6. caller[q].of \in Contacts /\ address' = [address EXCEPT ![caller[q].of] = Gone]
    BY <2>2, <2>4, <2>5 DEF Merge, BatchStands, SoundCaller
  <2> QED
    BY <2>2, <2>6
<1> QED
  BY <1>1, BookStarts, BookGoesOn, PTL DEF BookSpec, MergesGoThrough

\* Whatever requests overlap, the book's tables and what a request remembers
\* between its statements keep their types (contacts.ts).
THEOREM BookTypes == BookSpec => []BookTypeOK
<1>1. SomeContact \in Contacts /\ SomeAddress \in Addresses /\ SomeNote \in Jottings
  BY OneOfEach DEF SomeContact, SomeAddress, SomeNote
<1>2. BookInv => BookTypeOK
  <2> SUFFICES ASSUME BookTables PROVE BookTypeOK
    BY DEF BookInv
  <2>1. \A q \in Callers : caller[q] \in CallerRecords
    BY DEF BookTables
  <2>2. Contacts \cup {SomeContact} = Contacts /\ Addresses \cup {SomeAddress} = Addresses
        /\ Jottings \cup {SomeNote} = Jottings
    BY <1>1
  <2> QED
    BY <2>1, <2>2 DEF BookTables, CallerRecords, BookTypeOK
<1> QED
  BY <1>2, BookStarts, BookGoesOn, PTL DEF BookSpec

-----------------------------------------------------------------------------

(***************************************************************************)
(* Forms. The line of revisions, and with it what answers are checked      *)
(* against and pin, is kept by every step. That everything names something *)
(* that is there is kept only where no two edits cross; the strengthening  *)
(* says what a request found and still finds, and what a rename half done  *)
(* has left to do.                                                         *)
(***************************************************************************)

FieldRows == [state : {"none", "live", "gone"}, key : MaybeKeys, rule : MaybeKeys]

RequestFields ==
    [at : Writing \cup Renaming \cup {"idle", "publish", "page", "submit"},
     of : Fields \cup {SomeField}, old : MaybeKeys, key : MaybeKeys, rule : MaybeKeys,
     shown : Nat, number : Nat]

AnyPaper == [pinned : Nat, shown : Nat, checked : Nat, edited : BOOLEAN]

Requests ==
    {e \in RequestFields : e.at \in {"insert", "update"} \cup Renaming => e.key \in FieldKeys}

FormTables ==
    /\ field \in [Fields -> FieldRows]
    /\ \A f \in LiveFields : field[f].key \in FieldKeys
    /\ route \in MaybeKeys
    /\ revisions \in Seq(Nat) /\ published \in Nat
    /\ papers \in Seq(AnyPaper)
    /\ editor \in [Editors -> Requests]
    /\ crossed \in BOOLEAN /\ misled \subseteq Fields

\* A number that was read before other publications is at most the next one.
NumbersAreNext ==
    \A q \in Editors : editor[q].at = "publish" => editor[q].number \in 1..Len(revisions) + 1

\* What a page shows was published, and not after what its answers are checked
\* against.
ShownIsKnown ==
    \A q \in Editors : /\ editor[q].at = "page" => editor[q].shown <= published
                       /\ editor[q].at = "submit" => editor[q].shown <= editor[q].number

LineInv ==
    FormTables /\ RevisionsAreALine /\ NumbersAreNext /\ ShownIsKnown /\ AnswersFitTheirForm

LEMMA IdleEditorIsTyped == IdleEditor \in Requests /\ IdleEditor.at = "idle"
BY DEF IdleEditor, Requests, RequestFields, Renaming, MaybeKeys

LEMMA LatestIsLast ==
    ASSUME LineInv
    PROVE  Latest \in 0..Len(revisions)
<1>1. revisions \in Seq(Nat) /\ Len(revisions) \in Nat /\ DOMAIN revisions = 1..Len(revisions)
  BY DEF LineInv, FormTables
<1>2. Numbers = 1..Len(revisions)
  BY <1>1 DEF Numbers, LineInv, RevisionsAreALine
<1>3. \E n \in Numbers \cup {0} : \A m \in Numbers : m <= n
  <2> DEFINE n == Len(revisions)
  <2>1. n \in (1..n) \cup {0} /\ \A m \in 1..n : m <= n
    BY <1>1
  <2> HIDE DEF n
  <2>2. Numbers = 1..n
    BY <1>2 DEF n
  <2> QED
    BY <2>1, <2>2
<1>4. Latest \in Numbers \cup {0}
  BY <1>3 DEF Latest
<1> QED
  BY <1>1, <1>2, <1>4

\* A request that comes.
LEMMA BeginKeepsTheLine ==
    ASSUME LineInv, NEW q \in Editors, NEW e \in Requests, Begin(q, e),
           e.at = "publish" => e.number \in 1..Len(revisions) + 1,
           e.at # "submit", e.at = "page" => e.shown <= published
    PROVE  LineInv' /\ \A r \in Editors : editor'[r] = IF r = q THEN e ELSE editor[r]
<1>1. \A r \in Editors : editor'[r] = IF r = q THEN e ELSE editor[r]
  BY DEF Begin, LineInv, FormTables
<1>2. FormTables'
  BY DEF Begin, tables, LineInv, FormTables, LiveFields
<1> QED
  BY <1>1, <1>2 DEF Begin, tables, LineInv, NumbersAreNext, ShownIsKnown, RevisionsAreALine,
     AnswersFitTheirForm

\* A request that ends, or goes on renaming, without a revision or an answer.
LEMMA EditKeepsTheLine ==
    ASSUME LineInv, NEW q \in Editors, NEW e \in Requests,
           e.at \notin {"publish", "page", "submit"},
           editor' = [editor EXCEPT ![q] = e],
           UNCHANGED <<revisions, published, papers>>,
           field' \in [Fields -> FieldRows], route' \in MaybeKeys, crossed' \in BOOLEAN,
           misled' \subseteq Fields,
           (\A f \in LiveFields : field[f].key \in FieldKeys)'
    PROVE  LineInv' /\ \A r \in Editors : editor'[r] = IF r = q THEN e ELSE editor[r]
<1>1. \A r \in Editors : editor'[r] = IF r = q THEN e ELSE editor[r]
  BY DEF LineInv, FormTables
<1>2. FormTables'
  BY DEF LineInv, FormTables
<1> QED
  BY <1>1, <1>2 DEF LineInv, NumbersAreNext, ShownIsKnown, RevisionsAreALine, AnswersFitTheirForm

\* Answers that are sent meet the revision of the day.
LEMMA PostingKeepsTheLine ==
    ASSUME LineInv, NEW q \in Editors, PostAnswers(q)
    PROVE  /\ LineInv'
           /\ \E e \in Requests : e.at = "submit" /\ editor' = [editor EXCEPT ![q] = e]
<1>1. editor[q] \in Requests /\ editor[q].at = "page" /\ published \in Nat
      /\ editor[q].shown <= published
  BY DEF PostAnswers, LineInv, FormTables, ShownIsKnown
<1> DEFINE e == [editor[q] EXCEPT !.at = "submit", !.number = published]
<1>2. e \in Requests /\ e.at = "submit" /\ e.number = published /\ e.shown = editor[q].shown
  BY <1>1 DEF Requests, RequestFields, Renaming
<1>3. editor' = [editor EXCEPT ![q] = e]
  BY DEF PostAnswers
<1> HIDE DEF e
<1>4. \A r \in Editors : editor'[r] = IF r = q THEN e ELSE editor[r]
  BY <1>3 DEF LineInv, FormTables
<1>5. UNCHANGED <<field, route, revisions, published, papers, crossed, misled>>
  BY DEF PostAnswers, tables
<1>6. FormTables'
  BY <1>2, <1>3, <1>5 DEF LineInv, FormTables, LiveFields
<1>7. NumbersAreNext' /\ ShownIsKnown' /\ RevisionsAreALine' /\ AnswersFitTheirForm'
  BY <1>1, <1>2, <1>4, <1>5
     DEF LineInv, NumbersAreNext, ShownIsKnown, RevisionsAreALine, AnswersFitTheirForm
<1> QED
  BY <1>2, <1>3, <1>6, <1>7 DEF LineInv

LEMMA PublishingKeepsTheLine ==
    ASSUME LineInv, NEW q \in Editors, PublishRevision(q)
    PROVE  LineInv'
<1> DEFINE n == editor[q].number
<1>1. revisions \in Seq(Nat) /\ editor[q].at = "publish"
  BY DEF LineInv, FormTables, PublishRevision
<1>2. Len(revisions) \in Nat /\ DOMAIN revisions = 1..Len(revisions)
  BY <1>1
<1>3. n \in 1..Len(revisions) + 1
  BY <1>1 DEF LineInv, NumbersAreNext
<1>4. /\ revisions \in Seq(Nat) /\ Len(revisions) \in Nat /\ DOMAIN revisions = 1..Len(revisions)
      /\ n \in 1..Len(revisions) + 1
      /\ \A i \in 1..Len(revisions) : revisions[i] = i
  BY <1>1, <1>2, <1>3 DEF LineInv, RevisionsAreALine
<1>5. \A r \in Editors : editor'[r] = IF r = q THEN IdleEditor ELSE editor[r]
  BY DEF PublishRevision, Ends, LineInv, FormTables
<1>6. UNCHANGED <<field, route, papers, crossed, misled>>
  BY DEF PublishRevision
<1>7. editor' \in [Editors -> Requests]
  BY IdleEditorIsTyped DEF PublishRevision, Ends, LineInv, FormTables
<1>8. CASE NumberFree(n)
  <2>1. n = Len(revisions) + 1
    BY <1>4, <1>8 DEF NumberFree, Numbers
  <2>2. revisions' = Append(revisions, n) /\ published' = n
    BY <1>8 DEF PublishRevision
  <2>3. /\ revisions' \in Seq(Nat) /\ Len(revisions') = n
        /\ \A i \in 1..n : revisions'[i] = i
    BY <1>4, <2>1, <2>2
  <2>4. RevisionsAreALine'
    BY <2>2, <2>3 DEF RevisionsAreALine
  <2>5. FormTables'
    BY <1>4, <1>6, <1>7, <2>2, <2>3 DEF LineInv, FormTables, LiveFields
  <2>6. NumbersAreNext'
    BY <1>4, <1>5, <2>1, <2>3, IdleEditorIsTyped DEF LineInv, NumbersAreNext
  <2>7. ShownIsKnown'
    <3>1. published = Len(revisions) /\ \A r \in Editors : editor[r].shown \in Nat
      BY DEF LineInv, FormTables, RevisionsAreALine, Requests, RequestFields
    <3>2. published' \in Nat /\ published <= published'
      BY <1>4, <2>1, <2>2, <3>1
    <3> QED
      BY <1>4, <1>5, <3>1, <3>2, IdleEditorIsTyped DEF LineInv, ShownIsKnown
  <2> QED
    BY <1>6, <2>4, <2>5, <2>6, <2>7 DEF LineInv, AnswersFitTheirForm
<1>9. CASE ~NumberFree(n)
  <2>1. UNCHANGED <<revisions, published>>
    BY <1>9 DEF PublishRevision
  <2>2. FormTables'
    BY <1>6, <1>7, <2>1 DEF LineInv, FormTables, LiveFields
  <2> QED
    BY <1>5, <1>6, <2>1, <2>2, IdleEditorIsTyped
       DEF LineInv, NumbersAreNext, ShownIsKnown, RevisionsAreALine, AnswersFitTheirForm
<1> QED
  BY <1>8, <1>9

LEMMA AnsweringKeepsTheLine ==
    ASSUME LineInv, NEW q \in Editors, Submit(q) \/ Resubmit(q)
    PROVE  LineInv'
<1> DEFINE n == editor[q].number
           m == editor[q].shown
<1>1. \A r \in Editors : editor'[r] = IF r = q THEN IdleEditor ELSE editor[r]
  BY DEF Submit, Resubmit, Ends, LineInv, FormTables
<1>2. /\ UNCHANGED <<field, route, revisions, published, crossed, misled>>
      /\ editor' \in [Editors -> Requests]
  BY IdleEditorIsTyped DEF Submit, Resubmit, Ends, LineInv, FormTables
<1>3. /\ papers \in Seq(AnyPaper)
      /\ DOMAIN papers = 1..Len(papers) /\ Len(papers) \in Nat
      /\ n \in Nat /\ m \in Nat /\ m <= n
  <2>1. papers \in Seq(AnyPaper) /\ editor[q] \in RequestFields
    BY DEF LineInv, FormTables, Requests
  <2>2. n \in Nat /\ m \in Nat
    BY <2>1 DEF RequestFields
  <2>3. m <= n
    BY DEF LineInv, ShownIsKnown, Submit, Resubmit
  <2> QED
    BY <2>1, <2>2, <2>3
<1>4. papers' \in Seq(AnyPaper) /\ AnswersFitTheirForm'
  <2>1. CASE Submit(q)
    <3> DEFINE paper == [pinned |-> n, shown |-> m, checked |-> n, edited |-> FALSE]
    <3>1. papers' = Append(papers, paper)
      BY <2>1 DEF Submit, Pinned
    <3>2. paper \in AnyPaper /\ paper.pinned = paper.checked /\ paper.shown <= paper.checked
      BY <1>3 DEF AnyPaper
    <3> HIDE DEF paper
    <3> QED
      BY <1>3, <3>1, <3>2 DEF LineInv, AnswersFitTheirForm
  <2>2. CASE Resubmit(q)
    <3> HIDE DEF n, m
    <3>1. PICK i \in DOMAIN papers :
             papers' = [papers EXCEPT ![i].shown = m, ![i].checked = n, ![i].edited = TRUE]
      BY <2>2 DEF Resubmit, n, m
    <3> DEFINE paper == [papers[i] EXCEPT !.shown = m, !.checked = n, !.edited = TRUE]
    <3>2. papers[i] \in AnyPaper
      BY <1>3, ElementOfSeq
    <3>3. paper \in AnyPaper /\ paper.edited /\ paper.shown <= paper.checked
          /\ papers' = [papers EXCEPT ![i] = paper]
      BY <1>3, <3>1, <3>2 DEF AnyPaper
    <3> HIDE DEF paper
    <3> QED
      BY <1>3, <3>3 DEF LineInv, AnswersFitTheirForm
  <2> QED
    BY <2>1, <2>2
<1>5. FormTables'
  BY <1>2, <1>4 DEF LineInv, FormTables, LiveFields
<1> QED
  BY <1>1, <1>2, <1>4, <1>5, IdleEditorIsTyped
     DEF LineInv, NumbersAreNext, ShownIsKnown, RevisionsAreALine

Halfway(q) == editor[q].at \in {"reroute", "rename"}
Quiet == \A q \in Editors : ~Halfway(q)

\* What a request that has still to write has found, and still finds.
Founded(e) ==
    /\ e.at = "insert" => RuleStands(e.key, e.rule)
    /\ e.at = "update" => /\ e.of \in LiveFields /\ field[e.of].key = e.key
                          /\ RuleStands(e.key, e.rule)
    /\ e.at = "delete" => e.of \in LiveFields /\ Unused(e.of)
    /\ e.at = "meta" => e.key \in LiveKeys \cup {NoKey}
    /\ e.at = "rewrite" => /\ e.of \in LiveFields /\ field[e.of].key = e.old
                           /\ e.key # e.old /\ KeyFree(e.of, e.key)

\* While a field is renamed the rules name it by the key it will have.
Renamed(e) ==
    /\ e.of \in LiveFields /\ field[e.of].key = e.old
    /\ e.key # e.old /\ KeyFree(e.of, e.key)
    /\ \A f \in LiveFields \ misled :
          \/ field[f].rule = NoKey
          \/ field[f].rule \in (LiveKeys \cup {e.key}) \ {e.old, field[f].key}
    /\ e.at = "reroute" => route \in LiveKeys \cup {NoKey}
    /\ e.at = "rename" => /\ route \in ((LiveKeys \ {e.old}) \cup {e.key, NoKey})
                          /\ RuleStands(e.key, e.rule)

References ==
    /\ \A f \in LiveFields \ misled : field[f].rule = NoKey \/ field[f].rule \in LiveKeys \ {field[f].key}
    /\ route = NoKey \/ route \in LiveKeys

\* No two requests insert the same row, or over another.
InsertsAreNew ==
    \A q \in Editors : editor[q].at = "insert" =>
        /\ editor[q].of \in Fields /\ field[editor[q].of].state = "none"
        /\ \A r \in Editors \ {q} : editor[r].at = "insert" => editor[r].of # editor[q].of

\* Where nothing has crossed, either no field is half renamed and everything
\* is in place, or one is, and its request knows what is left to do.
EverythingInPlace ==
    /\ Quiet => References /\ \A q \in Editors : Founded(editor[q])
    /\ \A q \in Editors : Halfway(q) =>
          Renamed(editor[q]) /\ \A r \in Editors \ {q} : ~Halfway(r)

FormInv == LineInv /\ InsertsAreNew /\ (~crossed => EverythingInPlace)

LEMMA FormStarts == FormInit => FormInv
<1> SUFFICES ASSUME FormInit PROVE FormInv
  OBVIOUS
<1>1. LiveFields = {} /\ \A q \in Editors : editor[q].at = "idle"
  BY DEF FormInit, LiveFields, Blank, IdleEditor
<1>2. FormTables
  BY <1>1, IdleEditorIsTyped, EmptySeq DEF FormInit, FormTables, FieldRows, Blank, MaybeKeys
<1>3. LineInv
  BY <1>1, <1>2, EmptySeq DEF FormInit, LineInv, RevisionsAreALine, NumbersAreNext, ShownIsKnown,
     AnswersFitTheirForm
<1> QED
  BY <1>1, <1>3 DEF FormInit, FormInv, InsertsAreNew, EverythingInPlace, References, Founded, Halfway

\* A request that comes finds what it will need.
LEMMA BeginKeepsTheForm ==
    ASSUME FormInv, NEW q \in Editors, NEW e \in Requests, Begin(q, e),
           e.at = "publish" => e.number \in 1..Len(revisions) + 1,
           e.at = "page" => e.shown <= published,
           e.at \notin {"reroute", "rename", "submit"},
           e.at = "insert" => e.of \in NewFields,
           Quiet /\ References => Founded(e)
    PROVE  FormInv'
<1>1. LineInv' /\ \A r \in Editors : editor'[r] = IF r = q THEN e ELSE editor[r]
  BY BeginKeepsTheLine DEF FormInv, LineInv, FormTables
<1>2. UNCHANGED <<field, route, crossed, misled>> /\ ~Halfway(q)
  BY DEF Begin, tables, Halfway, FormInv
<1>3. \A r \in Editors : Halfway(r)' = Halfway(r)
  BY <1>1, <1>2 DEF Halfway
<1>4. References' = References
  BY <1>2 DEF References, LiveFields, LiveKeys
<1>5. InsertsAreNew'
  BY <1>1, <1>2 DEF InsertsAreNew, NewFields, FormInv
<1>6. ASSUME ~crossed'
      PROVE  EverythingInPlace'
  <2>0. EverythingInPlace
    BY <1>2, <1>6 DEF FormInv
  <2>1. Quiet' <=> Quiet
    BY <1>3 DEF Quiet
  <2>2. Quiet => References /\ \A r \in Editors : Founded(editor'[r])
    BY <1>1, <2>0 DEF EverythingInPlace
  <2>3. \A r \in Editors : Halfway(r) => Renamed(editor'[r]) /\ \A p \in Editors \ {r} : ~Halfway(p)
    BY <1>1, <1>2, <2>0 DEF EverythingInPlace
  <2>4. \A r \in Editors : (Founded(editor'[r]) => Founded(editor[r])') /\ (Renamed(editor'[r]) => Renamed(editor[r])')
    BY <1>2 DEF Founded, Renamed, LiveFields, LiveKeys, RuleStands, Unused, UnusedInRules, KeyFree
  <2> QED
    BY <1>3, <1>4, <2>1, <2>2, <2>3, <2>4 DEF EverythingInPlace
<1> QED
  BY <1>1, <1>5, <1>6 DEF FormInv

\* A request that ends, or sends answers, without a word on fields or route.
LEMMA EndKeepsTheForm ==
    ASSUME FormInv, NEW q \in Editors, NEW e \in Requests, e.at \in {"idle", "submit"},
           editor' = [editor EXCEPT ![q] = e], LineInv',
           UNCHANGED <<field, route, misled>>, crossed => crossed', Halfway(q) => crossed'
    PROVE  FormInv'
<1>1. \A r \in Editors : editor'[r] = IF r = q THEN e ELSE editor[r]
  BY DEF FormInv, LineInv, FormTables
<1>2. InsertsAreNew'
  BY <1>1 DEF InsertsAreNew, FormInv
<1>3. ASSUME ~crossed'
      PROVE  EverythingInPlace'
  <2>1. ~Halfway(q) /\ EverythingInPlace
    BY <1>3 DEF FormInv
  <2>2. \A r \in Editors : Halfway(r)' = Halfway(r)
    BY <1>1, <2>1 DEF Halfway
  <2>3. References' = References
    BY DEF References, LiveFields, LiveKeys
  <2>4. Founded(e)
    BY DEF Founded
  <2>5. Quiet => References /\ \A r \in Editors : Founded(editor'[r])
    BY <1>1, <2>1, <2>4 DEF EverythingInPlace
  <2>6. \A r \in Editors : Halfway(r) => Renamed(editor'[r]) /\ \A p \in Editors \ {r} : ~Halfway(p)
    BY <1>1, <2>1 DEF EverythingInPlace
  <2>7. \A r \in Editors : (Founded(editor'[r]) => Founded(editor[r])') /\ (Renamed(editor'[r]) => Renamed(editor[r])')
    BY DEF Founded, Renamed, LiveFields, LiveKeys, RuleStands, Unused, UnusedInRules, KeyFree
  <2> QED
    BY <2>2, <2>3, <2>5, <2>6, <2>7 DEF EverythingInPlace, Quiet
<1> QED
  BY <1>2, <1>3 DEF FormInv

\* Whoever writes uncrossed meets no renaming, and no deletion either.
LEMMA NobodyElse ==
    ASSUME NEW q \in Editors, ~Crosses(q)
    PROVE  \A r \in Editors \ {q} :
              /\ editor[q].at \in Writing => editor[r].at \notin Renaming \cup {"delete"}
              /\ editor[q].at \in Renaming \cup {"delete"} => editor[r].at \notin Writing \cup Renaming
<1> SUFFICES ASSUME NEW r \in Editors \ {q}
             PROVE  /\ editor[q].at \in Writing => editor[r].at \notin Renaming \cup {"delete"}
                    /\ editor[q].at \in Renaming \cup {"delete"} => editor[r].at \notin Writing \cup Renaming
  OBVIOUS
<1>1. r \in Others(q) \/ editor[r].at = "idle"
  BY DEF Others
<1> QED
  BY <1>1 DEF Crosses, Writing, Renaming

\* A request that writes, and what it leaves to the others.
LEMMA WriteKeepsTheForm ==
    ASSUME FormInv, NEW q \in Editors, editor[q].at \in Writing, Ends(q), LineInv',
           NoteCrossing(q), InsertsAreNew',
           ~Crosses(q) /\ References /\ Founded(editor[q]) =>
              /\ References'
              /\ \A r \in Editors \ {q} : Founded(editor[r]) /\ editor[r].at \notin Renaming \cup {"delete"} =>
                    Founded(editor[r])'
    PROVE  FormInv'
<1>1. \A r \in Editors : editor'[r] = IF r = q THEN IdleEditor ELSE editor[r]
  BY DEF Ends, FormInv, LineInv, FormTables
<1>2. ASSUME ~crossed'
      PROVE  EverythingInPlace'
  <2>1. ~Crosses(q) /\ EverythingInPlace
    BY <1>2 DEF NoteCrossing, FormInv
  <2>2. \A r \in Editors \ {q} : editor[r].at \notin Renaming \cup {"delete"}
    BY <2>1, NobodyElse
  <2>3. Quiet
    BY <2>2 DEF Quiet, Halfway, Renaming, Writing
  <2>4. References /\ \A r \in Editors : Founded(editor[r])
    BY <2>1, <2>3 DEF EverythingInPlace
  <2>5. References' /\ \A r \in Editors \ {q} : Founded(editor[r])'
    BY <2>1, <2>2, <2>4
  <2>6. Founded(editor[q])'
    BY <1>1, IdleEditorIsTyped DEF Founded
  <2>7. \A r \in Editors : ~Halfway(r)'
    BY <1>1, <2>3, IdleEditorIsTyped DEF Quiet, Halfway
  <2> QED
    BY <2>5, <2>6, <2>7 DEF EverythingInPlace
<1> QED
  BY <1>2 DEF FormInv

LEMMA InsertKeeps ==
    ASSUME FormInv, NEW q \in Editors, InsertField(q)
    PROVE  FormInv'
<1> DEFINE e == editor[q]
           row == [state |-> "live", key |-> e.key, rule |-> e.rule]
<1>1. /\ e \in Requests /\ e.at = "insert" /\ Ends(q) /\ NoteCrossing(q)
      /\ UNCHANGED <<route, revisions, published, papers, misled>>
      /\ e.of \in Fields /\ field[e.of].state = "none"
      /\ field \in [Fields -> FieldRows] /\ \A f \in LiveFields : field[f].key \in FieldKeys
  BY DEF InsertField, FormInv, LineInv, FormTables, InsertsAreNew
<1>2. \A r \in Editors : editor'[r] = IF r = q THEN IdleEditor ELSE editor[r]
  BY DEF InsertField, Ends, FormInv, LineInv, FormTables
<1>3. field' = field \/ (field' = [field EXCEPT ![e.of] = row])
  BY DEF InsertField
<1> HIDE DEF row
<1>4. row \in FieldRows /\ row.state = "live" /\ row.key = e.key /\ row.rule = e.rule /\ e.key \in FieldKeys
  BY <1>1 DEF row, FieldRows, Requests, RequestFields
<1>5. /\ field' \in [Fields -> FieldRows]
      /\ \A f \in Fields : field'[f] = field[f] \/ (f = e.of /\ field'[f] = row)
  BY <1>1, <1>3, <1>4
<1>6. crossed' \in BOOLEAN /\ misled' \subseteq Fields /\ route' \in MaybeKeys /\ editor' = [editor EXCEPT ![q] = IdleEditor]
  BY <1>1 DEF NoteCrossing, Ends, FormInv, LineInv, FormTables, Crosses
<1>7. LineInv'
  <2>1. (\A f \in LiveFields : field[f].key \in FieldKeys)'
    BY <1>1, <1>4, <1>5 DEF LiveFields
  <2> QED
    BY <1>1, <1>5, <1>6, <2>1, IdleEditorIsTyped, EditKeepsTheLine DEF FormInv
<1>8. InsertsAreNew'
  BY <1>1, <1>2, <1>5, IdleEditorIsTyped DEF FormInv, InsertsAreNew
<1>9. ASSUME References, Founded(e)
      PROVE  /\ References'
             /\ \A r \in Editors \ {q} : Founded(editor[r]) /\ editor[r].at \notin Renaming \cup {"delete"} =>
                   Founded(editor[r])'
  <2>1. CASE field' = field
    <3>1. LiveFields' = LiveFields /\ LiveKeys' = LiveKeys
      BY <2>1 DEF LiveFields, LiveKeys
    <3> QED
      BY <1>1, <1>2, <1>9, <2>1, <3>1 DEF References, Founded, RuleStands, Renaming
  <2>2. CASE field' = [field EXCEPT ![e.of] = row]
    <3>1. /\ LiveFields' = LiveFields \cup {e.of} /\ e.of \notin LiveFields
          /\ \A f \in LiveFields : field'[f] = field[f]
          /\ field'[e.of] = row
      BY <1>1, <1>4, <2>2 DEF LiveFields
    <3>2. LiveKeys' = LiveKeys \cup {e.key}
      BY <1>4, <3>1 DEF LiveKeys
    <3>3. RuleStands(e.key, e.rule)
      BY <1>1, <1>9 DEF Founded
    <3>4. References'
      BY <1>1, <1>4, <1>9, <3>1, <3>2, <3>3 DEF References, RuleStands
    <3>5. ASSUME NEW r \in Editors \ {q}, Founded(editor[r]), editor[r].at \notin Renaming \cup {"delete"}
          PROVE  Founded(editor[r])'
      <4>1. editor'[r] = editor[r]
        BY <1>2
      <4> QED
        BY <3>1, <3>2, <3>5, <4>1 DEF Founded, RuleStands, Renaming
    <3> QED
      BY <3>4, <3>5
  <2> QED
    BY <1>3, <2>1, <2>2
<1> QED
  BY <1>1, <1>7, <1>8, <1>9, WriteKeepsTheForm DEF Writing

LEMMA ReviseKeeps ==
    ASSUME FormInv, NEW q \in Editors, UpdateField(q), editor[q].at = "update"
    PROVE  FormInv'
<1> DEFINE e == editor[q]
           row == [field[e.of] EXCEPT !.key = e.key, !.rule = e.rule]
<1>1. /\ e \in Requests /\ Ends(q) /\ NoteCrossing(q)
      /\ UNCHANGED <<route, revisions, published, papers>>
      /\ field \in [Fields -> FieldRows] /\ \A f \in LiveFields : field[f].key \in FieldKeys
  BY DEF UpdateField, FormInv, LineInv, FormTables
<1>2. \A r \in Editors : editor'[r] = IF r = q THEN IdleEditor ELSE editor[r]
  BY DEF UpdateField, Ends, FormInv, LineInv, FormTables
<1>3. \/ field' = field /\ misled' = misled
      \/ /\ e.of \in LiveFields /\ field' = [field EXCEPT ![e.of] = row]
         /\ (misled' = misled \cup {e.of} \/ misled' = misled \ {e.of})
  BY <1>1 DEF UpdateField
<1>4. e.of \in LiveFields => /\ row \in FieldRows /\ row.state = "live" /\ row.key = e.key /\ row.rule = e.rule
                             /\ e.key \in FieldKeys /\ field[e.of].state = "live"
  BY <1>1 DEF FieldRows, Requests, RequestFields, LiveFields
<1> HIDE DEF row
<1>5. /\ field' \in [Fields -> FieldRows] /\ LiveFields' = LiveFields
      /\ \A f \in Fields : field'[f] = field[f] \/ (f = e.of /\ f \in LiveFields /\ field'[f] = row)
  BY <1>1, <1>3, <1>4 DEF LiveFields
<1>6. crossed' \in BOOLEAN /\ misled' \subseteq Fields /\ route' \in MaybeKeys /\ editor' = [editor EXCEPT ![q] = IdleEditor]
  BY <1>1, <1>3 DEF NoteCrossing, Ends, FormInv, LineInv, FormTables, Crosses, LiveFields
<1>7. LineInv'
  <2>1. (\A f \in LiveFields : field[f].key \in FieldKeys)'
    BY <1>1, <1>4, <1>5 DEF LiveFields
  <2> QED
    BY <1>1, <1>5, <1>6, <2>1, IdleEditorIsTyped, EditKeepsTheLine DEF FormInv
<1>8. InsertsAreNew'
  BY <1>1, <1>2, <1>5, IdleEditorIsTyped DEF FormInv, InsertsAreNew, LiveFields
<1>9. ASSUME References, Founded(e)
      PROVE  /\ References'
             /\ \A r \in Editors \ {q} : Founded(editor[r]) /\ editor[r].at \notin Renaming \cup {"delete"} =>
                   Founded(editor[r])'
  <2>1. e.of \in LiveFields /\ field[e.of].key = e.key /\ RuleStands(e.key, e.rule)
    BY <1>9 DEF Founded
  <2>2. \A f \in LiveFields : field'[f].key = field[f].key
    BY <1>4, <1>5, <2>1 DEF LiveFields
  <2>3. LiveKeys' = LiveKeys
    BY <1>5, <2>2 DEF LiveKeys
  <2>4. \A f \in LiveFields \ misled' : \/ (f \notin misled /\ field'[f].rule = field[f].rule)
                                       \/ (f = e.of /\ field'[f].rule = e.rule)
    BY <1>1, <1>3, <1>4, <2>1 DEF LiveFields
  <2>5. References'
    BY <1>1, <1>5, <1>9, <2>1, <2>2, <2>3, <2>4 DEF References, RuleStands
  <2>6. ASSUME NEW r \in Editors \ {q}, Founded(editor[r]), editor[r].at \notin Renaming \cup {"delete"}
        PROVE  Founded(editor[r])'
    <3>1. editor'[r] = editor[r]
      BY <1>2
    <3> QED
      BY <1>5, <2>2, <2>3, <2>6, <3>1 DEF Founded, RuleStands, Renaming
  <2> QED
    BY <2>5, <2>6
<1> QED
  BY <1>1, <1>7, <1>8, <1>9, WriteKeepsTheForm DEF Writing

LEMMA DeleteKeeps ==
    ASSUME FormInv, NEW q \in Editors, DeleteField(q)
    PROVE  FormInv'
<1> DEFINE e == editor[q]
           row == [Blank EXCEPT !.state = "gone"]
<1>1. /\ e.at = "delete" /\ Ends(q) /\ NoteCrossing(q)
      /\ UNCHANGED <<route, revisions, published, papers, misled>>
      /\ field \in [Fields -> FieldRows] /\ \A f \in LiveFields : field[f].key \in FieldKeys
  BY DEF DeleteField, FormInv, LineInv, FormTables
<1>2. \A r \in Editors : editor'[r] = IF r = q THEN IdleEditor ELSE editor[r]
  BY DEF DeleteField, Ends, FormInv, LineInv, FormTables
<1>3. field' = IF e.of \in LiveFields THEN [field EXCEPT ![e.of] = row] ELSE field
  BY DEF DeleteField
<1>4. row \in FieldRows /\ row.state = "gone"
  BY DEF Blank, FieldRows, MaybeKeys
<1> HIDE DEF row
<1>5. /\ field' \in [Fields -> FieldRows] /\ LiveFields' = LiveFields \ {e.of}
      /\ \A f \in Fields : field'[f] = field[f] \/ (f = e.of /\ f \in LiveFields)
      /\ \A f \in LiveFields \ {e.of} : field'[f] = field[f]
  BY <1>1, <1>3, <1>4 DEF LiveFields
<1>6. crossed' \in BOOLEAN /\ misled' \subseteq Fields /\ route' \in MaybeKeys /\ editor' = [editor EXCEPT ![q] = IdleEditor]
  BY <1>1 DEF NoteCrossing, Ends, FormInv, LineInv, FormTables, Crosses
<1>7. LineInv'
  <2>1. (\A f \in LiveFields : field[f].key \in FieldKeys)'
    BY <1>1, <1>5
  <2> QED
    BY <1>1, <1>5, <1>6, <2>1, IdleEditorIsTyped, EditKeepsTheLine DEF FormInv
<1>8. InsertsAreNew'
  BY <1>1, <1>2, <1>5, IdleEditorIsTyped DEF FormInv, InsertsAreNew, LiveFields
<1>9. ASSUME ~Crosses(q), References, Founded(e)
      PROVE  /\ References'
             /\ \A r \in Editors \ {q} : Founded(editor[r])'
  <2>1. e.of \in LiveFields /\ Unused(e.of)
    BY <1>1, <1>9 DEF Founded
  <2>2. LiveKeys \ {field[e.of].key} \subseteq LiveKeys'
    BY <1>5 DEF LiveKeys
  <2>3. References'
    BY <1>1, <1>5, <1>9, <2>1, <2>2 DEF References, Unused, UnusedInRules
  <2>4. \A r \in Editors \ {q} : Founded(editor[r])'
    BY <1>1, <1>2, <1>9, NobodyElse DEF Founded, Writing, Renaming
  <2> QED
    BY <2>3, <2>4
<1> QED
  BY <1>1, <1>7, <1>8, <1>9, WriteKeepsTheForm DEF Writing

LEMMA RouteKeeps ==
    ASSUME FormInv, NEW q \in Editors, WriteMeta(q)
    PROVE  FormInv'
<1> DEFINE e == editor[q]
<1>1. /\ e \in Requests /\ e.at = "meta" /\ Ends(q) /\ NoteCrossing(q) /\ route' = e.key
      /\ UNCHANGED <<field, revisions, published, papers, misled>>
      /\ field \in [Fields -> FieldRows] /\ \A f \in LiveFields : field[f].key \in FieldKeys
  BY DEF WriteMeta, FormInv, LineInv, FormTables
<1>2. \A r \in Editors : editor'[r] = IF r = q THEN IdleEditor ELSE editor[r]
  BY DEF WriteMeta, Ends, FormInv, LineInv, FormTables
<1>3. crossed' \in BOOLEAN /\ misled' \subseteq Fields /\ route' \in MaybeKeys /\ editor' = [editor EXCEPT ![q] = IdleEditor]
  BY <1>1 DEF NoteCrossing, Ends, FormInv, LineInv, FormTables, Crosses, Requests, RequestFields
<1>4. LiveFields' = LiveFields /\ LiveKeys' = LiveKeys
  BY <1>1 DEF LiveFields, LiveKeys
<1>5. LineInv'
  BY <1>1, <1>3, <1>4, IdleEditorIsTyped, EditKeepsTheLine DEF FormInv
<1>6. InsertsAreNew'
  BY <1>1, <1>2, IdleEditorIsTyped DEF FormInv, InsertsAreNew
<1>7. ASSUME References, Founded(e)
      PROVE  /\ References'
             /\ \A r \in Editors \ {q} : Founded(editor[r]) /\ editor[r].at \notin Renaming \cup {"delete"} =>
                   Founded(editor[r])'
  <2>1. e.key \in LiveKeys \cup {NoKey}
    BY <1>1, <1>7 DEF Founded
  <2> QED
    BY <1>1, <1>2, <1>4, <1>7, <2>1 DEF References, Founded, RuleStands, Renaming
<1> QED
  BY <1>1, <1>5, <1>6, <1>7, WriteKeepsTheForm DEF Writing

\* Nobody else writes between the steps of a renaming.
LEMMA AloneWhileRenaming ==
    ASSUME FormInv, NEW q \in Editors, ~Crosses(q), editor[q].at \in Renaming
    PROVE  \A r \in Editors \ {q} : editor[r].at \notin Writing \cup Renaming
BY NobodyElse

LEMMA RewriteKeeps ==
    ASSUME FormInv, NEW q \in Editors, RewriteRules(q)
    PROVE  FormInv'
<1> DEFINE e == editor[q]
<1>1. /\ e \in Requests /\ e.at = "rewrite" /\ NoteCrossing(q)
      /\ UNCHANGED <<route, revisions, published, papers, misled>>
      /\ field \in [Fields -> FieldRows] /\ \A f \in LiveFields : field[f].key \in FieldKeys
      /\ NoKey \notin FieldKeys
  BY FormAssumption DEF RewriteRules, FormInv, LineInv, FormTables
<1>2. PICK d \in Requests :
        /\ d.at = "reroute" /\ d.of = e.of /\ d.old = e.old /\ d.key = e.key /\ d.rule = e.rule
        /\ editor' = [editor EXCEPT ![q] = d]
  <2> DEFINE on == [editor[q] EXCEPT !.at = "reroute"]
  <2>1. on \in Requests /\ editor' = [editor EXCEPT ![q] = on]
    BY <1>1 DEF RewriteRules, Requests, RequestFields, Renaming
  <2>2. on.at = "reroute" /\ on.of = e.of /\ on.old = e.old /\ on.key = e.key /\ on.rule = e.rule
    BY <1>1 DEF Requests, RequestFields
  <2> HIDE DEF on
  <2> QED
    BY <2>1, <2>2
<1>3. e.key \in FieldKeys
  BY <1>1 DEF Requests, Renaming
<1>4. /\ field' \in [Fields -> FieldRows] /\ LiveFields' = LiveFields
      /\ \A f \in Fields : field'[f].state = field[f].state
      /\ \A f \in LiveFields : /\ field'[f].key = field[f].key
                               /\ field'[f].rule = IF field[f].rule = e.old THEN e.key ELSE field[f].rule
  <2>1. field' = [g \in Fields |-> IF g \in LiveFields
                                   THEN [field[g] EXCEPT !.rule = Rewritten(@, e.old, e.key)] ELSE field[g]]
    BY DEF RewriteRules
  <2>2. \A f \in Fields : field'[f] = IF f \in LiveFields
                                      THEN [field[f] EXCEPT !.rule = Rewritten(@, e.old, e.key)] ELSE field[f]
    BY <2>1
  <2>3. \A f \in Fields : field'[f] \in FieldRows
    BY <1>1, <1>3, <2>2, ZenonT(60) DEF FieldRows, Rewritten, MaybeKeys
  <2>4. \A f \in Fields : field'[f].state = field[f].state
    BY <1>1, <2>2 DEF FieldRows
  <2>5. \A f \in LiveFields : /\ field'[f].key = field[f].key
                              /\ field'[f].rule = IF field[f].rule = e.old THEN e.key ELSE field[f].rule
    BY <1>1, <2>2 DEF FieldRows, Rewritten, LiveFields
  <2>6. field' \in [Fields -> FieldRows]
    BY <2>1, <2>3
  <2> QED
    BY <2>4, <2>5, <2>6 DEF LiveFields
<1>5. LiveKeys' = LiveKeys
  BY <1>4 DEF LiveKeys
<1>6. crossed' \in BOOLEAN /\ misled' \subseteq Fields /\ route' \in MaybeKeys
  BY <1>1 DEF NoteCrossing, FormInv, LineInv, FormTables, Crosses
<1>7. LineInv' /\ \A r \in Editors : editor'[r] = IF r = q THEN d ELSE editor[r]
  BY <1>1, <1>2, <1>4, <1>6, EditKeepsTheLine DEF FormInv
<1>8. InsertsAreNew'
  BY <1>1, <1>2, <1>4, <1>7 DEF FormInv, InsertsAreNew
<1>9. ASSUME ~crossed'
      PROVE  EverythingInPlace'
  <2>1. ~Crosses(q) /\ EverythingInPlace
    BY <1>1, <1>9 DEF NoteCrossing, FormInv
  <2>2. \A r \in Editors \ {q} : editor[r].at \notin Writing \cup Renaming
    BY <1>1, <2>1, AloneWhileRenaming DEF Renaming
  <2>3. Quiet
    BY <1>1, <2>2 DEF Quiet, Halfway, Renaming
  <2>4. References /\ Founded(e)
    BY <2>1, <2>3 DEF EverythingInPlace
  <2>5. /\ e.of \in LiveFields /\ field[e.of].key = e.old /\ e.key # e.old /\ KeyFree(e.of, e.key)
    BY <1>1, <2>4 DEF Founded
  <2>6. KeyFree(d.of, d.key)'
    BY <1>2, <1>4, <2>5 DEF KeyFree, LiveFields
  <2>7. \A f \in LiveFields : field[f].key = e.key => f = e.of
    BY <2>5 DEF KeyFree, LiveFields
  <2>8. e.key \notin LiveKeys
    BY <2>5, <2>7 DEF LiveKeys
  <2>9. \A f \in LiveFields \ misled :
            \/ field'[f].rule = NoKey
            \/ field'[f].rule \in (LiveKeys \cup {e.key}) \ {e.old, field[f].key}
    <3> SUFFICES ASSUME NEW f \in LiveFields \ misled, field'[f].rule # NoKey
                 PROVE  field'[f].rule \in (LiveKeys \cup {e.key}) \ {e.old, field[f].key}
      OBVIOUS
    <3>1. CASE field[f].rule = e.old
      <4>1. field'[f].rule = e.key
        BY <1>4, <3>1
      <4>2. e.old \in LiveKeys /\ e.old \in FieldKeys
        BY <1>1, <2>5 DEF LiveKeys
      <4>3. field[f].key # e.key
        BY <2>8 DEF LiveKeys
      <4> QED
        BY <2>5, <4>1, <4>3
    <3>2. CASE field[f].rule # e.old
      BY <1>4, <2>4, <3>2 DEF References
    <3> QED
      BY <3>1, <3>2
  <2>10. route \in LiveKeys \cup {NoKey}
    BY <2>4 DEF References
  <2>11. Renamed(d)'
    BY <1>1, <1>2, <1>4, <1>5, <2>5, <2>6, <2>9, <2>10 DEF Renamed
  <2>12. \A r \in Editors : Halfway(r)' <=> r = q
    BY <1>2, <1>7, <2>2 DEF Halfway, Renaming
  <2>13. Renamed(editor[q])'
    BY <1>7, <2>11
  <2> QED
    BY <2>12, <2>13 DEF EverythingInPlace, Quiet
<1> QED
  BY <1>7, <1>8, <1>9 DEF FormInv

LEMMA RerouteKeeps ==
    ASSUME FormInv, NEW q \in Editors, Reroute(q)
    PROVE  FormInv'
<1> DEFINE e == editor[q]
<1>1. /\ e \in Requests /\ e.at = "reroute"
      /\ crossed' = (crossed \/ Crosses(q) \/ ~RuleStands(e.key, e.rule))
      /\ route' = Rewritten(route, e.old, e.key)
      /\ UNCHANGED <<field, revisions, published, papers, misled>>
      /\ field \in [Fields -> FieldRows] /\ \A f \in LiveFields : field[f].key \in FieldKeys
      /\ route \in MaybeKeys /\ NoKey \notin FieldKeys
      /\ crossed \in BOOLEAN /\ misled' \subseteq Fields
  BY FormAssumption DEF Reroute, FormInv, LineInv, FormTables
<1>2. e.key \in FieldKeys
  BY <1>1 DEF Requests, Renaming
<1>3. PICK d \in Requests :
        /\ editor' = [editor EXCEPT ![q] = d]
        /\ d.at \in {"idle", "rename"}
        /\ RuleStands(e.key, e.rule) => /\ d.at = "rename" /\ d.of = e.of /\ d.old = e.old
                                        /\ d.key = e.key /\ d.rule = e.rule
  <2> DEFINE on == [editor[q] EXCEPT !.at = "rename"]
  <2>1. CASE ~RuleStands(e.key, e.rule)
    <3>1. editor' = [editor EXCEPT ![q] = IdleEditor]
      BY <2>1 DEF Reroute, Ends
    <3> QED
      BY <2>1, <3>1, IdleEditorIsTyped
  <2>2. CASE RuleStands(e.key, e.rule)
    <3>1. on \in Requests /\ editor' = [editor EXCEPT ![q] = on]
      BY <1>1, <2>2 DEF Reroute, Requests, RequestFields, Renaming
    <3>2. on.at = "rename" /\ on.of = e.of /\ on.old = e.old /\ on.key = e.key /\ on.rule = e.rule
      BY <1>1 DEF Requests, RequestFields
    <3> HIDE DEF on
    <3> QED
      BY <3>1, <3>2
  <2> QED
    BY <2>1, <2>2
<1>4. LiveFields' = LiveFields /\ LiveKeys' = LiveKeys
  BY <1>1 DEF LiveFields, LiveKeys
<1>5. route' \in MaybeKeys /\ crossed' \in BOOLEAN /\ misled' \subseteq Fields
  <2>1. route' \in MaybeKeys
    BY <1>1, <1>2 DEF Rewritten, MaybeKeys
  <2>2. crossed' \in BOOLEAN
    BY <1>1
  <2> QED
    BY <1>1, <2>1, <2>2
<1>6. LineInv' /\ \A r \in Editors : editor'[r] = IF r = q THEN d ELSE editor[r]
  BY <1>1, <1>3, <1>4, <1>5, EditKeepsTheLine DEF FormInv
<1>7. InsertsAreNew'
  BY <1>1, <1>3, <1>6 DEF FormInv, InsertsAreNew
<1>8. ASSUME ~crossed'
      PROVE  EverythingInPlace'
  <2>1. /\ ~Crosses(q) /\ RuleStands(e.key, e.rule) /\ EverythingInPlace
        /\ Renamed(e)
    BY <1>1, <1>8 DEF FormInv, EverythingInPlace, Halfway
  <2>2. \A r \in Editors \ {q} : editor[r].at \notin Writing \cup Renaming
    BY <1>1, <2>1, AloneWhileRenaming DEF Renaming
  <2>3. route' \in ((LiveKeys \ {e.old}) \cup {e.key, NoKey})
    BY <1>1, <2>1 DEF Renamed, Rewritten
  <2>4. Renamed(d)'
    BY <1>1, <1>3, <1>4, <2>1, <2>3 DEF Renamed, KeyFree, RuleStands
  <2>5. Renamed(editor[q])'
    BY <1>6, <2>4
  <2>6. \A r \in Editors : Halfway(r)' <=> r = q
    BY <1>3, <1>6, <2>1, <2>2 DEF Halfway, Renaming
  <2> QED
    BY <2>5, <2>6 DEF EverythingInPlace, Quiet
<1> QED
  BY <1>6, <1>7, <1>8 DEF FormInv

LEMMA RenameKeeps ==
    ASSUME FormInv, NEW q \in Editors, UpdateField(q), editor[q].at = "rename"
    PROVE  FormInv'
<1> DEFINE e == editor[q]
           row == [field[e.of] EXCEPT !.key = e.key, !.rule = e.rule]
<1>1. /\ e \in Requests /\ Ends(q) /\ NoteCrossing(q)
      /\ UNCHANGED <<route, revisions, published, papers>>
      /\ field \in [Fields -> FieldRows] /\ \A f \in LiveFields : field[f].key \in FieldKeys
  BY DEF UpdateField, FormInv, LineInv, FormTables
<1>2. IF e.of \in LiveFields /\ KeyFree(e.of, e.key)
      THEN /\ field' = [field EXCEPT ![e.of] = row]
           /\ misled' = IF e.rule = e.old THEN misled \cup {e.of} ELSE misled \ {e.of}
      ELSE UNCHANGED <<field, misled>>
  BY <1>1 DEF UpdateField
<1>3. e.of \in LiveFields => /\ row \in FieldRows /\ row.state = "live" /\ row.key = e.key /\ row.rule = e.rule
                             /\ e.key \in FieldKeys /\ field[e.of].state = "live"
  BY <1>1 DEF FieldRows, Requests, RequestFields, LiveFields, Renaming
<1> HIDE DEF row
<1>4. /\ field' \in [Fields -> FieldRows] /\ LiveFields' = LiveFields
      /\ \A f \in Fields : field'[f] = field[f] \/ (f = e.of /\ f \in LiveFields /\ field'[f] = row)
  BY <1>1, <1>2, <1>3 DEF LiveFields
<1>5. crossed' \in BOOLEAN /\ misled' \subseteq Fields /\ route' \in MaybeKeys /\ editor' = [editor EXCEPT ![q] = IdleEditor]
  BY <1>1, <1>2 DEF NoteCrossing, Ends, FormInv, LineInv, FormTables, Crosses, LiveFields
<1>6. LineInv' /\ \A r \in Editors : editor'[r] = IF r = q THEN IdleEditor ELSE editor[r]
  <2>1. (\A f \in LiveFields : field[f].key \in FieldKeys)'
    BY <1>1, <1>3, <1>4 DEF LiveFields
  <2> QED
    BY <1>1, <1>4, <1>5, <2>1, IdleEditorIsTyped, EditKeepsTheLine DEF FormInv
<1>7. InsertsAreNew'
  BY <1>1, <1>4, <1>6, IdleEditorIsTyped DEF FormInv, InsertsAreNew, LiveFields
<1>8. ASSUME ~crossed'
      PROVE  EverythingInPlace'
  <2>1. ~Crosses(q) /\ Renamed(e)
    BY <1>1, <1>8 DEF NoteCrossing, FormInv, EverythingInPlace, Halfway
  <2>2. \A r \in Editors \ {q} : editor[r].at \notin Writing \cup Renaming
    BY <2>1, AloneWhileRenaming DEF Renaming
  <2>3. /\ e.of \in LiveFields /\ field[e.of].key = e.old /\ e.key # e.old /\ KeyFree(e.of, e.key)
        /\ route \in ((LiveKeys \ {e.old}) \cup {e.key, NoKey})
        /\ RuleStands(e.key, e.rule)
        /\ \A f \in LiveFields \ misled :
              \/ field[f].rule = NoKey
              \/ field[f].rule \in (LiveKeys \cup {e.key}) \ {e.old, field[f].key}
    BY <2>1 DEF Renamed
  <2>4. /\ field'[e.of] = row /\ \A f \in LiveFields \ {e.of} : field'[f] = field[f]
        /\ misled \ {e.of} \subseteq misled' /\ (e.of \notin misled' => e.rule # e.old)
    BY <1>1, <1>2, <2>3 DEF LiveFields
  <2>5. (LiveKeys \ {e.old}) \cup {e.key} \subseteq LiveKeys'
    BY <1>3, <1>4, <2>3, <2>4 DEF LiveKeys
  <2>6. References'
    BY <1>1, <1>3, <1>4, <2>3, <2>4, <2>5 DEF References, RuleStands
  <2>7. \A r \in Editors : Founded(editor[r])' /\ ~Halfway(r)'
    BY <1>6, <2>2, IdleEditorIsTyped DEF Founded, Halfway, Writing, Renaming
  <2> QED
    BY <2>6, <2>7 DEF EverythingInPlace
<1> QED
  BY <1>6, <1>7, <1>8 DEF FormInv

\* What a request has found when it comes.
LEMMA StartsKeepTheForm ==
    ASSUME FormInv, NEW q \in Editors,
           \/ \E k \in FieldKeys, rule \in MaybeKeys : StartInsert(q, k, rule)
           \/ \E f \in Fields, k \in FieldKeys, rule \in MaybeKeys : StartRename(q, f, k, rule)
           \/ \E f \in Fields, rule \in MaybeKeys : StartRevise(q, f, rule)
           \/ \E f \in Fields : StartDelete(q, f)
           \/ \E k \in MaybeKeys : StartMeta(q, k)
           \/ StartPublish(q) \/ OpenForm(q)
    PROVE  FormInv'
<1> DEFINE Known(e) == /\ e \in Requests /\ Begin(q, e)
                       /\ e.at = "publish" => e.number \in 1..Len(revisions) + 1
                       /\ e.at = "page" => e.shown <= published
                       /\ e.at \notin {"reroute", "rename", "submit"}
                       /\ e.at = "insert" => e.of \in NewFields
                       /\ Quiet /\ References => Founded(e)
<1>1. /\ IdleEditor \in RequestFields /\ \A f \in LiveFields : f \in Fields /\ field[f].key \in FieldKeys
      /\ FieldKeys \subseteq MaybeKeys /\ published \in Nat /\ LineInv /\ revisions \in Seq(Nat)
  BY IdleEditorIsTyped DEF Requests, FormInv, LineInv, FormTables, LiveFields, MaybeKeys
<1>2. ASSUME NEW k \in FieldKeys, NEW rule \in MaybeKeys, StartInsert(q, k, rule)
      PROVE  \E e : Known(e)
  <2> DEFINE f == CHOOSE f \in NewFields : TRUE
             e == [IdleEditor EXCEPT !.at = "insert", !.of = f, !.key = k, !.rule = rule]
  <2>1. f \in NewFields /\ f \in Fields
    BY <1>2 DEF StartInsert, NewFields
  <2>2. Begin(q, e) /\ RuleStands(k, rule)
    BY <1>2 DEF StartInsert
  <2> HIDE DEF f
  <2>3. e \in Requests /\ e.at = "insert" /\ e.of = f /\ e.key = k /\ e.rule = rule
    BY <1>1, <2>1 DEF Requests, RequestFields, Writing
  <2> HIDE DEF e
  <2> QED
    BY <2>1, <2>2, <2>3 DEF Founded
<1>3. ASSUME NEW f \in Fields, NEW k \in FieldKeys, NEW rule \in MaybeKeys, StartRename(q, f, k, rule)
      PROVE  \E e : Known(e)
  <2> DEFINE e == [IdleEditor EXCEPT !.at = "rewrite", !.of = f, !.old = field[f].key, !.key = k,
                                     !.rule = rule]
  <2>1. Begin(q, e) /\ f \in LiveFields /\ k # field[f].key /\ KeyFree(f, k)
    BY <1>3 DEF StartRename
  <2>2. e \in Requests /\ e.at = "rewrite" /\ e.of = f /\ e.key = k /\ e.old = field[f].key
    BY <1>1, <2>1 DEF Requests, RequestFields, Renaming
  <2> HIDE DEF e
  <2> QED
    BY <2>1, <2>2 DEF Founded
<1>4. ASSUME NEW f \in Fields, NEW rule \in MaybeKeys, StartRevise(q, f, rule)
      PROVE  \E e : Known(e)
  <2> DEFINE e == [IdleEditor EXCEPT !.at = "update", !.of = f, !.old = field[f].key,
                                     !.key = field[f].key, !.rule = rule]
  <2>1. Begin(q, e) /\ f \in LiveFields /\ RuleStands(field[f].key, rule)
    BY <1>4 DEF StartRevise
  <2>2. e \in Requests /\ e.at = "update" /\ e.of = f /\ e.key = field[f].key /\ e.rule = rule
    BY <1>1, <2>1 DEF Requests, RequestFields, Writing
  <2> HIDE DEF e
  <2> QED
    BY <2>1, <2>2 DEF Founded
<1>5. ASSUME NEW f \in Fields, StartDelete(q, f)
      PROVE  \E e : Known(e)
  <2> DEFINE e == [IdleEditor EXCEPT !.at = "delete", !.of = f]
  <2>1. Begin(q, e) /\ f \in LiveFields /\ Unused(f)
    BY <1>5 DEF StartDelete
  <2>2. e \in Requests /\ e.at = "delete" /\ e.of = f
    BY <1>1, <2>1 DEF Requests, RequestFields, Writing, Renaming
  <2> HIDE DEF e
  <2> QED
    BY <2>1, <2>2 DEF Founded
<1>6. ASSUME NEW k \in MaybeKeys, StartMeta(q, k)
      PROVE  \E e : Known(e)
  <2> DEFINE e == [IdleEditor EXCEPT !.at = "meta", !.key = k]
  <2>1. Begin(q, e) /\ k \in LiveKeys \cup {NoKey, route}
    BY <1>6 DEF StartMeta
  <2>2. e \in Requests /\ e.at = "meta" /\ e.key = k
    BY <1>1, <2>1 DEF Requests, RequestFields, Writing, Renaming
  <2> HIDE DEF e
  <2> QED
    BY <2>1, <2>2 DEF Founded, References
<1>7. ASSUME StartPublish(q)
      PROVE  \E e : Known(e)
  <2>1. PICK n : n = Latest + 1 /\ n \in Nat /\ n \in 1..Len(revisions) + 1
    <3>1. Latest \in 0..Len(revisions)
      BY <1>1, LatestIsLast
    <3>2. Len(revisions) \in Nat
      BY <1>1
    <3> QED
      BY <3>1, <3>2
  <2> DEFINE e == [IdleEditor EXCEPT !.at = "publish", !.number = n]
  <2>2. Begin(q, e)
    BY <1>7, <2>1 DEF StartPublish
  <2>3. e \in Requests /\ e.at = "publish" /\ e.number = n
    BY <1>1, <2>1 DEF Requests, RequestFields, Writing, Renaming
  <2> HIDE DEF e
  <2> QED
    BY <2>1, <2>2, <2>3 DEF Founded
<1>8. ASSUME OpenForm(q)
      PROVE  \E e : Known(e)
  <2> DEFINE e == [IdleEditor EXCEPT !.at = "page", !.shown = published]
  <2>1. Begin(q, e)
    BY <1>8 DEF OpenForm
  <2>2. e \in Requests /\ e.at = "page" /\ e.shown = published
    BY <1>1 DEF Requests, RequestFields, Writing, Renaming
  <2> HIDE DEF e
  <2> QED
    BY <1>1, <2>1, <2>2 DEF Founded
<1>9. \E e : Known(e)
  <2> HIDE DEF Known
  <2> QED
    BY <1>2, <1>3, <1>4, <1>5, <1>6, <1>7, <1>8
<1> QED
  BY <1>9, BeginKeepsTheForm

LEMMA FormGoesOn ==
    ASSUME FormInv, [FormNext]_formVars
    PROVE  FormInv'
<1>1. ASSUME NEW q \in Editors, EditorStep(q)
      PROVE  FormInv'
  <2>1. CASE PublishRevision(q) \/ Submit(q) \/ Resubmit(q)
    <3>1. LineInv'
      BY <2>1, PublishingKeepsTheLine, AnsweringKeepsTheLine DEF FormInv
    <3>2. /\ editor' = [editor EXCEPT ![q] = IdleEditor]
          /\ UNCHANGED <<field, route, crossed, misled>> /\ ~Halfway(q)
      BY <2>1 DEF PublishRevision, Submit, Resubmit, Ends, Halfway
    <3> QED
      BY <3>1, <3>2, IdleEditorIsTyped, EndKeepsTheForm
  <2>2. CASE EditorDies(q)
    <3>1. /\ editor' = [editor EXCEPT ![q] = IdleEditor]
          /\ UNCHANGED <<field, route, revisions, published, papers, misled>>
          /\ (crossed => crossed') /\ (Halfway(q) => crossed')
      BY <2>2 DEF EditorDies, Ends, tables, Halfway
    <3>2. crossed' \in BOOLEAN /\ LiveFields' = LiveFields
      BY <2>2, <3>1 DEF EditorDies, FormInv, LineInv, FormTables, LiveFields
    <3>3. LineInv'
      <4>1. /\ field' \in [Fields -> FieldRows] /\ misled' \subseteq Fields
            /\ route' \in MaybeKeys /\ (\A f \in LiveFields : field[f].key \in FieldKeys)'
        BY <3>1, <3>2 DEF FormInv, LineInv, FormTables
      <4> QED
        BY <3>1, <3>2, <4>1, IdleEditorIsTyped, EditKeepsTheLine DEF FormInv
    <3> QED
      BY <3>1, <3>3, IdleEditorIsTyped, EndKeepsTheForm
  <2>3. CASE PostAnswers(q)
    <3>1. LineInv' /\ \E e \in Requests : e.at = "submit" /\ editor' = [editor EXCEPT ![q] = e]
      BY <2>3, PostingKeepsTheLine DEF FormInv
    <3>2. UNCHANGED <<field, route, crossed, misled>> /\ ~Halfway(q)
      BY <2>3 DEF PostAnswers, tables, Halfway
    <3> QED
      BY <3>1, <3>2, EndKeepsTheForm
  <2>4. CASE UpdateField(q)
    BY <2>4, ReviseKeeps, RenameKeeps DEF UpdateField
  <2> QED
    BY <1>1, <2>1, <2>2, <2>3, <2>4, StartsKeepTheForm, InsertKeeps, RewriteKeeps, RerouteKeeps,
       DeleteKeeps, RouteKeeps DEF EditorStep
<1>2. ASSUME UNCHANGED formVars
      PROVE  FormInv'
  BY <1>2, SMTT(30) DEF formVars, FormInv, LineInv, FormTables, LiveFields, RevisionsAreALine, NumbersAreNext,
     ShownIsKnown, AnswersFitTheirForm, InsertsAreNew, EverythingInPlace, Quiet, Halfway, References,
     Founded, Renamed, LiveKeys, RuleStands, Unused, UnusedInRules, KeyFree
<1> QED
  BY <1>1, <1>2 DEF FormNext

\* For any number of fields, editors and answers: the revisions of a form are
\* one line; answers pin the revision they were checked against, until they are
\* sent anew, and that is never one from before the page that sent them; and
\* every rule and the route name a field that is there, as long as no renaming
\* or deletion met another request and no renaming stopped halfway, but for the
\* rules of fields that were renamed with a rule naming their own old key
\* (form-admin.ts, form-revisions.ts, submit/[formSlug]/route.ts).
THEOREM FormsStayWhole == FormSpec => []FormIsWhole
<1>1. FormInv => FormIsWhole
  <2> SUFFICES ASSUME FormInv, ~crossed, NothingHalfRenamed
               PROVE  References
    BY DEF FormInv, LineInv, FormIsWhole, ReferencesAreLive, RuleIsLive, References
  <2> QED
    BY DEF FormInv, EverythingInPlace, Quiet, Halfway, NothingHalfRenamed, Renaming
<1> QED
  BY <1>1, FormStarts, FormGoesOn, PTL DEF FormSpec

\* A request whose revisions are within the bound.
InBound(e) == e.shown \in 0..LastRevision /\ e.number \in 0..LastRevision

\* No revision beyond the bound is written or asked for.
FormBounds ==
    /\ Len(revisions) <= LastRevision
    /\ \A q \in Editors : InBound(editor[q])
    /\ papers \in Seq(Papers)

LEMMA BoundsAreTypes == LineInv /\ FormBounds => FormTypeOK
<1> SUFFICES ASSUME LineInv, FormBounds PROVE FormTypeOK
  OBVIOUS
<1>1. /\ revisions \in Seq(Nat) /\ Len(revisions) \in Nat /\ Len(revisions) <= LastRevision
      /\ \A i \in 1..Len(revisions) : revisions[i] = i
      /\ published = Len(revisions) /\ LastRevision \in Nat
  <2>1. revisions \in Seq(Nat) /\ LastRevision \in Nat
    BY FormAssumption DEF LineInv, FormTables
  <2>2. Len(revisions) \in Nat /\ DOMAIN revisions = 1..Len(revisions)
    BY <2>1
  <2> QED
    BY <2>1, <2>2 DEF LineInv, RevisionsAreALine, FormBounds
<1>2. revisions \in Seq(1..LastRevision)
  <2>1. \A i \in 1..Len(revisions) : revisions[i] \in 1..LastRevision
    BY <1>1
  <2>2. \E n \in Nat : revisions \in [1..n -> 1..LastRevision]
    BY <1>1, <2>1
  <2> DEFINE S == 1..LastRevision
  <2>3. Seq(S) = UNION {[1..n -> S] : n \in Nat}
    BY SeqDef
  <2>4. \E n \in Nat : revisions \in [1..n -> S]
    BY <2>2
  <2> HIDE DEF S
  <2>5. revisions \in Seq(S)
    BY <2>3, <2>4
  <2> QED
    BY <2>5 DEF S
<1>5. published \in 0..LastRevision
  BY <1>1
<1>3. SomeField \in Fields
  BY SomeFieldExists DEF SomeField
<1>4. editor \in [Editors ->
          [at : Writing \cup Renaming \cup {"idle", "publish", "page", "submit"},
           of : Fields, old : MaybeKeys, key : MaybeKeys, rule : MaybeKeys,
           shown : 0..LastRevision, number : 0..LastRevision]]
  <2>1. Fields \cup {SomeField} = Fields
    BY <1>3
  <2>2. editor \in [Editors -> RequestFields] /\ \A q \in Editors : InBound(editor[q])
    BY DEF LineInv, FormTables, FormBounds, Requests
  <2> QED
    BY <2>1, <2>2 DEF RequestFields, InBound
<1> QED
  BY <1>2, <1>4, <1>5 DEF LineInv, FormTables, FormBounds, FormTypeOK, FieldRows

LEMMA BoundsStart == FormInit => FormBounds
BY FormAssumption DEF FormInit, FormBounds, InBound, IdleEditor

\* A request that comes has a number in hand if it is to publish or to answer.
LEMMA RequestsAreBounded ==
    ASSUME LineInv, FormBounds, NEW q \in Editors,
           \/ \E k \in FieldKeys, rule \in MaybeKeys : StartInsert(q, k, rule)
           \/ \E f \in Fields, k \in FieldKeys, rule \in MaybeKeys : StartRename(q, f, k, rule)
           \/ \E f \in Fields, rule \in MaybeKeys : StartRevise(q, f, rule)
           \/ \E f \in Fields : StartDelete(q, f)
           \/ \E k \in MaybeKeys : StartMeta(q, k)
           \/ StartPublish(q) \/ OpenForm(q)
    PROVE  \E e : Begin(q, e) /\ InBound(e)
<1>1. /\ revisions \in Seq(Nat) /\ Len(revisions) \in Nat /\ Len(revisions) <= LastRevision
      /\ published = Len(revisions) /\ LastRevision \in Nat /\ Latest \in 0..Len(revisions)
  BY FormAssumption, LatestIsLast DEF LineInv, FormTables, RevisionsAreALine, FormBounds
<1>2. 0 \in 0..LastRevision /\ published \in 0..LastRevision
  BY <1>1
<1>3. ASSUME NEW k \in FieldKeys, NEW rule \in MaybeKeys, StartInsert(q, k, rule)
      PROVE  \E e : Begin(q, e) /\ e.number = 0 /\ e.shown = 0
  <2> DEFINE f == CHOOSE f \in NewFields : TRUE
             e == [IdleEditor EXCEPT !.at = "insert", !.of = f, !.key = k, !.rule = rule]
  <2>1. Begin(q, e)
    BY <1>3 DEF StartInsert
  <2> HIDE DEF f
  <2>2. e.number = 0 /\ e.shown = 0
    BY DEF IdleEditor
  <2> HIDE DEF e
  <2> QED
    BY <2>1, <2>2
<1>4. ASSUME NEW f \in Fields, NEW k \in FieldKeys, NEW rule \in MaybeKeys,
             StartRename(q, f, k, rule)
      PROVE  \E e : Begin(q, e) /\ e.number = 0 /\ e.shown = 0
  <2> DEFINE e == [IdleEditor EXCEPT !.at = "rewrite", !.of = f, !.old = field[f].key, !.key = k,
                                     !.rule = rule]
  <2>1. Begin(q, e)
    BY <1>4 DEF StartRename
  <2>2. e.number = 0 /\ e.shown = 0
    BY DEF IdleEditor
  <2> HIDE DEF e
  <2> QED
    BY <2>1, <2>2
<1>5. ASSUME NEW f \in Fields, NEW rule \in MaybeKeys, StartRevise(q, f, rule)
      PROVE  \E e : Begin(q, e) /\ e.number = 0 /\ e.shown = 0
  <2> DEFINE e == [IdleEditor EXCEPT !.at = "update", !.of = f, !.old = field[f].key,
                                     !.key = field[f].key, !.rule = rule]
  <2>1. Begin(q, e)
    BY <1>5 DEF StartRevise
  <2>2. e.number = 0 /\ e.shown = 0
    BY DEF IdleEditor
  <2> HIDE DEF e
  <2> QED
    BY <2>1, <2>2
<1>6. ASSUME NEW f \in Fields, StartDelete(q, f)
      PROVE  \E e : Begin(q, e) /\ e.number = 0 /\ e.shown = 0
  <2> DEFINE e == [IdleEditor EXCEPT !.at = "delete", !.of = f]
  <2>1. Begin(q, e)
    BY <1>6 DEF StartDelete
  <2>2. e.number = 0 /\ e.shown = 0
    BY DEF IdleEditor
  <2> HIDE DEF e
  <2> QED
    BY <2>1, <2>2
<1>7. ASSUME NEW k \in MaybeKeys, StartMeta(q, k)
      PROVE  \E e : Begin(q, e) /\ e.number = 0 /\ e.shown = 0
  <2> DEFINE e == [IdleEditor EXCEPT !.at = "meta", !.key = k]
  <2>1. Begin(q, e)
    BY <1>7 DEF StartMeta
  <2>2. e.number = 0 /\ e.shown = 0
    BY DEF IdleEditor
  <2> HIDE DEF e
  <2> QED
    BY <2>1, <2>2
<1>8. CASE StartPublish(q)
  <2> DEFINE n == Latest + 1
             e == [IdleEditor EXCEPT !.at = "publish", !.number = n]
  <2>1. Begin(q, e) /\ Latest < LastRevision
    BY <1>8 DEF StartPublish
  <2>2. n \in 0..LastRevision
    BY <1>1, <2>1
  <2> HIDE DEF n
  <2>3. e.number = n /\ e.shown = 0
    BY DEF IdleEditor
  <2> HIDE DEF e
  <2> QED
    BY <1>2, <2>1, <2>2, <2>3 DEF InBound
<1>9. CASE OpenForm(q)
  <2> DEFINE e == [IdleEditor EXCEPT !.at = "page", !.shown = published]
  <2>1. e.number = 0 /\ e.shown = published /\ Begin(q, e)
    BY <1>9 DEF OpenForm, IdleEditor
  <2> HIDE DEF e
  <2> QED
    BY <1>2, <2>1 DEF InBound
<1> QED
  BY <1>2, <1>3, <1>4, <1>5, <1>6, <1>7, <1>8, <1>9 DEF InBound

LEMMA BoundsStay ==
    ASSUME LineInv, LineInv', FormBounds, [FormNext]_formVars
    PROVE  FormBounds'
<1>1. /\ revisions \in Seq(Nat) /\ Len(revisions) \in Nat /\ Len(revisions) <= LastRevision
      /\ published = Len(revisions) /\ LastRevision \in Nat
      /\ published' = Len(revisions')
  BY FormAssumption DEF LineInv, FormTables, RevisionsAreALine, FormBounds
<1>2. DOMAIN editor = Editors /\ \A q \in Editors : InBound(editor[q])
  BY DEF LineInv, FormTables, FormBounds
<1>0. InBound(IdleEditor)
  BY <1>1 DEF IdleEditor, InBound
<1>3. ASSUME NEW q \in Editors, NEW e, editor' = [editor EXCEPT ![q] = e],
             InBound(e)
      PROVE  \A r \in Editors : InBound(editor'[r])
  BY <1>2, <1>3
<1>4. ASSUME UNCHANGED <<revisions, papers>>, \A r \in Editors : InBound(editor'[r])
      PROVE  FormBounds'
  BY <1>4 DEF FormBounds
<1>5. ASSUME NEW q \in Editors, Ends(q), UNCHANGED <<revisions, papers>>
      PROVE  FormBounds'
  BY <1>0, <1>3, <1>4, <1>5 DEF Ends
<1>6. ASSUME NEW q \in Editors, EditorStep(q)
      PROVE  FormBounds'
  <2>1. ASSUME NEW e, Begin(q, e), InBound(e)
        PROVE  FormBounds'
    BY <1>3, <1>4, <2>1 DEF Begin, tables
  <2>2. CASE \/ \E k \in FieldKeys, rule \in MaybeKeys : StartInsert(q, k, rule)
             \/ \E f \in Fields, k \in FieldKeys, rule \in MaybeKeys : StartRename(q, f, k, rule)
             \/ \E f \in Fields, rule \in MaybeKeys : StartRevise(q, f, rule)
             \/ \E f \in Fields : StartDelete(q, f)
             \/ \E k \in MaybeKeys : StartMeta(q, k)
             \/ StartPublish(q) \/ OpenForm(q)
    <3>1. PICK e : Begin(q, e) /\ InBound(e)
      BY <2>2, RequestsAreBounded
    <3> QED
      BY <2>1, <3>1
  <2>5. CASE InsertField(q) \/ UpdateField(q) \/ DeleteField(q) \/ WriteMeta(q) \/ EditorDies(q)
    BY <1>5, <2>5 DEF InsertField, UpdateField, DeleteField, WriteMeta, EditorDies, tables
  <2>6. CASE RewriteRules(q) \/ Reroute(q)
    <3>1. CASE Ends(q)
      BY <1>5, <2>6, <3>1 DEF RewriteRules, Reroute
    <3>2. CASE ~Ends(q)
      <4>1. PICK place : editor' = [editor EXCEPT ![q].at = place]
        BY <2>6, <3>2 DEF RewriteRules, Reroute
      <4>2. editor[q] \in Requests
        BY DEF LineInv, FormTables
      <4>3. InBound([editor[q] EXCEPT !.at = place])
        BY <1>2, <4>2 DEF InBound, Requests, RequestFields
      <4>4. editor' = [editor EXCEPT ![q] = [editor[q] EXCEPT !.at = place]]
        BY <4>1
      <4> QED
        BY <1>2, <1>3, <1>4, <2>6, <4>3, <4>4 DEF RewriteRules, Reroute
    <3> QED
      BY <3>1, <3>2
  <2>7. CASE PublishRevision(q)
    <3>1. CASE NumberFree(editor[q].number)
      <4>1. Len(revisions') = editor[q].number
        BY <1>1, <2>7, <3>1 DEF PublishRevision
      <4>2. Len(revisions') <= LastRevision
        BY <1>1, <1>2, <4>1 DEF InBound
      <4>3. Ends(q) /\ UNCHANGED papers
        BY <2>7 DEF PublishRevision
      <4> QED
        BY <1>0, <1>3, <4>2, <4>3 DEF Ends, FormBounds
    <3>2. CASE ~NumberFree(editor[q].number)
      BY <1>5, <2>7, <3>2 DEF PublishRevision
    <3> QED
      BY <3>1, <3>2
  <2>8. CASE Submit(q) \/ Resubmit(q)
    <3> DEFINE n == editor[q].number
               m == editor[q].shown
    <3>1. n \in 0..LastRevision /\ m \in 0..LastRevision /\ papers \in Seq(Papers)
      BY <1>2 DEF FormBounds, InBound
    <3> HIDE DEF n, m
    <3>2. papers' \in Seq(Papers)
      <4>1. CASE Submit(q)
        <5> DEFINE paper == [pinned |-> n, shown |-> m, checked |-> n, edited |-> FALSE]
        <5>1. papers' = Append(papers, paper)
          BY <4>1 DEF Submit, Pinned, n, m
        <5>2. paper \in Papers
          BY <3>1 DEF Papers
        <5> HIDE DEF paper
        <5> QED
          BY <3>1, <5>1, <5>2
      <4>2. CASE Resubmit(q)
        <5>1. PICK i \in DOMAIN papers :
                 papers' = [papers EXCEPT ![i].shown = m, ![i].checked = n, ![i].edited = TRUE]
          BY <4>2 DEF Resubmit, n, m
        <5> DEFINE paper == [papers[i] EXCEPT !.shown = m, !.checked = n, !.edited = TRUE]
        <5>2. papers[i] \in Papers
          BY <3>1, ElementOfSeq
        <5>3. paper \in Papers /\ papers' = [papers EXCEPT ![i] = paper]
          BY <3>1, <5>1, <5>2 DEF Papers
        <5> HIDE DEF paper
        <5> QED
          BY <3>1, <5>3
      <4> QED
        BY <2>8, <4>1, <4>2
    <3>3. Ends(q) /\ UNCHANGED revisions
      BY <2>8 DEF Submit, Resubmit
    <3> QED
      BY <1>0, <1>1, <1>3, <3>2, <3>3 DEF Ends, FormBounds
  <2>9. CASE PostAnswers(q)
    <3>1. editor[q] \in Requests /\ published \in 0..LastRevision
      BY <1>1 DEF LineInv, FormTables
    <3> DEFINE e == [editor[q] EXCEPT !.at = "submit", !.number = published]
    <3>2. InBound(e)
      BY <1>2, <3>1 DEF InBound, Requests, RequestFields
    <3>3. editor' = [editor EXCEPT ![q] = e] /\ UNCHANGED <<revisions, papers>>
      BY <2>9 DEF PostAnswers, tables
    <3> HIDE DEF e
    <3> QED
      BY <1>3, <1>4, <3>2, <3>3
  <2> QED
    BY <1>6, <2>2, <2>5, <2>6, <2>7, <2>8, <2>9 DEF EditorStep
<1>7. CASE UNCHANGED formVars
  BY <1>7 DEF formVars, FormBounds
<1> QED
  BY <1>6, <1>7 DEF FormNext

\* Whatever edits, publications and submissions overlap, no revision beyond the
\* last is written, pinned or answered, and fields, route and requests keep
\* their types.
THEOREM FormTypes == FormSpec => []FormTypeOK
<1> DEFINE Both == FormInv /\ FormBounds
<1>1. FormInit => Both
  BY FormStarts, BoundsStart
<1>2. Both /\ [FormNext]_formVars => Both'
  BY FormGoesOn, BoundsStay DEF FormInv
<1>3. Both => FormTypeOK
  BY BoundsAreTypes DEF FormInv
<1> QED
  BY <1>1, <1>2, <1>3, PTL DEF FormSpec

-----------------------------------------------------------------------------

(***************************************************************************)
(* The board. BoardInv says of each item that a request which is out       *)
(* remembers what the room had, and of the others that the board shows it. *)
(***************************************************************************)

IsRow(row) == row = [slot |-> row.slot, public |-> row.public]

Kinds == {"place", "unplace", "publish", "unpublish"}

IsRequest(f) == f = [at |-> f.at, kind |-> f.kind, item |-> f.item, want |-> f.want,
                     keeps |-> f.keeps, was |-> f.was, reply |-> f.reply]

BoardTables ==
    /\ DOMAIN agenda = Items /\ agenda = [i \in Items |-> agenda[i]]
    /\ DOMAIN board = Items /\ board = [i \in Items |-> board[i]]
    /\ \A i \in Items : IsRow(agenda[i]) /\ IsRow(board[i])
    /\ DOMAIN fetcher = Fetchers /\ fetcher = [q \in Fetchers |-> fetcher[q]]
    /\ \A q \in Fetchers : fetcher[q].at # "idle" =>
          /\ IsRequest(fetcher[q]) /\ fetcher[q].kind \in Kinds
          /\ fetcher[q].item \in Items => IsRow(fetcher[q].was)
          /\ fetcher[q].reply = Unset \/ IsRow(fetcher[q].reply)

\* What the page and the room hold of a session while one request for it is
\* under way.
InStep(f) ==
    /\ f.at \in {"sent", "answered"}
    /\ f.kind # "place" => board[f.item] = f.was
    /\ f.at = "sent" \/ f.reply = Unset => agenda[f.item] = f.was
    /\ f.at = "answered" /\ f.reply # Unset =>
          /\ agenda[f.item] = f.reply
          /\ f.kind = "publish" => f.reply = [slot |-> f.was.slot, public |-> TRUE]
          /\ f.kind = "unpublish" => f.reply = [slot |-> f.was.slot, public |-> FALSE]

Alone(q) ==
    \A r \in Fetchers \ {q} : fetcher[r].at # "idle" => fetcher[r].item # fetcher[q].item

BoardInv ==
    /\ BoardTables
    /\ \A q \in Fetchers : fetcher[q].at # "idle" /\ fetcher[q].item \in Items \ astray =>
          Alone(q) /\ InStep(fetcher[q])
    /\ BoardAgrees

LEMMA BoardStarts == BoardInit => BoardInv
<1> SUFFICES ASSUME BoardInit PROVE BoardInv
  OBVIOUS
<1>1. \A q \in Fetchers : fetcher[q].at = "idle"
  BY DEF BoardInit, IdleFetcher
<1>2. \A i \in Items : board[i] = Unplaced /\ agenda[i] = Unplaced
  BY DEF BoardInit
<1>3. IsRow(Unplaced)
  BY DEF IsRow, Unplaced
<1>4. BoardTables
  BY <1>1, <1>2, <1>3 DEF BoardInit, BoardTables
<1> QED
  BY <1>1, <1>2, <1>4 DEF BoardInv, BoardAgrees

\* A request that the page makes in this step, of what it showed.
New(r) ==
    /\ fetcher[r].at = "idle" /\ fetcher'[r].at = "sent" /\ IsRequest(fetcher'[r])
    /\ fetcher'[r].kind \in Kinds
    /\ fetcher'[r].was = board[fetcher'[r].item] /\ fetcher'[r].reply = Unset
    /\ fetcher'[r].kind # "place" => board'[fetcher'[r].item] = board[fetcher'[r].item]

\* One request or many: each is of a session of its own, and of one that has
\* another under way the page does not know.
LEMMA AsksKeep ==
    ASSUME BoardInv, UNCHANGED agenda, astray \subseteq astray',
           DOMAIN fetcher' = Fetchers, fetcher' = [q \in Fetchers |-> fetcher'[q]],
           DOMAIN board' = Items, board' = [i \in Items |-> board'[i]], \A i \in Items : IsRow(board'[i]),
           \A r \in Fetchers : fetcher'[r] = fetcher[r] \/ New(r),
           \A r, s \in Fetchers : New(r) /\ New(s) /\ r # s => fetcher'[r].item # fetcher'[s].item,
           \A r \in Fetchers : New(r) /\ fetcher'[r].item \in Items \ astray' => ~Pending(fetcher'[r].item),
           \A i \in Items \ astray' :
              \/ board'[i] = board[i]
              \/ ~Pending(i) /\ \E r \in Fetchers : New(r) /\ fetcher'[r].item = i
    PROVE  BoardInv'
<1>1. BoardTables'
  BY DEF BoardInv, BoardTables, New
<1>2. ASSUME NEW r \in Fetchers, fetcher'[r].at # "idle", fetcher'[r].item \in Items \ astray'
      PROVE  Alone(r)' /\ InStep(fetcher[r])'
  <2> DEFINE i == fetcher'[r].item
  <2>1. CASE New(r)
    <3>1. ~Pending(i) /\ i \in Items \ astray /\ board[i] = agenda[i]
      BY <1>2, <2>1 DEF New, BoardInv, BoardAgrees
    <3>2. Alone(r)'
      BY <2>1, <3>1 DEF Alone, Pending
    <3>3. InStep(fetcher[r])'
      BY <2>1, <3>1 DEF InStep, New
    <3> QED
      BY <3>2, <3>3
  <2>2. CASE fetcher'[r] = fetcher[r]
    <3>1. Pending(i) /\ i \in Items \ astray' /\ Alone(r) /\ InStep(fetcher[r])
      BY <1>2, <2>2 DEF Pending, BoardInv, BoardTables
    <3>2. Alone(r)'
      BY <2>2, <3>1 DEF Alone
    <3>3. board'[i] = board[i]
      BY <3>1
    <3>4. InStep(fetcher[r])'
      BY <2>2, <3>1, <3>3 DEF InStep
    <3> QED
      BY <3>2, <3>4
  <2> QED
    BY <2>1, <2>2
<1>3. BoardAgrees'
  <2> SUFFICES ASSUME NEW i \in Items \ astray', ~Pending(i)'
               PROVE  board'[i] = agenda[i]
    BY DEF BoardAgrees
  <2>1. ~Pending(i)
    BY DEF Pending, New
  <2>2. ~\E r \in Fetchers : New(r) /\ fetcher'[r].item = i
    BY DEF Pending, New
  <2> QED
    BY <2>1, <2>2 DEF BoardInv, BoardAgrees
<1> QED
  BY <1>1, <1>2, <1>3 DEF BoardInv

\* What a session has on the page while requests are made one by one.
LEMMA SentIsNew ==
    ASSUME BoardInv, NEW q \in Fetchers, NEW i, NEW kind \in Kinds,
           NEW row, NEW keeps, fetcher[q].at = "idle", fetcher'[q] = Sent(kind, i, row, keeps),
           kind # "place" => board'[i] = board[i]
    PROVE  New(q) /\ fetcher'[q].item = i
BY DEF New, Sent, IsRequest

LEMMA PlaceKeeps ==
    ASSUME BoardInv, NEW q \in Fetchers, NEW i \in Items, NEW a \in Cells, NEW reassign \in BOOLEAN,
           Place(q, i, a, reassign)
    PROVE  BoardInv'
<1>1. PICK row, keeps :
        /\ board' = [board EXCEPT ![i] = row] /\ IsRow(row)
        /\ fetcher' = [fetcher EXCEPT ![q] = Sent("place", i, row, keeps)]
        /\ Stray({i}) /\ fetcher[q].at = "idle" /\ UNCHANGED agenda
  <2> DEFINE keeps == board[i].slot # Unset /\ ~reassign
             cell == IF keeps THEN [a EXCEPT !.theme = board[i].slot.theme] ELSE a
             row == Standing(cell, board[i].public)
  <2>1. IsRow(row)
    BY DEF IsRow, Standing
  <2>2. /\ board' = [board EXCEPT ![i] = row]
        /\ fetcher' = [fetcher EXCEPT ![q] = Sent("place", i, row, keeps)]
        /\ Stray({i}) /\ fetcher[q].at = "idle" /\ UNCHANGED agenda
    BY DEF Place
  <2> QED
    BY <2>1, <2>2
<1>2. /\ DOMAIN board' = Items /\ board' = [j \in Items |-> board'[j]]
      /\ \A j \in Items : IsRow(board'[j]) /\ (j # i => board'[j] = board[j])
  BY <1>1 DEF BoardInv, BoardTables
<1>3. /\ DOMAIN fetcher' = Fetchers /\ fetcher' = [r \in Fetchers |-> fetcher'[r]]
      /\ fetcher'[q] = Sent("place", i, row, keeps)
      /\ \A r \in Fetchers \ {q} : fetcher'[r] = fetcher[r]
  BY <1>1 DEF BoardInv, BoardTables
<1>4. New(q) /\ fetcher'[q].item = i
  BY <1>1, <1>3, SentIsNew DEF Kinds
<1>5. \A r \in Fetchers \ {q} : ~New(r)
  BY <1>3 DEF New
<1>6. astray \subseteq astray' /\ (i \notin astray' => ~Pending(i))
  BY <1>1 DEF Stray
<1> QED
  BY <1>1, <1>2, <1>3, <1>4, <1>5, <1>6, AsksKeep

LEMMA AskForKeeps ==
    ASSUME BoardInv, NEW q \in Fetchers, NEW kind \in {"unplace", "publish", "unpublish"}, NEW i \in Items,
           AskFor(q, kind, i)
    PROVE  BoardInv'
<1>1. /\ UNCHANGED <<agenda, board>> /\ fetcher[q].at = "idle" /\ Stray({i})
      /\ fetcher' = [fetcher EXCEPT ![q] = Sent(kind, i, board[i], FALSE)]
  BY DEF AskFor
<1>2. /\ DOMAIN board' = Items /\ board' = [j \in Items |-> board'[j]]
      /\ \A j \in Items : IsRow(board'[j]) /\ board'[j] = board[j]
  BY <1>1 DEF BoardInv, BoardTables
<1>3. /\ DOMAIN fetcher' = Fetchers /\ fetcher' = [r \in Fetchers |-> fetcher'[r]]
      /\ fetcher'[q] = Sent(kind, i, board[i], FALSE)
      /\ \A r \in Fetchers \ {q} : fetcher'[r] = fetcher[r]
  BY <1>1 DEF BoardInv, BoardTables
<1>4. New(q) /\ fetcher'[q].item = i
  BY <1>1, <1>3, SentIsNew DEF Kinds
<1>5. \A r \in Fetchers \ {q} : ~New(r)
  BY <1>3 DEF New
<1>6. astray \subseteq astray' /\ (i \notin astray' => ~Pending(i))
  BY <1>1 DEF Stray
<1> QED
  BY <1>1, <1>2, <1>3, <1>4, <1>5, <1>6, AsksKeep

LEMMA ConfirmPlanKeeps ==
    ASSUME BoardInv, NEW asker \in [{i \in DOMAIN plan : board[i].slot = Unset} -> Fetchers],
           ConfirmPlan(asker)
    PROVE  BoardInv'
<1> DEFINE placed == {i \in DOMAIN plan : board[i].slot = Unset}
           shown(i) == Standing(plan[i], board[i].public)
<1>1. /\ \A i, j \in placed : i # j => asker[i] # asker[j]
      /\ \A i \in placed : fetcher[asker[i]].at = "idle"
      /\ board' = [i \in Items |-> IF i \in DOMAIN plan THEN shown(i) ELSE board[i]]
      /\ astray' = astray \cup {i \in DOMAIN plan : Pending(i) \/ i \notin placed}
      /\ UNCHANGED agenda
  BY DEF ConfirmPlan
<1>2. fetcher' = [q \in Fetchers |->
                    IF \E i \in placed : asker[i] = q
                    THEN LET i == CHOOSE x \in placed : asker[x] = q
                         IN  Sent("place", i, shown(i), FALSE)
                    ELSE fetcher[q]]
  BY DEF ConfirmPlan
<1>3. \A i \in placed : \E q \in Fetchers : asker[i] = q
  OBVIOUS
<1> HIDE DEF placed, shown
<1>4. ASSUME NEW i \in placed
      PROVE  fetcher'[asker[i]] = Sent("place", i, shown(i), FALSE)
  <2>1. asker[i] \in Fetchers
    BY <1>3
  <2>2. \A x \in placed : asker[x] = asker[i] <=> x = i
    BY <1>1
  <2>3. (CHOOSE x \in placed : asker[x] = asker[i]) = i
    BY <2>2
  <2> QED
    BY <1>2, <2>1, <2>3
<1>5. \A r \in Fetchers : \/ fetcher'[r] = fetcher[r]
                          \/ \E i \in placed : asker[i] = r
  BY <1>2
<1>6. ASSUME NEW i \in placed
      PROVE  New(asker[i]) /\ fetcher'[asker[i]].item = i
  <2>1. PICK r \in Fetchers : r = asker[i]
    BY <1>3
  <2>2. fetcher[r].at = "idle" /\ fetcher'[r] = Sent("place", i, shown(i), FALSE)
    BY <1>1, <1>4, <2>1
  <2>3. New(r) /\ fetcher'[r].item = i
    BY <2>2, SentIsNew, ZenonT(60) DEF Kinds
  <2> QED
    BY <2>1, <2>3
<1>7. \A r \in Fetchers : New(r) => \E i \in placed : asker[i] = r
  BY <1>5 DEF New
<1>8. \A r \in Fetchers : New(r) => fetcher'[r].item \in placed
  BY <1>6, <1>7
<1>9. \A r, s \in Fetchers : New(r) /\ New(s) /\ r # s => fetcher'[r].item # fetcher'[s].item
  BY <1>6, <1>7
<1>10. \A i \in DOMAIN plan \ astray' : i \in placed /\ ~Pending(i)
  BY <1>1
<1>11. /\ DOMAIN board' = Items /\ board' = [i \in Items |-> board'[i]]
       /\ \A i \in Items : IsRow(board'[i]) /\ (i \notin DOMAIN plan => board'[i] = board[i])
  <2>1. \A i \in Items : board'[i] = IF i \in DOMAIN plan THEN shown(i) ELSE board[i]
    BY <1>1
  <2>2. \A i : IsRow(shown(i))
    BY DEF shown, IsRow, Standing
  <2>3. \A i \in Items : IsRow(board[i])
    BY DEF BoardInv, BoardTables
  <2>4. DOMAIN board' = Items /\ board' = [i \in Items |-> board'[i]]
    BY <1>1
  <2> QED
    BY <2>1, <2>2, <2>3, <2>4
<1>12. DOMAIN fetcher' = Fetchers /\ fetcher' = [q \in Fetchers |-> fetcher'[q]]
  BY <1>2
<1>13. placed \subseteq DOMAIN plan /\ astray \subseteq astray' /\ UNCHANGED agenda
  BY <1>1 DEF placed
<1>14. \A r \in Fetchers : New(r) /\ fetcher'[r].item \in Items \ astray' => ~Pending(fetcher'[r].item)
  BY <1>8, <1>10, <1>13
<1>15. \A r \in Fetchers : fetcher'[r] = fetcher[r] \/ New(r)
  BY <1>5, <1>6
<1>16. \A i \in Items \ astray' :
         \/ board'[i] = board[i]
         \/ ~Pending(i) /\ \E r \in Fetchers : New(r) /\ fetcher'[r].item = i
  BY <1>3, <1>6, <1>10, <1>11
<1> QED
  BY <1>9, <1>11, <1>12, <1>13, <1>14, <1>15, <1>16, AsksKeep

LEMMA ServeKeeps ==
    ASSUME BoardInv, NEW q \in Fetchers, Serve(q)
    PROVE  BoardInv'
<1>1. PICK row :
        /\ row = Ruling(fetcher[q])
        /\ agenda' = IF row = Unset THEN agenda ELSE [agenda EXCEPT ![fetcher[q].item] = row]
        /\ fetcher' = [fetcher EXCEPT ![q].at = "answered", ![q].reply = row]
        /\ fetcher[q].at = "sent" /\ UNCHANGED <<board, astray>>
  BY DEF Serve
<1>2. PICK i : i = fetcher[q].item
  OBVIOUS
<1>3. row = Unset \/ IsRow(row)
  BY <1>1 DEF Ruling, IsRow, Standing, Unplaced
<1>4. /\ fetcher'[q].at = "answered" /\ fetcher'[q].reply = row /\ fetcher'[q].was = fetcher[q].was
      /\ fetcher'[q].kind = fetcher[q].kind /\ fetcher'[q].item = i /\ IsRequest(fetcher'[q])
      /\ \A r \in Fetchers \ {q} : fetcher'[r] = fetcher[r]
      /\ DOMAIN fetcher' = Fetchers /\ fetcher' = [r \in Fetchers |-> fetcher'[r]]
  <2>1. IsRequest(fetcher[q])
    BY <1>1 DEF BoardInv, BoardTables
  <2> QED
    BY <1>1, <1>2, <2>1 DEF BoardInv, BoardTables, IsRequest
<1>5. /\ DOMAIN agenda' = Items /\ agenda' = [j \in Items |-> agenda'[j]]
      /\ \A j \in Items : agenda'[j] = IF j = i /\ row # Unset THEN row ELSE agenda[j]
      /\ \A j \in Items : IsRow(agenda'[j])
  BY <1>1, <1>2, <1>3 DEF BoardInv, BoardTables
<1>6. BoardTables'
  BY <1>1, <1>2, <1>3, <1>4, <1>5 DEF BoardInv, BoardTables
<1>7. ASSUME NEW r \in Fetchers, fetcher'[r].at # "idle", fetcher'[r].item \in Items \ astray'
      PROVE  Alone(r)' /\ InStep(fetcher[r])'
  <2>1. fetcher'[r].item = fetcher[r].item /\ fetcher[r].at # "idle" /\ UNCHANGED <<board, astray>>
    BY <1>1, <1>2, <1>4, <1>7
  <2>2. Alone(r) /\ InStep(fetcher[r])
    BY <1>7, <2>1 DEF BoardInv
  <2>3. Alone(r)'
    BY <1>1, <1>2, <1>4, <2>1, <2>2 DEF Alone
  <2>4. CASE r = q
    <3>1. agenda[i] = fetcher[q].was /\ i \in Items
      BY <1>1, <1>2, <1>7, <2>1, <2>2, <2>4 DEF InStep
    <3>2. row # Unset =>
             /\ fetcher[q].kind = "publish" => row = [slot |-> fetcher[q].was.slot, public |-> TRUE]
             /\ fetcher[q].kind = "unpublish" => row = [slot |-> fetcher[q].was.slot, public |-> FALSE]
      BY <1>1, <1>2, <3>1 DEF Ruling, Standing
    <3> QED
      BY <1>1, <1>2, <1>4, <1>5, <2>2, <2>3, <2>4, <3>1, <3>2 DEF InStep
  <2>5. CASE r # q
    <3>1. fetcher[r].item # i
      BY <1>1, <1>2, <2>2, <2>5 DEF Alone
    <3> QED
      BY <1>4, <1>5, <1>7, <2>1, <2>2, <2>3, <2>5, <3>1 DEF InStep
  <2> QED
    BY <2>4, <2>5
<1>8. BoardAgrees'
  <2> SUFFICES ASSUME NEW j \in Items \ astray, ~Pending(j)'
               PROVE  board[j] = agenda'[j]
    BY <1>1 DEF BoardAgrees
  <2>1. j # i /\ ~Pending(j)
    BY <1>1, <1>2, <1>4 DEF Pending
  <2> QED
    BY <1>5, <2>1 DEF BoardInv, BoardAgrees
<1> QED
  BY <1>6, <1>7, <1>8 DEF BoardInv

LEMMA ElsewhereKeeps ==
    ASSUME BoardInv, NEW i \in Items, NEW kind \in {"place", "unplace"}, NEW row, Elsewhere(i, kind, row)
    PROVE  BoardInv'
<1>1. PICK ruling :
        /\ ruling = Ruling(Sent(kind, i, row, FALSE)) /\ ruling # Unset
        /\ agenda' = [agenda EXCEPT ![i] = ruling]
        /\ astray' = astray \cup {i} /\ UNCHANGED <<board, fetcher>>
  BY DEF Elsewhere
<1>2. IsRow(ruling)
  BY <1>1 DEF Ruling, IsRow, Standing, Unplaced
<1>3. /\ DOMAIN agenda' = Items /\ agenda' = [j \in Items |-> agenda'[j]]
      /\ \A j \in Items : IsRow(agenda'[j]) /\ (j # i => agenda'[j] = agenda[j])
  BY <1>1, <1>2 DEF BoardInv, BoardTables
<1>4. BoardTables'
  BY <1>1, <1>3, ZenonT(60) DEF BoardInv, BoardTables
<1>5. ASSUME NEW r \in Fetchers, fetcher[r].at # "idle", fetcher[r].item \in Items \ astray'
      PROVE  Alone(r)' /\ InStep(fetcher[r])'
  <2>1. fetcher[r].item \in Items \ astray /\ fetcher[r].item # i
    BY <1>1, <1>5
  <2>2. Alone(r) /\ InStep(fetcher[r])
    BY <1>5, <2>1 DEF BoardInv
  <2>3. agenda'[fetcher[r].item] = agenda[fetcher[r].item]
    BY <1>3, <2>1
  <2> QED
    BY <1>1, <2>2, <2>3 DEF Alone, InStep
<1>6. BoardAgrees'
  BY <1>1, <1>3 DEF BoardInv, BoardAgrees, Pending
<1> QED
  BY <1>1, <1>4, <1>5, <1>6 DEF BoardInv

\* What a request leaves on the board when the page hears of it, or does not.
LEMMA AnswersKeep ==
    ASSUME BoardInv, NEW q \in Fetchers, Hear(q) \/ HearNothing(q)
    PROVE  BoardInv'
<1>1. PICK f, i : f = fetcher[q] /\ i = f.item
  OBVIOUS
<1>2. PICK row : /\ board' = [board EXCEPT ![i] = row]
                 /\ fetcher' = [fetcher EXCEPT ![q] = IdleFetcher] /\ UNCHANGED agenda
                 /\ astray \subseteq astray' /\ f.at # "idle"
                 /\ \/ /\ f.at = "answered" /\ f.reply # Unset /\ row = Answered(f)
                    \/ /\ Hear(q) => f.reply = Unset
                       /\ f.at = "answered" /\ f.reply # Unset => i \in astray'
                       /\ row = BroughtBack(f)
  BY <1>1 DEF Hear, HearNothing
<1>3. /\ \A r \in Fetchers : fetcher'[r] = IF r = q THEN IdleFetcher ELSE fetcher[r]
      /\ DOMAIN fetcher' = Fetchers /\ fetcher' = [r \in Fetchers |-> fetcher'[r]]
      /\ IdleFetcher.at = "idle"
  BY <1>2 DEF BoardInv, BoardTables, IdleFetcher
<1>4. i \in Items => IsRow(f.was) /\ IsRow(board[i]) /\ (f.reply = Unset \/ IsRow(f.reply))
  BY <1>1, <1>2 DEF BoardInv, BoardTables
<1>5. f.kind \in Kinds
  BY <1>1, <1>2 DEF BoardInv, BoardTables
<1>6. i \in Items => IsRow(row)
  BY <1>1, <1>2, <1>4, <1>5 DEF Answered, BroughtBack, IsRow, Kinds
<1>7. /\ DOMAIN board' = Items /\ board' = [j \in Items |-> board'[j]]
      /\ \A j \in Items : board'[j] = IF j = i THEN row ELSE board[j]
  BY <1>2 DEF BoardInv, BoardTables
<1>8. BoardTables'
  BY <1>2, <1>3, <1>6, <1>7 DEF BoardInv, BoardTables
<1>9. ASSUME NEW r \in Fetchers, fetcher'[r].at # "idle", fetcher'[r].item \in Items \ astray'
      PROVE  Alone(r)' /\ InStep(fetcher[r])'
  <2>1. r # q /\ fetcher'[r] = fetcher[r] /\ fetcher[r].item \in Items \ astray
    BY <1>2, <1>3, <1>9
  <2>2. Alone(r) /\ InStep(fetcher[r])
    BY <1>9, <2>1 DEF BoardInv
  <2>3. fetcher[r].item # i
    BY <1>1, <1>2, <2>1, <2>2 DEF Alone
  <2>4. board'[fetcher[r].item] = board[fetcher[r].item]
    BY <1>7, <2>1, <2>3
  <2>5. Alone(r)'
    BY <1>3, <2>1, <2>2 DEF Alone
  <2> QED
    BY <1>2, <2>1, <2>2, <2>4, <2>5 DEF InStep
<1>10. BoardAgrees'
  <2> SUFFICES ASSUME NEW j \in Items \ astray', ~Pending(j)'
               PROVE  board'[j] = agenda[j]
    BY <1>2 DEF BoardAgrees
  <2>1. CASE j = i
    <3>1. Alone(q) /\ InStep(f) /\ IsRow(board[i])
      BY <1>1, <1>2, <1>4, <2>1 DEF BoardInv
    <3>2. row = agenda[i]
      <4>1. CASE f.at = "answered" /\ f.reply # Unset
        <5>1. row = Answered(f) /\ agenda[i] = f.reply
          BY <1>1, <1>2, <2>1, <3>1, <4>1 DEF InStep
        <5>2. CASE f.kind \in {"place", "unplace"}
          BY <5>1, <5>2 DEF Answered
        <5>3. CASE f.kind = "publish"
          <6>1. board[i] = f.was /\ f.reply = [slot |-> f.was.slot, public |-> TRUE]
            BY <1>1, <3>1, <4>1, <5>3 DEF InStep
          <6>2. row = [board[i] EXCEPT !.public = TRUE]
            BY <1>1, <5>1, <5>3 DEF Answered
          <6> QED
            BY <3>1, <5>1, <6>1, <6>2 DEF IsRow
        <5>4. CASE f.kind = "unpublish"
          <6>1. board[i] = f.was /\ f.reply = [slot |-> f.was.slot, public |-> FALSE]
            BY <1>1, <3>1, <4>1, <5>4 DEF InStep
          <6>2. row = [board[i] EXCEPT !.public = FALSE]
            BY <1>1, <5>1, <5>4 DEF Answered
          <6> QED
            BY <3>1, <5>1, <6>1, <6>2 DEF IsRow
        <5> QED
          BY <1>5, <5>2, <5>3, <5>4 DEF Kinds
      <4>2. CASE ~(f.at = "answered" /\ f.reply # Unset)
        BY <1>1, <1>2, <2>1, <3>1, <4>2 DEF InStep, BroughtBack
      <4> QED
        BY <4>1, <4>2
    <3> QED
      BY <1>7, <2>1, <3>2
  <2>2. CASE j # i
    <3>1. ~Pending(j)
      BY <1>1, <1>3, <2>2 DEF Pending
    <3> QED
      BY <1>2, <1>7, <2>2, <3>1 DEF BoardInv, BoardAgrees
  <2> QED
    BY <2>1, <2>2
<1> QED
  BY <1>8, <1>9, <1>10 DEF BoardInv

LEMMA BoardGoesOn ==
    ASSUME BoardInv, [BoardNext]_boardVars
    PROVE  BoardInv'
<1>1. CASE UNCHANGED <<agenda, board, fetcher, astray>>
  <2>1. BoardTables' /\ BoardAgrees'
    BY <1>1 DEF BoardInv, BoardTables, BoardAgrees, Pending
  <2>2. \A r \in Fetchers : fetcher[r].at # "idle" /\ fetcher[r].item \in Items \ astray =>
           Alone(r)' /\ InStep(fetcher[r])'
    BY <1>1 DEF BoardInv, Alone, InStep
  <2> QED
    BY <1>1, <2>1, <2>2 DEF BoardInv
<1>2. ASSUME \/ \E theme \in Themes \cup {Unset} : AutoPlace(theme)
             \/ CancelPlan \/ UNCHANGED boardVars
      PROVE  UNCHANGED <<agenda, board, fetcher, astray>>
  BY <1>2 DEF AutoPlace, CancelPlan, boardVars
<1> QED
  BY <1>1, <1>2, PlaceKeeps, ConfirmPlanKeeps, AskForKeeps, ElsewhereKeeps, ServeKeeps, AnswersKeep
     DEF BoardNext

\* For any board, a session that is changed on this page only, by one request at
\* a time whose answer arrives, shows what the room has once the request is over
\* (schedule-board.tsx:357-394, 640-690, 747-810).
THEOREM BoardsComeBack == BoardSpec => []BoardAgrees
<1>1. BoardInv => BoardAgrees
  BY DEF BoardInv
<1> QED
  BY <1>1, BoardStarts, BoardGoesOn, PTL DEF BoardSpec

LEMMA LeastOfASet ==
    ASSUME NEW T \in SUBSET Nat, T # {}
    PROVE  \E i \in T : \A j \in T : i <= j
<1> DEFINE R == OpToRel(<, Nat)
<1>1. IsWellFoundedOn(R, Nat)
  BY NatLessThanWellFounded
<1>2. \A x, y \in Nat : <<y, x>> \in R <=> y < x
  BY DEF OpToRel
<1> HIDE DEF R
<1>3. PICK x \in T : \A y \in T : <<y, x>> \notin R
  BY <1>1, WFMin
<1>4. \A y \in T : ~(y < x)
  BY <1>2, <1>3, Zenon
<1>5. \A y \in T : x <= y
  BY <1>4
<1> QED
  BY <1>5

Start == [rows |-> board, cells |-> [j \in {} |-> Unset]]

\* A plan of the first m sessions.
PlansUpTo(g, m, theme) ==
    g = [n \in 0..m |-> IF n = 0 THEN Start ELSE PlanNext(g[n - 1], Board[n], theme)]

LEMMA PlansExist ==
    ASSUME NEW theme, NEW m \in Nat
    PROVE  \E g : PlansUpTo(g, m, theme)
<1> DEFINE T == {n \in Nat : ~\E g : PlansUpTo(g, n, theme)}
<1>1. SUFFICES ASSUME T # {} PROVE FALSE
  OBVIOUS
<1>2. PICK n \in T : \A k \in T : n <= k
  BY <1>1, LeastOfASet
<1>3. \E g : PlansUpTo(g, 0, theme)
  <2> DEFINE g == [k \in 0..0 |-> Start]
  <2>1. g = [k \in 0..0 |-> IF k = 0 THEN Start ELSE PlanNext(g[k - 1], Board[k], theme)]
    OBVIOUS
  <2> QED
    BY <2>1 DEF PlansUpTo
<1>4. n \in Nat \ {0} /\ n - 1 \in Nat /\ n - 1 \notin T
  BY <1>2, <1>3
<1>5. PICK g : PlansUpTo(g, n - 1, theme)
  BY <1>4
<1> DEFINE h == [k \in 0..n |-> IF k = n THEN PlanNext(g[n - 1], Board[n], theme) ELSE g[k]]
<1>6. h = [k \in 0..n |-> IF k = 0 THEN Start ELSE PlanNext(h[k - 1], Board[k], theme)]
  <2>1. \A k \in 0..n - 1 : g[k] = IF k = 0 THEN Start ELSE PlanNext(g[k - 1], Board[k], theme)
    BY <1>5, Zenon DEF PlansUpTo
  <2>2. \A k \in 0..n : h[k] = IF k = n THEN PlanNext(g[n - 1], Board[n], theme) ELSE g[k]
    OBVIOUS
  <2>3. h = [k \in 0..n |-> h[k]]
    OBVIOUS
  <2> HIDE DEF h
  <2>4. \A k \in 0..n : h[k] = IF k = 0 THEN Start ELSE PlanNext(h[k - 1], Board[k], theme)
    <3> SUFFICES ASSUME NEW k \in 0..n
                 PROVE  h[k] = IF k = 0 THEN Start ELSE PlanNext(h[k - 1], Board[k], theme)
      OBVIOUS
    <3>1. CASE k = 0
      BY <1>4, <2>1, <2>2, <3>1
    <3>2. CASE k = n
      <4>1. h[n - 1] = g[n - 1]
        BY <1>4, <2>2
      <4> QED
        BY <1>4, <2>2, <3>2, <4>1
    <3>3. CASE k \in 1..n - 1
      <4>1. h[k - 1] = g[k - 1] /\ h[k] = g[k]
        BY <1>4, <2>2, <3>3
      <4> QED
        BY <1>4, <2>1, <3>3, <4>1
    <3> QED
      BY <1>4, <3>1, <3>2, <3>3
  <2> QED
    BY <2>3, <2>4
<1> HIDE DEF h
<1>7. PlansUpTo(h, n, theme)
  BY <1>6 DEF PlansUpTo
<1> QED
  BY <1>2, <1>7

LEMMA PlannedOneByOne ==
    ASSUME NEW theme, Board \in Seq(Items)
    PROVE  /\ Planned(theme)[0] = Start
           /\ \A n \in 1..Len(Board) :
                 Planned(theme)[n] = PlanNext(Planned(theme)[n - 1], Board[n], theme)
<1>1. Len(Board) \in Nat
  OBVIOUS
<1>2. \E g : PlansUpTo(g, Len(Board), theme)
  BY <1>1, PlansExist
<1>3. Planned(theme) = CHOOSE g : PlansUpTo(g, Len(Board), theme)
  BY DEF Planned, PlansUpTo, Start
<1>4. PlansUpTo(Planned(theme), Len(Board), theme)
  BY <1>2, <1>3, Zenon
<1> QED
  BY <1>1, <1>4 DEF PlansUpTo

\* Of the cells that are free there is a first.
LEMMA FirstCellIsFree ==
    ASSUME NEW rows, NEW i, NEW theme, FreeCells(rows, i, theme) # {}
    PROVE  FirstCell(rows, i, theme) \in FreeCells(rows, i, theme)
<1> DEFINE S == FreeCells(rows, i, theme)
           T == {a.start : a \in S}
<1>1. /\ \A a \in S : a.start \in Nat /\ \E n \in 1..Len(Halls) : a.room = Halls[n]
      /\ Len(Halls) \in Nat
  <2>1. Len(Halls) \in Nat /\ DayEnd \in Nat
    BY AgendaBoardAssumption
  <2>2. ASSUME NEW a \in S
        PROVE  a.start \in Nat /\ \E n \in 1..Len(Halls) : a.room = Halls[n]
    <3>1. a \in Cells
      BY DEF FreeCells
    <3>2. a.room \in HallNames /\ a.start \in 0..DayEnd - 1
      BY <3>1 DEF Cells
    <3> QED
      BY <2>1, <3>2 DEF HallNames
  <2> QED
    BY <2>1, <2>2
<1> HIDE DEF S
<1>2. PICK s \in T : \A t \in T : s <= t
  <2>1. T \in SUBSET Nat /\ T # {}
    BY <1>1 DEF S
  <2> HIDE DEF T
  <2> QED
    BY <2>1, LeastOfASet
<1> DEFINE H == {n \in 1..Len(Halls) : \E a \in S : a.start = s /\ a.room = Halls[n]}
<1>3. PICK m \in H : \A n \in H : m <= n
  <2>1. PICK a \in S : a.start = s
    BY <1>2
  <2>2. \E n \in 1..Len(Halls) : a.room = Halls[n]
    BY <1>1
  <2>3. H \in SUBSET Nat /\ H # {}
    BY <1>1, <2>1, <2>2
  <2> HIDE DEF H
  <2> QED
    BY <2>3, LeastOfASet
<1>4. PICK a \in S : a.start = s /\ a.room = Halls[m]
  BY <1>3
<1>5. ASSUME NEW b \in S
      PROVE  Before(a, b)
  <2>1. s \in Nat /\ b.start \in Nat /\ s <= b.start
    BY <1>1, <1>2
  <2>2. PICK n \in 1..Len(Halls) : b.room = Halls[n]
    BY <1>1
  <2>3. CASE b.start = s
    <3>1. n \in H
      BY <2>2, <2>3
    <3>2. m <= n /\ m \in DOMAIN Halls /\ n \in DOMAIN Halls
      BY <1>3, <2>2, <3>1, AgendaBoardAssumption
    <3> QED
      BY <1>4, <2>2, <2>3, <3>2 DEF Before
  <2>4. CASE b.start # s
    BY <1>4, <2>1, <2>4 DEF Before
  <2> QED
    BY <2>3, <2>4
<1>6. \E c \in S : \A b \in S : Before(c, b)
  BY <1>5
<1>7. FirstCell(rows, i, theme) = CHOOSE c \in S : \A b \in S : Before(c, b)
  BY DEF FirstCell, S
<1>8. FirstCell(rows, i, theme) \in S
  BY <1>6, <1>7
<1> QED
  BY <1>8 DEF S

LEMMA ClashBothWays ==
    ASSUME NEW i, NEW a, NEW j, NEW b, Clash(i, a, j, b)
    PROVE  Clash(j, b, i, a)
BY DEF Clash, Meets

\* What is planned so far can be placed beside what stands on the board.
PlanStands(acc) ==
    /\ acc.rows = [j \in Items |-> IF j \in DOMAIN acc.cells THEN Standing(acc.cells[j], FALSE)
                                                             ELSE board[j]]
    /\ \A i \in DOMAIN acc.cells : /\ i \in Items /\ board[i].slot = Unset
                                   /\ acc.cells[i] \in Cells /\ FreeFor(acc.rows, i, acc.cells[i])

\* Giving the next of the rail its cell keeps that.
LEMMA PlanNextStands ==
    ASSUME NEW acc, PlanStands(acc), NEW i \in Items, NEW theme
    PROVE  PlanStands(PlanNext(acc, i, theme))
<1>1. CASE ~OnRail(i) \/ FreeCells(acc.rows, i, theme) = {}
  BY <1>1 DEF PlanNext
<1>2. CASE OnRail(i) /\ FreeCells(acc.rows, i, theme) # {}
  <2>1. PICK cell : cell = FirstCell(acc.rows, i, theme) /\ FreeFor(acc.rows, i, cell) /\ cell \in Cells
    BY <1>2, FirstCellIsFree DEF FreeCells
  <2>2. PICK new : /\ new = PlanNext(acc, i, theme)
                   /\ new.rows = Working(acc.rows, i, cell)
                   /\ new.cells = [j \in DOMAIN acc.cells \cup {i} |-> IF j = i THEN cell ELSE acc.cells[j]]
    <3>1. PlanNext(acc, i, theme) =
            [rows |-> Working(acc.rows, i, cell),
             cells |-> [j \in DOMAIN acc.cells \cup {i} |-> IF j = i THEN cell ELSE acc.cells[j]]]
      BY <1>2, <2>1, Zenon DEF PlanNext
    <3> DEFINE m == [rows |-> Working(acc.rows, i, cell),
                     cells |-> [j \in DOMAIN acc.cells \cup {i} |-> IF j = i THEN cell ELSE acc.cells[j]]]
    <3>2. /\ m = PlanNext(acc, i, theme) /\ m.rows = Working(acc.rows, i, cell)
          /\ m.cells = [j \in DOMAIN acc.cells \cup {i} |-> IF j = i THEN cell ELSE acc.cells[j]]
      BY <3>1
    <3> HIDE DEF m
    <3> QED
      BY <3>2
  <2>3. /\ DOMAIN new.cells = DOMAIN acc.cells \cup {i} /\ new.cells[i] = cell
        /\ \A j \in DOMAIN acc.cells \ {i} : new.cells[j] = acc.cells[j]
    BY <2>2
  <2>4. \A j \in Items : acc.rows[j] = IF j \in DOMAIN acc.cells THEN Standing(acc.cells[j], FALSE) ELSE board[j]
    BY DEF PlanStands
  <2>5. /\ new.rows = [j \in Items |-> IF j = i THEN Standing(cell, FALSE) ELSE acc.rows[j]]
        /\ \A j \in Items : new.rows[j] = IF j = i THEN Standing(cell, FALSE) ELSE acc.rows[j]
    BY <2>2 DEF Working, PlanStands
  <2>6. new.rows = [j \in Items |-> IF j \in DOMAIN new.cells THEN Standing(new.cells[j], FALSE)
                                                              ELSE board[j]]
    BY <2>3, <2>4, <2>5
  <2>7. ASSUME NEW p \in DOMAIN new.cells
        PROVE  /\ p \in Items /\ board[p].slot = Unset
               /\ new.cells[p] \in Cells /\ FreeFor(new.rows, p, new.cells[p])
    <3>1. CASE p = i
      <4>1. FreeFor(new.rows, i, cell)
        BY <2>1, <2>5 DEF FreeFor, NoClash
      <4> QED
        BY <1>2, <2>1, <2>3, <3>1, <4>1 DEF OnRail
    <3>2. CASE p # i
      <4>1. p \in DOMAIN acc.cells /\ new.cells[p] = acc.cells[p]
        BY <2>3, <3>2
      <4>2. /\ p \in Items /\ board[p].slot = Unset /\ acc.cells[p] \in Cells /\ acc.cells[p] # Unset
            /\ FreeFor(acc.rows, p, acc.cells[p])
        BY <4>1, UnsetIsNoCell DEF PlanStands
      <4>3. acc.rows[p].slot = acc.cells[p]
        <5>1. acc.rows[p] = Standing(acc.cells[p], FALSE)
          BY <2>4, <4>1, <4>2
        <5> QED
          BY <5>1 DEF Standing
      <4>4. ~Clash(p, acc.cells[p], i, cell)
        <5>1. ~Clash(i, cell, p, acc.cells[p])
          BY <2>1, <3>2, <4>2, <4>3 DEF FreeFor, NoClash
        <5> QED
          BY <5>1, ClashBothWays
      <4>5. NoClash(new.rows, p, acc.cells[p])
        <5> SUFFICES ASSUME NEW j \in Items \ {p}, new.rows[j].slot # Unset
                     PROVE  ~Clash(p, acc.cells[p], j, new.rows[j].slot)
          BY DEF NoClash
        <5>1. CASE j = i
          <6>1. new.rows[j] = Standing(cell, FALSE)
            BY <2>5, <5>1
          <6> QED
            BY <4>4, <5>1, <6>1 DEF Standing
        <5>2. CASE j # i
          BY <2>5, <4>2, <5>2 DEF FreeFor, NoClash
        <5> QED
          BY <5>1, <5>2
      <4> QED
        BY <4>1, <4>2, <4>5 DEF FreeFor
    <3> QED
      BY <3>1, <3>2
  <2> QED
    BY <2>2, <2>6, <2>7 DEF PlanStands
<1> QED
  BY <1>1, <1>2

\* So it holds of the whole plan: otherwise there is a first item it fails for.
LEMMA PlansStand ==
    ASSUME NEW theme, board = [i \in Items |-> board[i]]
    PROVE  PlanStands(Planned(theme)[Len(Board)])
<1> DEFINE T == {n \in 0..Len(Board) : ~PlanStands(Planned(theme)[n])}
<1>1. Board \in Seq(Items) /\ Len(Board) \in Nat /\ T \in SUBSET Nat
  BY AgendaBoardAssumption
<1>2. SUFFICES ASSUME T # {} PROVE FALSE
  BY <1>1
<1>3. PICK n \in T : \A k \in T : n <= k
  BY <1>1, <1>2, LeastOfASet
<1>4. PlanStands(Start)
  <2>1. DOMAIN Start.cells = {} /\ Start.rows = board
    BY DEF Start
  <2> QED
    BY <2>1 DEF PlanStands
<1>5. n \in 1..Len(Board)
  <2>1. Planned(theme)[0] = Start
    BY <1>1, PlannedOneByOne
  <2>2. n \in 0..Len(Board) /\ ~PlanStands(Planned(theme)[n])
    BY <1>3
  <2>3. n # 0
    BY <1>4, <2>1, <2>2
  <2> QED
    BY <1>1, <2>2, <2>3
<1>6. PlanStands(Planned(theme)[n - 1])
  BY <1>1, <1>3, <1>5
<1>7. Board[n] \in Items
  BY <1>5 DEF Items
<1>8. PlanStands(Planned(theme)[n])
  BY <1>1, <1>5, <1>6, <1>7, PlannedOneByOne, PlanNextStands
<1> QED
  BY <1>3, <1>8

\* What the planner (board.ts:180-241) proposes on a page that shows what the
\* room has is what the room accepts, for any board, halls and sessions.
THEOREM PlansAreTakenUp == BoardSpec => PlansAreAcceptable
<1>1. ASSUME BoardInv, [BoardNext]_boardVars, plan = Unset, plan' # Unset, board = agenda
      PROVE  \A i \in DOMAIN plan' :
                /\ agenda[i].slot = Unset
                /\ FreeFor([j \in Items |-> IF j \in DOMAIN plan' THEN Standing(plan'[j], FALSE)
                                                                  ELSE agenda[j]], i, plan'[i])
  <2>1. PICK theme \in Themes \cup {Unset} : AutoPlace(theme)
    BY <1>1 DEF BoardNext, AutoPlace, CancelPlan, Place, ConfirmPlan, AskFor, Elsewhere, Serve, Hear,
       HearNothing, boardVars
  <2>2. board = [i \in Items |-> board[i]]
    BY <1>1 DEF BoardInv, BoardTables
  <2>3. PICK acc : acc = Planned(theme)[Len(Board)] /\ PlanStands(acc)
    BY <2>2, PlansStand
  <2>4. plan' = acc.cells
    BY <2>1, <2>3 DEF AutoPlace, PlanFor
  <2>5. acc.rows = [j \in Items |-> IF j \in DOMAIN plan' THEN Standing(plan'[j], FALSE) ELSE agenda[j]]
    BY <1>1, <2>3, <2>4 DEF PlanStands
  <2> QED
    BY <1>1, <2>3, <2>4, <2>5 DEF PlanStands
<1>2. BoardInv /\ [BoardNext]_boardVars =>
         [plan = Unset /\ plan' # Unset /\ board = agenda
            => \A i \in DOMAIN plan' :
                  /\ agenda[i].slot = Unset
                  /\ FreeFor([j \in Items |-> IF j \in DOMAIN plan' THEN Standing(plan'[j], FALSE)
                                                                    ELSE agenda[j]], i, plan'[i])]_boardVars
  BY <1>1
<1> QED
  BY <1>2, BoardStarts, BoardGoesOn, PTL DEF BoardSpec, PlansAreAcceptable

FetcherRecords == [at : {"idle", "sent", "answered"}, kind : Kinds, item : Items,
                   want : BoardRows, keeps : BOOLEAN, was : BoardRows,
                   reply : BoardRows \cup {Unset}]

\* Only a placement takes a cell from its request, and it has one.
AskedCells ==
    \A q \in Fetchers : fetcher[q].at # "idle" /\ fetcher[q].kind = "place" =>
        fetcher[q].want.slot \in Cells

BoardTyped ==
    /\ agenda \in [Items -> BoardRows] /\ board \in [Items -> BoardRows]
    /\ plan = Unset \/ \A i \in DOMAIN plan : i \in Items /\ plan[i] \in Cells
    /\ fetcher \in [Fetchers -> FetcherRecords]
    /\ AskedCells
    /\ astray \subseteq Items
    /\ clicks \in 0..LastClick
    /\ elsewhere \in 0..LastElsewhere

LEMMA RowFacts ==
    /\ Unplaced \in BoardRows
    /\ \A cell \in Cells \cup {Unset}, public \in BOOLEAN : Standing(cell, public) \in BoardRows
    /\ \A row \in BoardRows : /\ row.slot \in Cells \cup {Unset} /\ row.public \in BOOLEAN
                              /\ row.slot # Unset => row.slot \in Cells
                              /\ [row EXCEPT !.public = TRUE] \in BoardRows
                              /\ [row EXCEPT !.public = FALSE] \in BoardRows
BY DEF Unplaced, BoardRows, Standing

LEMMA CellFacts ==
    ASSUME NEW a \in Cells, NEW theme \in Themes \cup {Unset}
    PROVE  a.theme \in Themes \cup {Unset} /\ [a EXCEPT !.theme = theme] \in Cells
BY DEF Cells

LEMMA IdleFetcherIsTyped ==
    IdleFetcher \in FetcherRecords /\ IdleFetcher.at = "idle"
<1>1. Board[1] \in Items
  BY AgendaBoardAssumption, SomethingToPlace DEF Items
<1> QED
  BY <1>1, RowFacts DEF IdleFetcher, FetcherRecords, Kinds

LEMMA BoardStartsTyped == BoardInit => BoardTyped
<1>1. LastClick \in Nat /\ LastElsewhere \in Nat
  BY AgendaBoardAssumption
<1> QED
  BY <1>1, IdleFetcherIsTyped, RowFacts DEF BoardInit, BoardTyped, AskedCells

\* What is sent of a session of the board.
LEMMA SentIsTyped ==
    ASSUME BoardTyped, NEW kind \in Kinds, NEW i \in Items, NEW row \in BoardRows,
           NEW keeps \in BOOLEAN
    PROVE  /\ Sent(kind, i, row, keeps) \in FetcherRecords
           /\ Sent(kind, i, row, keeps).kind = kind /\ Sent(kind, i, row, keeps).want = row
           /\ Sent(kind, i, row, keeps).item = i /\ Sent(kind, i, row, keeps).keeps = keeps
BY DEF BoardTyped, Sent, FetcherRecords

\* Whatever the room answers is a row of a session or a refusal.
LEMMA RulingIsTyped ==
    ASSUME agenda \in [Items -> BoardRows], NEW f \in FetcherRecords,
           f.kind = "place" => f.want.slot \in Cells
    PROVE  Ruling(f) \in BoardRows \cup {Unset}
<1> DEFINE here == agenda[f.item]
           kept == IF here.slot = Unset THEN Unset ELSE here.slot.theme
           cell == IF f.keeps THEN [f.want.slot EXCEPT !.theme = kept] ELSE f.want.slot
<1>1. /\ f.item \in Items /\ f.kind \in Kinds /\ here \in BoardRows
      /\ here.public \in BOOLEAN /\ here.slot \in Cells \cup {Unset}
  BY RowFacts DEF FetcherRecords
<1>2. kept \in Themes \cup {Unset}
  BY <1>1, CellFacts
<1>3. f.kind = "place" => cell \in Cells
  BY <1>2, CellFacts
<1> DEFINE places == f.kind = "place" /\ FreeFor(agenda, f.item, cell)
           row == CASE places -> Standing(cell, here.public)
                    [] f.kind = "unplace" /\ here.slot # Unset -> Unplaced
                    [] f.kind = "publish" /\ here.slot # Unset /\ ~here.public -> Standing(here.slot, TRUE)
                    [] f.kind = "unpublish" /\ here.public -> Standing(here.slot, FALSE)
                    [] OTHER -> Unset
<1>4. Ruling(f) = row
  BY DEF Ruling
<1>5. places => f.kind = "place"
  OBVIOUS
<1> HIDE DEF here, kept, cell, places
<1>6. row \in BoardRows \cup {Unset}
  <2>1. f.kind = "place" => Standing(cell, here.public) \in BoardRows
    BY <1>1, <1>3, RowFacts
  <2>2. Standing(here.slot, TRUE) \in BoardRows /\ Standing(here.slot, FALSE) \in BoardRows
        /\ Unplaced \in BoardRows
    BY <1>1, RowFacts
  <2> QED
    BY <1>5, <2>1, <2>2
<1> QED
  BY <1>4, <1>6

LEMMA PagesStayTyped ==
    ASSUME BoardTyped, BoardInv,
           \/ \E theme \in Themes \cup {Unset} : AutoPlace(theme)
           \/ CancelPlan
           \/ \E q \in Fetchers, i \in Items, a \in Cells, reassign \in BOOLEAN :
                 Place(q, i, a, reassign)
           \/ \E asker : ConfirmPlan(asker) /\ asker \in [{i \in DOMAIN plan : board[i].slot = Unset} -> Fetchers]
           \/ \E q \in Fetchers, kind \in {"unplace", "publish", "unpublish"}, i \in Items :
                 AskFor(q, kind, i)
    PROVE  BoardTyped'
<1>0. Click => clicks' \in 0..LastClick
  <2>1. LastClick \in Nat /\ clicks \in 0..LastClick
    BY AgendaBoardAssumption DEF BoardTyped
  <2> QED
    BY <2>1 DEF Click
<1>1. ASSUME NEW theme \in Themes \cup {Unset}, AutoPlace(theme)
      PROVE  BoardTyped'
  <2>1. board = [i \in Items |-> board[i]]
    BY DEF BoardTyped
  <2>2. PICK acc : acc = Planned(theme)[Len(Board)] /\ PlanStands(acc)
    BY <2>1, PlansStand
  <2>3. plan' = acc.cells
    BY <1>1, <2>2 DEF AutoPlace, PlanFor
  <2>4. \A i \in DOMAIN plan' : i \in Items /\ plan'[i] \in Cells
    BY <2>2, <2>3 DEF PlanStands
  <2> QED
    BY <1>0, <1>1, <2>4 DEF AutoPlace, BoardTyped, AskedCells
<1>2. CASE CancelPlan
  BY <1>2 DEF CancelPlan, BoardTyped, AskedCells
<1>3. ASSUME NEW q \in Fetchers, NEW i \in Items, NEW a \in Cells, NEW reassign \in BOOLEAN,
             Place(q, i, a, reassign)
      PROVE  BoardTyped'
  <2> DEFINE keeps == board[i].slot # Unset /\ ~reassign
             cell == IF keeps THEN [a EXCEPT !.theme = board[i].slot.theme] ELSE a
             row == Standing(cell, board[i].public)
  <2>1. board[i] \in BoardRows /\ keeps \in BOOLEAN
    BY DEF BoardTyped
  <2>2. cell \in Cells
    BY <2>1, RowFacts, CellFacts
  <2>3. /\ board' = [board EXCEPT ![i] = row]
        /\ fetcher' = [fetcher EXCEPT ![q] = Sent("place", i, row, keeps)]
        /\ astray' \subseteq astray \cup {i}
        /\ Click /\ UNCHANGED <<agenda, plan, elsewhere>>
    BY <1>3 DEF Place, Stray
  <2> HIDE DEF keeps, cell
  <2>4. row \in BoardRows /\ row.slot = cell
    BY <2>1, <2>2, RowFacts DEF Standing
  <2> HIDE DEF row
  <2>5. Sent("place", i, row, keeps) \in FetcherRecords /\ Sent("place", i, row, keeps).want = row
    BY <2>1, <2>4, SentIsTyped DEF Kinds
  <2> QED
    BY <1>0, <2>2, <2>3, <2>4, <2>5 DEF BoardTyped, AskedCells
<1>4. ASSUME NEW asker \in [{i \in DOMAIN plan : board[i].slot = Unset} -> Fetchers], ConfirmPlan(asker)
      PROVE  BoardTyped'
  <2> DEFINE placed == {i \in DOMAIN plan : board[i].slot = Unset}
             row(i) == Standing(plan[i], board[i].public)
  <2>1. \A i \in DOMAIN plan : i \in Items /\ plan[i] \in Cells
    BY <1>4 DEF ConfirmPlan, BoardTyped
  <2>2. \A i \in DOMAIN plan : row(i) \in BoardRows /\ row(i).slot = plan[i]
    BY <2>1, RowFacts DEF BoardTyped, Standing
  <2>3. board' \in [Items -> BoardRows]
    BY <1>4, <2>2 DEF ConfirmPlan, BoardTyped
  <2>4. ASSUME NEW q \in Fetchers
        PROVE  /\ fetcher'[q] \in FetcherRecords
               /\ fetcher'[q].at # "idle" /\ fetcher'[q].kind = "place" =>
                     fetcher'[q].want.slot \in Cells
    <3>1. CASE \E i \in placed : asker[i] = q
      <4>1. PICK i \in placed : i = CHOOSE x \in placed : asker[x] = q
        BY <3>1
      <4>2. fetcher'[q] = Sent("place", i, row(i), FALSE)
        BY <1>4, <3>1, <4>1 DEF ConfirmPlan
      <4>3. PICK r : r = row(i) /\ r \in BoardRows /\ r.slot \in Cells
        BY <2>1, <2>2
      <4>4. fetcher'[q] = Sent("place", i, r, FALSE)
        BY <4>2, <4>3
      <4>5. PICK kind \in Kinds, keeps \in BOOLEAN : kind = "place" /\ keeps = FALSE
        BY DEF Kinds
      <4>6. /\ Sent(kind, i, r, keeps) \in FetcherRecords
            /\ Sent(kind, i, r, keeps).want = r
        BY <2>1, <4>3, SentIsTyped
      <4>7. Sent(kind, i, r, keeps) = Sent("place", i, r, FALSE)
        BY <4>5, Zenon
      <4> QED
        BY <4>3, <4>4, <4>6, <4>7
    <3>2. CASE ~\E i \in placed : asker[i] = q
      BY <1>4, <3>2 DEF ConfirmPlan, BoardTyped, AskedCells
    <3> QED
      BY <3>1, <3>2
  <2>5. fetcher' \in [Fetchers -> FetcherRecords]
    <3>1. fetcher' = [q \in Fetchers |-> fetcher'[q]]
      BY <1>4 DEF ConfirmPlan
    <3> QED
      BY <2>4, <3>1
  <2>6. astray' \subseteq Items /\ plan' = Unset /\ UNCHANGED <<agenda, clicks, elsewhere>>
    BY <1>4, <2>1 DEF ConfirmPlan, BoardTyped
  <2> QED
    BY <2>3, <2>4, <2>5, <2>6 DEF BoardTyped, AskedCells
<1>5. ASSUME NEW q \in Fetchers, NEW kind \in {"unplace", "publish", "unpublish"}, NEW i \in Items,
             AskFor(q, kind, i)
      PROVE  BoardTyped'
  <2>1. kind \in Kinds /\ kind # "place" /\ board[i] \in BoardRows
    BY DEF Kinds, BoardTyped
  <2>2. Sent(kind, i, board[i], FALSE) \in FetcherRecords
        /\ Sent(kind, i, board[i], FALSE).kind = kind
    BY <2>1, SentIsTyped
  <2> QED
    BY <1>0, <1>5, <2>1, <2>2 DEF AskFor, Stray, BoardTyped, AskedCells
<1> QED
  BY <1>1, <1>2, <1>3, <1>4, <1>5

LEMMA RoomsStayTyped ==
    ASSUME BoardTyped,
           \/ \E i \in Items, kind \in {"place", "unplace"}, a \in Cells :
                 Elsewhere(i, kind, Standing(a, FALSE))
           \/ \E q \in Fetchers : Serve(q)
    PROVE  BoardTyped'
<1>1. ASSUME NEW i \in Items, NEW kind \in {"place", "unplace"}, NEW a \in Cells,
             Elsewhere(i, kind, Standing(a, FALSE))
      PROVE  BoardTyped'
  <2> DEFINE row == Standing(a, FALSE)
             ruling == Ruling(Sent(kind, i, row, FALSE))
  <2>1. row \in BoardRows /\ row.slot = a /\ kind \in Kinds
    BY RowFacts DEF Standing, Kinds
  <2>2. ruling # Unset /\ agenda' = [agenda EXCEPT ![i] = ruling]
        /\ elsewhere < LastElsewhere /\ elsewhere' = elsewhere + 1
        /\ astray' = astray \cup {i} /\ UNCHANGED <<board, plan, fetcher, clicks>>
    BY <1>1 DEF Elsewhere
  <2> HIDE DEF row
  <2>3. ruling \in BoardRows \cup {Unset}
    <3>1. Sent(kind, i, row, FALSE) \in FetcherRecords /\ Sent(kind, i, row, FALSE).want = row
      BY <2>1, SentIsTyped
    <3> QED
      BY <2>1, <3>1, RulingIsTyped DEF BoardTyped
  <2> HIDE DEF ruling
  <2>4. elsewhere' \in 0..LastElsewhere
    BY <2>2, AgendaBoardAssumption DEF BoardTyped
  <2> QED
    BY <2>2, <2>3, <2>4 DEF BoardTyped, AskedCells
<1>2. ASSUME NEW q \in Fetchers, Serve(q)
      PROVE  BoardTyped'
  <2> DEFINE f == fetcher[q]
             row == Ruling(f)
  <2>1. f \in FetcherRecords /\ f.item \in Items /\ (f.kind = "place" => f.want.slot \in Cells)
    BY <1>2 DEF Serve, BoardTyped, AskedCells, FetcherRecords
  <2>2. row \in BoardRows \cup {Unset}
    BY <2>1, RulingIsTyped DEF BoardTyped
  <2>3. /\ agenda' = IF row = Unset THEN agenda ELSE [agenda EXCEPT ![f.item] = row]
        /\ fetcher' = [fetcher EXCEPT ![q] = [f EXCEPT !.at = "answered", !.reply = row]]
        /\ UNCHANGED <<board, plan, astray, clicks, elsewhere>>
    BY <1>2 DEF Serve
  <2> HIDE DEF f, row
  <2> DEFINE new == [f EXCEPT !.at = "answered", !.reply = row]
  <2>4. new \in FetcherRecords /\ new.kind = f.kind /\ new.want = f.want
    BY <2>1, <2>2 DEF FetcherRecords
  <2>5. fetcher' = [fetcher EXCEPT ![q] = new]
    BY <2>3
  <2> HIDE DEF new
  <2>6. fetcher' \in [Fetchers -> FetcherRecords] /\ AskedCells'
    BY <2>1, <2>4, <2>5 DEF BoardTyped, AskedCells
  <2>7. agenda' \in [Items -> BoardRows]
    BY <2>1, <2>2, <2>3 DEF BoardTyped
  <2> QED
    BY <2>3, <2>6, <2>7 DEF BoardTyped
<1> QED
  BY <1>1, <1>2

LEMMA AnswersStayTyped ==
    ASSUME BoardTyped, NEW q \in Fetchers, Hear(q) \/ HearNothing(q)
    PROVE  BoardTyped'
<1> DEFINE f == fetcher[q]
<1>1. /\ f.item \in Items /\ f.kind \in Kinds /\ f.was \in BoardRows
      /\ f.reply \in BoardRows \cup {Unset} /\ board[f.item] \in BoardRows
  BY DEF BoardTyped, FetcherRecords
<1>2. PICK row : /\ row = BroughtBack(f) \/ (row = Answered(f) /\ f.reply # Unset)
                 /\ board' = [board EXCEPT ![f.item] = row]
  BY DEF Hear, HearNothing
<1>3. row \in BoardRows
  <2>1. BroughtBack(f) \in BoardRows
    BY <1>1 DEF BroughtBack
  <2>2. f.reply # Unset => Answered(f) \in BoardRows
    BY <1>1, RowFacts DEF Answered, Kinds
  <2> QED
    BY <1>2, <2>1, <2>2
<1>4. /\ fetcher' = [fetcher EXCEPT ![q] = IdleFetcher]
      /\ astray' = astray \/ astray' = astray \cup {f.item}
      /\ UNCHANGED <<agenda, plan, clicks, elsewhere>>
  BY DEF Hear, HearNothing
<1> HIDE DEF f
<1>5. fetcher' \in [Fetchers -> FetcherRecords] /\ AskedCells'
  BY <1>4, IdleFetcherIsTyped DEF BoardTyped, AskedCells
<1> QED
  BY <1>1, <1>2, <1>3, <1>4, <1>5 DEF BoardTyped

\* Whatever is dragged, planned, answered and lost at once, every session of the
\* room and of the page is unplaced or in a cell of the grid, and so is what a
\* request asks for and what a plan proposes.
THEOREM BoardTypes == BoardSpec => []BoardTypeOK
<1> DEFINE Both == BoardInv /\ BoardTyped
<1>1. BoardInit => Both
  BY BoardStarts, BoardStartsTyped
<1>2. Both /\ [BoardNext]_boardVars => Both'
  <2> SUFFICES ASSUME BoardInv, BoardTyped, [BoardNext]_boardVars PROVE BoardInv' /\ BoardTyped'
    OBVIOUS
  <2>1. CASE UNCHANGED boardVars
    BY <2>1, BoardGoesOn DEF boardVars, BoardTyped, AskedCells
  <2> QED
    BY <2>1, BoardGoesOn, PagesStayTyped, RoomsStayTyped, AnswersStayTyped DEF BoardNext
<1>3. Both => BoardTypeOK
  <2> SUFFICES ASSUME BoardTyped PROVE BoardTypeOK
    OBVIOUS
  <2>1. \A q \in Fetchers : fetcher[q] \in FetcherRecords
    BY DEF BoardTyped
  <2> QED
    BY <2>1 DEF BoardTyped, BoardTypeOK, FetcherRecords, Kinds
<1> QED
  BY <1>1, <1>2, <1>3, PTL DEF BoardSpec

-----------------------------------------------------------------------------

(***************************************************************************)
(* The four desks in one model (module MCOrganizerDesks).                  *)
(***************************************************************************)

\* The tables, what is remembered between their steps and what a page shows.
organizerVars == <<desk, vars, contactVars, boardVars, formVars>>

\* A step of one desk is a step of its part, and the others stand still.
LEMMA EachOrganizerByItself ==
    ASSUME [OrganizerNext]_organizerVars
    PROVE  /\ [Next]_vars
           /\ [BookNext]_contactVars
           /\ [BoardNext]_boardVars
           /\ [FormNext]_formVars
BY DEF organizerVars, OrganizerNext

\* The parts of the organizers' side in one model are the parts: whatever is
\* proved of one of them by itself holds of it there.
THEOREM OrganizersRunTheirParts ==
    OrganizerSpec => Spec /\ BookSpec /\ BoardSpec /\ FormSpec
BY EachOrganizerByItself, PTL
   DEF OrganizerSpec, OrganizerInit, organizerVars, Spec, BookSpec, BoardSpec, FormSpec

\* At every desk of the organizers the tables, what a request remembers between
\* its statements, and what a page shows keep their types.
THEOREM OrganizersKeepTheirTypes == OrganizerSpec => []OrganizerTypeOK
BY OrganizersRunTheirParts, LinkHolds, BookTypes, BoardTypes, FormTypes, PTL DEF OrganizerTypeOK

\* Every safety property that the run checks of one of the four desks holds of
\* the specification they check, whichever desks are open: an invitation's link
\* in force is one that was claimed, contacts are whole, the page and the table of
\* the agenda agree at rest, a form is whole but for the exceptions FormIsWhole
\* names; a link changes only for a cause, merges do their work, plans stay
\* acceptable.
THEOREM OrganizersAreSafe ==
    OrganizerSpec => /\ [](LiveLinkIsClaimed /\ BookIsWhole /\ BoardAgrees /\ FormIsWhole)
                     /\ RotationIsJustified /\ MergesGoThrough /\ PlansAreAcceptable
BY OrganizersRunTheirParts, LinkHolds, BookStaysWhole, BoardsComeBack, FormsStayWhole,
   RotationsAreJustified, MergesDoTheirWork, PlansAreTakenUp, PTL

=============================================================================
