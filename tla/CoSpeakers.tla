----------------------------- MODULE CoSpeakers -----------------------------
(***************************************************************************)
(* Invitations of co-speakers (src/src/lib/speakers/co-speakers.ts).       *)
(*                                                                         *)
(* A co-speaker's link carries a token computed from the generation of an  *)
(* invitation claim; the row of submission_speakers holds the hash of the  *)
(* one that works, and the mail of each generation is a message of the     *)
(* ledger in EmailDelivery.  Invitations, answers, removals and additions  *)
(* are Worker requests that await between reading the row and writing it.  *)
(*                                                                         *)
(* Links from before the claims existed, the cap on co-speakers, and the   *)
(* onboarding a confirmation starts (materialize.ts) are left out.         *)
(***************************************************************************)
EXTENDS EmailDelivery

CONSTANTS
    Speakers,           \* co-speakers listed on submissions
    MaxGeneration       \* bound of the model: last generation of a claim

Generations == 1..MaxGeneration

ASSUME CoSpeakersAssumption ==
    /\ MaxGeneration \in Nat \ {0}
    /\ Keys = Speakers \X Generations

VARIABLES
    speaker,    \* the submission_speakers row: status, generation of its token
    claim,      \* co_speaker_invitation_claims.generation, 0 without a row
    retired,    \* history: generation delivered before the speaker was revived
    handler     \* where each worker is in its request

coSpeakerVars == <<speaker, claim, retired, handler>>
vars == <<deliveryVars, coSpeakerVars>>

SpeakerStatuses == {"pending", "confirmed", "declined", "removed"}
NoToken == 0
Invited(g) == [status |-> "pending", token |-> g]

Rounds == 1..4

NoHandler == [at |-> "idle"]
Inviting == [at : {"invite", "look", "first", "rotate", "link"},
             who : Speakers, resend : BOOLEAN, round : Rounds,
             generation : Generations]
Answering == [at : {"read", "answer"}, who : Speakers,
              answer : {"confirmed", "declined"}]
Reviving == [at : {"revive"}, who : Speakers]

TypeOK ==
    /\ DeliveryTypeOK
    /\ speaker \in [Speakers -> [status : SpeakerStatuses,
                                 token : Generations \cup {NoToken}]]
    /\ claim \in [Speakers -> Generations \cup {0}]
    /\ retired \in [Speakers -> Generations \cup {0}]
    /\ handler \in [Workers ->
                    Inviting \cup Answering \cup Reviving \cup {NoHandler}]

\* Listed when the talk was submitted, not yet invited.
Init ==
    /\ DeliveryInit
    /\ speaker = [s \in Speakers |-> Invited(NoToken)]
    /\ claim = [s \in Speakers |-> 0]
    /\ retired = [s \in Speakers |-> 0]
    /\ handler = [w \in Workers |-> NoHandler]

-----------------------------------------------------------------------------

Free(w) == handler[w] = NoHandler /\ attempt[w] = NoAttempt
Handles(w, stage) == handler[w].at = stage
Who(w) == handler[w].who

MoveTo(w, stage) == handler' = [handler EXCEPT ![w].at = stage]
Return(w) == handler' = [handler EXCEPT ![w] = NoHandler]

\* Mutant: claims are numbered from zero.
FirstGenerationZero == 0

\* buildCoSpeakerClaim(args, 1)
FirstGeneration == 1

CallInvite(w, s, resend) ==
    handler' = [handler EXCEPT ![w] =
        [at |-> "invite", who |-> s, resend |-> resend, round |-> 1,
         generation |-> FirstGeneration]]

\* A repair after the submission, the first invitation, or a resend.
Invite(w, s, resend) ==
    /\ Free(w)
    /\ CallInvite(w, s, resend)
    /\ UNCHANGED <<deliveryVars, speaker, claim, retired>>

-----------------------------------------------------------------------------
(* inviteCoSpeaker *)

ReadInvited(w) ==
    /\ Handles(w, "invite")
    /\ IF speaker[Who(w)].status \in {"removed", "confirmed"}
       THEN Return(w)
       ELSE MoveTo(w, "look")
    /\ UNCHANGED <<deliveryVars, speaker, claim, retired>>

\* The message of the current generation was refused, or an organizer resends
\* one that was delivered.
MayRotate(w) ==
    LET row == delivery[<<Who(w), claim[Who(w)]>>]
    IN  \/ row.status = "failed"
        \/ row.status = "sent" /\ handler[w].resend

\* The bound: no rotation past MaxGeneration.
LookAtClaim(w) ==
    /\ Handles(w, "look")
    /\ \/ /\ claim[Who(w)] = 0
          /\ MoveTo(w, "first")
       \/ /\ claim[Who(w)] \in 1..(MaxGeneration - 1)
          /\ MayRotate(w)
          /\ handler' = [handler EXCEPT
                ![w].at = "rotate", ![w].generation = claim[Who(w)] + 1]
       \/ /\ claim[Who(w)] # 0
          /\ ~MayRotate(w)
          /\ handler' = [handler EXCEPT
                ![w].at = "link", ![w].generation = claim[Who(w)]]
    /\ UNCHANGED <<deliveryVars, speaker, claim, retired>>

\* "Invitation was updated concurrently; retry", after the fourth round.
LookAgain(w) ==
    IF handler[w].round < 4
    THEN handler' = [handler EXCEPT ![w].at = "look", ![w].round = @ + 1]
    ELSE Return(w)

\* INSERT ... ON CONFLICT(speaker_id) DO NOTHING
FirstClaim(w) ==
    /\ Handles(w, "first")
    /\ IF claim[Who(w)] = 0
       THEN /\ claim' = [claim EXCEPT ![Who(w)] = handler[w].generation]
            /\ MoveTo(w, "link")
       ELSE UNCHANGED claim /\ LookAgain(w)
    /\ UNCHANGED <<deliveryVars, speaker, retired>>

\* Mutant: the claim is rotated as it was looked at.
RotatesAsLooked(w) == claim[Who(w)] = handler[w].generation - 1

\* The claim is still the one looked at, and still rotatable.
Rotates(w) == claim[Who(w)] = handler[w].generation - 1 /\ MayRotate(w)

\* One batch.  Its second statement sets the link whenever the claim is at
\* the new generation, also when another request has rotated it there.
Rotate(w) ==
    LET s == Who(w)
        g == handler[w].generation
    IN  /\ Handles(w, "rotate")
        /\ IF Rotates(w)
           THEN /\ claim' = [claim EXCEPT ![s] = g]
                /\ speaker' = [speaker EXCEPT ![s] = Invited(g)]
                /\ MoveTo(w, "link")
           ELSE /\ UNCHANGED claim
                /\ speaker' = IF claim[s] = g
                              THEN [speaker EXCEPT ![s] = Invited(g)]
                              ELSE speaker
                /\ LookAgain(w)
        /\ UNCHANGED <<deliveryVars, retired>>

\* Mutant: the link is set without asking for the claim.
StillClaimedUnasked(w) == TRUE

StillClaimed(w) == claim[Who(w)] = handler[w].generation

\* The row is set to pending and to this link if the claim is still this
\* generation's; the message is sent in any case.
LinkAndSend(w) ==
    LET s == Who(w)
        g == handler[w].generation
    IN  /\ Handles(w, "link")
        /\ speaker' = IF StillClaimed(w)
                      THEN [speaker EXCEPT ![s] = Invited(g)]
                      ELSE speaker
        /\ Send(w, <<s, g>>)
        /\ Return(w)
        /\ UNCHANGED <<claim, retired>>

-----------------------------------------------------------------------------
(* confirmCoSpeaker, declineCoSpeaker *)

BeginAnswer(w, s, answer) ==
    /\ Free(w)
    /\ handler' = [handler EXCEPT ![w] =
            [at |-> "read", who |-> s, answer |-> answer]]
    /\ UNCHANGED <<deliveryVars, speaker, claim, retired>>

\* Somebody opens the link that works.
OpenLink(w, s, answer) ==
    /\ speaker[s].token # NoToken
    /\ BeginAnswer(w, s, answer)

\* An organizer confirms for them, or they have completed a task.
ConfirmForThem(w, s) == BeginAnswer(w, s, "confirmed")

ReadAnswering(w) ==
    /\ Handles(w, "read")
    /\ IF speaker[Who(w)].status \in {"removed", handler[w].answer}
       THEN Return(w)
       ELSE MoveTo(w, "answer")
    /\ UNCHANGED <<deliveryVars, speaker, claim, retired>>

WriteAnswer(w) ==
    /\ Handles(w, "answer")
    /\ speaker' = [speaker EXCEPT ![Who(w)].status = handler[w].answer]
    /\ Return(w)
    /\ UNCHANGED <<deliveryVars, claim, retired>>

-----------------------------------------------------------------------------
(* removeCoSpeaker, addCoSpeaker *)

Remove(s) ==
    /\ speaker' = [speaker EXCEPT ![s].status = "removed", ![s].token = NoToken]
    /\ UNCHANGED <<deliveryVars, claim, retired, handler>>

\* Added under the address of a speaker who was removed.
BeginRevive(w, s) ==
    /\ Free(w)
    /\ speaker[s].status = "removed"
    /\ handler' = [handler EXCEPT ![w] = [at |-> "revive", who |-> s]]
    /\ UNCHANGED <<deliveryVars, speaker, claim, retired>>

Delivered(s) == claim[s] # 0 /\ <<s, claim[s]>> \in taken

\* The same row again, and the route goes on to invite with mode "resend".
Revive(w) ==
    LET s == Who(w)
    IN  /\ Handles(w, "revive")
        /\ speaker' = [speaker EXCEPT ![s] = Invited(NoToken)]
        /\ retired' = [retired EXCEPT ![s] = IF Delivered(s) THEN claim[s] ELSE @]
        /\ CallInvite(w, s, TRUE)
        /\ UNCHANGED <<deliveryVars, claim>>

-----------------------------------------------------------------------------

\* The worker dies, or a statement throws.
StopHandler(w) ==
    /\ handler[w] # NoHandler
    /\ Return(w)
    /\ UNCHANGED <<deliveryVars, speaker, claim, retired>>

\* A message is on its way, or an organizer replays one.
Deliver ==
    /\ \/ Tick
       \/ \E w \in Workers : AttemptStep(w)
       \/ \E w \in Workers, k \in Keys : Free(w) /\ Replay(w, k)
    /\ UNCHANGED coSpeakerVars

HandlerStep(w) ==
    \/ ReadInvited(w)
    \/ LookAtClaim(w)
    \/ FirstClaim(w)
    \/ Rotate(w)
    \/ LinkAndSend(w)
    \/ ReadAnswering(w)
    \/ WriteAnswer(w)
    \/ Revive(w)
    \/ StopHandler(w)

Request(w, s) ==
    \/ \E resend \in BOOLEAN : Invite(w, s, resend)
    \/ \E answer \in {"confirmed", "declined"} : OpenLink(w, s, answer)
    \/ ConfirmForThem(w, s)
    \/ BeginRevive(w, s)

Next ==
    \/ Deliver
    \/ \E w \in Workers : HandlerStep(w)
    \/ \E w \in Workers, s \in Speakers : Request(w, s)
    \/ \E s \in Speakers : Remove(s)

Spec == Init /\ [][Next]_vars

-----------------------------------------------------------------------------
(* Properties *)

\* However invitations overlap, the one link of a speaker that works is the
\* link of the current claim, and a removed speaker has none
\* (co-speakers.ts:144-155, 226-250, 465-472).
LiveLinkIsClaimed ==
    \A s \in Speakers : speaker[s].token # NoToken =>
        /\ speaker[s].token = claim[s]
        /\ speaker[s].status # "removed"

\* A claim moves on by one generation, and only from a message recorded as
\* refused or, for a resend, as delivered, at the time of the batch and not
\* only of the look before it (co-speakers.ts:222-254; the tests "rotates a
\* co-speaker link only after a confirmed provider rejection" and "only for an
\* explicit organizer resend", database-invariants.test.ts:337, 360).
RotationIsJustified ==
    [][\A s \in Speakers : claim[s] # 0 /\ claim'[s] # claim[s] =>
        /\ claim'[s] = claim[s] + 1
        /\ \/ delivery[<<s, claim[s]>>].status = "failed"
           \/ /\ delivery[<<s, claim[s]>>].status = "sent"
              /\ \E w \in Workers : /\ Handles(w, "rotate")
                                    /\ handler[w].resend /\ Who(w) = s
      ]_vars

\* Once a removed speaker is added again, the link delivered before no longer
\* works: "resend rotates it so the old bearer token stops working"
\* (app/api/admin/events/[eventSlug]/submissions/[submissionId]/speakers/route.ts:104-105).
RetiredLinkIsDead ==
    \A s \in Speakers :
        speaker[s].token # NoToken => speaker[s].token > retired[s]
=============================================================================
