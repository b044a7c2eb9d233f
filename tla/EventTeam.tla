------------------------------ MODULE EventTeam ------------------------------
(***************************************************************************)
(* Who belongs to an event's team, who owns it, and the one-time links that *)
(* let people in: sign-in links and invitations                            *)
(* (src/src/lib/auth/challenges.ts, src/src/lib/events/invite-member.ts,   *)
(* src/src/lib/db/queries.ts, src/src/app/auth/callback/route.ts).         *)
(*                                                                         *)
(* A link is a row of auth_challenges, and for an invitation a row of      *)
(* event_invitations too.  Both are stored before the e-mail is sent.  A   *)
(* link may be followed in two tabs, and while its sender is still waiting *)
(* for the provider, whose refusal may concern a retry of a message it has *)
(* already taken.                                                          *)
(***************************************************************************)
EXTENDS Integers, FiniteSets

CONSTANTS
    Accounts,   \* accounts, by e-mail
    Founder,    \* the one that created the event
    Team,       \* its members, as earlier invitations have made them
    Links,      \* one-time links that may be made
    Guests,     \* Worker requests
    LinkTtl,    \* ORGANIZER_TTL_MS, in ticks
    LastMinute  \* bound of the model: the end of its clock

ASSUME EventTeamAssumption ==
    /\ Founder \in Team /\ Team \subseteq Accounts
    /\ LinkTtl \in Nat /\ LastMinute \in Nat

VARIABLES
    members,    \* event_memberships
    owner,      \* event_ownership
    links,      \* auth_challenges
    invites,    \* event_invitations, by the link they hold
    inbox,      \* links whose e-mail has reached its reader
    keys,       \* event_api_tokens, one per account at most
    visit,      \* the requests under way
    minute,     \* Date.now()
    letIn,      \* history: how often each link has opened a session
    joined      \* history: how often each link has made someone a member

teamVars == <<members, owner, links, invites, inbox, keys, visit, minute, letIn, joined>>

NoLink == [state |-> "none", kind |-> "none", account |-> Founder, until |-> 0]
NoInvite == [status |-> "none", role |-> "none", by |-> Founder]
NoVisit == [at |-> "free"]

TeamTypeOK ==
    /\ members \subseteq Accounts
    /\ owner \in Accounts
    /\ links \in [Links -> [state : {"none", "active", "consumed", "failed"},
                            kind : {"none", "login", "invite"},
                            account : Accounts, until : Nat]]
    /\ invites \in [Links -> [status : {"none", "delivered", "accepted", "failed"},
                              role : {"none", "admin", "owner"}, by : Accounts]]
    /\ inbox \subseteq Links
    /\ keys \in [Accounts -> {"none", "live", "revoked"}]
    /\ minute \in Nat
    /\ letIn \in [Links -> Nat] /\ joined \in [Links -> Nat]

\* createEvent makes the founder a member and the owner.
TeamInit ==
    /\ members = Team
    /\ owner = Founder
    /\ links = [l \in Links |-> NoLink]
    /\ invites = [l \in Links |-> NoInvite]
    /\ inbox = {}
    /\ keys = [a \in Accounts |-> "none"]
    /\ visit = [g \in Guests |-> NoVisit]
    /\ minute = 0
    /\ letIn = [l \in Links |-> 0]
    /\ joined = [l \in Links |-> 0]

Begin(g, job) == visit[g] = NoVisit /\ visit' = [visit EXCEPT ![g] = job]
Step(g, stage) == visit' = [visit EXCEPT ![g].at = stage]
Done(g) == visit' = [visit EXCEPT ![g] = NoVisit]

-----------------------------------------------------------------------------
(* Making a link *)

Unused(l) ==
    /\ links[l] = NoLink
    /\ \A g \in Guests : visit[g].at = "challenge" => visit[g].link # l

\* POST /api/auth/request-link, or the portal's.
AskLogin(g, l, a) ==
    /\ Unused(l)
    /\ Begin(g, [at |-> "challenge", link |-> l, kind |-> "login", account |-> a,
                 role |-> "none", by |-> a])
    /\ UNCHANGED <<members, owner, links, invites, inbox, keys, minute, letIn, joined>>

\* POST .../members: only the owner invites an owner.
Invite(g, l, a, by, role) ==
    /\ Unused(l)
    /\ by \in members
    /\ role = "owner" => by = owner
    /\ Begin(g, [at |-> "challenge", link |-> l, kind |-> "invite", account |-> a,
                 role |-> role, by |-> by])
    /\ UNCHANGED <<members, owner, links, invites, inbox, keys, minute, letIn, joined>>

CreateChallenge(g) ==
    /\ visit[g].at = "challenge"
    /\ links' = [links EXCEPT ![visit[g].link] =
            [state |-> "active", kind |-> visit[g].kind,
             account |-> visit[g].account, until |-> minute + LinkTtl]]
    /\ Step(g, IF visit[g].kind = "invite" THEN "invitation" ELSE "send")
    /\ UNCHANGED <<members, owner, invites, inbox, keys, minute, letIn, joined>>

InsertInvitation(g) ==
    /\ visit[g].at = "invitation"
    /\ invites' = [invites EXCEPT ![visit[g].link] =
            [status |-> "delivered", role |-> visit[g].role, by |-> visit[g].by]]
    /\ Step(g, "send")
    /\ UNCHANGED <<members, owner, links, inbox, keys, minute, letIn, joined>>

\* The provider takes the message, whether or not its answer comes.
MailTaken(g) ==
    /\ visit[g].at = "send"
    /\ inbox' = inbox \cup {visit[g].link}
    /\ UNCHANGED <<members, owner, links, invites, keys, visit, minute, letIn, joined>>

\* Accepted, or nothing certain: the link is left alone.
MailUncertain(g) ==
    /\ visit[g].at = "send"
    /\ Done(g)
    /\ UNCHANGED <<members, owner, links, invites, inbox, keys, minute, letIn, joined>>

\* Refused: a confirmed failure.
MailRefused(g) ==
    /\ visit[g].at = "send"
    /\ Step(g, "fail")
    /\ UNCHANGED <<members, owner, links, invites, inbox, keys, minute, letIn, joined>>

\* The challenge is shut if it still waits.
Shut(row) == IF row.state = "active" THEN [row EXCEPT !.state = "failed"] ELSE row

\* Mutant: the invitation is failed whatever has become of it.
FailedAnyway(row) == [row EXCEPT !.status = "failed"]

\* AND status = 'delivered'
Failed(row) == IF row.status = "delivered" THEN [row EXCEPT !.status = "failed"] ELSE row

\* failOneTimeLinkChallengeIfConfirmed, and the batch of inviteOrganizerToEvent.
FailLink(g) ==
    LET l == visit[g].link
    IN  /\ visit[g].at = "fail"
        /\ invites' = IF visit[g].kind = "invite"
                      THEN [invites EXCEPT ![l] = Failed(@)] ELSE invites
        /\ links' = IF visit[g].kind = "login" \/ invites'[l].status = "failed"
                    THEN [links EXCEPT ![l] = Shut(@)] ELSE links
        /\ Done(g)
        /\ UNCHANGED <<members, owner, inbox, keys, minute, letIn, joined>>

-----------------------------------------------------------------------------
(* Following a link: GET /auth/callback, /portal/authorize *)

Open(l) == links[l].state = "active" /\ links[l].until >= minute

Follow(g, l) ==
    /\ l \in inbox
    /\ Begin(g, [at |-> "consume", link |-> l])
    /\ UNCHANGED <<members, owner, links, invites, inbox, keys, minute, letIn, joined>>

\* Mutant: a link that has not run out lets in, used or not.
LetsInUnlessExpired(l) == links[l].kind = "login" /\ links[l].until >= minute

LetsIn(l) == links[l].kind = "login" /\ Open(l)

\* consumeAuthChallenge: one conditional UPDATE.
Consume(g) ==
    LET l == visit[g].link
    IN  /\ visit[g].at = "consume"
        /\ IF LetsIn(l)
           THEN /\ links' = [links EXCEPT ![l].state = "consumed"]
                /\ Step(g, "enter")
           ELSE UNCHANGED links /\ Step(g, "look")
        /\ UNCHANGED <<members, owner, invites, inbox, keys, minute, letIn, joined>>

\* acceptEventInvitation: the invitation is read...
LookUp(g) ==
    /\ visit[g].at = "look"
    /\ IF invites[visit[g].link].status = "delivered" THEN Step(g, "accept") ELSE Done(g)
    /\ UNCHANGED <<members, owner, links, invites, inbox, keys, minute, letIn, joined>>

\* Mutant: whoever was the owner when inviting.
InviterMayAsMember(l) == invites[l].by \in members

\* The inviter is still on the team, and for an owner's invitation its owner.
InviterMay(l) ==
    /\ invites[l].by \in members
    /\ invites[l].role = "owner" => invites[l].by = owner

Acceptable(l) == invites[l].status = "delivered" /\ Open(l) /\ InviterMay(l)

\* Mutant: the statements after the first ask only whether it is accepted.
GrantsIfAccepted(l) == Acceptable(l) \/ invites[l].status = "accepted"

\* The statements after the first ask for its accepted_at.
Grants(l) == Acceptable(l)

\* ... and accepted in one batch with all it brings.
Accept(g) ==
    LET l == visit[g].link
        a == links[l].account
    IN  /\ visit[g].at = "accept"
        /\ members' = IF Grants(l) THEN members \cup {a} ELSE members
        /\ joined' = IF Grants(l) /\ a \notin members
                     THEN [joined EXCEPT ![l] = @ + 1] ELSE joined
        /\ owner' = IF Grants(l) /\ invites[l].role = "owner" THEN a ELSE owner
        /\ IF Acceptable(l)
           THEN /\ invites' = [invites EXCEPT ![l].status = "accepted"]
                /\ links' = [links EXCEPT ![l].state = "consumed"]
                /\ Step(g, "enter")
           ELSE UNCHANGED <<invites, links>> /\ Step(g, "refuse")
        /\ UNCHANGED <<inbox, keys, minute, letIn>>

\* Nothing was accepted: an inviter who may not any more is recorded.
Refuse(g) ==
    LET l == visit[g].link
    IN  /\ visit[g].at = "refuse"
        /\ invites' = IF InviterMay(l) THEN invites ELSE [invites EXCEPT ![l] = Failed(@)]
        /\ links' = IF invites'[l].status = "failed"
                    THEN [links EXCEPT ![l] = Shut(@)] ELSE links
        /\ Done(g)
        /\ UNCHANGED <<members, owner, inbox, keys, minute, letIn, joined>>

\* createOrganizerSession, createPortalSession.
Enter(g) ==
    /\ visit[g].at = "enter"
    /\ letIn' = [letIn EXCEPT ![visit[g].link] = @ + 1]
    /\ Done(g)
    /\ UNCHANGED <<members, owner, links, invites, inbox, keys, minute, joined>>

-----------------------------------------------------------------------------
(* The team *)

\* removeEventMembership, by the owner or by a member who leaves: read first.
Remove(g, a) ==
    /\ a \in members \ {owner}
    /\ Begin(g, [at |-> "delete", account |-> a])
    /\ UNCHANGED <<members, owner, links, invites, inbox, keys, minute, letIn, joined>>

\* Mutant: the owner read before is relied on.
RemovableAsRead(a) == TRUE

\* AND NOT EXISTS (SELECT 1 FROM event_ownership ...), and its foreign key.
Removable(a) == a # owner

DeleteMember(g) ==
    LET a == visit[g].account
    IN  /\ visit[g].at = "delete"
        /\ IF a \in members /\ Removable(a)
           THEN members' = members \ {a} /\ Step(g, "revoke")
           ELSE UNCHANGED members /\ Done(g)
        /\ UNCHANGED <<owner, links, invites, inbox, keys, minute, letIn, joined>>

RevokeKeys(g) ==
    LET a == visit[g].account
    IN  /\ visit[g].at = "revoke"
        /\ keys' = IF keys[a] = "live" THEN [keys EXCEPT ![a] = "revoked"] ELSE keys
        /\ Done(g)
        /\ UNCHANGED <<members, owner, links, invites, inbox, minute, letIn, joined>>

\* transferEventOwnership: the owner asks, the target is read ...
Transfer(g, a) ==
    /\ a \in members \ {owner}
    /\ Begin(g, [at |-> "hand", account |-> a])
    /\ UNCHANGED <<members, owner, links, invites, inbox, keys, minute, letIn, joined>>

\* ... and made the owner, whoever is now; the foreign key wants a member.
HandOver(g) ==
    /\ visit[g].at = "hand"
    /\ owner' = IF visit[g].account \in members THEN visit[g].account ELSE owner
    /\ Done(g)
    /\ UNCHANGED <<members, links, invites, inbox, keys, minute, letIn, joined>>

\* createToken, for a member.
AskKey(g, a) ==
    /\ a \in members /\ keys[a] = "none"
    /\ Begin(g, [at |-> "mint", account |-> a])
    /\ UNCHANGED <<members, owner, links, invites, inbox, keys, minute, letIn, joined>>

MintKey(g) ==
    /\ visit[g].at = "mint"
    /\ keys' = [keys EXCEPT ![visit[g].account] = "live"]
    /\ Done(g)
    /\ UNCHANGED <<members, owner, links, invites, inbox, minute, letIn, joined>>

\* The Worker dies.
GuestDies(g) ==
    /\ visit[g] # NoVisit
    /\ Done(g)
    /\ UNCHANGED <<members, owner, links, invites, inbox, keys, minute, letIn, joined>>

Minute ==
    /\ minute < LastMinute
    /\ minute' = minute + 1
    /\ UNCHANGED <<members, owner, links, invites, inbox, keys, visit, letIn, joined>>

GuestStep(g) ==
    \/ CreateChallenge(g) \/ InsertInvitation(g)
    \/ MailTaken(g) \/ MailUncertain(g) \/ MailRefused(g) \/ FailLink(g)
    \/ Consume(g) \/ LookUp(g) \/ Accept(g) \/ Refuse(g) \/ Enter(g)
    \/ DeleteMember(g) \/ RevokeKeys(g) \/ HandOver(g) \/ MintKey(g)
    \/ GuestDies(g)

NewRequest(g) ==
    \/ \E l \in Links, a \in Accounts : AskLogin(g, l, a)
    \/ \E l \in Links, a \in Accounts, by \in Accounts, role \in {"admin", "owner"} :
            Invite(g, l, a, by, role)
    \/ \E l \in Links : Follow(g, l)
    \/ \E a \in Accounts : Remove(g, a) \/ Transfer(g, a) \/ AskKey(g, a)

TeamNext ==
    \/ Minute
    \/ \E g \in Guests : GuestStep(g) \/ NewRequest(g)

TeamSpec == TeamInit /\ [][TeamNext]_teamVars

-----------------------------------------------------------------------------
(* Properties *)

\* "Atomic one-time challenge consumption" (challenges.ts:49): however often
\* and in however many tabs a link is followed, it opens one session and makes
\* one member, even when that member has been removed since.
LinksWorkOnce == \A l \in Links : letIn[l] <= 1 /\ joined[l] <= 1

\* The owner is on the team, whatever removals, transfers and acceptances meet.
OwnerOnTheTeam == owner \in members

\* An invitation and its challenge agree: one that let its reader in is never
\* recorded as undelivered, nor one recorded as failed open again
\* (invite-member.ts:95-101, 197-238).
InvitationsAndLinksAgree ==
    \A l \in Links : invites[l].status # "none" =>
        /\ invites[l].status = "accepted" <=> links[l].state = "consumed"
        /\ invites[l].status = "failed" <=> links[l].state = "failed"

\* "A removed inviter (and, for owner invitations, a former owner) cannot
\* grant access later" (invite-member.ts:215): an invitation makes a member
\* only on the word of one, and an owner only on the word of the owner.
InvitersGrantWhatIsTheirs ==
    [][\A l \in Links :
        invites'[l].status = "accepted" /\ invites[l].status # "accepted" =>
            /\ invites[l].by \in members
            /\ invites[l].role = "owner" => invites[l].by = owner]_teamVars

\* The tables of the team hold together under requests that overlap and die:
\* links work once, invitations agree with them, the owner stays.
TeamIsSound == LinksWorkOnce /\ InvitationsAndLinksAgree /\ OwnerOnTheTeam
==============================================================================
