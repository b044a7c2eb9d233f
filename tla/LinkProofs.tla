------------------------------ MODULE LinkProofs ------------------------------
(***************************************************************************)
(* Links that let somebody in: the one-time links of the event's team      *)
(* (module EventTeam), for any number of accounts, links and requests, and *)
(* the private links of a proposal (module CfpDrafts), for any number of   *)
(* links, edits and requests.                                              *)
(***************************************************************************)
EXTENDS EventTeam, CfpDrafts, FiniteSetTheorems, SequenceTheorems, TLAPS

(* What a request knows of its link at each point. *)

MakingVisits ==
    [at : {"challenge", "invitation", "send", "fail"}, link : Links,
     kind : {"login", "invite"}, account : Accounts,
     role : {"none", "admin", "owner"}, by : Accounts]
FollowingVisits ==
    [at : {"consume", "look", "accept", "refuse", "enter"}, link : Links]
MemberVisits == [at : {"delete", "revoke", "hand", "mint"}, account : Accounts]

VisitTypes ==
    visit \in [Guests -> MakingVisits \cup FollowingVisits \cup MemberVisits
                            \cup {NoVisit}]

\* The rows of one link, and what it has done so far.
LinkSound(l) ==
    /\ links[l].kind = "none" <=> links[l].state = "none"
    /\ invites[l].status # "none" => links[l].kind = "invite"
    /\ l \in inbox => links[l].kind # "none"
    /\ l \in inbox /\ links[l].kind = "invite" => invites[l].status # "none"
    /\ links[l].kind = "invite" /\ invites[l].status = "none"
         => links[l].state = "active"
    /\ letIn[l] \in {0, 1} /\ (letIn[l] = 1 => links[l].state = "consumed")
    /\ joined[l] \in {0, 1} /\ (joined[l] = 1 => links[l].state = "consumed")

VisitSound(g) ==
    LET l == visit[g].link
    IN  /\ visit[g].at = "challenge" => links[l].kind = "none"
        /\ visit[g].at = "invitation" =>
              /\ visit[g].kind = "invite" /\ links[l].kind = "invite"
              /\ invites[l].status = "none"
        /\ visit[g].at \in {"send", "fail"} =>
              /\ links[l].kind = visit[g].kind
              /\ visit[g].kind = "invite" => invites[l].status # "none"
        /\ visit[g].at \in {"consume", "look", "accept", "refuse", "enter"}
              => l \in inbox
        /\ visit[g].at \in {"accept", "refuse"} => invites[l].status # "none"
        /\ visit[g].at = "enter" => links[l].state = "consumed" /\ letIn[l] = 0

\* Two requests at one of these points have two links.
VisitsApart ==
    \A g, h \in Guests :
        g # h /\ visit[g].at = visit[h].at
              /\ visit[g].at \in {"challenge", "invitation", "enter"}
            => visit[g].link # visit[h].link

TeamInv ==
    /\ TeamTypeOK /\ VisitTypes
    /\ \A l \in Links : LinkSound(l)
    /\ InvitationsAndLinksAgree
    /\ \A g \in Guests : VisitSound(g)
    /\ VisitsApart
    /\ OwnerOnTheTeam

LEMMA TeamStarts == TeamInit => TeamInv
BY EventTeamAssumption
   DEF TeamInit, TeamInv, TeamTypeOK, VisitTypes, NoVisit, LinkSound, NoLink,
       NoInvite, InvitationsAndLinksAgree, VisitSound, VisitsApart, OwnerOnTheTeam

tables == <<members, owner, links, invites, inbox, keys, minute, letIn, joined>>

\* A request moves on, and the tables stay as they are.
LEMMA OneVisitMoves ==
    ASSUME TeamInv, NEW g \in Guests, UNCHANGED tables, VisitTypes',
           \A h \in Guests \ {g} : visit'[h] = visit[h],
           VisitSound(g)',
           \A h \in Guests \ {g} :
              /\ visit'[g].at \in {"challenge", "invitation", "enter"}
              /\ visit[h].at = visit'[g].at
              => visit[h].link # visit'[g].link
    PROVE  TeamInv'
<1>1. TeamTypeOK' /\ InvitationsAndLinksAgree' /\ OwnerOnTheTeam'
  BY DEF tables, TeamInv, TeamTypeOK, InvitationsAndLinksAgree, OwnerOnTheTeam
<1>2. \A l \in Links : LinkSound(l)'
  BY DEF tables, TeamInv, LinkSound
<1>3. ASSUME NEW h \in Guests PROVE VisitSound(h)'
  <2>1. CASE h = g
    BY <2>1
  <2>2. CASE h # g
    BY <2>2 DEF tables, TeamInv, VisitSound
  <2> QED
    BY <2>1, <2>2
<1>4. VisitsApart'
  BY DEF TeamInv, VisitsApart
<1> QED
  BY <1>1, <1>2, <1>3, <1>4 DEF TeamInv

\* A request begins where nothing is known of its link yet.
LEMMA BeginKeeps ==
    ASSUME TeamInv, NEW g \in Guests, NEW v \in MakingVisits \cup FollowingVisits \cup MemberVisits,
           Begin(g, v), UNCHANGED tables,
           v.at \in {"challenge", "consume", "delete", "hand", "mint"},
           v.at = "challenge" => Unused(v.link),
           v.at = "consume" => v.link \in inbox
    PROVE  TeamInv'
<1>1. /\ visit'[g] = v
      /\ \A h \in Guests \ {g} : visit'[h] = visit[h]
      /\ VisitTypes'
  BY DEF Begin, TeamInv, VisitTypes
<1>2. VisitSound(g)'
  BY <1>1 DEF VisitSound, Unused, NoLink, tables
<1>3. \A h \in Guests \ {g} : v.at = "challenge" /\ visit[h].at = "challenge"
                                => visit[h].link # v.link
  BY DEF Unused
<1> QED
  BY <1>1, <1>2, <1>3, OneVisitMoves

LEMMA NewRequestKeeps ==
    ASSUME TeamInv, NEW g \in Guests, NewRequest(g)
    PROVE  TeamInv'
<1>1. ASSUME NEW l \in Links, NEW a \in Accounts, AskLogin(g, l, a)
      PROVE  TeamInv'
  BY <1>1, BeginKeeps DEF AskLogin, MakingVisits, tables
<1>2. ASSUME NEW l \in Links, NEW a \in Accounts, NEW by \in Accounts,
             NEW role \in {"admin", "owner"}, Invite(g, l, a, by, role)
      PROVE  TeamInv'
  BY <1>2, BeginKeeps DEF Invite, MakingVisits, tables
<1>3. ASSUME NEW l \in Links, Follow(g, l)
      PROVE  TeamInv'
  BY <1>3, BeginKeeps DEF Follow, FollowingVisits, tables
<1>4. ASSUME NEW a \in Accounts, Remove(g, a) \/ Transfer(g, a) \/ AskKey(g, a)
      PROVE  TeamInv'
  BY <1>4, BeginKeeps DEF Remove, Transfer, AskKey, MemberVisits, tables
<1> QED
  BY <1>1, <1>2, <1>3, <1>4 DEF NewRequest

\* How one request's record changes.
LEMMA VisitSteps ==
    ASSUME TeamInv, NEW g \in Guests, visit[g] # NoVisit
    PROVE  /\ Done(g) => /\ visit'[g] = NoVisit
                         /\ \A h \in Guests \ {g} : visit'[h] = visit[h]
                         /\ VisitTypes'
           /\ visit[g] \in MakingVisits
                => \A at \in {"challenge", "invitation", "send", "fail"} :
                     Step(g, at) =>
                       /\ visit'[g] \in MakingVisits
                       /\ visit'[g].at = at /\ visit'[g].link = visit[g].link
                       /\ visit'[g].kind = visit[g].kind
                       /\ \A h \in Guests \ {g} : visit'[h] = visit[h]
                       /\ VisitTypes'
           /\ visit[g] \in FollowingVisits
                => \A at \in {"look", "accept", "refuse", "enter"} :
                     Step(g, at) =>
                       /\ visit'[g] \in FollowingVisits
                       /\ visit'[g].at = at /\ visit'[g].link = visit[g].link
                       /\ \A h \in Guests \ {g} : visit'[h] = visit[h]
                       /\ VisitTypes'
           /\ visit[g] \in MemberVisits
                => (Step(g, "revoke") =>
                       /\ visit'[g].at = "revoke"
                       /\ \A h \in Guests \ {g} : visit'[h] = visit[h]
                       /\ VisitTypes')
<1>1. Done(g) => /\ visit'[g] = NoVisit
                 /\ \A h \in Guests \ {g} : visit'[h] = visit[h]
                 /\ VisitTypes'
  BY DEF Done, TeamInv, VisitTypes
<1>2. ASSUME visit[g] \in MakingVisits,
             NEW at \in {"challenge", "invitation", "send", "fail"}, Step(g, at)
      PROVE  /\ visit'[g] \in MakingVisits
             /\ visit'[g].at = at /\ visit'[g].link = visit[g].link
             /\ visit'[g].kind = visit[g].kind
             /\ \A h \in Guests \ {g} : visit'[h] = visit[h]
             /\ VisitTypes'
  BY <1>2 DEF Step, TeamInv, VisitTypes, MakingVisits
<1>3. ASSUME visit[g] \in FollowingVisits,
             NEW at \in {"look", "accept", "refuse", "enter"}, Step(g, at)
      PROVE  /\ visit'[g] \in FollowingVisits
             /\ visit'[g].at = at /\ visit'[g].link = visit[g].link
             /\ \A h \in Guests \ {g} : visit'[h] = visit[h]
             /\ VisitTypes'
  BY <1>3 DEF Step, TeamInv, VisitTypes, FollowingVisits
<1>4. ASSUME visit[g] \in MemberVisits, Step(g, "revoke")
      PROVE  /\ visit'[g].at = "revoke"
             /\ \A h \in Guests \ {g} : visit'[h] = visit[h]
             /\ VisitTypes'
  BY <1>4 DEF Step, TeamInv, VisitTypes, MemberVisits
<1> QED
  BY <1>1, <1>2, <1>3, <1>4

\* Which shape of record a request has, by where it is.
LEMMA VisitShapes ==
    ASSUME TeamInv, NEW g \in Guests
    PROVE  /\ visit[g].at \in {"challenge", "invitation", "send", "fail"}
                => visit[g] \in MakingVisits /\ visit[g].link \in Links
           /\ visit[g].at \in {"consume", "look", "accept", "refuse", "enter"}
                => visit[g] \in FollowingVisits /\ visit[g].link \in Links
           /\ visit[g].at \in {"delete", "revoke", "hand", "mint"}
                => visit[g] \in MemberVisits /\ visit[g].account \in Accounts
           /\ visit[g].at # "free" => visit[g] # NoVisit
BY DEF TeamInv, VisitTypes, MakingVisits, FollowingVisits, MemberVisits, NoVisit

-----------------------------------------------------------------------------
(* Making a link *)

LEMMA CreateChallengeKeeps ==
    ASSUME TeamInv, NEW g \in Guests, CreateChallenge(g)
    PROVE  TeamInv'
<1> DEFINE l == visit[g].link
           at == IF visit[g].kind = "invite" THEN "invitation" ELSE "send"
<1>1. visit[g] \in MakingVisits /\ l \in Links /\ visit[g] # NoVisit
  BY VisitShapes DEF CreateChallenge
<1>2. /\ visit'[g].at = at /\ visit'[g].link = l /\ visit'[g].kind = visit[g].kind
      /\ visit[g].kind \in {"login", "invite"}
      /\ \A h \in Guests \ {g} : visit'[h] = visit[h]
      /\ VisitTypes'
  BY <1>1, VisitSteps DEF CreateChallenge, MakingVisits
<1>3. /\ links' = [links EXCEPT ![l] =
               [state |-> "active", kind |-> visit[g].kind,
                account |-> visit[g].account, until |-> minute + LinkTtl]]
      /\ visit[g].account \in Accounts
      /\ UNCHANGED <<members, owner, invites, inbox, keys, minute, letIn, joined>>
  BY <1>1 DEF CreateChallenge, MakingVisits
<1>4. links[l].kind = "none"
  BY DEF TeamInv, VisitSound, CreateChallenge
<1>5. /\ links'[l].state = "active" /\ links'[l].kind = visit[g].kind
      /\ \A k \in Links \ {l} : links'[k] = links[k]
      /\ TeamTypeOK'
  BY <1>1, <1>2, <1>3, EventTeamAssumption DEF TeamInv, TeamTypeOK
<1>6. /\ l \notin inbox /\ invites[l].status = "none"
      /\ letIn[l] = 0 /\ joined[l] = 0 /\ links[l].state = "none"
  BY <1>1, <1>4 DEF TeamInv, LinkSound
<1> HIDE DEF l, at
<1>7. ASSUME NEW k \in Links PROVE LinkSound(k)'
  BY <1>2, <1>3, <1>5, <1>6 DEF TeamInv, LinkSound
<1>8. InvitationsAndLinksAgree'
  BY <1>3, <1>5, <1>6 DEF TeamInv, InvitationsAndLinksAgree
<1>9. ASSUME NEW h \in Guests PROVE VisitSound(h)'
  <2>1. CASE h = g
    BY <1>2, <1>3, <1>5, <1>6, <2>1 DEF VisitSound, at
  <2>2. CASE h # g
    <3>1. visit[h].at = "challenge" => visit[h].link # l
      BY <2>2 DEF TeamInv, VisitsApart, CreateChallenge, l
    <3>2. visit[h].at \in {"invitation", "send", "fail"} => visit[h].link \in Links \ {l}
      BY <1>4, VisitShapes DEF TeamInv, VisitSound, MakingVisits
    <3>3. visit[h].at \in {"consume", "look", "accept", "refuse", "enter"}
            => visit[h].link \in Links \ {l}
      BY <1>6, VisitShapes DEF TeamInv, VisitSound
    <3> QED
      BY <1>2, <1>3, <1>5, <2>2, <3>1, <3>2, <3>3, VisitShapes DEF TeamInv, VisitSound
  <2> QED
    BY <2>1, <2>2
<1>10. VisitsApart'
  <2>1. \A h \in Guests \ {g} : visit[h].at = "invitation" => visit[h].link # l
    BY <1>4 DEF TeamInv, VisitSound
  <2> QED
    BY <1>2, <2>1 DEF TeamInv, VisitsApart, at
<1>11. OwnerOnTheTeam'
  BY <1>3 DEF TeamInv, OwnerOnTheTeam
<1> QED
  BY <1>2, <1>5, <1>7, <1>8, <1>9, <1>10, <1>11 DEF TeamInv

LEMMA InsertInvitationKeeps ==
    ASSUME TeamInv, NEW g \in Guests, InsertInvitation(g)
    PROVE  TeamInv'
<1> DEFINE l == visit[g].link
<1>1. visit[g] \in MakingVisits /\ l \in Links /\ visit[g] # NoVisit
  BY VisitShapes DEF InsertInvitation
<1>2. /\ visit'[g].at = "send" /\ visit'[g].link = l /\ visit'[g].kind = visit[g].kind
      /\ \A h \in Guests \ {g} : visit'[h] = visit[h]
      /\ VisitTypes'
  BY <1>1, VisitSteps DEF InsertInvitation
<1>3. /\ visit[g].kind = "invite" /\ links[l].kind = "invite"
      /\ invites[l].status = "none"
  BY DEF TeamInv, VisitSound, InsertInvitation
<1>4. links[l].state = "active" /\ l \notin inbox /\ letIn[l] = 0 /\ joined[l] = 0
  BY <1>1, <1>3 DEF TeamInv, LinkSound
<1>5. /\ invites'[l].status = "delivered"
      /\ \A k \in Links \ {l} : invites'[k] = invites[k]
      /\ TeamTypeOK'
      /\ UNCHANGED <<members, owner, links, inbox, keys, minute, letIn, joined>>
  BY <1>1 DEF InsertInvitation, TeamInv, TeamTypeOK, MakingVisits
<1> HIDE DEF l
<1>6. ASSUME NEW k \in Links PROVE LinkSound(k)'
  BY <1>3, <1>4, <1>5 DEF TeamInv, LinkSound
<1>7. InvitationsAndLinksAgree'
  BY <1>4, <1>5 DEF TeamInv, InvitationsAndLinksAgree
<1>8. ASSUME NEW h \in Guests PROVE VisitSound(h)'
  <2>1. CASE h = g
    BY <1>2, <1>3, <1>5, <2>1 DEF VisitSound
  <2>2. CASE h # g
    <3>1. visit[h].at = "invitation" => visit[h].link # l
      BY <2>2 DEF TeamInv, VisitsApart, InsertInvitation, l
    <3> QED
      BY <1>2, <1>5, <2>2, <3>1, VisitShapes DEF TeamInv, VisitSound
  <2> QED
    BY <2>1, <2>2
<1>9. VisitsApart' /\ OwnerOnTheTeam'
  BY <1>2, <1>5 DEF TeamInv, VisitsApart, OwnerOnTheTeam
<1> QED
  BY <1>2, <1>5, <1>6, <1>7, <1>8, <1>9 DEF TeamInv

\* What a new letter in the inbox needs is known by who sends it.
LEMMA MailKeeps ==
    ASSUME TeamInv, NEW g \in Guests, MailTaken(g) \/ MailUncertain(g) \/ MailRefused(g)
    PROVE  TeamInv'
<1>1. visit[g] \in MakingVisits /\ visit[g].link \in Links /\ visit[g] # NoVisit
  BY VisitShapes DEF MailTaken, MailUncertain, MailRefused
<1>2. VisitSound(g)
  BY DEF TeamInv
<1>3. CASE MailTaken(g)
  <2>1. inbox' = inbox \cup {visit[g].link}
        /\ UNCHANGED <<members, owner, links, invites, keys, visit, minute, letIn, joined>>
    BY <1>3 DEF MailTaken
  <2>2. /\ links[visit[g].link].kind # "none"
        /\ links[visit[g].link].kind = "invite" => invites[visit[g].link].status # "none"
    BY <1>1, <1>2, <1>3 DEF MailTaken, VisitSound, MakingVisits
  <2>3. \A l \in Links : LinkSound(l)'
    BY <2>1, <2>2 DEF TeamInv, LinkSound
  <2>4. \A h \in Guests : VisitSound(h)'
    BY <2>1 DEF TeamInv, VisitSound
  <2> QED
    BY <1>1, <2>1, <2>3, <2>4
       DEF TeamInv, TeamTypeOK, VisitTypes, InvitationsAndLinksAgree, VisitsApart,
           OwnerOnTheTeam
<1>4. CASE MailUncertain(g)
  <2>1. visit'[g] = NoVisit /\ VisitTypes' /\ \A h \in Guests \ {g} : visit'[h] = visit[h]
    BY <1>1, <1>4, VisitSteps DEF MailUncertain
  <2> QED
    BY <1>4, <2>1, OneVisitMoves DEF MailUncertain, tables, VisitSound, NoVisit
<1>5. CASE MailRefused(g)
  <2>1. /\ visit'[g].at = "fail" /\ visit'[g].link = visit[g].link
        /\ visit'[g].kind = visit[g].kind
        /\ VisitTypes' /\ \A h \in Guests \ {g} : visit'[h] = visit[h]
    BY <1>1, <1>5, VisitSteps DEF MailRefused
  <2>2. VisitSound(g)'
    BY <1>2, <1>5, <2>1 DEF MailRefused, VisitSound
  <2> QED
    BY <1>5, <2>1, <2>2, OneVisitMoves DEF MailRefused, tables
<1> QED
  BY <1>3, <1>4, <1>5

\* An invitation that is failed, if it still waits, is shut with its link.
LEMMA ShuttingKeeps ==
    ASSUME TeamInv, NEW g \in Guests, visit[g] # NoVisit, Done(g),
           NEW l \in Links, links[l].kind # "none",
           links[l].kind = "invite" => invites[l].status # "none",
           invites' = invites \/ /\ links[l].kind = "invite"
                                 /\ invites' = [invites EXCEPT ![l] = Failed(@)],
           links' = IF links[l].kind = "login" \/ invites'[l].status = "failed"
                    THEN [links EXCEPT ![l] = Shut(@)] ELSE links,
           UNCHANGED <<members, owner, inbox, keys, minute, letIn, joined>>
    PROVE  TeamInv'
<1>1. visit'[g] = NoVisit /\ VisitTypes' /\ \A h \in Guests \ {g} : visit'[h] = visit[h]
  BY VisitSteps
<1>2. /\ links[l] \in [state : {"none", "active", "consumed", "failed"},
                       kind : {"none", "login", "invite"}, account : Accounts, until : Nat]
      /\ invites[l] \in [status : {"none", "delivered", "accepted", "failed"},
                         role : {"none", "admin", "owner"}, by : Accounts]
  BY DEF TeamInv, TeamTypeOK
<1>3. /\ \A k \in Links \ {l} : links'[k] = links[k] /\ invites'[k] = invites[k]
      /\ links'[l] \in {links[l], Shut(links[l])}
      /\ invites'[l] \in {invites[l], Failed(invites[l])}
      /\ TeamTypeOK'
  <2>1. /\ Shut(links[l]) \in [state : {"none", "active", "consumed", "failed"},
                       kind : {"none", "login", "invite"}, account : Accounts, until : Nat]
        /\ Failed(invites[l]) \in [status : {"none", "delivered", "accepted", "failed"},
                         role : {"none", "admin", "owner"}, by : Accounts]
    BY <1>2 DEF Shut, Failed
  <2> QED
    BY <2>1 DEF TeamInv, TeamTypeOK
<1>4. /\ links'[l].kind = links[l].kind
      /\ links'[l].state = "none" <=> links[l].state = "none"
      /\ links'[l].state = "consumed" <=> links[l].state = "consumed"
      /\ invites'[l].status = "none" <=> invites[l].status = "none"
      /\ invites'[l].status = "accepted" <=> invites[l].status = "accepted"
  BY <1>2, <1>3 DEF Shut, Failed
<1>5. \A k \in Links : LinkSound(k)'
  BY <1>3, <1>4 DEF TeamInv, LinkSound
<1>6. InvitationsAndLinksAgree'
  <2> SUFFICES ASSUME invites'[l].status # "none"
               PROVE  /\ invites'[l].status = "accepted" <=> links'[l].state = "consumed"
                      /\ invites'[l].status = "failed" <=> links'[l].state = "failed"
    BY <1>3 DEF TeamInv, InvitationsAndLinksAgree
  <2>1. /\ invites[l].status = "accepted" <=> links[l].state = "consumed"
        /\ invites[l].status = "failed" <=> links[l].state = "failed"
        /\ links[l].kind = "invite" /\ links[l].state # "none"
    BY <1>4 DEF TeamInv, InvitationsAndLinksAgree, LinkSound
  <2>2. CASE invites'[l].status = "failed"
    <3>1. links'[l] = Shut(links[l])
      BY <2>2 DEF TeamInv, TeamTypeOK
    <3> QED
      BY <1>2, <1>4, <2>1, <2>2, <3>1 DEF Shut
  <2>3. CASE invites'[l].status # "failed"
    <3>1. links' = links
      BY <2>1, <2>3
    <3>2. invites[l].status # "failed"
      BY <1>2, <1>3, <2>3 DEF Failed
    <3> QED
      BY <1>4, <2>1, <2>3, <3>1, <3>2
  <2> QED
    BY <2>2, <2>3
<1>7. \A h \in Guests : VisitSound(h)'
  BY <1>1, <1>3, <1>4, VisitShapes, SMTT(30) DEF TeamInv, VisitSound, NoVisit
<1>8. VisitsApart' /\ OwnerOnTheTeam'
  BY <1>1 DEF TeamInv, VisitsApart, OwnerOnTheTeam, NoVisit
<1> QED
  BY <1>1, <1>3, <1>5, <1>6, <1>7, <1>8 DEF TeamInv

LEMMA FailLinkKeeps ==
    ASSUME TeamInv, NEW g \in Guests, FailLink(g)
    PROVE  TeamInv'
<1> DEFINE l == visit[g].link
<1>1. visit[g] \in MakingVisits /\ l \in Links /\ visit[g] # NoVisit
  BY VisitShapes DEF FailLink
<1>2. /\ links[l].kind = visit[g].kind /\ visit[g].kind \in {"login", "invite"}
      /\ links[l].kind = "invite" => invites[l].status # "none"
  BY <1>1 DEF TeamInv, VisitSound, FailLink, MakingVisits
<1> QED
  BY <1>1, <1>2, ShuttingKeeps DEF FailLink

LEMMA RefuseKeeps ==
    ASSUME TeamInv, NEW g \in Guests, Refuse(g)
    PROVE  TeamInv'
<1> DEFINE l == visit[g].link
<1>1. visit[g] \in FollowingVisits /\ l \in Links /\ visit[g] # NoVisit
  BY VisitShapes DEF Refuse
<1>2. links[l].kind = "invite" /\ invites[l].status # "none"
  BY <1>1 DEF TeamInv, VisitSound, LinkSound, Refuse
<1> QED
  BY <1>1, <1>2, ShuttingKeeps DEF Refuse

-----------------------------------------------------------------------------
(* Following a link *)

LEMMA ConsumeKeeps ==
    ASSUME TeamInv, NEW g \in Guests, Consume(g)
    PROVE  TeamInv'
<1> DEFINE l == visit[g].link
<1>1. /\ visit[g] \in FollowingVisits /\ l \in Links /\ visit[g] # NoVisit
      /\ visit[g].at = "consume" /\ l \in inbox
  BY VisitShapes DEF Consume, TeamInv, VisitSound
<1>2. CASE ~LetsIn(l)
  <2>1. /\ visit'[g].at = "look" /\ visit'[g].link = l
        /\ VisitTypes' /\ \A h \in Guests \ {g} : visit'[h] = visit[h]
        /\ UNCHANGED tables
    BY <1>1, <1>2, VisitSteps DEF Consume, tables
  <2>2. VisitSound(g)'
    BY <1>1, <2>1 DEF VisitSound, tables
  <2> QED
    BY <2>1, <2>2, OneVisitMoves
<1>3. CASE LetsIn(l)
  <2>1. /\ visit'[g].at = "enter" /\ visit'[g].link = l
        /\ VisitTypes' /\ \A h \in Guests \ {g} : visit'[h] = visit[h]
    BY <1>1, <1>3, VisitSteps DEF Consume
  <2>2. /\ links' = [links EXCEPT ![l].state = "consumed"]
        /\ UNCHANGED <<members, owner, invites, inbox, keys, minute, letIn, joined>>
        /\ links[l].kind = "login" /\ links[l].state = "active"
    BY <1>3 DEF Consume, LetsIn, Open
  <2>3. /\ links'[l].state = "consumed" /\ links'[l].kind = "login"
        /\ \A k \in Links \ {l} : links'[k] = links[k]
        /\ TeamTypeOK'
    BY <1>1, <2>2, SMTT(30) DEF TeamInv, TeamTypeOK
  <2>4. invites[l].status = "none" /\ letIn[l] = 0
    BY <1>1, <2>2 DEF TeamInv, LinkSound
  <2> HIDE DEF l
  <2>5. \A k \in Links : LinkSound(k)'
    BY <2>2, <2>3, <2>4 DEF TeamInv, LinkSound
  <2>6. InvitationsAndLinksAgree'
    BY <2>2, <2>3, <2>4 DEF TeamInv, InvitationsAndLinksAgree
  <2>7. ASSUME NEW h \in Guests PROVE VisitSound(h)'
    <3>1. CASE h = g
      BY <1>1, <2>1, <2>2, <2>3, <2>4, <3>1 DEF VisitSound
    <3>2. CASE h # g
      <4>1. visit[h].at = "enter" => visit[h].link # l
        BY <2>2 DEF TeamInv, VisitSound
      <4> QED
        BY <2>1, <2>2, <2>3, <3>2, <4>1, VisitShapes DEF TeamInv, VisitSound
    <3> QED
      BY <3>1, <3>2
  <2>8. VisitsApart'
    <3>1. \A h \in Guests : visit[h].at = "enter" => visit[h].link # l
      BY <2>2 DEF TeamInv, VisitSound
    <3> QED
      BY <2>1, <3>1 DEF TeamInv, VisitsApart
  <2> QED
    BY <2>1, <2>2, <2>3, <2>5, <2>6, <2>7, <2>8 DEF TeamInv, OwnerOnTheTeam
<1> QED
  BY <1>2, <1>3

LEMMA LookUpKeeps ==
    ASSUME TeamInv, NEW g \in Guests, LookUp(g)
    PROVE  TeamInv'
<1>1. /\ visit[g] \in FollowingVisits /\ visit[g].link \in Links /\ visit[g] # NoVisit
      /\ visit[g].at = "look" /\ visit[g].link \in inbox
  BY VisitShapes DEF LookUp, TeamInv, VisitSound
<1>2. CASE invites[visit[g].link].status = "delivered"
  <2>1. /\ visit'[g].at = "accept" /\ visit'[g].link = visit[g].link
        /\ VisitTypes' /\ \A h \in Guests \ {g} : visit'[h] = visit[h]
        /\ UNCHANGED tables
    BY <1>1, <1>2, VisitSteps DEF LookUp, tables
  <2>2. VisitSound(g)'
    BY <1>1, <1>2, <2>1 DEF VisitSound, tables
  <2> QED
    BY <2>1, <2>2, OneVisitMoves
<1>3. CASE invites[visit[g].link].status # "delivered"
  <2>1. /\ visit'[g] = NoVisit /\ VisitTypes'
        /\ \A h \in Guests \ {g} : visit'[h] = visit[h]
        /\ UNCHANGED tables
    BY <1>1, <1>3, VisitSteps DEF LookUp, tables
  <2> QED
    BY <2>1, OneVisitMoves DEF VisitSound, NoVisit
<1> QED
  BY <1>2, <1>3

\* The one step that makes a member: its link waits until then.
LEMMA AcceptKeeps ==
    ASSUME TeamInv, NEW g \in Guests, Accept(g)
    PROVE  TeamInv'
<1> DEFINE l == visit[g].link
           a == links[l].account
<1>1. /\ visit[g] \in FollowingVisits /\ l \in Links /\ visit[g] # NoVisit
      /\ visit[g].at = "accept" /\ l \in inbox /\ invites[l].status # "none"
  BY VisitShapes DEF Accept, TeamInv, VisitSound
<1>2. CASE ~Acceptable(l)
  <2>1. /\ visit'[g].at = "refuse" /\ visit'[g].link = l
        /\ VisitTypes' /\ \A h \in Guests \ {g} : visit'[h] = visit[h]
        /\ UNCHANGED tables
    BY <1>1, <1>2, VisitSteps DEF Accept, Grants, tables
  <2>2. VisitSound(g)'
    BY <1>1, <2>1 DEF VisitSound, tables
  <2> QED
    BY <2>1, <2>2, OneVisitMoves
<1>3. CASE Acceptable(l)
  <2>1. /\ visit'[g].at = "enter" /\ visit'[g].link = l
        /\ VisitTypes' /\ \A h \in Guests \ {g} : visit'[h] = visit[h]
    BY <1>1, <1>3, VisitSteps DEF Accept
  <2>2. /\ invites' = [invites EXCEPT ![l].status = "accepted"]
        /\ links' = [links EXCEPT ![l].state = "consumed"]
        /\ members' = members \cup {a}
        /\ joined' \in {joined, [joined EXCEPT ![l] = @ + 1]}
        /\ owner' \in {owner, a}
        /\ UNCHANGED <<inbox, keys, minute, letIn>>
        /\ links[l].state = "active" /\ invites[l].status = "delivered"
    BY <1>3 DEF Accept, Grants, Acceptable, Open
  <2>3. links[l].kind = "invite" /\ joined[l] = 0 /\ letIn[l] = 0 /\ a \in Accounts
    BY <1>1, <2>2 DEF TeamInv, TeamTypeOK, LinkSound
  <2> HIDE DEF l, a
  <2>4. /\ links'[l].state = "consumed" /\ links'[l].kind = "invite"
        /\ \A k \in Links \ {l} : links'[k] = links[k]
        /\ links' \in [Links -> [state : {"none", "active", "consumed", "failed"},
                                 kind : {"none", "login", "invite"},
                                 account : Accounts, until : Nat]]
    BY <1>1, <2>2, <2>3, SMTT(30) DEF TeamInv, TeamTypeOK
  <2>5. /\ invites'[l].status = "accepted"
        /\ \A k \in Links \ {l} : invites'[k] = invites[k]
        /\ invites' \in [Links -> [status : {"none", "delivered", "accepted", "failed"},
                                   role : {"none", "admin", "owner"}, by : Accounts]]
    BY <1>1, <2>2, SMTT(30) DEF TeamInv, TeamTypeOK
  <2>6. /\ joined'[l] \in {0, 1}
        /\ \A k \in Links \ {l} : joined'[k] = joined[k]
        /\ joined' \in [Links -> Nat]
    BY <1>1, <2>2, <2>3 DEF TeamInv, TeamTypeOK
  <2>7. TeamTypeOK' /\ OwnerOnTheTeam'
    BY <2>2, <2>3, <2>4, <2>5, <2>6 DEF TeamInv, TeamTypeOK, OwnerOnTheTeam
  <2>8. \A k \in Links : LinkSound(k)'
    BY <2>2, <2>3, <2>4, <2>5, <2>6 DEF TeamInv, LinkSound
  <2>9. InvitationsAndLinksAgree'
    BY <2>4, <2>5 DEF TeamInv, InvitationsAndLinksAgree
  <2>10. ASSUME NEW h \in Guests PROVE VisitSound(h)'
    <3>1. CASE h = g
      BY <1>1, <2>1, <2>2, <2>3, <2>4, <3>1 DEF VisitSound
    <3>2. CASE h # g
      <4>1. /\ visit[h].at = "enter" => visit[h].link # l
            /\ visit[h].at = "invitation" => visit[h].link # l
        BY <2>2 DEF TeamInv, VisitSound
      <4> QED
        BY <2>1, <2>2, <2>4, <2>5, <2>3, <3>2, <4>1, VisitShapes, SMTT(30)
           DEF TeamInv, VisitSound
    <3> QED
      BY <3>1, <3>2
  <2>11. VisitsApart'
    <3>1. \A h \in Guests : visit[h].at = "enter" => visit[h].link # l
      BY <2>2 DEF TeamInv, VisitSound
    <3> QED
      BY <2>1, <3>1 DEF TeamInv, VisitsApart
  <2> QED
    BY <2>1, <2>7, <2>8, <2>9, <2>10, <2>11 DEF TeamInv
<1> QED
  BY <1>2, <1>3

LEMMA EnterKeeps ==
    ASSUME TeamInv, NEW g \in Guests, Enter(g)
    PROVE  TeamInv'
<1> DEFINE l == visit[g].link
<1>1. /\ visit[g] \in FollowingVisits /\ l \in Links /\ visit[g] # NoVisit
      /\ visit[g].at = "enter" /\ links[l].state = "consumed" /\ letIn[l] = 0
  BY VisitShapes DEF Enter, TeamInv, VisitSound
<1>2. visit'[g] = NoVisit /\ VisitTypes' /\ \A h \in Guests \ {g} : visit'[h] = visit[h]
  BY <1>1, VisitSteps DEF Enter
<1>3. /\ letIn'[l] = 1 /\ \A k \in Links \ {l} : letIn'[k] = letIn[k]
      /\ TeamTypeOK'
      /\ UNCHANGED <<members, owner, links, invites, inbox, keys, minute, joined>>
  BY <1>1 DEF Enter, TeamInv, TeamTypeOK
<1>4. \A h \in Guests \ {g} : visit[h].at = "enter" => visit[h].link # l
  BY <1>1 DEF TeamInv, VisitsApart
<1> HIDE DEF l
<1>5. \A k \in Links : LinkSound(k)'
  BY <1>1, <1>3 DEF TeamInv, LinkSound
<1>6. ASSUME NEW h \in Guests PROVE VisitSound(h)'
  BY <1>2, <1>3, <1>4, VisitShapes DEF TeamInv, VisitSound, NoVisit
<1>7. InvitationsAndLinksAgree' /\ VisitsApart' /\ OwnerOnTheTeam'
  BY <1>2, <1>3 DEF TeamInv, InvitationsAndLinksAgree, VisitsApart, OwnerOnTheTeam, NoVisit
<1> QED
  BY <1>2, <1>3, <1>5, <1>6, <1>7 DEF TeamInv

-----------------------------------------------------------------------------
(* The team, its keys, and time: no link changes, and the owner stays. *)

LEMMA TeamChangesKeep ==
    ASSUME TeamInv, NEW g \in Guests,
           DeleteMember(g) \/ RevokeKeys(g) \/ HandOver(g) \/ MintKey(g) \/ GuestDies(g)
    PROVE  TeamInv'
<1>1. visit[g] # NoVisit
  BY DEF DeleteMember, RevokeKeys, HandOver, MintKey, GuestDies, NoVisit
<1>2. ASSUME NEW h \in Guests PROVE visit'[h] = visit[h] \/ h = g
  BY DEF DeleteMember, RevokeKeys, HandOver, MintKey, GuestDies, Step, Done,
         TeamInv, VisitTypes
<1>3. VisitTypes' /\ visit'[g].at \in {"free", "revoke"}
  <2>1. CASE DeleteMember(g)
    BY <1>1, <2>1, VisitShapes, VisitSteps DEF DeleteMember, NoVisit
  <2>2. CASE RevokeKeys(g) \/ HandOver(g) \/ MintKey(g) \/ GuestDies(g)
    BY <1>1, <2>2, VisitSteps DEF RevokeKeys, HandOver, MintKey, GuestDies, NoVisit
  <2> QED
    BY <2>1, <2>2
<1>4. /\ UNCHANGED <<links, invites, inbox, minute, letIn, joined>>
      /\ TeamTypeOK' /\ OwnerOnTheTeam'
  <2>1. CASE DeleteMember(g)
    BY <2>1, VisitShapes DEF DeleteMember, Removable, TeamInv, TeamTypeOK, OwnerOnTheTeam
  <2>2. CASE RevokeKeys(g)
    BY <2>2, VisitShapes DEF RevokeKeys, TeamInv, TeamTypeOK, OwnerOnTheTeam
  <2>3. CASE HandOver(g)
    BY <2>3, VisitShapes DEF HandOver, TeamInv, TeamTypeOK, OwnerOnTheTeam
  <2>4. CASE MintKey(g)
    BY <2>4, VisitShapes DEF MintKey, TeamInv, TeamTypeOK, OwnerOnTheTeam
  <2>5. CASE GuestDies(g)
    BY <2>5 DEF GuestDies, TeamInv, TeamTypeOK, OwnerOnTheTeam
  <2> QED
    BY <2>1, <2>2, <2>3, <2>4, <2>5
<1>5. \A l \in Links : LinkSound(l)'
  BY <1>4 DEF TeamInv, LinkSound
<1>6. ASSUME NEW h \in Guests PROVE VisitSound(h)'
  BY <1>2, <1>3, <1>4 DEF TeamInv, VisitSound
<1>7. InvitationsAndLinksAgree' /\ VisitsApart'
  BY <1>2, <1>3, <1>4 DEF TeamInv, InvitationsAndLinksAgree, VisitsApart
<1> QED
  BY <1>3, <1>4, <1>5, <1>6, <1>7 DEF TeamInv

LEMMA MinuteKeeps ==
    ASSUME TeamInv, Minute
    PROVE  TeamInv'
BY DEF Minute, TeamInv, TeamTypeOK, VisitTypes, LinkSound, InvitationsAndLinksAgree,
       VisitSound, VisitsApart, OwnerOnTheTeam

LEMMA TeamStepKeeps == TeamInv /\ [TeamNext]_teamVars => TeamInv'
<1> SUFFICES ASSUME TeamInv, [TeamNext]_teamVars
             PROVE  TeamInv'
  OBVIOUS
<1>1. CASE UNCHANGED teamVars
  BY <1>1 DEF teamVars, TeamInv, TeamTypeOK, VisitTypes, LinkSound,
              InvitationsAndLinksAgree, VisitSound, VisitsApart, OwnerOnTheTeam
<1>2. ASSUME NEW g \in Guests, GuestStep(g)
      PROVE  TeamInv'
  BY <1>2, CreateChallengeKeeps, InsertInvitationKeeps, MailKeeps, FailLinkKeeps,
     ConsumeKeeps, LookUpKeeps, AcceptKeeps, RefuseKeeps, EnterKeeps,
     TeamChangesKeep DEF GuestStep
<1> QED
  BY <1>1, <1>2, NewRequestKeeps, MinuteKeeps DEF TeamNext

\* However requests overlap, die and are refused, a link works once, its
\* invitation agrees with it, and the owner is on the team
\* (challenges.ts:49-77, invite-member.ts:95-238, queries.ts removals and
\* transfers).
THEOREM TeamHolds == TeamSpec => []TeamIsSound
<1>1. TeamInv => TeamIsSound
  BY DEF TeamInv, LinkSound, TeamIsSound, LinksWorkOnce
<1> QED
  BY <1>1, TeamStarts, TeamStepKeeps, PTL DEF TeamSpec

\* Whatever requests overlap, the rows of the team, its links and their
\* invitations keep their types.
THEOREM TeamTypes == TeamSpec => []TeamTypeOK
<1>1. TeamInv => TeamTypeOK
  BY DEF TeamInv
<1> QED
  BY <1>1, TeamStarts, TeamStepKeeps, PTL DEF TeamSpec

\* An invitation is accepted only on the word of somebody who may still give
\* it (invite-member.ts:215).
THEOREM InvitersHold == TeamSpec => InvitersGrantWhatIsTheirs
<1>1. TeamInv /\ [TeamNext]_teamVars =>
        [\A l \in Links :
            invites'[l].status = "accepted" /\ invites[l].status # "accepted" =>
                /\ invites[l].by \in members
                /\ invites[l].role = "owner" => invites[l].by = owner]_teamVars
  <2> SUFFICES ASSUME TeamInv, TeamNext, NEW l \in Links,
                      invites'[l].status = "accepted", invites[l].status # "accepted"
               PROVE  /\ invites[l].by \in members
                      /\ invites[l].role = "owner" => invites[l].by = owner
    OBVIOUS
  <2>1. PICK g \in Guests : InsertInvitation(g) \/ FailLink(g) \/ Accept(g) \/ Refuse(g)
    BY DEF TeamNext, Minute, GuestStep, NewRequest, AskLogin, Invite, Follow, Remove,
           Transfer, AskKey, CreateChallenge, MailTaken, MailUncertain, MailRefused,
           Consume, LookUp, Enter, DeleteMember, RevokeKeys, HandOver, MintKey, GuestDies
  <2>2. CASE Accept(g)
    <3>1. visit[g].link \in Links
      BY <2>2, VisitShapes DEF Accept
    <3>2. visit[g].link = l /\ InviterMay(l)
      BY <2>2, <3>1 DEF Accept, Acceptable, TeamInv, TeamTypeOK
    <3> QED
      BY <3>2 DEF InviterMay
  <2>3. CASE InsertInvitation(g)
    BY <2>3, VisitShapes DEF InsertInvitation, TeamInv, TeamTypeOK
  <2>4. CASE FailLink(g) \/ Refuse(g)
    <3>1. visit[g].link \in Links
      BY <2>4, VisitShapes DEF FailLink, Refuse
    <3>2. Failed(invites[l]).status # "accepted"
      BY DEF Failed, TeamInv, TeamTypeOK
    <3> QED
      BY <2>4, <3>1, <3>2 DEF FailLink, Refuse, TeamInv, TeamTypeOK
  <2> QED
    BY <2>1, <2>2, <2>3, <2>4
<1> QED
  BY <1>1, TeamStarts, TeamStepKeeps, PTL DEF TeamSpec, InvitersGrantWhatIsTheirs

-----------------------------------------------------------------------------
(* The private links of a proposal. *)

\* The last token given out is in force, and no other.
LastInForce(rows) ==
    /\ rows # <<>>
    /\ \A t \in DOMAIN rows : rows[t].state = "current" <=> t = Len(rows)

Token == [state : {"current", "superseded"}, until : Nat]

\* Before there is a draft, no request gets past its first read.
DraftInv ==
    /\ DraftTypeOK
    /\ draft.status = "none" => /\ tokens = <<>> /\ proposal.status = "none"
                                /\ draft = NoDraft /\ cron # "rotate"
                                /\ \A f \in Fetches :
                                      fetch[f].at \in {"free", "read", "answer"}
    /\ draft.status # "none" => LastInForce(tokens)
    /\ draft.status = "submitted" <=> proposal.status # "none"

LEMMA DraftStarts == DraftInit => DraftInv
BY CfpDraftsAssumption
   DEF DraftInit, DraftInv, DraftTypeOK, NoDraft, NoProposal, NoForm, NoFetch, NoToken,
       Versions

\* A rotation supersedes the link in force and never lengthens a life.
LEMMA RotatedIsInForce ==
    ASSUME DraftTypeOK, tokens = <<>> \/ LastInForce(tokens)
    PROVE  /\ Rotated(tokens) \in Seq(Token)
           /\ LastInForce(Rotated(tokens))
           /\ Len(Rotated(tokens)) = Len(tokens) + 1
           /\ \A t \in DOMAIN tokens : Rotated(tokens)[t].until <= tokens[t].until
<1> DEFINE old == [t \in DOMAIN tokens |->
                     IF tokens[t].state = "current" THEN Superseded(tokens[t]) ELSE tokens[t]]
           new == [state |-> "current", until |-> hour + Ttl]
<1>1. tokens \in Seq(Token) /\ hour \in Nat
  BY DEF DraftTypeOK, Token
<1>2. \A t \in DOMAIN tokens : tokens[t] \in Token
  BY <1>1
<1>3. ASSUME NEW t \in DOMAIN tokens
      PROVE  /\ old[t] \in Token
             /\ old[t].state = "superseded"
             /\ old[t].until <= tokens[t].until
  <2>1. tokens[t] \in Token
    BY <1>2
  <2>2. CASE tokens[t].state = "current"
    <3>1. old[t] = [state |-> "superseded", until |-> Sooner(tokens[t].until, hour + Grace)]
      BY <2>2 DEF Superseded
    <3>2. /\ Sooner(tokens[t].until, hour + Grace) \in Nat
          /\ Sooner(tokens[t].until, hour + Grace) <= tokens[t].until
      BY <1>1, <2>1, CfpDraftsAssumption DEF Sooner, Token
    <3> QED
      BY <3>1, <3>2 DEF Token
  <2>3. CASE tokens[t].state # "current"
    BY <2>1, <2>3 DEF Token
  <2> QED
    BY <2>2, <2>3
<1>4. old \in Seq(Token) /\ Len(old) = Len(tokens)
  <2>1. DOMAIN tokens = 1..Len(tokens) /\ Len(tokens) \in Nat
    BY <1>1
  <2>2. old \in [1..Len(tokens) -> Token]
    BY <1>3, <2>1
  <2> HIDE DEF old
  <2> QED
    BY <2>1, <2>2
<1>5. new \in Token
  BY <1>1, CfpDraftsAssumption DEF Token
<1>6. Rotated(tokens) = Append(old, new)
  BY DEF Rotated, GiveToken
<1> HIDE DEF old, new
<1>7. /\ Append(old, new) \in Seq(Token)
      /\ Len(Append(old, new)) = Len(tokens) + 1
      /\ \A t \in 1..Len(tokens) : Append(old, new)[t] = old[t]
      /\ Append(old, new)[Len(tokens) + 1] = new
  BY <1>4, <1>5
<1>8. DOMAIN tokens = 1..Len(tokens) /\ Len(tokens) \in Nat
  BY <1>1
<1>9. new.state = "current"
  BY DEF new
<1>10. LastInForce(Append(old, new))
  <2>1. DOMAIN Append(old, new) = 1..(Len(tokens) + 1)
    BY <1>7, <1>8
  <2>2. Append(old, new) # <<>>
    BY <1>7, <1>8
  <2> QED
    BY <1>3, <1>7, <1>8, <1>9, <2>1, <2>2 DEF LastInForce
<1> QED
  BY <1>3, <1>6, <1>7, <1>8, <1>10

\* The page asks, hears and types; the tables are as they were.
LEMMA PageKeeps ==
    ASSUME DraftInv,
           \/ Type \/ CloseForm
           \/ \E f \in Fetches :
                 \/ \E t \in DOMAIN tokens : OpenLink(f, t)
                 \/ AskPortal(f) \/ Save(f) \/ Submit(f) \/ Hear(f) \/ Disconnect(f)
    PROVE  DraftInv'
<1>1. UNCHANGED <<draft, proposal, tokens, cron, hour>>
  BY DEF Type, CloseForm, OpenLink, AskPortal, Save, Submit, Hear, Disconnect
<1>2. ASSUME NEW f \in Fetches, NEW kind \in Kinds, NEW t \in Nat, Request(f, kind, t)
      PROVE  /\ fetch' \in [Fetches -> FetchRecords \cup {NoFetch}]
             /\ \A g \in Fetches : fetch'[g].at \in {fetch[g].at, "read"}
  BY <1>2 DEF Request, DraftInv, DraftTypeOK, FetchRecords, FetchStages, NoToken
<1> DEFINE FetchesMove ==
              /\ fetch' \in [Fetches -> FetchRecords \cup {NoFetch}]
              /\ \A g \in Fetches : fetch'[g].at \in {fetch[g].at, "read", "free"}
           FormIsTyped ==
              form' \in [open : BOOLEAN, token : Nat, shows : Versions,
                         saved : Versions, busy : BOOLEAN]
<1>3. FetchesMove
  <2>1. CASE Type
    BY <2>1 DEF Type, DraftInv, DraftTypeOK
  <2>2. CASE CloseForm
    <3>1. ASSUME NEW g \in Fetches
          PROVE  /\ fetch'[g] \in FetchRecords \cup {NoFetch}
                 /\ fetch'[g].at \in {fetch[g].at, "free"}
      <4>1. CASE fetch[g].at \in {"free", "answer"}
        BY <2>2, <4>1 DEF CloseForm, NoFetch
      <4>2. CASE fetch[g].at \notin {"free", "answer"}
        <5>1. fetch[g] \in FetchRecords
          BY <4>2 DEF DraftInv, DraftTypeOK, NoFetch
        <5>2. fetch'[g] = [fetch[g] EXCEPT !.heard = FALSE]
          BY <2>2, <4>2 DEF CloseForm
        <5> QED
          BY <5>1, <5>2 DEF FetchRecords
      <4> QED
        BY <4>1, <4>2
    <3>2. DOMAIN fetch' = Fetches /\ fetch' = [g \in Fetches |-> fetch'[g]]
      BY <2>2 DEF CloseForm
    <3> QED
      BY <3>1, <3>2
  <2>3. ASSUME NEW f \in Fetches, NEW t \in DOMAIN tokens, OpenLink(f, t)
        PROVE  FetchesMove
    <3>1. t \in Nat
      BY DEF DraftInv, DraftTypeOK
    <3> QED
      BY <1>2, <2>3, <3>1 DEF OpenLink, Kinds
  <2>4. ASSUME NEW f \in Fetches, AskPortal(f) \/ Save(f) \/ Submit(f)
        PROVE  FetchesMove
    <3>1. form.token \in Nat /\ NoToken \in Nat
      BY DEF DraftInv, DraftTypeOK, NoToken
    <3> QED
      BY <1>2, <2>4, <3>1 DEF AskPortal, Save, Submit, Kinds
  <2>5. ASSUME NEW f \in Fetches, Hear(f) \/ Disconnect(f)
        PROVE  FetchesMove
    BY <2>5 DEF Hear, Disconnect, DraftInv, DraftTypeOK, NoFetch
  <2> QED
    BY <2>1, <2>2, <2>3, <2>4, <2>5
<1>4. typed' \in Versions
  <2>1. CASE Type
    BY <2>1, CfpDraftsAssumption DEF Type, DraftInv, DraftTypeOK, Versions
  <2>2. CASE typed' = typed
    BY <2>2 DEF DraftInv, DraftTypeOK
  <2> QED
    BY <2>1, <2>2 DEF CloseForm, OpenLink, AskPortal, Save, Submit, Hear, Disconnect
<1>5. FormIsTyped
  <2>1. 0 \in Versions
    BY CfpDraftsAssumption DEF Versions
  <2>2. CASE Type
    <3>1. form' = [form EXCEPT !.shows = typed'] /\ form \in
             [open : BOOLEAN, token : Nat, shows : Versions, saved : Versions, busy : BOOLEAN]
      BY <2>2 DEF Type, DraftInv, DraftTypeOK
    <3> QED
      BY <1>4, <3>1
  <2>3. ASSUME NEW f \in Fetches, Hear(f)
        PROVE  FormIsTyped
    <3>1. fetch[f] \in FetchRecords
      BY <2>3 DEF Hear, DraftInv, DraftTypeOK, NoFetch
    <3>2. StillBusy(f) \in BOOLEAN
      BY DEF StillBusy, DraftInv, DraftTypeOK
    <3> QED
      BY <2>3, <3>1, <3>2 DEF Hear, Heard, DraftInv, DraftTypeOK, FetchRecords
  <2>4. ASSUME NEW f \in Fetches, Disconnect(f)
        PROVE  FormIsTyped
    <3>1. StillBusy(f) \in BOOLEAN
      BY DEF StillBusy, DraftInv, DraftTypeOK
    <3> QED
      BY <2>4, <3>1 DEF Disconnect, DraftInv, DraftTypeOK
  <2>5. CASE CloseForm
    BY <2>1, <2>5 DEF CloseForm, NoForm, NoToken
  <2>6. ASSUME NEW f \in Fetches, NEW t \in DOMAIN tokens, OpenLink(f, t)
        PROVE  FormIsTyped
    <3>1. t \in Nat
      BY DEF DraftInv, DraftTypeOK
    <3> QED
      BY <2>1, <2>6, <3>1 DEF OpenLink, NoForm, NoToken
  <2>7. ASSUME NEW f \in Fetches, AskPortal(f)
        PROVE  FormIsTyped
    BY <2>1, <2>7 DEF AskPortal, NoForm, NoToken
  <2>8. ASSUME NEW f \in Fetches, Save(f) \/ Submit(f)
        PROVE  FormIsTyped
    BY <2>8 DEF Save, Submit, DraftInv, DraftTypeOK
  <2> QED
    BY <2>2, <2>3, <2>4, <2>5, <2>6, <2>7, <2>8
<1>6. DraftTypeOK'
  BY <1>1, <1>3, <1>4, <1>5 DEF DraftInv, DraftTypeOK
<1> QED
  BY <1>1, <1>3, <1>6 DEF DraftInv

\* A request's record moves on.
LEMMA FetchMoves ==
    ASSUME DraftInv, NEW f \in Fetches, NEW r \in FetchRecords \cup {NoFetch},
           fetch' = [fetch EXCEPT ![f] = r]
    PROVE  /\ fetch' \in [Fetches -> FetchRecords \cup {NoFetch}]
           /\ fetch'[f] = r
           /\ \A g \in Fetches \ {f} : fetch'[g] = fetch[g]
BY DEF DraftInv, DraftTypeOK

LEMMA TurnMoves ==
    ASSUME DraftInv, NEW f \in Fetches, fetch[f].at # "free",
           NEW stage \in FetchStages, Turn(f, stage)
    PROVE  /\ fetch' \in [Fetches -> FetchRecords \cup {NoFetch}]
           /\ fetch'[f].at = stage
           /\ \A g \in Fetches \ {f} : fetch'[g] = fetch[g]
<1>1. fetch[f] \in FetchRecords
  BY DEF DraftInv, DraftTypeOK, NoFetch
<1>2. [fetch[f] EXCEPT !.at = stage] \in FetchRecords
      /\ [fetch[f] EXCEPT !.at = stage].at = stage
  BY <1>1 DEF FetchRecords
<1>3. fetch' = [fetch EXCEPT ![f] = [fetch[f] EXCEPT !.at = stage]]
  BY DEF Turn
<1> QED
  BY <1>2, <1>3, FetchMoves

\* While there is no draft, no link is usable and nothing is editable, so that
\* the first read is the last.
LEMMA ReadingKeeps ==
    ASSUME DraftInv, NEW f \in Fetches,
           ReadDraft(f) \/ ReadPortal(f) \/ CheckEditable(f) \/ CatchCreate(f)
    PROVE  DraftInv'
<1>1. UNCHANGED <<draft, proposal, tokens, form, cron, typed, hour>>
  BY DEF ReadDraft, ReadPortal, CheckEditable, CatchCreate
<1>2. fetch[f].at # "free" /\ fetch[f] \in FetchRecords
  <2>1. fetch[f].at # "free"
    BY DEF ReadDraft, ReadPortal, CheckEditable, CatchCreate
  <2> QED
    BY <2>1 DEF DraftInv, DraftTypeOK, NoFetch
<1>3. /\ fetch' \in [Fetches -> FetchRecords \cup {NoFetch}]
      /\ \A g \in Fetches \ {f} : fetch'[g] = fetch[g]
      /\ draft.status = "none" => fetch'[f].at = "answer"
  <2>1. CASE ReadDraft(f)
    <3>1. CASE ~Usable(fetch[f].token)
      <4>1. Turn(f, "answer")
        BY <2>1, <3>1 DEF ReadDraft
      <4> QED
        BY <1>2, <4>1, TurnMoves DEF FetchStages
    <3>2. CASE Usable(fetch[f].token) /\ fetch[f].kind = "open"
      <4> DEFINE r == [fetch[f] EXCEPT !.at = "answer", !.reply = fetch[f].token,
                                       !.answers = draft.answers]
      <4>1. fetch' = [fetch EXCEPT ![f] = r]
        BY <2>1, <3>2 DEF ReadDraft, DraftInv, DraftTypeOK
      <4>2. r \in FetchRecords /\ r.at = "answer"
        BY <1>2 DEF FetchRecords, FetchStages, DraftInv, DraftTypeOK
      <4> HIDE DEF r
      <4> QED
        BY <4>1, <4>2, FetchMoves
    <3>3. CASE Usable(fetch[f].token) /\ fetch[f].kind # "open"
      <4>1. draft.status # "none"
        BY <3>3 DEF Usable, DraftInv
      <4>2. PICK stage \in {"check", "write", "create"} : Turn(f, stage)
        BY <2>1, <3>3 DEF ReadDraft
      <4> QED
        BY <1>2, <4>1, <4>2, TurnMoves DEF FetchStages
    <3> QED
      BY <3>1, <3>2, <3>3
  <2>2. CASE ReadPortal(f)
    <3>1. draft.status = "none" => ~Editable
      BY DEF Editable, DraftInv
    <3>2. PICK stage \in {"rotate", "answer"} :
             Turn(f, stage) /\ (~Editable => stage = "answer")
      BY <2>2 DEF ReadPortal
    <3> QED
      BY <1>2, <3>1, <3>2, TurnMoves DEF FetchStages
  <2>3. CASE CheckEditable(f) \/ CatchCreate(f)
    <3>1. draft.status # "none"
      BY <2>3 DEF CheckEditable, CatchCreate, DraftInv
    <3>2. PICK stage \in {"update", "rotate", "answer"} : Turn(f, stage)
      BY <2>3 DEF CheckEditable, CatchCreate
    <3> QED
      BY <1>2, <3>1, <3>2, TurnMoves DEF FetchStages
  <2> QED
    BY <2>1, <2>2, <2>3
<1> QED
  BY <1>1, <1>3 DEF DraftInv, DraftTypeOK

\* Every batch that rotates is of a draft that is there.
LEMMA RotatingKeeps ==
    ASSUME DraftInv, NEW f \in Fetches,
           WriteDraft(f) \/ UpdateSubmitted(f) \/ CreateSubmission(f)
             \/ CreateThrows(f) \/ RotateToken(f)
    PROVE  DraftInv'
<1>1. /\ draft.status # "none" /\ fetch[f].at # "free" /\ fetch[f] \in FetchRecords
      /\ UNCHANGED <<form, cron, typed, hour>>
  BY DEF WriteDraft, UpdateSubmitted, CreateSubmission, CreateThrows, RotateToken,
         DraftInv, DraftTypeOK, NoFetch
<1>2. /\ Rotated(tokens) \in Seq(Token) /\ LastInForce(Rotated(tokens))
      /\ Len(tokens) + 1 \in Nat
  BY <1>1, RotatedIsInForce DEF DraftInv, DraftTypeOK
<1>3. /\ fetch[f].answers \in Versions /\ fetch[f].token \in Nat
      /\ draft \in [status : {"none", "draft", "submitted"}, answers : Versions]
      /\ proposal \in [status : {"none", "submitted", "decided"},
                       answers : Versions, speakers : SUBSET Versions]
  BY <1>1 DEF FetchRecords, DraftInv, DraftTypeOK
<1>4. tokens' \in {tokens, Rotated(tokens)}
  BY DEF WriteDraft, UpdateSubmitted, CreateSubmission, CreateThrows, RotateToken, RotateFor
<1>5. fetch' \in [Fetches -> FetchRecords \cup {NoFetch}]
  <2>1. ASSUME NEW stage \in FetchStages, NEW reply \in Nat,
               fetch' = [fetch EXCEPT ![f].at = stage, ![f].reply = reply]
        PROVE  fetch' \in [Fetches -> FetchRecords \cup {NoFetch}]
    <3>1. [fetch[f] EXCEPT !.at = stage, !.reply = reply] \in FetchRecords
      BY <1>1 DEF FetchRecords
    <3>2. fetch' = [fetch EXCEPT ![f] = [fetch[f] EXCEPT !.at = stage, !.reply = reply]]
      BY <2>1 DEF DraftInv, DraftTypeOK
    <3> QED
      BY <3>1, <3>2, FetchMoves
  <2>2. CASE WriteDraft(f)
    BY <1>2, <2>1, <2>2 DEF WriteDraft, RotateFor, FetchStages
  <2>3. CASE UpdateSubmitted(f)
    BY <1>2, <2>1, <2>3 DEF UpdateSubmitted, FetchStages, NoToken
  <2>4. CASE CreateSubmission(f)
    BY <1>2, <2>1, <2>4 DEF CreateSubmission, RotateFor, FetchStages
  <2>5. CASE CreateThrows(f)
    BY <1>1, <2>5, TurnMoves DEF CreateThrows, FetchStages
  <2>6. CASE RotateToken(f)
    <3> DEFINE back == fetch[f].kind = "recover"
               r == [at |-> IF back THEN "read" ELSE "answer",
                     kind |-> IF back THEN "open" ELSE fetch[f].kind,
                     token |-> IF back THEN Len(tokens) + 1 ELSE fetch[f].token,
                     answers |-> fetch[f].answers,
                     reply |-> Len(tokens) + 1,
                     heard |-> fetch[f].heard]
    <3>1. r \in FetchRecords
      BY <1>1, <1>2 DEF FetchRecords, FetchStages, Kinds
    <3>2. fetch' = [fetch EXCEPT ![f] = r]
      BY <1>1, <2>6 DEF RotateToken, DraftInv, DraftTypeOK, FetchRecords
    <3> HIDE DEF r
    <3> QED
      BY <3>1, <3>2, FetchMoves
  <2> QED
    BY <2>2, <2>3, <2>4, <2>5, <2>6
<1> DEFINE RowsAgree ==
              /\ draft' \in [status : {"draft", "submitted"}, answers : Versions]
              /\ proposal' \in [status : {"none", "submitted", "decided"},
                                answers : Versions, speakers : SUBSET Versions]
              /\ draft'.status = "submitted" <=> proposal'.status # "none"
<1>6. RowsAgree
  <2>1. draft.status = "submitted" <=> proposal.status # "none"
    BY DEF DraftInv
  <2>2. ASSUME draft' = [draft EXCEPT !.status = "submitted"], proposal' = Created(f)
        PROVE  RowsAgree
    BY <1>1, <1>3, <2>1, <2>2 DEF Created, Listing
  <2>3. CASE WriteDraft(f)
    BY <1>1, <1>3, <2>1, <2>3 DEF WriteDraft
  <2>4. CASE UpdateSubmitted(f)
    BY <1>1, <1>3, <2>1, <2>4 DEF UpdateSubmitted, Revised, Listing
  <2>5. CASE CreateSubmission(f)
    BY <2>2, <2>5 DEF CreateSubmission
  <2>6. CASE CreateThrows(f)
    BY <1>1, <1>3, <2>1, <2>2, <2>6 DEF CreateThrows
  <2>7. CASE RotateToken(f)
    BY <1>1, <1>3, <2>1, <2>7 DEF RotateToken
  <2> QED
    BY <2>3, <2>4, <2>5, <2>6, <2>7
<1> QED
  BY <1>1, <1>2, <1>4, <1>5, <1>6 DEF DraftInv, DraftTypeOK, Token

LEMMA OtherDraftStepsKeep ==
    ASSUME DraftInv, PrepareDraft(0) \/ Decide \/ Hourglass \/ RemindOfDraft \/ RotateForReminder
    PROVE  DraftInv'
<1>1. CASE PrepareDraft(0)
  <2>1. tokens = <<>> /\ proposal.status = "none"
    BY <1>1 DEF PrepareDraft, NoDraft, DraftInv
  <2>2. [state |-> "current", until |-> hour + Ttl] \in Token
    BY CfpDraftsAssumption DEF DraftInv, DraftTypeOK, Token
  <2>3. tokens' = <<[state |-> "current", until |-> hour + Ttl]>>
    BY <1>1, <2>1 DEF PrepareDraft, GiveToken
  <2>4. tokens' \in Seq(Token) /\ LastInForce(tokens)'
    BY <2>2, <2>3 DEF LastInForce
  <2> QED
    BY <1>1, <2>1, <2>4, CfpDraftsAssumption
       DEF PrepareDraft, DraftInv, DraftTypeOK, Versions, Token
<1>2. CASE Decide
  BY <1>2 DEF Decide, Editable, DraftInv, DraftTypeOK
<1>3. CASE Hourglass
  BY <1>3 DEF Hourglass, DraftInv, DraftTypeOK
<1>4. CASE RemindOfDraft
  BY <1>4 DEF RemindOfDraft, Unfinished, DraftInv, DraftTypeOK
<1>5. CASE RotateForReminder
  <2>1. draft.status # "none"
    BY <1>5 DEF RotateForReminder, DraftInv
  <2>2. Rotated(tokens) \in Seq(Token) /\ LastInForce(Rotated(tokens))
    BY <2>1, RotatedIsInForce DEF DraftInv, DraftTypeOK
  <2> QED
    BY <1>5, <2>1, <2>2 DEF RotateForReminder, DraftInv, DraftTypeOK, Token
<1> QED
  BY <1>1, <1>2, <1>3, <1>4, <1>5

LEMMA DraftStepKeeps == DraftInv /\ [DraftNext]_draftVars => DraftInv'
<1> SUFFICES ASSUME DraftInv, [DraftNext]_draftVars
             PROVE  DraftInv'
  OBVIOUS
<1>1. CASE UNCHANGED draftVars
  BY <1>1 DEF draftVars, DraftInv, DraftTypeOK
<1>2. ASSUME NEW f \in Fetches, FetchStep(f)
      PROVE  DraftInv'
  BY <1>2, PageKeeps, ReadingKeeps, RotatingKeeps DEF FetchStep
<1> QED
  BY <1>1, <1>2, PageKeeps, OtherDraftStepsKeep DEF DraftNext

\* However saves, submissions and recoveries overlap, a draft has exactly one
\* link in force (drafts.ts, the two statements of every rotation).
THEOREM LinkInForce == DraftSpec => []OneLinkInForce
<1>1. DraftInv => OneLinkInForce
  <2> SUFFICES ASSUME DraftInv, draft.status # "none"
               PROVE  Cardinality({t \in DOMAIN tokens : tokens[t].state = "current"}) = 1
    BY DEF OneLinkInForce
  <2>1. LastInForce(tokens) /\ tokens \in Seq(Token)
    BY DEF DraftInv, DraftTypeOK, Token
  <2>2. Len(tokens) \in DOMAIN tokens
    BY <2>1 DEF LastInForce
  <2>3. {t \in DOMAIN tokens : tokens[t].state = "current"} = {Len(tokens)}
    BY <2>1, <2>2 DEF LastInForce
  <2> QED
    BY <2>3, FS_Singleton
<1> QED
  BY <1>1, DraftStarts, DraftStepKeeps, PTL DEF DraftSpec

\* The answers of a submission are changed by an update of it alone.
LEMMA AnswersChange ==
    ASSUME DraftInv, DraftNext, proposal.status # "none",
           proposal'.answers # proposal.answers
    PROVE  \E f \in Fetches : UpdateSubmitted(f) /\ Editable
<1>1. proposal \in [status : {"none", "submitted", "decided"}, answers : Versions,
                    speakers : SUBSET Versions]
      /\ draft.status = "submitted"
  BY DEF DraftInv, DraftTypeOK
<1>2. ASSUME NEW f \in Fetches
      PROVE  Created(f).answers = proposal.answers
  BY <1>1 DEF Created, Listing
<1>3. ASSUME NEW f \in Fetches, UpdateSubmitted(f), ~Editable
      PROVE  proposal'.answers = proposal.answers
  BY <1>1, <1>3 DEF UpdateSubmitted, Revised, Listing
<1>4. ~PrepareDraft(0) /\ ~Type /\ ~CloseForm /\ ~Decide /\ ~Hourglass
      /\ ~RemindOfDraft /\ ~RotateForReminder
  BY <1>1 DEF PrepareDraft, Type, CloseForm, Decide, Hourglass, RemindOfDraft,
              RotateForReminder
<1>5. PICK f \in Fetches : FetchStep(f)
  BY <1>4 DEF DraftNext
<1>6. UpdateSubmitted(f) \/ CreateSubmission(f) \/ CreateThrows(f)
  BY <1>5 DEF FetchStep, OpenLink, AskPortal, Save, Submit, Hear, Disconnect, ReadDraft,
              CheckEditable, WriteDraft, CatchCreate, ReadPortal, RotateToken
<1>7. ~CreateSubmission(f) /\ ~CreateThrows(f)
  BY <1>2 DEF CreateSubmission, CreateThrows
<1> QED
  BY <1>3, <1>6, <1>7

\* No step makes a link usable that was not.
LEMMA DeadLinksStep ==
    ASSUME DraftInv, DraftNext, NEW t \in DOMAIN tokens, Usable(t)'
    PROVE  Usable(t)
<1>1. tokens \in Seq(Token) /\ hour \in Nat
  BY DEF DraftInv, DraftTypeOK, Token
<1>2. tokens[t] \in Token
  BY <1>1
<1>3. draft.status # "none" /\ LastInForce(tokens)
  BY DEF DraftInv
<1>4. CASE tokens' = tokens
  <2>1. hour' \in {hour, hour + 1}
    BY DEF DraftNext, PrepareDraft, Type, CloseForm, Decide, Hourglass, FetchStep,
           RemindOfDraft, RotateForReminder,
           OpenLink, AskPortal, Save, Submit, Request, Hear, Disconnect, ReadDraft,
           CheckEditable, WriteDraft, UpdateSubmitted, CreateSubmission, CreateThrows,
           CatchCreate, ReadPortal, RotateToken
  <2> QED
    BY <1>1, <1>2, <1>4, <2>1 DEF Usable, Token
<1>5. CASE tokens' = Rotated(tokens) /\ hour' = hour
  <2>1. /\ Rotated(tokens)[t].until <= tokens[t].until
        /\ Rotated(tokens) \in Seq(Token) /\ Len(Rotated(tokens)) = Len(tokens) + 1
    BY <1>3, RotatedIsInForce DEF DraftInv
  <2>2. Rotated(tokens)[t] \in Token
    BY <1>1, <2>1
  <2> QED
    BY <1>1, <1>2, <1>5, <2>1, <2>2 DEF Usable, Token
<1>6. tokens' = tokens \/ (tokens' = Rotated(tokens) /\ hour' = hour)
  <2>1. ~PrepareDraft(0)
    BY <1>3 DEF PrepareDraft, NoDraft
  <2>2. CASE Type \/ CloseForm \/ Decide \/ Hourglass \/ RemindOfDraft \/ RotateForReminder
    BY <2>2 DEF Type, CloseForm, Decide, Hourglass, RemindOfDraft, RotateForReminder
  <2>3. ASSUME NEW f \in Fetches, FetchStep(f)
        PROVE  tokens' = tokens \/ (tokens' = Rotated(tokens) /\ hour' = hour)
    <3>1. CASE WriteDraft(f) \/ UpdateSubmitted(f) \/ CreateSubmission(f)
                 \/ CreateThrows(f) \/ RotateToken(f)
      BY <3>1 DEF WriteDraft, UpdateSubmitted, CreateSubmission, CreateThrows,
                  RotateToken, RotateFor
    <3>2. CASE ReadDraft(f) \/ CheckEditable(f) \/ CatchCreate(f) \/ ReadPortal(f)
      BY <3>2 DEF ReadDraft, CheckEditable, CatchCreate, ReadPortal
    <3>3. CASE (\E u \in DOMAIN tokens : OpenLink(f, u)) \/ AskPortal(f) \/ Save(f)
                 \/ Submit(f) \/ Hear(f) \/ Disconnect(f)
      BY <3>3 DEF OpenLink, AskPortal, Save, Submit, Hear, Disconnect
    <3> QED
      BY <2>3, <3>1, <3>2, <3>3 DEF FetchStep
  <2> QED
    BY <2>1, <2>2, <2>3 DEF DraftNext
<1> QED
  BY <1>4, <1>5, <1>6

\* Whatever saves, submissions, recoveries and rotations overlap, the draft, its
\* submission, its links and the page keep their types.
THEOREM DraftTypes == DraftSpec => []DraftTypeOK
<1>1. DraftInv => DraftTypeOK
  BY DEF DraftInv
<1> QED
  BY <1>1, DraftStarts, DraftStepKeeps, PTL DEF DraftSpec

\* A submission once made is not made over, a link once dead stays dead, and
\* answers once decided on are not changed, whatever requests are under way.
THEOREM DraftsTakeNothingBack == DraftSpec => NothingIsTakenBack
<1>1. DraftInv /\ DraftInv' /\ [DraftNext]_draftVars =>
        [/\ draft'.status = "submitted" <=> proposal'.status # "none"
         /\ proposal.status # "none" /\ proposal'.answers # proposal.answers
               => \A f \in Fetches : fetch'[f] # fetch[f] => fetch[f].at # "create"]_draftVars
  <2> SUFFICES ASSUME DraftInv, DraftInv', DraftNext
               PROVE  /\ draft'.status = "submitted" <=> proposal'.status # "none"
                      /\ proposal.status # "none" /\ proposal'.answers # proposal.answers
                           => \A f \in Fetches :
                                 fetch'[f] # fetch[f] => fetch[f].at # "create"
    OBVIOUS
  <2>1. ASSUME NEW f \in Fetches, UpdateSubmitted(f), NEW g \in Fetches, fetch'[g] # fetch[g]
        PROVE  fetch[g].at # "create"
    BY <2>1 DEF UpdateSubmitted, DraftInv, DraftTypeOK
  <2> QED
    BY <2>1, AnswersChange DEF DraftInv
<1>2. DraftInv /\ [DraftNext]_draftVars =>
        [\A t \in DOMAIN tokens : Usable(t)' => Usable(t)]_draftVars
  BY DeadLinksStep
<1>3. DraftInv /\ [DraftNext]_draftVars =>
        [proposal.status = "decided" => proposal'.answers = proposal.answers]_draftVars
  BY AnswersChange DEF Editable
<1> QED
  BY <1>1, <1>2, <1>3, DraftStarts, DraftStepKeeps, PTL
     DEF DraftSpec, NothingIsTakenBack, SubmittedOnce, DeadLinksStayDead, DecidedAnswersStay
===============================================================================
