--------------------------- MODULE ContactsConsole ---------------------------
(***************************************************************************)
(* The page on which an organizer works with the contacts of their account *)
(* (src/src/app/admin/contacts/contacts-console.tsx), and the requests it  *)
(* sends.                                                                  *)
(*                                                                         *)
(* Every button runs an action of one or more requests, one after the      *)
(* other; an action keeps the values the page had when it was started, and *)
(* nothing keeps the organizer from starting the next one before the       *)
(* answers are in.  Answers change the page when they come, in any order.  *)
(*                                                                         *)
(* A contact keeps its name here: it is edited elsewhere.  Searching by    *)
(* company, title and text is searching by a label.                        *)
(***************************************************************************)
EXTENDS Sequences, FiniteSets

CONSTANTS
    Cards,      \* contacts
    Known,      \* those that are there when the page is opened
    NameOf,     \* their names
    Labels,     \* tags
    Actions,    \* actions of the page that may be under way at once
    Nobody      \* no contact

Stages == {"none", "research", "confirmed"}
Everyone == "all"
Filters == Labels \cup {Everyone}

VARIABLES
    life,       \* account_contacts: ids that are there, were or may be
    tagged,     \* account_contact_tags
    stage,      \* account_contact_pipeline
    segments,   \* account_contact_segments: the filters that were saved
    mailed,     \* contacts a bulk mail went to
    mergers,    \* history: the merges asked for, <<primary, secondary>>
    page,       \* the state of the component
    action      \* the actions under way

rows == <<life, tagged, stage, segments, mailed>>
consoleVars == <<life, tagged, stage, segments, mailed, mergers, page, action>>

NoAction == [legs |-> <<>>]
NoProfile == [card |-> Nobody, tags |-> {}]

there == {c \in Cards : life[c] = "there"}

Matching(filter) == {c \in there : filter = Everyone \/ filter \in tagged[c]}

\* findDuplicateContactsByName, but for the contact itself.
Namesakes(c) == {d \in there \ {c} : NameOf[d] = NameOf[c]}

ConsoleInit ==
    /\ life = [c \in Cards |-> IF c \in Known THEN "there" ELSE "never"]
    /\ tagged = [c \in Cards |-> {}]
    /\ stage = [c \in Cards |-> "none"]
    /\ segments = {}
    /\ mailed = {}
    /\ mergers = {}
    /\ page = [filter |-> Everyone, shown |-> there, picked |-> {}, board |-> stage,
               profile |-> NoProfile, namesakes |-> {}, second |-> Nobody]
    /\ action = [a \in Actions |-> NoAction]

-----------------------------------------------------------------------------
(* The organizer *)

\* The requests of an action, in their order.
Legs(kind) ==
    CASE kind \in {"stage", "tag", "merge"} -> <<kind, "list">>
      [] kind = "push" -> <<kind, "open">>
      [] kind = "create" -> <<kind, "list", "open">>
      [] kind = "import" -> <<kind, "list", "board">>
      [] OTHER -> <<kind>>

\* run(): an action starts with what the page holds now.
Run(kind, card, with, filter) ==
    \E a \in Actions :
        /\ action[a] = NoAction
        /\ action' = [action EXCEPT ![a] =
                [legs |-> Legs(kind), card |-> card, with |-> with,
                 filter |-> filter, answered |-> FALSE, reply |-> {}]]

\* Search, a filter, a company or "Clear filters".
Search(filter) ==
    /\ page' = [page EXCEPT !.filter = filter]
    /\ Run("list", Nobody, {}, filter)
    /\ UNCHANGED <<rows, mergers>>

\* What is typed is a filter before it is applied.
TypeFilter(filter) ==
    /\ page' = [page EXCEPT !.filter = filter]
    /\ UNCHANGED <<rows, mergers, action>>

Tick(c) ==
    /\ c \in page.shown
    /\ page' = [page EXCEPT !.picked = (@ \ {c}) \cup ({c} \ @)]
    /\ UNCHANGED <<rows, mergers, action>>

Close ==
    /\ page' = [page EXCEPT !.profile = NoProfile]
    /\ UNCHANGED <<rows, mergers, action>>

ChooseSecond(d) ==
    /\ page.profile.card # Nobody
    /\ d \in page.namesakes
    /\ page' = [page EXCEPT !.second = d]
    /\ UNCHANGED <<rows, mergers, action>>

\* A button that only starts an action.
Click(kind, card, with) ==
    /\ Run(kind, card, with, page.filter)
    /\ UNCHANGED <<rows, mergers, page>>

SaveTag(label) ==
    LET p == page.profile
    IN  p.card # Nobody /\ Click("tag", p.card, p.tags \cup {label})

SaveNote == page.profile.card # Nobody /\ Click("note", page.profile.card, {})
Push == page.profile.card # Nobody /\ Click("push", page.profile.card, {})

SendMail ==
    /\ page.picked \cap page.shown # {}
    /\ Click("mail", Nobody, page.picked)

\* "Merge into this record".
AskMerge ==
    /\ page.profile.card # Nobody
    /\ page.namesakes # {} /\ page.second # Nobody
    /\ mergers' = mergers \cup {<<page.profile.card, page.second>>}
    /\ Run("merge", page.profile.card, {page.second}, page.filter)
    /\ UNCHANGED <<rows, page>>

OnBoard == {c \in Cards : page.board[c] # "none"}

Organizer ==
    \/ \E f \in Filters : Search(f) \/ TypeFilter(f)
    \/ \E c \in page.shown : Tick(c) \/ Click("stage", c, {"research"})
    \/ \E c \in page.shown \cup OnBoard : Click("open", c, {})
    \/ \E c \in OnBoard, s \in Stages \ {"none"} : Click("stage", c, {s})
    \/ \E c \in {d \in Cards : life[d] # "gone"} : Click("create", c, {}) \/ Click("import", c, {})
    \/ Click("board", Nobody, {})
    \/ \E f \in segments : Click("segment", Nobody, {f})
    \/ page.filter # Everyone /\ Click("keep", Nobody, {page.filter})
    \/ \E l \in Labels : SaveTag(l)
    \/ \E d \in page.namesakes : ChooseSecond(d)
    \/ SaveNote \/ Push \/ SendMail \/ AskMerge \/ Close

-----------------------------------------------------------------------------
(* The Worker *)

Leg(a) == Head(action[a].legs)
Asked(a, leg) == action[a] # NoAction /\ ~action[a].answered /\ Leg(a) = leg
The(S) == CHOOSE x \in S : TRUE

Answer(a, reply) ==
    /\ action' = [action EXCEPT ![a].answered = TRUE, ![a].reply = reply]
    /\ UNCHANGED <<mergers, page>>

\* Reads: the list, a segment, the board, a contact with its namesakes.
AnswerRead(a) ==
    /\ \/ Asked(a, "list") /\ Answer(a, Matching(action[a].filter))
       \/ Asked(a, "segment") /\ Answer(a, Matching(The(action[a].with)))
       \/ Asked(a, "board") /\ Answer(a, stage)
       \/ /\ Asked(a, "open") /\ action[a].card \in there
          /\ Answer(a, [tags |-> tagged[action[a].card], namesakes |-> Namesakes(action[a].card)])
    /\ UNCHANGED rows

\* updateAccountContact, pushContactToEvent: the contact as it is afterwards.
AnswerContact(a) ==
    LET c == action[a].card
    IN  /\ Asked(a, "tag") \/ Asked(a, "note") \/ Asked(a, "push")
        /\ c \in there
        /\ tagged' = IF Leg(a) = "tag" THEN [tagged EXCEPT ![c] = action[a].with] ELSE tagged
        /\ Answer(a, tagged'[c])
        /\ UNCHANGED <<life, stage, segments, mailed>>

\* enrollContactInPipeline: the board as it is afterwards.
AnswerStage(a) ==
    /\ Asked(a, "stage") /\ action[a].card \in there
    /\ stage' = [stage EXCEPT ![action[a].card] = The(action[a].with)]
    /\ Answer(a, stage')
    /\ UNCHANGED <<life, tagged, segments, mailed>>

\* createAccountContact refuses an address that is there; the import's commit
\* updates its contact.
AnswerNew(a) ==
    /\ Asked(a, "create") \/ Asked(a, "import")
    /\ life[action[a].card] = "never" \/ (Asked(a, "import") /\ action[a].card \in there)
    /\ life' = [life EXCEPT ![action[a].card] = "there"]
    /\ Answer(a, {})
    /\ UNCHANGED <<tagged, stage, segments, mailed>>

AnswerKeep(a) ==
    /\ Asked(a, "keep")
    /\ segments' = segments \cup action[a].with
    /\ Answer(a, {})
    /\ UNCHANGED <<life, tagged, stage, mailed>>

\* sendBulkContactEmail skips contacts that are gone.
AnswerMail(a) ==
    /\ Asked(a, "mail")
    /\ mailed' = mailed \cup (action[a].with \cap there)
    /\ Answer(a, {})
    /\ UNCHANGED <<life, tagged, stage, segments>>

\* mergeAccountContacts: two contacts of the account, whatever their names.
AnswerMerge(a) ==
    LET c == action[a].card
        d == The(action[a].with)
        both == tagged[c] \cup tagged[d]
    IN  /\ Asked(a, "merge") /\ c # d /\ {c, d} \subseteq there
        /\ life' = [life EXCEPT ![d] = "gone"]
        /\ tagged' = [tagged EXCEPT ![c] = both, ![d] = {}]
        /\ stage' = [stage EXCEPT ![c] = IF @ = "none" \/ stage[d] = "confirmed" THEN stage[d] ELSE @,
                                  ![d] = "none"]
        /\ Answer(a, both)
        /\ UNCHANGED <<segments, mailed>>

\* The request is refused or fails: the rest of the action is not done.
Refuse(a) ==
    /\ action[a] # NoAction /\ ~action[a].answered
    /\ action' = [action EXCEPT ![a] = NoAction]
    /\ UNCHANGED <<rows, mergers, page>>

-----------------------------------------------------------------------------
(* An answer comes *)

Shows(a, tags) == [card |-> action[a].card, tags |-> tags]

\* What each answer changes on the page.
Shown(a) ==
    LET reply == action[a].reply
    IN  CASE Leg(a) = "list" -> [page EXCEPT !.shown = reply]
          [] Leg(a) = "segment" -> [page EXCEPT !.shown = reply, !.filter = The(action[a].with)]
          [] Leg(a) \in {"stage", "board"} -> [page EXCEPT !.board = reply]
          [] Leg(a) = "open" -> [page EXCEPT !.profile = Shows(a, reply.tags),
                                             !.namesakes = reply.namesakes,
                                             !.second = IF reply.namesakes = {} THEN Nobody
                                                        ELSE The(reply.namesakes)]
          [] Leg(a) \in {"tag", "note"} -> [page EXCEPT !.profile = Shows(a, reply)]
          [] Leg(a) = "merge" -> [page EXCEPT !.profile = Shows(a, reply), !.namesakes = {}]
          [] OTHER -> page

Receive(a) ==
    LET left == Tail(action[a].legs)
    IN  /\ action[a] # NoAction /\ action[a].answered
        /\ page' = Shown(a)
        /\ action' = [action EXCEPT ![a] =
                IF left = <<>> THEN NoAction
                ELSE [@ EXCEPT !.legs = left, !.answered = FALSE, !.reply = {}]]
        /\ UNCHANGED <<rows, mergers>>

Serve(a) ==
    \/ AnswerRead(a)
    \/ AnswerContact(a)
    \/ AnswerStage(a)
    \/ AnswerNew(a)
    \/ AnswerKeep(a)
    \/ AnswerMail(a)
    \/ AnswerMerge(a)
    \/ Refuse(a)

ConsoleNext ==
    \/ Organizer
    \/ \E a \in Actions : Serve(a) \/ Receive(a)

ConsoleSpec == ConsoleInit /\ [][ConsoleNext]_consoleVars

-----------------------------------------------------------------------------
(* Properties *)

\* The contacts the page offers to merge with the one it shows have its name:
\* "Same name, different email. Merge cannot be undone."
\* (contacts-console.tsx:1365).
MergersAreNamesakes == \A m \in mergers : NameOf[m[1]] = NameOf[m[2]]
=============================================================================
