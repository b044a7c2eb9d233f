------------------------------ MODULE ContactBook ------------------------------
(***************************************************************************)
(* The contacts of an account: made, edited, put on an event's roster and  *)
(* merged (src/src/lib/contacts/contacts.ts, merge.ts, push.ts).           *)
(*                                                                         *)
(* A merge reads both contacts and the events both are linked to, and then *)
(* moves everything of the second to the first and deletes the second in   *)
(* one batch; rows left on a deleted contact go with it (ON DELETE         *)
(* CASCADE), and a statement that breaks a foreign key or a unique index   *)
(* undoes its batch.  Names, tags, stages and segments are left out.       *)
(***************************************************************************)
EXTENDS Integers

CONSTANTS
    Contacts,   \* ids that account_contacts.id can take
    Addresses,  \* e-mail addresses; an event's roster knows people by them
    Jottings,   \* notes somebody writes
    Callers     \* requests under way

VARIABLES
    address,    \* account_contacts: the address, or Gone
    made,       \* history: ids that were ever inserted
    jotted,     \* account_contact_activities of kind note: the contact, or Gone
    saved,      \* history: notes whose INSERT went through
    merged,     \* activities of kind merge: <<who was merged, where it hangs>>
    link,       \* event_speaker_contacts of an event: person -> contact, or Gone
    caller      \* the requests

contactVars == <<address, made, jotted, saved, merged, link, caller>>
bookVars == <<address, made, jotted, saved, merged, link>>

Gone == "gone"

ASSUME GoneIsNobody == Gone \notin Contacts \cup Addresses
\* A request that names no contact, address or note holds one of them all the same.
ASSUME OneOfEach == Contacts # {} /\ Addresses # {} /\ Jottings # {}

Nobody == [a \in Addresses |-> Gone]
Live == {c \in Contacts : address[c] # Gone}
SomeContact == CHOOSE c \in Contacts : TRUE
SomeAddress == CHOOSE a \in Addresses : TRUE
SomeNote == CHOOSE n \in Jottings : TRUE
IdleCaller == [at |-> "idle", of |-> SomeContact, into |-> SomeContact, mail |-> SomeAddress,
               note |-> SomeNote, both |-> FALSE, seen |-> Nobody]

BookTypeOK ==
    /\ address \in [Contacts -> Addresses \cup {Gone}]
    /\ made \subseteq Contacts
    /\ jotted \in [Jottings -> Contacts \cup {Gone}]
    /\ saved \subseteq Jottings
    /\ merged \subseteq Contacts \X Contacts
    /\ link \in [Addresses -> Contacts \cup {Gone}]
    /\ \A q \in Callers :
          /\ caller[q].at \in {"idle", "insert", "write", "jot", "push", "overlap", "merge"}
          /\ caller[q].of \in Contacts /\ caller[q].into \in Contacts
          /\ caller[q].mail \in Addresses /\ caller[q].note \in Jottings
          /\ caller[q].both \in BOOLEAN /\ caller[q].seen \in [Addresses -> Contacts \cup {Gone}]

BookInit ==
    /\ address = [c \in Contacts |-> Gone]
    /\ made = {}
    /\ jotted = [n \in Jottings |-> Gone]
    /\ saved = {}
    /\ merged = {}
    /\ link = Nobody
    /\ caller = [q \in Callers |-> IdleCaller]

CallerFree(q) == caller[q].at = "idle"
CallerOver(q) == caller' = [caller EXCEPT ![q] = IdleCaller]

\* UNIQUE (account_id, email).
AddressFree(c, a) == \A d \in Contacts \ {c} : address[d] # a

-----------------------------------------------------------------------------
(* Contacts are made and edited *)

\* createAccountContact looks the address up ...
StartCreate(q, c, a) ==
    /\ CallerFree(q)
    /\ c \notin made /\ \A r \in Callers : caller[r].at = "insert" => caller[r].of # c
    /\ AddressFree(c, a)
    /\ caller' = [caller EXCEPT ![q].at = "insert", ![q].of = c, ![q].mail = a]
    /\ UNCHANGED bookVars

\* ... and inserts; an address taken meanwhile breaks the index.
InsertContact(q) ==
    LET c == caller[q].of
        a == caller[q].mail
    IN  /\ caller[q].at = "insert"
        /\ address' = IF AddressFree(c, a) THEN [address EXCEPT ![c] = a] ELSE address
        /\ made' = IF AddressFree(c, a) THEN made \cup {c} ELSE made
        /\ CallerOver(q)
        /\ UNCHANGED <<jotted, saved, merged, link>>

\* updateAccountContact reads the contact; an address of somebody else's is
\* turned away, and the one it has is written back as read.
StartUpdate(q, c, a, n) ==
    /\ CallerFree(q) /\ c \in Live
    /\ AddressFree(c, a)
    /\ jotted[n] = Gone /\ n \notin saved
    /\ \A r \in Callers : caller[r].at \in {"write", "jot"} => caller[r].note # n
    /\ caller' = [caller EXCEPT ![q].at = "write", ![q].of = c, ![q].mail = a, ![q].note = n]
    /\ UNCHANGED bookVars

\* UPDATE account_contacts: nothing to write when the contact is gone, and an
\* address that was taken meanwhile ends the request.
WriteContact(q) ==
    LET c == caller[q].of
        a == caller[q].mail
    IN  /\ caller[q].at = "write"
        /\ IF c \in Live /\ ~AddressFree(c, a)
           THEN /\ address' = address
                /\ CallerOver(q)
           ELSE /\ address' = IF c \in Live THEN [address EXCEPT ![c] = a] ELSE address
                /\ caller' = [caller EXCEPT ![q].at = "jot"]
        /\ UNCHANGED <<made, jotted, saved, merged, link>>

\* Mutant: the note does not refer to account_contacts.
RowOfAny(c) == TRUE

\* contact_id REFERENCES account_contacts (id).
RowOf(c) == c \in Live

\* appendActivity: an INSERT of its own.
Jot(q) ==
    LET n == caller[q].note
    IN  /\ caller[q].at = "jot"
        /\ IF RowOf(caller[q].of)
           THEN /\ jotted' = [jotted EXCEPT ![n] = caller[q].of]
                /\ saved' = saved \cup {n}
           ELSE UNCHANGED <<jotted, saved>>
        /\ CallerOver(q)
        /\ UNCHANGED <<address, made, merged, link>>

-----------------------------------------------------------------------------
(* Contacts are put on the roster of an event *)

\* UNIQUE (event_id, contact_id), but for the person the row is written for.
LinkFree(c, p) == \A a \in Addresses \ {p} : link[a] # c

\* pushContactToEvent reads the contact and its link; one that has a link is
\* on the roster already.
StartPush(q, c) ==
    /\ CallerFree(q) /\ c \in Live
    /\ \A a \in Addresses : link[a] # c
    /\ caller' = [caller EXCEPT ![q].at = "push", ![q].of = c, ![q].mail = address[c]]
    /\ UNCHANGED bookVars

\* Mutant: nothing but the link read says that the contact has none.
MayLinkAsRead(c, p) == c \in Live

\* The foreign key and the second index of event_speaker_contacts.
MayLink(c, p) == c \in Live /\ LinkFree(c, p)

\* The person of that address has a profile now; INSERT ... ON CONFLICT
\* (event_id, person_id) DO UPDATE gives the person to this contact.
PushLink(q) ==
    LET c == caller[q].of
        p == caller[q].mail
    IN  /\ caller[q].at = "push"
        /\ link' = IF MayLink(c, p) THEN [link EXCEPT ![p] = c] ELSE link
        /\ CallerOver(q)
        /\ UNCHANGED <<address, made, jotted, saved, merged>>

-----------------------------------------------------------------------------
(* Contacts are merged *)

\* mergeAccountContacts reads both contacts ...
StartMerge(q, d, c) ==
    /\ CallerFree(q) /\ c # d /\ c \in Live /\ d \in Live
    /\ caller' = [caller EXCEPT ![q].at = "overlap", ![q].of = d, ![q].into = c]
    /\ UNCHANGED bookVars

LinkOf(c) == {a \in Addresses : link[a] = c}

\* Mutant: the overlap is not looked for.
NoOverlap(c, d) == FALSE

BothLinked(c, d) == LinkOf(c) # {} /\ LinkOf(d) # {}

\* ... then whether the event has links of both.
ReadOverlap(q) ==
    /\ caller[q].at = "overlap"
    /\ caller' = [caller EXCEPT ![q].at = "merge",
                                ![q].both = BothLinked(caller[q].into, caller[q].of),
                                ![q].seen = link]
    /\ UNCHANGED bookVars

\* The links of the second that were not seen as double move to the first.
LinksMove(q) ==
    \/ caller[q].both
    \/ LinkOf(caller[q].of) = {}
    \/ LinkOf(caller[q].into) = {}

\* Mutant: the primary may be gone, as if nothing referred to it.
BatchStandsAnyway(q) == LinksMove(q)

\* The merge is written down on the primary, which must be there.
BatchStands(q) == caller[q].into \in Live /\ LinksMove(q)

\* The batch.
Merge(q) ==
    LET d == caller[q].of
        c == caller[q].into
        Moved(x) == IF x = d THEN c ELSE x
    IN  /\ caller[q].at = "merge"
        /\ IF BatchStands(q)
           THEN /\ jotted' = [n \in Jottings |-> Moved(jotted[n])]
                /\ merged' = {<<m[1], Moved(m[2])>> : m \in merged} \cup {<<d, c>>}
                /\ link' = [a \in Addresses |->
                              IF link[a] = d /\ caller[q].both THEN Gone ELSE Moved(link[a])]
                /\ address' = [address EXCEPT ![d] = Gone]
           ELSE UNCHANGED <<address, jotted, merged, link>>
        /\ CallerOver(q)
        /\ UNCHANGED <<made, saved>>

-----------------------------------------------------------------------------

BookStep(q) ==
    \/ \E c \in Contacts, a \in Addresses : StartCreate(q, c, a)
    \/ \E c \in Contacts, a \in Addresses, n \in Jottings : StartUpdate(q, c, a, n)
    \/ \E c \in Contacts : StartPush(q, c)
    \/ \E c, d \in Contacts : StartMerge(q, d, c)
    \/ InsertContact(q) \/ WriteContact(q) \/ Jot(q)
    \/ PushLink(q) \/ ReadOverlap(q) \/ Merge(q)

BookNext == \E q \in Callers : BookStep(q)

BookSpec == BookInit /\ [][BookNext]_contactVars

-----------------------------------------------------------------------------
(* Properties *)

\* Merging loses nobody and nothing, whatever else is under way: a contact that
\* was made is there or a contact that is there says it took it in, also when
\* two merges name the same two contacts the other way round; and a note that
\* was saved hangs on a contact that is there (merge.ts:20 "Secondary
\* tags/activities/pipeline history move over; secondary is deleted").
RecordsSurviveMerges ==
    /\ \A c \in made : c \in Live \/ \E m \in merged : m[1] = c /\ m[2] \in Live
    /\ \A n \in saved : jotted[n] \in Live

\* An event's roster and the contacts are one to one, although two pushes of a
\* contact may know it by two addresses: each looks for a link, makes a speaker
\* and then writes its link.
LinksAreOneToOne ==
    \A a \in Addresses : link[a] # Gone => link[a] \in Live /\ LinkFree(link[a], a)

\* A merge does what it was asked for unless the first contact is gone or the
\* links changed since it looked: moving the second's links to the first runs
\* into no link of the first's (test/workers/account-contacts.test.ts:283).
MergesGoThrough ==
    [][\A q \in Callers :
          caller[q].at = "merge" /\ caller'[q].at = "idle"
             => \/ address'[caller[q].of] = Gone
                \/ caller[q].into \notin Live
                \/ link # caller[q].seen]_contactVars

\* Creating, editing, pushing and merging at once leave the book whole.
BookIsWhole == RecordsSurviveMerges /\ LinksAreOneToOne
================================================================================
