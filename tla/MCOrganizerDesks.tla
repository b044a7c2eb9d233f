--------------------------- MODULE MCOrganizerDesks ---------------------------
(***************************************************************************)
(* Parts of the organizers' side that share no table, in one model: a      *)
(* behaviour is one of the part its desk names, and the others stand still.*)
(* A run opens the desks it names.                                         *)
(***************************************************************************)
EXTENDS CoSpeakers, ContactBook, AgendaBoard, FormDesk, TLC

CONSTANTS b1, b2, g1, q1, q2

CONSTANT OpenDesks

Desks == {"invitations", "contacts", "board", "forms"}

ASSUME OpenAreDesks == OpenDesks \subseteq Desks

VARIABLE desk

\* CoSpeakers
ClaimKeys == Speakers \X Generations

\* AgendaBoard
TwoItems == <<b1, b2>>
TwoHalls == <<g1, "g2">>
ShortAndLong == b1 :> 1 @@ b2 :> 2
NobodySpeaks == b1 :> {} @@ b2 :> {}

\* The requests of every desk; nothing tells one from the other.
RequestsAreAlike == Permutations({q1, q2})

\* All but "retired", which no step reads and only RetiredLinkIsDead looks at.
AllButRetired ==
    <<desk, deliveryVars, speaker, claim, handler, contactVars, boardVars, formVars>>

\* Bounds of the run on forms: what ReferencesAreLive says of them ends where
\* requests have crossed; and one that is shown or published keeps to one field,
\* for no request about fields looks at revisions, or at more of the answers than
\* whether there are any.
UntilCrossed == ~crossed
OnlyEdited ==
    /\ revisions = <<>> /\ papers = <<>>
    /\ \A q \in Editors : editor[q].at \notin {"publish", "page", "submit"}
OneFieldOnceShown == OnlyEdited \/ \E f \in Fields : field[f].state = "none"

OrganizerInit ==
    /\ desk \in OpenDesks
    /\ Init
    /\ BookInit
    /\ BoardInit
    /\ FormInit

OrganizerNext ==
    \/ desk = "invitations" /\ Next /\ UNCHANGED <<desk, contactVars, boardVars, formVars>>
    \/ desk = "contacts" /\ BookNext /\ UNCHANGED <<desk, vars, boardVars, formVars>>
    \/ desk = "board" /\ BoardNext /\ UNCHANGED <<desk, vars, contactVars, formVars>>
    \/ desk = "forms" /\ FormNext /\ UNCHANGED <<desk, vars, contactVars, boardVars>>

OrganizerSpec ==
    OrganizerInit /\ [][OrganizerNext]_<<desk, vars, contactVars, boardVars, formVars>>

\* The tables, what is remembered between their steps, and what a page shows
\* hold what their types say, at every desk.
OrganizerTypeOK == TypeOK /\ BookTypeOK /\ BoardTypeOK /\ FormTypeOK
================================================================================
