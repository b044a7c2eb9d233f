------------------------------- MODULE FormDesk -------------------------------
(***************************************************************************)
(* A form of the call for papers: organizers edit its working copy         *)
(* (src/src/lib/cfp/form-admin.ts), publish revisions of it                *)
(* (form-revisions.ts), and people answer what load-form.ts shows them.    *)
(*                                                                         *)
(* A field may be shown only for an answer to another field, which its     *)
(* rule names by key; a form may take its category from a field, named the *)
(* same way.  Keys change as long as nothing was submitted, and renaming   *)
(* rewrites rules and route first, in statements of their own.             *)
(*                                                                         *)
(* Every field is a select field; labels, types, sections and positions    *)
(* are left out, and answers are told apart only by revisions of the form, *)
(* 0 for the working copy: the one shown on the page that sent them, and   *)
(* the one they were checked against when they arrived.                    *)
(***************************************************************************)
EXTENDS Integers, Sequences

CONSTANTS
    Fields,         \* ids of form_fields
    FieldKeys,      \* keys of fields
    NoKey,          \* no key: no rule, no route, no field
    Editors,        \* requests under way, and pages that show the form
    LastRevision,   \* bound of the model: revisions published
    LastPaper       \* bound of the model: submissions made

ASSUME FormAssumption == {LastRevision, LastPaper} \subseteq Nat /\ NoKey \notin FieldKeys
\* A request that names no field holds one of them all the same.
ASSUME SomeFieldExists == Fields # {}

VARIABLES
    field,      \* form_fields
    route,      \* cfp_forms.category_routing_json: the key of its field
    revisions,  \* cfp_form_revisions: their numbers, in the order of insertion
    published,  \* cfp_forms.published_revision_id: the number of the revision
    papers,     \* submissions: form_revision_id; what their answers are of is a history
    editor,     \* the requests
    crossed,    \* history: a renaming or a deletion met another request, or
                \* a renaming stopped halfway
    misled      \* history: fields renamed with a rule that names their own old key

formVars == <<field, route, revisions, published, papers, editor, crossed, misled>>
tables == <<field, route, revisions, published, papers>>

MaybeKeys == FieldKeys \cup {NoKey}
Blank == [state |-> "none", key |-> NoKey, rule |-> NoKey]
SomeField == CHOOSE f \in Fields : TRUE
IdleEditor == [at |-> "idle", of |-> SomeField, old |-> NoKey, key |-> NoKey, rule |-> NoKey,
               shown |-> 0, number |-> 0]

Papers == [pinned : 0..LastRevision, shown : 0..LastRevision, checked : 0..LastRevision,
           edited : BOOLEAN]
Writing == {"insert", "update", "delete", "meta"}
Renaming == {"rewrite", "reroute", "rename"}

FormTypeOK ==
    /\ field \in [Fields -> [state : {"none", "live", "gone"}, key : MaybeKeys, rule : MaybeKeys]]
    /\ route \in MaybeKeys
    /\ revisions \in Seq(1..LastRevision)
    /\ published \in 0..LastRevision
    /\ papers \in Seq(Papers)
    /\ editor \in [Editors ->
          [at : Writing \cup Renaming \cup {"idle", "publish", "page", "submit"},
           of : Fields, old : MaybeKeys, key : MaybeKeys, rule : MaybeKeys,
           shown : 0..LastRevision, number : 0..LastRevision]]
    /\ crossed \in BOOLEAN /\ misled \subseteq Fields

FormInit ==
    /\ field = [f \in Fields |-> Blank]
    /\ route = NoKey
    /\ revisions = <<>>
    /\ published = 0
    /\ papers = <<>>
    /\ editor = [q \in Editors |-> IdleEditor]
    /\ crossed = FALSE /\ misled = {}

-----------------------------------------------------------------------------

LiveFields == {f \in Fields : field[f].state = "live"}
LiveKeys == {field[f].key : f \in LiveFields}
HolderOf(k) == {f \in LiveFields : field[f].key = k}

Begin(q, request) ==
    /\ editor[q].at = "idle"
    /\ editor' = [editor EXCEPT ![q] = request]
    /\ UNCHANGED <<tables, crossed, misled>>

Ends(q) == editor' = [editor EXCEPT ![q] = IdleEditor]

Others(q) == {r \in Editors \ {q} : editor[r].at # "idle"}

\* Requests that read or write keys and a renaming or a deletion at once.
Crosses(q) ==
    \E r \in Others(q) : /\ editor[r].at \in Writing \cup Renaming
                         /\ \/ editor[q].at \in Renaming \cup {"delete"}
                            \/ editor[r].at \in Renaming \cup {"delete"}
NoteCrossing(q) == crossed' = (crossed \/ Crosses(q))

\* UNIQUE (form_id, key).
KeyFree(f, k) == \A g \in Fields \ {f} : field[g].state = "live" => field[g].key # k

\* assertVisibilityDependency: the field it names is there, and another one.
RuleStands(k, rule) == rule = NoKey \/ rule \in LiveKeys \ {k}

-----------------------------------------------------------------------------
(* Fields *)

\* newId: fields no row and no request stands for.
NewFields == {f \in Fields : /\ field[f].state = "none"
                             /\ \A r \in Editors : editor[r].at = "insert" => editor[r].of # f}

\* insertFormField checks the rule ...
StartInsert(q, k, rule) ==
    /\ NewFields # {}
    /\ RuleStands(k, rule)
    /\ Begin(q, [IdleEditor EXCEPT !.at = "insert", !.of = CHOOSE f \in NewFields : TRUE,
                                   !.key = k, !.rule = rule])

\* ... and inserts.
InsertField(q) ==
    LET e == editor[q]
    IN  /\ e.at = "insert"
        /\ field' = IF KeyFree(e.of, e.key)
                    THEN [field EXCEPT ![e.of] = [state |-> "live", key |-> e.key, rule |-> e.rule]]
                    ELSE field
        /\ Ends(q)
        /\ NoteCrossing(q)
        /\ UNCHANGED <<route, revisions, published, papers, misled>>

\* updateFormField with the key it has: the rule is checked.
StartRevise(q, f, rule) ==
    /\ f \in LiveFields /\ RuleStands(field[f].key, rule)
    /\ Begin(q, [IdleEditor EXCEPT !.at = "update", !.of = f, !.old = field[f].key,
                                   !.key = field[f].key, !.rule = rule])

\* With another key: nothing submitted, and no field of that key.
StartRename(q, f, k, rule) ==
    /\ f \in LiveFields /\ k # field[f].key
    /\ papers = <<>> /\ KeyFree(f, k)
    /\ Begin(q, [IdleEditor EXCEPT !.at = "rewrite", !.of = f, !.old = field[f].key,
                                   !.key = k, !.rule = rule])

\* Mutant: rules keep the key they name.
RewrittenNot(rule, old, k) == rule

\* json_set(visibility_rule, '$.fieldKey', ?) where it is the old key.
Rewritten(rule, old, k) == IF rule = old THEN k ELSE rule

\* assertKeyNotReferenced: the rules of all fields ...
RewriteRules(q) ==
    LET e == editor[q]
    IN  /\ e.at = "rewrite"
        /\ field' = [g \in Fields |->
                       IF g \in LiveFields
                       THEN [field[g] EXCEPT !.rule = Rewritten(@, e.old, e.key)] ELSE field[g]]
        /\ editor' = [editor EXCEPT ![q].at = "reroute"]
        /\ NoteCrossing(q)
        /\ UNCHANGED <<route, revisions, published, papers, misled>>

\* ... and the route; only then is the new rule checked, which may fail.  One
\* that names the field's own old key passes: the field is still there by it.
Reroute(q) ==
    LET e == editor[q]
        stands == RuleStands(e.key, e.rule)
    IN  /\ e.at = "reroute"
        /\ route' = Rewritten(route, e.old, e.key)
        /\ IF stands THEN editor' = [editor EXCEPT ![q].at = "rename"] ELSE Ends(q)
        /\ crossed' = (crossed \/ Crosses(q) \/ ~stands)
        /\ UNCHANGED <<field, revisions, published, papers, misled>>

\* UPDATE form_fields ... WHERE soft_deleted = 0.
UpdateField(q) ==
    LET e == editor[q]
        lands == e.of \in LiveFields /\ KeyFree(e.of, e.key)
    IN  /\ e.at \in {"update", "rename"}
        /\ field' = IF lands THEN [field EXCEPT ![e.of].key = e.key, ![e.of].rule = e.rule]
                             ELSE field
        /\ misled' = IF ~lands THEN misled
                     ELSE IF e.rule = e.old THEN misled \cup {e.of} ELSE misled \ {e.of}
        /\ Ends(q)
        /\ NoteCrossing(q)
        /\ UNCHANGED <<route, revisions, published, papers>>

\* Mutant: the route is not asked.
UnusedInRules(f) == \A g \in LiveFields \ {f} : field[g].rule # field[f].key

\* No rule of another field, and not the route.
Unused(f) == UnusedInRules(f) /\ route # field[f].key

\* softDeleteFormField looks for dependents ...
StartDelete(q, f) ==
    /\ f \in LiveFields /\ Unused(f)
    /\ Begin(q, [IdleEditor EXCEPT !.at = "delete", !.of = f])

\* ... and buries the field under a key of its own.
DeleteField(q) ==
    LET f == editor[q].of
    IN  /\ editor[q].at = "delete"
        /\ field' = IF f \in LiveFields THEN [field EXCEPT ![f] = [Blank EXCEPT !.state = "gone"]]
                                        ELSE field
        /\ Ends(q)
        /\ NoteCrossing(q)
        /\ UNCHANGED <<route, revisions, published, papers, misled>>

\* updateFormMeta: a route given is checked; one that is not given is written
\* back as it was read, with everything else.
StartMeta(q, k) ==
    /\ k \in LiveKeys \cup {NoKey, route}
    /\ Begin(q, [IdleEditor EXCEPT !.at = "meta", !.key = k])

WriteMeta(q) ==
    /\ editor[q].at = "meta"
    /\ route' = editor[q].key
    /\ Ends(q)
    /\ NoteCrossing(q)
    /\ UNCHANGED <<field, revisions, published, papers, misled>>

-----------------------------------------------------------------------------
(* Revisions *)

Numbers == {revisions[i] : i \in DOMAIN revisions}

\* COALESCE(MAX(revision), 0).
Latest == CHOOSE n \in Numbers \cup {0} : \A m \in Numbers : m <= n

\* publishFormRevision: the working copy, then MAX(revision) + 1 ...
StartPublish(q) ==
    /\ Latest < LastRevision
    /\ Begin(q, [IdleEditor EXCEPT !.at = "publish", !.number = Latest + 1])

\* Mutant: the number may be taken.
NumberFreeAnyway(n) == TRUE

\* UNIQUE (form_id, revision).
NumberFree(n) == n \notin Numbers

\* ... and a batch that inserts the revision and points to it.
PublishRevision(q) ==
    LET n == editor[q].number
    IN  /\ editor[q].at = "publish"
        /\ IF NumberFree(n)
           THEN revisions' = Append(revisions, n) /\ published' = n
           ELSE UNCHANGED <<revisions, published>>
        /\ Ends(q)
        /\ UNCHANGED <<field, route, papers, crossed, misled>>

-----------------------------------------------------------------------------
(* Answers *)

\* loadCfpForm: the published revision, or else the working copy.  The page
\* shows it to whoever fills it in ...
OpenForm(q) == Begin(q, [IdleEditor EXCEPT !.at = "page", !.shown = published])

\* ... and the request that sends the answers loads the form once more, by its
\* slugs, and checks them against that.
PostAnswers(q) ==
    /\ editor[q].at = "page"
    /\ editor' = [editor EXCEPT ![q].at = "submit", ![q].number = published]
    /\ UNCHANGED <<tables, crossed, misled>>

\* Mutant: the revision is looked up once more.
PinnedNow(q) == published

\* formRevisionId: that of the form as the request loaded it.
Pinned(q) == editor[q].number

\* insertSubmission, or the first finalizeDraft.
Submit(q) ==
    LET e == editor[q]
    IN  /\ e.at = "submit"
        /\ Len(papers) < LastPaper
        /\ papers' = Append(papers, [pinned |-> Pinned(q), shown |-> e.shown,
                                     checked |-> e.number, edited |-> FALSE])
        /\ Ends(q)
        /\ UNCHANGED <<field, route, revisions, published, crossed, misled>>

\* A draft that was sent before, by this page or another: updateSubmittedInPlace
\* keeps the revision the submission has.
Resubmit(q) ==
    LET e == editor[q]
    IN  /\ e.at = "submit"
        /\ \E i \in DOMAIN papers :
              papers' = [papers EXCEPT ![i].shown = e.shown, ![i].checked = e.number,
                                       ![i].edited = TRUE]
        /\ Ends(q)
        /\ UNCHANGED <<field, route, revisions, published, crossed, misled>>

-----------------------------------------------------------------------------

\* The Worker dies, and a renaming may stop halfway; or a page is left.
EditorDies(q) ==
    /\ editor[q].at # "idle"
    /\ Ends(q)
    /\ crossed' = (crossed \/ editor[q].at \in {"reroute", "rename"})
    /\ UNCHANGED <<tables, misled>>

EditorStep(q) ==
    \/ \E k \in FieldKeys, rule \in MaybeKeys : StartInsert(q, k, rule)
    \/ \E f \in Fields, k \in FieldKeys, rule \in MaybeKeys : StartRename(q, f, k, rule)
    \/ \E f \in Fields, rule \in MaybeKeys : StartRevise(q, f, rule)
    \/ \E f \in Fields : StartDelete(q, f)
    \/ \E k \in MaybeKeys : StartMeta(q, k)
    \/ StartPublish(q) \/ OpenForm(q)
    \/ InsertField(q) \/ RewriteRules(q) \/ Reroute(q) \/ UpdateField(q) \/ DeleteField(q)
    \/ WriteMeta(q) \/ PublishRevision(q)
    \/ PostAnswers(q) \/ Submit(q) \/ Resubmit(q) \/ EditorDies(q)

FormNext == \E q \in Editors : EditorStep(q)

FormSpec == FormInit /\ [][FormNext]_formVars

-----------------------------------------------------------------------------
(* Properties *)

\* Revisions are numbered from 1 without a gap or a number twice, and the one
\* that people are shown is the last, however publications overlap.
RevisionsAreALine ==
    /\ \A i \in DOMAIN revisions : revisions[i] = i
    /\ published = Len(revisions)

\* The labels organizers see answers under are those of the form the answers
\* were checked against, though others may be published meanwhile; and that is
\* never one from before the page that sent them.  It may be a later one than the
\* page showed, for the request does not say which that was (page.tsx:23 and
\* route.ts:54 of submit/[formSlug]).  And answers that were changed later under
\* another revision leave the old one pinned (drafts.ts:228).
AnswersFitTheirForm ==
    \A i \in DOMAIN papers :
        /\ papers[i].shown <= papers[i].checked
        /\ papers[i].edited \/ papers[i].checked = papers[i].pinned

\* Nobody is between two statements of a renaming.
NothingHalfRenamed == \A q \in Editors : editor[q].at \notin Renaming

RuleIsLive(f) == field[f].rule = NoKey \/ field[f].rule \in LiveKeys \ {field[f].key}

\* Every rule and the route name a field that is there, whatever is inserted,
\* updated, routed and published at once.  Three exceptions, each against
\* form-admin.ts:520-524, "Visibility field must exist on this form": a field
\* renamed with a rule that names its own old key, which the check still finds
\* (misled); a renaming or a deletion that meets another request, where each
\* passes its checks before the other writes (crossed); and a renaming that
\* stops halfway (crossed).
ReferencesAreLive ==
    ~crossed /\ NothingHalfRenamed =>
        /\ \A f \in LiveFields \ misled : RuleIsLive(f)
        /\ route = NoKey \/ route \in LiveKeys

\* What a form refers to, by number or by key, is what was meant.
FormIsWhole == RevisionsAreALine /\ AnswersFitTheirForm /\ ReferencesAreLive
================================================================================
