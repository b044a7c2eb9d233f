------------------------------ MODULE AgendaBoard ------------------------------
(***************************************************************************)
(* The schedule page of one organizer                                      *)
(* (src/src/app/admin/events/[eventSlug]/schedule/schedule-board.tsx,      *)
(* src/src/lib/schedule/board.ts) and the event room it asks.              *)
(*                                                                         *)
(* A placement is shown before the room has answered; a refusal, or no     *)
(* answer, brings back what was shown at the click.  Auto-place plans all  *)
(* unplaced sessions, shows the plan, and asks for each placement at once. *)
(* Meanwhile others use the event room; the page hears nothing of them.    *)
(*                                                                         *)
(* Time is counted in slots of a day, from 0 to DayEnd.  A row is what is  *)
(* stored or shown of a session: its slot, and whether it is published.    *)
(***************************************************************************)
EXTENDS Integers, Sequences

CONSTANTS
    Board,          \* the sessions, in the order of the page
    Halls,          \* the rooms, in the order of the page
    DayEnd,         \* slots of a day
    RunsFor,        \* the duration of each session
    Voices,         \* the speakers of each session
    Themes,         \* tracks
    HardThemes,     \* track_conflict_policy = "hard"
    Fetchers,       \* requests of the page under way
    LastClick,      \* bound of the model: requests and plans made on the page
    LastElsewhere,  \* bound of the model: changes made by others
    Unset           \* no slot, no track, no plan

Items == {Board[n] : n \in 1..Len(Board)}
HallNames == {Halls[n] : n \in 1..Len(Halls)}

ASSUME AgendaBoardAssumption ==
    /\ {DayEnd, LastClick, LastElsewhere} \subseteq Nat
    /\ RunsFor \in [Items -> 1..DayEnd]
    /\ Board \in Seq(Items) /\ Halls \in Seq(HallNames)
\* A request that is not under way names the first session.
ASSUME SomethingToPlace == Board # <<>>

VARIABLES
    agenda,     \* what the event room has stored
    board,      \* what the page shows
    plan,       \* autoPlaceConfirm: the placements that wait for a click, or Unset
    fetcher,    \* the requests
    astray,     \* history: sessions for which the page cannot know (see Stray)
    clicks,     \* what was asked on the page so far
    elsewhere   \* changes made by others so far

boardVars == <<agenda, board, plan, fetcher, astray, clicks, elsewhere>>

Cells == [room : HallNames, start : 0..DayEnd - 1, theme : Themes \cup {Unset}]
ASSUME UnsetIsNoCell == Unset \notin Cells

BoardRows == [slot : Cells \cup {Unset}, public : BOOLEAN]
Unplaced == [slot |-> Unset, public |-> FALSE]
IdleFetcher == [at |-> "idle", kind |-> "place", item |-> Board[1], want |-> Unplaced,
                keeps |-> FALSE, was |-> Unplaced, reply |-> Unset]

BoardTypeOK ==
    /\ agenda \in [Items -> BoardRows] /\ board \in [Items -> BoardRows]
    /\ plan = Unset \/ \A i \in DOMAIN plan : i \in Items /\ plan[i] \in Cells
    /\ \A q \in Fetchers :
          /\ fetcher[q].at \in {"idle", "sent", "answered"}
          /\ fetcher[q].kind \in {"place", "unplace", "publish", "unpublish"}
          /\ fetcher[q].item \in Items
          /\ fetcher[q].want \in BoardRows /\ fetcher[q].was \in BoardRows
          /\ fetcher[q].keeps \in BOOLEAN
          /\ fetcher[q].reply \in BoardRows \cup {Unset}
    /\ astray \subseteq Items
    /\ clicks \in 0..LastClick
    /\ elsewhere \in 0..LastElsewhere

BoardInit ==
    /\ agenda = [i \in Items |-> Unplaced]
    /\ board = agenda
    /\ plan = Unset
    /\ fetcher = [q \in Fetchers |-> IdleFetcher]
    /\ astray = {}
    /\ clicks = 0
    /\ elsewhere = 0

-----------------------------------------------------------------------------
(* Conflicts, as the page and the room both see them *)

Meets(i, a, j, b) == a.start < b.start + RunsFor[j] /\ b.start < a.start + RunsFor[i]

\* Same room, a shared speaker, or a hard track, at the same time.
Clash(i, a, j, b) ==
    /\ Meets(i, a, j, b)
    /\ \/ a.room = b.room
       \/ Voices[i] \cap Voices[j] # {}
       \/ HardThemes /\ a.theme # Unset /\ a.theme = b.theme

NoClash(rows, i, a) ==
    \A j \in Items \ {i} : rows[j].slot # Unset => ~Clash(i, a, j, rows[j].slot)

\* The room checks the hours as well, and so does the search for a free cell; a
\* session dropped into the last row is asked for and refused.
FreeFor(rows, i, a) == a.start + RunsFor[i] <= DayEnd /\ NoClash(rows, i, a)

-----------------------------------------------------------------------------
(* Auto-place *)

\* A click that the bound leaves room for.
Click == clicks < LastClick /\ clicks' = clicks + 1

\* findAvailableSlot: the first time, and at that time the first room.
FreeCells(rows, i, theme) ==
    {a \in Cells : a.theme = theme /\ FreeFor(rows, i, a)}

Before(a, b) ==
    \/ a.start < b.start
    \/ a.start = b.start /\ \E m, n \in DOMAIN Halls :
                               m <= n /\ Halls[m] = a.room /\ Halls[n] = b.room

FirstCell(rows, i, theme) ==
    CHOOSE a \in FreeCells(rows, i, theme) :
        \A b \in FreeCells(rows, i, theme) : Before(a, b)

Standing(cell, public) == [slot |-> cell, public |-> public]

\* Mutant: a placement does not take its track from those that follow.
WorkingNoTrack(rows, i, cell) ==
    [rows EXCEPT ![i] = Standing([cell EXCEPT !.theme = Unset], FALSE)]

\* working and workingTracks: what later sessions of the plan see.
Working(rows, i, cell) == [rows EXCEPT ![i] = Standing(cell, FALSE)]

OnRail(i) == board[i].slot = Unset

\* One more session of the rail, if a cell is free.
PlanNext(acc, i, theme) ==
    IF ~OnRail(i) \/ FreeCells(acc.rows, i, theme) = {} THEN acc
    ELSE LET cell == FirstCell(acc.rows, i, theme)
         IN  [rows |-> Working(acc.rows, i, cell),
              cells |-> [j \in DOMAIN acc.cells \cup {i} |-> IF j = i THEN cell ELSE acc.cells[j]]]

\* planAutoPlace, after the first n sessions of the page.
Planned(theme) ==
    LET planned[n \in 0..Len(Board)] ==
          IF n = 0 THEN [rows |-> board, cells |-> [j \in {} |-> Unset]]
                   ELSE PlanNext(planned[n - 1], Board[n], theme)
    IN  planned

PlanFor(theme) == Planned(theme)[Len(Board)].cells

\* autoPlaceRail; the dialog opens, whatever the plan has.
AutoPlace(theme) ==
    /\ plan = Unset
    /\ \E i \in Items : OnRail(i)
    /\ Click
    /\ plan' = PlanFor(theme)
    /\ UNCHANGED <<agenda, board, fetcher, astray, elsewhere>>

CancelPlan ==
    /\ plan # Unset
    /\ plan' = Unset
    /\ UNCHANGED <<agenda, board, fetcher, astray, clicks, elsewhere>>

-----------------------------------------------------------------------------
(* The page asks *)

Pending(i) == \E q \in Fetchers : fetcher[q].at # "idle" /\ fetcher[q].item = i

\* A second request of a session crosses the first.
Stray(is) == astray' = astray \cup {i \in is : Pending(i)}

Sent(kind, i, row, keeps) ==
    [at |-> "sent", kind |-> kind, item |-> i, want |-> row, keeps |-> keeps,
     was |-> board[i], reply |-> Unset]

\* placeSession, by drag and drop, keyboard or "find a slot"; the row keeps its
\* track unless it is to be given the one chosen.
Place(q, i, a, reassign) ==
    LET keeps == board[i].slot # Unset /\ ~reassign
        cell == IF keeps THEN [a EXCEPT !.theme = board[i].slot.theme] ELSE a
        row == Standing(cell, board[i].public)
    IN  /\ plan = Unset
        /\ fetcher[q].at = "idle"
        /\ NoClash(board, i, cell)
        /\ board' = [board EXCEPT ![i] = row]
        /\ fetcher' = [fetcher EXCEPT ![q] = Sent("place", i, row, keeps)]
        /\ Stray({i})
        /\ Click
        /\ UNCHANGED <<agenda, plan, elsewhere>>

\* confirmAutoPlace: every placement of the plan is shown, and asked for if its
\* session is still on the rail.
ConfirmPlan(asker) ==
    LET placed == {i \in DOMAIN plan : board[i].slot = Unset}
    IN  /\ plan # Unset /\ DOMAIN plan # {}
        /\ DOMAIN asker = placed
        /\ \A i, j \in placed : i # j => asker[i] # asker[j]
        /\ \A i \in placed : fetcher[asker[i]].at = "idle"
        /\ board' = [i \in Items |-> IF i \in DOMAIN plan
                                     THEN Standing(plan[i], board[i].public) ELSE board[i]]
        /\ fetcher' = [q \in Fetchers |->
                         IF \E i \in placed : asker[i] = q
                         THEN LET i == CHOOSE x \in placed : asker[x] = q
                              IN  Sent("place", i, Standing(plan[i], board[i].public), FALSE)
                         ELSE fetcher[q]]
        /\ astray' = astray \cup {i \in DOMAIN plan : Pending(i) \/ i \notin placed}
        /\ plan' = Unset
        /\ UNCHANGED <<agenda, clicks, elsewhere>>

\* mutateAction and confirmPublish wait for the answer before they show it.
AskFor(q, kind, i) ==
    /\ plan = Unset
    /\ fetcher[q].at = "idle"
    /\ board[i].slot # Unset
    /\ kind = "publish" => ~board[i].public
    /\ kind = "unpublish" => board[i].public
    /\ fetcher' = [fetcher EXCEPT ![q] = Sent(kind, i, board[i], FALSE)]
    /\ Stray({i})
    /\ Click
    /\ UNCHANGED <<agenda, board, plan, elsewhere>>

-----------------------------------------------------------------------------
(* The event room answers *)

\* What the room makes of a request: the row it stores, or Unset for a refusal.
Ruling(f) ==
    LET i == f.item
        now == agenda[i]
        kept == IF now.slot = Unset THEN Unset ELSE now.slot.theme
        cell == IF f.keeps THEN [f.want.slot EXCEPT !.theme = kept] ELSE f.want.slot
    IN  CASE f.kind = "place" /\ FreeFor(agenda, i, cell) -> Standing(cell, now.public)
          [] f.kind = "unplace" /\ now.slot # Unset -> Unplaced
          [] f.kind = "publish" /\ now.slot # Unset /\ ~now.public -> Standing(now.slot, TRUE)
          [] f.kind = "unpublish" /\ now.public -> Standing(now.slot, FALSE)
          [] OTHER -> Unset

Serve(q) ==
    /\ fetcher[q].at = "sent"
    /\ LET row == Ruling(fetcher[q])
       IN  /\ agenda' = IF row = Unset THEN agenda ELSE [agenda EXCEPT ![fetcher[q].item] = row]
           /\ fetcher' = [fetcher EXCEPT ![q].at = "answered", ![q].reply = row]
    /\ UNCHANGED <<board, plan, astray, clicks, elsewhere>>

\* Another organizer's request.
Elsewhere(i, kind, row) ==
    LET ruling == Ruling(Sent(kind, i, row, FALSE))
    IN  /\ elsewhere < LastElsewhere
        /\ ruling # Unset /\ ruling # agenda[i]
        /\ agenda' = [agenda EXCEPT ![i] = ruling]
        /\ elsewhere' = elsewhere + 1
        /\ astray' = astray \cup {i}
        /\ UNCHANGED <<board, plan, fetcher, clicks>>

-----------------------------------------------------------------------------
(* The page hears of it *)

\* Mutant: a placement that was refused stays on the board.
LeftAsShown(f) == board[f.item]

\* setSessions(prev => ... previous): the row of the click.
BroughtBack(f) == IF f.kind = "place" THEN f.was ELSE board[f.item]

\* A publication changes the row's status only, also when it has moved since.
Answered(f) ==
    CASE f.kind \in {"place", "unplace"} -> f.reply
      [] f.kind = "publish" -> [board[f.item] EXCEPT !.public = TRUE]
      [] f.kind = "unpublish" -> [board[f.item] EXCEPT !.public = FALSE]

Hear(q) ==
    LET f == fetcher[q]
    IN  /\ f.at = "answered"
        /\ board' = [board EXCEPT ![f.item] = IF f.reply = Unset THEN BroughtBack(f)
                                                                ELSE Answered(f)]
        /\ fetcher' = [fetcher EXCEPT ![q] = IdleFetcher]
        /\ UNCHANGED <<agenda, plan, astray, clicks, elsewhere>>

\* The catch: nothing tells whether the room was reached.
HearNothing(q) ==
    LET f == fetcher[q]
    IN  /\ f.at # "idle"
        /\ board' = [board EXCEPT ![f.item] = BroughtBack(f)]
        /\ astray' = IF f.at = "answered" /\ f.reply # Unset THEN astray \cup {f.item} ELSE astray
        /\ fetcher' = [fetcher EXCEPT ![q] = IdleFetcher]
        /\ UNCHANGED <<agenda, plan, clicks, elsewhere>>

-----------------------------------------------------------------------------

BoardNext ==
    \/ \E theme \in Themes \cup {Unset} : AutoPlace(theme)
    \/ CancelPlan
    \/ \E q \in Fetchers, i \in Items, a \in Cells, reassign \in BOOLEAN :
          Place(q, i, a, reassign)
    \/ plan # Unset /\ \E asker \in [{i \in DOMAIN plan : board[i].slot = Unset} -> Fetchers] :
          ConfirmPlan(asker)
    \/ \E q \in Fetchers, kind \in {"unplace", "publish", "unpublish"}, i \in Items :
          AskFor(q, kind, i)
    \/ \E i \in Items, kind \in {"place", "unplace"}, a \in Cells :
          Elsewhere(i, kind, Standing(a, FALSE))
    \/ \E q \in Fetchers : Serve(q) \/ Hear(q) \/ HearNothing(q)

BoardSpec == BoardInit /\ [][BoardNext]_boardVars

-----------------------------------------------------------------------------
(* Properties *)

\* What auto-place proposes on a page that shows what the room holds is what
\* the room accepts, in whichever order the requests get there: the page's own
\* search (board.ts:158 "accumulate intervals so later sessions see earlier
\* placements") agrees with the checks of the event room.
PlansAreAcceptable ==
    [][plan = Unset /\ plan' # Unset /\ board = agenda
         => \A i \in DOMAIN plan' :
               /\ agenda[i].slot = Unset
               /\ FreeFor([j \in Items |-> IF j \in DOMAIN plan' THEN Standing(plan'[j], FALSE)
                                                                 ELSE agenda[j]], i, plan'[i])]_boardVars

\* The board shows what the room has stored of a session that is changed on
\* this page only, by one request at a time whose answer arrives: a refused
\* or failed placement is taken back, the room's word replaces the guess.
BoardAgrees ==
    \A i \in Items \ astray : ~Pending(i) => board[i] = agenda[i]
================================================================================
