----------------------------- MODULE LiveCockpit -----------------------------
(***************************************************************************)
(* The page that shows what is still missing from the programme, and how   *)
(* it follows the database                                                 *)
(* (src/src/app/admin/events/[eventSlug]/dashboard/program-cockpit.tsx).   *)
(*                                                                         *)
(* The page asks for the whole snapshot, every two seconds or, once its    *)
(* socket to the event room is open, when the room tells it that something *)
(* has changed (src/src/lib/realtime, src/src/durable-objects/EventRoom.ts).*)
(* A request is answered with what the database held when it was served.   *)
(* Requests may fail, connections may break; what the room is told it       *)
(* passes on to the sockets it has accepted.                               *)
(*                                                                         *)
(* A snapshot is the number of changes it shows.                           *)
(***************************************************************************)
EXTENDS Integers

CONSTANT LastChange     \* bound of the model: changes made while the page is open

ASSUME LiveCockpitAssumption == LastChange \in Nat

VARIABLES
    stored,         \* changes made to what the cockpit shows
    unannounced,    \* those whose handler has still to tell the room
    socket,         \* the page's connection: see Sockets
    pipe,           \* messages on their way through it
    polling,        \* pollTimer is set
    reconnecting,   \* reconnectTimer is set
    refetch,        \* the page's own request for the snapshot; its flag refetching
    action,         \* what the organizer does on the page, and the request after it
    shows,          \* the snapshot on the page
    closed          \* cancelled: the page has been left

cockpitVars == <<stored, unannounced, socket, pipe, polling, reconnecting,
                 refetch, action, shows, closed>>

\* No connection; waiting for a ticket; connecting; accepted by the room, and
\* known to be open by the page.
Sockets == {"none", "ticket", "connecting", "accepted", "open"}

NoReply == [at |-> "none", saw |-> 0]
Replies == [at : {"none", "work", "asked", "served"}, saw : 0..LastChange]

CockpitTypeOK ==
    /\ stored \in 0..LastChange
    /\ unannounced \in 0..stored
    /\ socket \in Sockets
    /\ pipe \in 0..LastChange
    /\ polling \in BOOLEAN /\ reconnecting \in BOOLEAN /\ closed \in BOOLEAN
    /\ refetch \in Replies /\ action \in Replies
    /\ shows \in 0..LastChange

\* The effect that runs when the page is mounted: it refetches, polls and
\* connects.  The snapshot it came with may be old already.
CockpitInit ==
    /\ stored = 0 /\ unannounced = 0
    /\ socket = "ticket" /\ pipe = 0
    /\ polling = TRUE /\ reconnecting = FALSE
    /\ refetch = [at |-> "asked", saw |-> 0]
    /\ action = NoReply
    /\ shows = 0
    /\ closed = FALSE

-----------------------------------------------------------------------------
(* The Worker and the event room *)

\* Someone else changes something.
Change ==
    /\ stored < LastChange
    /\ stored' = stored + 1
    /\ unannounced' = unannounced + 1
    /\ UNCHANGED <<socket, pipe, polling, reconnecting, refetch, action, shows, closed>>

\* broadcast: to the sockets the room has accepted.
Announce ==
    /\ unannounced > 0
    /\ unannounced' = unannounced - 1
    /\ pipe' = IF socket \in {"accepted", "open"} THEN pipe + 1 ELSE pipe
    /\ UNCHANGED <<stored, socket, polling, reconnecting, refetch, action, shows, closed>>

\* GET .../cockpit, for the page or after an action.
ServeRefetch ==
    /\ refetch.at = "asked"
    /\ refetch' = [at |-> "served", saw |-> stored]
    /\ UNCHANGED <<stored, unannounced, socket, pipe, polling, reconnecting,
                   action, shows, closed>>

ServeAction ==
    /\ action.at = "asked"
    /\ action' = [at |-> "served", saw |-> stored]
    /\ UNCHANGED <<stored, unannounced, socket, pipe, polling, reconnecting,
                   refetch, shows, closed>>

\* The room's side of the upgrade, with a ticket used for the first time.
AcceptSocket ==
    /\ socket = "connecting"
    /\ socket' = "accepted"
    /\ UNCHANGED <<stored, unannounced, pipe, polling, reconnecting, refetch,
                   action, shows, closed>>

-----------------------------------------------------------------------------
(* The page *)

\* refetch(): while a request is under way there is no other.
Refetched ==
    IF refetch.at = "none" THEN [at |-> "asked", saw |-> 0] ELSE refetch

Poll ==
    /\ polling
    /\ refetch.at = "none"
    /\ refetch' = Refetched
    /\ UNCHANGED <<stored, unannounced, socket, pipe, polling, reconnecting,
                   action, shows, closed>>

\* Mutant: a failed request leaves the flag refetching set.
FlagLeft == [NoReply EXCEPT !.at = "stuck"]

\* The finally of refetch().
FlagCleared == NoReply

Receive ==
    /\ refetch.at = "served"
    /\ refetch' = NoReply
    /\ shows' = IF closed THEN shows ELSE refetch.saw
    /\ UNCHANGED <<stored, unannounced, socket, pipe, polling, reconnecting,
                   action, closed>>

RefetchFails ==
    /\ refetch.at \in {"asked", "served"}
    /\ refetch' = FlagCleared
    /\ UNCHANGED <<stored, unannounced, socket, pipe, polling, reconnecting,
                   action, shows, closed>>

\* startPolling and scheduleReconnect: what follows every failure to connect.
FallBack ==
    /\ polling' = TRUE
    /\ reconnecting' = TRUE

\* Mutant: the page goes on although it has been left meanwhile.
GoesOnAnyway == TRUE

\* if (cancelled) return;
GoesOn == ~closed

\* bootstrapRoomTicket, then new WebSocket.
TicketComes ==
    /\ socket = "ticket"
    /\ socket' = IF GoesOn THEN "connecting" ELSE "none"
    /\ UNCHANGED <<stored, unannounced, pipe, polling, reconnecting, refetch,
                   action, shows, closed>>

TicketFails ==
    /\ socket = "ticket"
    /\ socket' = "none"
    /\ IF closed THEN UNCHANGED <<polling, reconnecting>> ELSE FallBack
    /\ UNCHANGED <<stored, unannounced, pipe, refetch, action, shows, closed>>

\* "open": the page stops polling.
SocketOpens ==
    /\ socket = "accepted"
    /\ socket' = "open"
    /\ polling' = FALSE
    /\ UNCHANGED <<stored, unannounced, pipe, reconnecting, refetch, action,
                   shows, closed>>

\* "message"
MessageComes ==
    /\ socket = "open"
    /\ pipe > 0
    /\ pipe' = pipe - 1
    /\ refetch' = Refetched
    /\ UNCHANGED <<stored, unannounced, socket, polling, reconnecting, action,
                   shows, closed>>

\* Mutant: polling is not taken up again.
FallBackToReconnect == UNCHANGED polling /\ reconnecting' = TRUE

FallBackOnClose == FallBack

\* "close", from the room, the network or a refused upgrade.
SocketCloses ==
    /\ socket \in {"connecting", "accepted", "open"}
    /\ socket' = "none"
    /\ pipe' = 0
    /\ FallBackOnClose
    /\ UNCHANGED <<stored, unannounced, refetch, action, shows, closed>>

Reconnect ==
    /\ reconnecting
    /\ reconnecting' = FALSE
    /\ socket' = "ticket"
    /\ UNCHANGED <<stored, unannounced, pipe, polling, refetch, action, shows, closed>>

\* The clean-up of the effect.
LeavePage ==
    /\ ~closed
    /\ closed' = TRUE
    /\ polling' = FALSE /\ reconnecting' = FALSE
    /\ socket' = IF socket = "ticket" THEN "ticket" ELSE "none"
    /\ pipe' = 0
    /\ UNCHANGED <<stored, unannounced, refetch, action, shows>>

\* runAction: the work, then a request for the snapshot of its own.
Act ==
    /\ action.at = "none" /\ ~closed
    /\ stored < LastChange
    /\ action' = [NoReply EXCEPT !.at = "work"]
    /\ UNCHANGED <<stored, unannounced, socket, pipe, polling, reconnecting,
                   refetch, shows, closed>>

ActionDone ==
    /\ action.at = "work"
    /\ stored < LastChange
    /\ stored' = stored + 1
    /\ unannounced' = unannounced + 1
    /\ action' = [NoReply EXCEPT !.at = "asked"]
    /\ UNCHANGED <<socket, pipe, polling, reconnecting, refetch, shows, closed>>

ActionFails ==
    /\ action.at \in {"work", "asked"}
    /\ action' = NoReply
    /\ UNCHANGED <<stored, unannounced, socket, pipe, polling, reconnecting,
                   refetch, shows, closed>>

ActionShown ==
    /\ action.at = "served"
    /\ action' = NoReply
    /\ shows' = action.saw
    /\ UNCHANGED <<stored, unannounced, socket, pipe, polling, reconnecting,
                   refetch, closed>>

CockpitNext ==
    \/ Change \/ Announce \/ ServeRefetch \/ ServeAction \/ AcceptSocket
    \/ Poll \/ Receive \/ RefetchFails
    \/ TicketComes \/ TicketFails \/ SocketOpens \/ MessageComes \/ SocketCloses
    \/ Reconnect \/ LeavePage
    \/ Act \/ ActionDone \/ ActionFails \/ ActionShown

CockpitSpec == CockpitInit /\ [][CockpitNext]_cockpitVars

\* What the page, the Worker and the room do of themselves goes on; a request
\* that is made again and again is answered one day.  Nobody has to change
\* anything, nor does a connection have to break or last.
CockpitFairness ==
    /\ WF_cockpitVars(Announce)
    /\ SF_cockpitVars(ServeRefetch) /\ SF_cockpitVars(Receive)
    /\ WF_cockpitVars(ServeAction) /\ WF_cockpitVars(ActionShown)
    /\ WF_cockpitVars(ActionDone \/ ActionFails)
    /\ WF_cockpitVars(Poll) /\ WF_cockpitVars(MessageComes)
    /\ WF_cockpitVars(TicketComes \/ TicketFails)
    /\ WF_cockpitVars(AcceptSocket) /\ WF_cockpitVars(SocketOpens)
    /\ WF_cockpitVars(Reconnect)

CockpitFairSpec == CockpitSpec /\ CockpitFairness

-----------------------------------------------------------------------------
(* Properties *)

\* A page that is open polls or listens, whichever way its connections begin,
\* fail and break, and never connects a second time over a connection it has.
NeverDeaf ==
    ~closed => /\ polling \/ socket = "open"
               /\ reconnecting => socket = "none"

\* A page that has been left holds nothing: no timer and no connection, even
\* when its ticket comes afterwards.
ClosedPageHoldsNothing ==
    closed => ~polling /\ ~reconnecting /\ socket \in {"none", "ticket"}

\* A page that polls to the end shows in the end what is stored ("2s poll
\* fallback", DECISIONS.md:41), whatever requests have failed and in whatever
\* order answers have come.
PollingCatchesUp == <>[]polling => <>[](shows = stored)

\* A page whose connection lasts says "Live updates connected"
\* (program-cockpit.tsx:325): it should show in the end what is stored.
LiveCatchesUp == <>[](socket = "open") => <>[](shows = stored)

\* The page's connections and timers, in every order their callbacks may run:
\* an open page hears of changes, and a page that was left holds nothing.
ConnectionsAreSound == NeverDeaf /\ ClosedPageHoldsNothing
==============================================================================
