----------------------------- MODULE SerialQueue -----------------------------
(***************************************************************************)
(* EventRoom.serialized (src/src/durable-objects/EventRoom.ts:44-50): the  *)
(* chain of promises that makes the Durable Object run its operations one  *)
(* at a time and in the order they came.                                   *)
(*                                                                         *)
(*     const previous = this.queue;                                        *)
(*     this.queue = new Promise(resolve => { release = resolve; });        *)
(*     await previous;                                                     *)
(*     try { return await operation(); } finally { release(); }            *)
(*                                                                         *)
(* There is no lock and no list: an operation knows only the promise that  *)
(* was in this.queue when it came, and resolves its own when it is done,   *)
(* whether it returned or threw.                                           *)
(***************************************************************************)
EXTENDS Integers

CONSTANTS
    Operations,     \* the operations that will ever be asked for
    AlreadyResolved \* the promise this.queue starts with

ASSUME ResolvedIsNoOperation == AlreadyResolved \notin Operations

VARIABLES
    pc,         \* where each operation is
    queue,      \* this.queue: the operation whose promise it holds
    previous,   \* the promise each operation found in this.queue
    resolved,   \* the operations whose promise has been resolved
    arrival,    \* history: the number of each operation in order of coming
    arrived     \* history: how many have come

queueVars == <<pc, queue, previous, resolved, arrival, arrived>>

QueuePoints == {"new", "waiting", "running", "done"}

QueueTypeOK ==
    /\ pc \in [Operations -> QueuePoints]
    /\ queue \in Operations \cup {AlreadyResolved}
    /\ previous \in [Operations -> Operations \cup {AlreadyResolved}]
    /\ resolved \subseteq Operations
    /\ arrival \in [Operations -> Nat]
    /\ arrived \in Nat

QueueInit ==
    /\ pc = [c \in Operations |-> "new"]
    /\ queue = AlreadyResolved
    /\ previous = [c \in Operations |-> AlreadyResolved]
    /\ resolved = {}
    /\ arrival = [c \in Operations |-> 0]
    /\ arrived = 0

\* Mutant: this.queue is left as it was.
ArriveUnchained(c) ==
    /\ pc[c] = "new"
    /\ pc' = [pc EXCEPT ![c] = "waiting"]
    /\ previous' = [previous EXCEPT ![c] = queue]
    /\ arrived' = arrived + 1
    /\ arrival' = [arrival EXCEPT ![c] = arrived + 1]
    /\ UNCHANGED <<queue, resolved>>

\* The synchronous part: one turn of the event loop, up to `await previous`.
Arrive(c) ==
    /\ pc[c] = "new"
    /\ pc' = [pc EXCEPT ![c] = "waiting"]
    /\ previous' = [previous EXCEPT ![c] = queue]
    /\ queue' = c
    /\ arrived' = arrived + 1
    /\ arrival' = [arrival EXCEPT ![c] = arrived + 1]
    /\ UNCHANGED resolved

\* Mutant: nothing is awaited.
GoAheadAtOnce(c) ==
    /\ pc[c] = "waiting"
    /\ pc' = [pc EXCEPT ![c] = "running"]
    /\ UNCHANGED <<queue, previous, resolved, arrival, arrived>>

\* Mutant: any resolved promise lets an operation in.
GoAheadBehindAnyone(c) ==
    /\ pc[c] = "waiting"
    /\ previous[c] = AlreadyResolved \/ resolved # {}
    /\ \A d \in Operations : pc[d] # "running"
    /\ pc' = [pc EXCEPT ![c] = "running"]
    /\ UNCHANGED <<queue, previous, resolved, arrival, arrived>>

GoAhead(c) ==
    /\ pc[c] = "waiting"
    /\ previous[c] = AlreadyResolved \/ previous[c] \in resolved
    /\ pc' = [pc EXCEPT ![c] = "running"]
    /\ UNCHANGED <<queue, previous, resolved, arrival, arrived>>

\* Mutant: no `finally`.
ReturnUnreleased(c) ==
    /\ pc[c] = "running"
    /\ pc' = [pc EXCEPT ![c] = "done"]
    /\ UNCHANGED <<queue, previous, resolved, arrival, arrived>>

\* The operation returns or throws; `finally` resolves its promise.
Release(c) ==
    /\ pc[c] = "running"
    /\ pc' = [pc EXCEPT ![c] = "done"]
    /\ resolved' = resolved \cup {c}
    /\ UNCHANGED <<queue, previous, arrival, arrived>>

QueueNext == \E c \in Operations : Arrive(c) \/ GoAhead(c) \/ Release(c)

QueueSpec == QueueInit /\ [][QueueNext]_queueVars

\* Promises settle and database calls come back: an operation that can go on
\* does.  Nobody is obliged to ask for one.
QueueFairness == \A c \in Operations : WF_queueVars(GoAhead(c)) /\ WF_queueVars(Release(c))

QueueFairSpec == QueueSpec /\ QueueFairness

-----------------------------------------------------------------------------
(* The chain: why knowing one's predecessor is enough. *)

Come == {c \in Operations : pc[c] # "new"}

\* Each operation waits for the one that came just before it, this.queue is
\* the last one to come, and the operations that have left `await previous`
\* have everything before them behind them.
ChainInv ==
    /\ QueueTypeOK
    /\ \A c \in Come : arrival[c] \in 1..arrived
    /\ \A c, d \in Come : arrival[c] = arrival[d] => c = d
    /\ IF arrived = 0 THEN queue = AlreadyResolved
                      ELSE queue \in Come /\ arrival[queue] = arrived
    /\ \A c \in Come :
          IF arrival[c] = 1
          THEN previous[c] = AlreadyResolved
          ELSE previous[c] \in Come /\ arrival[previous[c]] = arrival[c] - 1
    /\ resolved = {c \in Operations : pc[c] = "done"}
    /\ \A c, d \in Come :
          pc[c] \in {"running", "done"} /\ arrival[d] < arrival[c]
              => pc[d] = "done"

-----------------------------------------------------------------------------
\* Two operations of the room never run together.
OneAtATime ==
    \A c, d \in Operations : pc[c] = "running" /\ pc[d] = "running" => c = d

\* When an operation runs, all that came before it are done: nobody
\* overtakes, however the promises settle.
InOrderOfArrival ==
    \A c, d \in Operations :
        /\ pc[c] = "running"
        /\ pc[d] # "new"
        /\ arrival[d] < arrival[c]
        => pc[d] = "done"

\* Every operation that has come is run to its end, also behind operations
\* that throw.
EveryCallIsServed ==
    \A c \in Operations : pc[c] = "waiting" ~> pc[c] = "done"
=============================================================================
