------------------------------ MODULE MCLiveDesks ------------------------------
(***************************************************************************)
(* Three parts of the system that share no state, and whose properties are *)
(* about what happens in the end, in one model: the programme, the queue   *)
(* of the event room, and the organizer's cockpit.  A behaviour is one of  *)
(* the part its desk names; the other two stand still, and their fairness  *)
(* asks nothing.                                                           *)
(***************************************************************************)
EXTENDS MCProgramme, SerialQueue, LiveCockpit

CONSTANTS o1, o2, o3

VARIABLE desk

liveVars == <<allVars, queueVars, cockpitVars, desk>>

LiveInit ==
    /\ desk \in {"programme", "queue", "cockpit"}
    /\ QuietInit
    /\ QueueInit
    /\ CockpitInit

LiveNext ==
    \/ desk = "programme" /\ QuietNext /\ UNCHANGED <<queueVars, cockpitVars, desk>>
    \/ desk = "queue" /\ QueueNext /\ UNCHANGED <<allVars, cockpitVars, desk>>
    \/ desk = "cockpit" /\ CockpitNext /\ UNCHANGED <<allVars, queueVars, desk>>

\* The fairness of Programme, SerialQueue and LiveCockpit, each at its desk.
LiveFairness ==
    /\ \A q \in Requests :
          /\ WF_allVars(desk = "programme" /\ Proceed(q))
          /\ SF_allVars(desk = "programme" /\ TakeUnplace(q))
          /\ WF_allVars(desk = "programme" /\ FinishUnplace(q))
    /\ \A c \in Calls \ Requests :
          WF_allVars(desk = "programme" /\ (Commit(c) \/ RoomFails(c)) /\ UNCHANGED req)
    /\ \A c \in Operations :
          /\ WF_queueVars(desk = "queue" /\ GoAhead(c))
          /\ WF_queueVars(desk = "queue" /\ Release(c))
    /\ WF_cockpitVars(desk = "cockpit" /\ Announce)
    /\ SF_cockpitVars(desk = "cockpit" /\ ServeRefetch)
    /\ SF_cockpitVars(desk = "cockpit" /\ Receive)
    /\ WF_cockpitVars(desk = "cockpit" /\ ServeAction)
    /\ WF_cockpitVars(desk = "cockpit" /\ ActionShown)
    /\ WF_cockpitVars(desk = "cockpit" /\ (ActionDone \/ ActionFails))
    /\ WF_cockpitVars(desk = "cockpit" /\ Poll)
    /\ WF_cockpitVars(desk = "cockpit" /\ MessageComes)
    /\ WF_cockpitVars(desk = "cockpit" /\ (TicketComes \/ TicketFails))
    /\ WF_cockpitVars(desk = "cockpit" /\ AcceptSocket)
    /\ WF_cockpitVars(desk = "cockpit" /\ SocketOpens)
    /\ WF_cockpitVars(desk = "cockpit" /\ Reconnect)

LiveSpec == LiveInit /\ [][LiveNext]_liveVars /\ LiveFairness
================================================================================
