-------------------------- MODULE SubmissionStatus --------------------------
(***************************************************************************)
(* The status a submission carries and the table of legal moves between    *)
(* statuses (src/src/lib/domain/submission-status.ts), with the three      *)
(* decisions an organizer can take (domain/decisions.ts).  Every handler   *)
(* that changes a status consults this table on the status it has READ;    *)
(* what the row holds when the handler writes is another matter, and the   *)
(* subject of module Programme.                                            *)
(***************************************************************************)

Statuses == {"draft", "submitted", "under_review", "accepted", "rejected",
             "waitlisted", "scheduled", "published", "withdrawn"}

\* Mutant: a restore brings the session straight back to the agenda.
RestoreStatusPlaced == "scheduled"

\* Where an organizer's restore puts a withdrawn submission.
RestoreStatus == "under_review"

LegalTransitions ==
    [draft        |-> {"submitted", "withdrawn"},
     submitted    |-> {"under_review", "accepted", "rejected", "waitlisted",
                       "withdrawn"},
     under_review |-> {"accepted", "rejected", "waitlisted", "withdrawn"},
     accepted     |-> {"scheduled", "rejected", "withdrawn"},
     rejected     |-> {"under_review", "waitlisted"},
     waitlisted   |-> {"accepted", "rejected", "under_review"},
     scheduled    |-> {"published", "accepted", "withdrawn"},
     published    |-> {"scheduled", "withdrawn"},
     withdrawn    |-> {RestoreStatus}]

CanTransition(from, to) == to \in LegalTransitions[from]

-----------------------------------------------------------------------------
(* Decisions. *)

DecisionActions == {"accept", "waitlist", "reject"}

TargetStatus == [accept   |-> "accepted",
                 waitlist |-> "waitlisted",
                 reject   |-> "rejected"]

DecisionOutcomes == {"accepted", "rejected", "waitlisted"}

\* The decision whose e-mail template is the one of this outcome.  The code
\* goes from the outcome to its template and back to the registry entry that
\* carries the template; both tables are one to one.
ActionForOutcome(status) ==
    CHOOSE action \in DecisionActions : TargetStatus[action] = status

\* The statuses that hold a place in the programme.
PlacedStatuses == {"scheduled", "published"}
=============================================================================
