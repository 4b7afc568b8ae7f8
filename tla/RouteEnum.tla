----------------------------- MODULE RouteEnum -----------------------------
(***************************************************************************)
(* What a search task promises: it finds the routes of its task, each of   *)
(* them before it ends, and nothing else.                                  *)
(***************************************************************************)
CONSTANT RoutesOf      \* task -> its routes

VARIABLES
    task,
    found,     \* routes found so far
    ended

EnumInit == task \in DOMAIN RoutesOf /\ found = {} /\ ended = FALSE

Find ==
    /\ ~ended
    /\ \E r \in RoutesOf[task] \ found : found' = found \cup {r}
    /\ ended' \in BOOLEAN /\ (ended' => found' = RoutesOf[task])
    /\ UNCHANGED task

End ==
    /\ ~ended /\ found = RoutesOf[task]
    /\ ended' = TRUE
    /\ UNCHANGED <<task, found>>

enumVars == <<task, found, ended>>

EnumNext == Find \/ End

EnumSpec == EnumInit /\ [][EnumNext]_enumVars

=============================================================================
