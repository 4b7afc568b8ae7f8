----------------------------- MODULE SerialExec -----------------------------
(***************************************************************************)
(* What the execution pipeline promises, whatever runs beside it: one      *)
(* opportunity at a time and in the order they came in, with a nonce of    *)
(* its own above all earlier ones, offered for one block after the other   *)
(* until a relay takes it.                                                 *)
(***************************************************************************)
EXTENDS Naturals

VARIABLES
    past,      \* ids up to the last opportunity that was begun
    running,   \* the id of the one being executed, if any
    offers,    \* what was sent, [opp, block, nonce] records
    taken      \* offers that some relay took

SerialInit == past = {} /\ running = {} /\ offers = {} /\ taken = {}

\* An opportunity that was passed over is not come back to.
Begin(o) ==
    /\ running = {} /\ o \notin past
    /\ running' = {o} /\ past' = 1 .. o
    /\ UNCHANGED <<offers, taken>>

\* The first offer spends a nonce; the ones after it repeat it, each for the next
\* block, as long as none was taken.
MayOffer(x) ==
    /\ x.opp \in running
    /\ \A y \in offers :
         IF y.opp = x.opp
         THEN y.nonce = x.nonce /\ y.block < x.block /\ y \notin taken
         ELSE y.nonce < x.nonce
    /\ \/ \A y \in offers : y.opp # x.opp
       \/ \E y \in offers : y.opp = x.opp /\ y.block + 1 = x.block

Offer ==
    /\ \E x \in offers' : MayOffer(x) /\ offers' = offers \cup {x}
    /\ UNCHANGED <<past, running, taken>>

Take ==
    /\ \E x \in offers :
         /\ x.opp \in running /\ \A y \in taken : y.opp # x.opp
         /\ taken' = taken \cup {x}
    /\ UNCHANGED <<past, running, offers>>

End ==
    /\ running # {} /\ running' = {}
    /\ UNCHANGED <<past, offers, taken>>

serialVars == <<past, running, offers, taken>>

\* Ids start at 1.
SerialNext == (\E o \in past' : Begin(o)) \/ Offer \/ Take \/ End

SerialSpec == SerialInit /\ [][SerialNext]_serialVars

=============================================================================
