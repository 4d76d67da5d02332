------------------------------- MODULE Inbox --------------------------------
(***************************************************************************)
(* What the chat page promises about incoming messages, with no page, no   *)
(* node and no poll in it.  The letters a person has sent are told apart   *)
(* by sender and second only: every such letter that can be shown is shown *)
(* at some time, and never a second time.                                  *)
(***************************************************************************)
EXTENDS Naturals

CONSTANT Letters      \* sender and second of what may arrive

VARIABLES
    mail,             \* letters that have arrived and can be shown
    shown             \* shown[l]: how often l appears in the conversations

Init == mail = {} /\ shown = [l \in Letters |-> 0]

\* Letters arrive, and some of those never shown before are shown.
Step ==
    /\ mail \subseteq mail' /\ mail' \subseteq Letters
    /\ \A l \in Letters : \/ shown'[l] = shown[l]
                          \/ l \in mail' /\ shown[l] = 0 /\ shown'[l] = 1

AllShown == \A l \in Letters : (l \in mail) ~> (shown[l] = 1)

\* What may happen, and what has to.
Safety == Init /\ [][Step]_<<mail, shown>>

Spec == Safety /\ AllShown

=============================================================================
