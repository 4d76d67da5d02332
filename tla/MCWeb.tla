------------------------------- MODULE MCWeb --------------------------------
(* An instance of WebClient for TLC.  One behaviour is mostly about what     *)
(* the user is sent, or about what the user sends, or about both while more  *)
(* goes wrong.                                                               *)
EXTENDS WebClient

Quota(posts, sends, adds, faults) ==
    [what \in {"posts", "sends", "adds", "faults"} |->
        CASE what = "posts" -> posts [] what = "sends" -> sends
          [] what = "adds" -> adds [] OTHER -> faults]

MCQuotas == {Quota(2, 0, 1, 1), Quota(1, 0, 1, 2),
             Quota(0, 2, 2, 0), Quota(0, 2, 1, 1), Quota(0, 1, 2, 1), Quota(0, 1, 1, 2),
             Quota(1, 1, 1, 0), Quota(1, 1, 0, 1)}

=============================================================================
