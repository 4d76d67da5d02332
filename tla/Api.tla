-------------------------------- MODULE Api --------------------------------
(***************************************************************************)
(* The HTTP API of the nodes (node/src/api.rs) as one browser meets it:    *)
(* the challenges every node keeps in its memory for the browser's public  *)
(* key, the mailbox of that key in the DHT, and the mailboxes the browser  *)
(* writes to.  How the DHT keeps a mailbox is the subject of Storage; here *)
(* it is the sequence of what was stored.                                  *)
(*                                                                         *)
(* A nonce is 32 random bytes, and all that counts is whether a node's     *)
(* challenge is the nonce the page holds.  It is at most at one node: the  *)
(* one that issued it, until it issues another one for the same key,       *)
(* accepts it, or loses it.                                                *)
(***************************************************************************)
EXTENDS Integers, Sequences

CONSTANTS
    Nodes,     \* the nodes that offer the API
    Peers,     \* public keys of the people on the other side
    Texts,     \* the texts the user types
    None,      \* no node, nobody
    MaxClock   \* bound: the seconds a message may be stamped with

ASSUME ApiAssumption == /\ Nodes # {} /\ None \notin Nodes \cup Peers
                        /\ MaxClock \in Nat

VARIABLES
    challenge,  \* the node whose challenge is the nonce the page holds, or None
    mailbox,    \* what was stored for the browser's key, oldest first
    delivered   \* delivered[<<t, p>>]: how often a node took t for p from this browser
                \*   and stored it; calls between nodes that are repeated do not count

apiVars == <<challenge, mailbox, delivered>>

\* A StoredMessage.  "sealed": it cannot be decrypted with the browser's key.
Letter == [from : Peers, text : Nat, sealed : BOOLEAN, ts : 0 .. MaxClock]

ApiTypeOK ==
    /\ challenge \in Nodes \cup {None}
    /\ mailbox \in Seq(Letter)
    /\ delivered \in [Texts \X Peers -> Nat]

ApiInit ==
    /\ challenge = None
    /\ mailbox = <<>>
    /\ delivered = [d \in Texts \X Peers |-> 0]

-----------------------------------------------------------------------------
(* The handlers, run by node n                                             *)

\* get_challenge_handler, for the page: a new nonce replaces what was there,
\* and the page forgets the nonce it had.
GetChallenge(n) == challenge' = n

\* get_challenge_handler, for another page with the same key.
GetOtherChallenge(n) == challenge = n /\ challenge' = None

\* Error seeded for the runs: a challenge stays after it was answered.
AcceptPollKeeps(n) == challenge = n /\ UNCHANGED challenge

\* poll_handler: the signed nonce is the one this node issued last, and is
\* used up.  Signatures of the page are always valid.
AcceptPoll(n) == challenge = n /\ challenge' = None

\* poll_handler: 401 in every other case.
RejectPoll(n) == challenge # n /\ UNCHANGED challenge

\* message_handler, for a recipient's mailbox.
StoreMessage(t, p) == delivered' = [delivered EXCEPT ![<<t, p>>] = @ + 1]

-----------------------------------------------------------------------------
(* What others do                                                          *)

\* message_handler on behalf of p, writing to the browser's mailbox: a new
\* text, or one that p's own client sent before and now retries.  The node
\* that takes it stamps it with the second of its own clock.
PeerPosts(p) ==
    /\ \E sealed \in BOOLEAN, ts \in 0 .. MaxClock :
         mailbox' = Append(mailbox, [from |-> p, text |-> Len(mailbox) + 1,
                                     sealed |-> sealed, ts |-> ts])
    /\ UNCHANGED <<challenge, delivered>>

PeerRetries(p) ==
    /\ \E i \in 1 .. Len(mailbox), ts \in 0 .. MaxClock :
         /\ mailbox[i].from = p
         /\ mailbox' = Append(mailbox, [mailbox[i] EXCEPT !.ts = ts])
    /\ UNCHANGED <<challenge, delivered>>

\* The node restarted, or the challenge was older than CHALLENGE_EXPIRATION
\* when somebody else asked the node for one.
ForgetChallenge(n) == challenge = n /\ challenge' = None

=============================================================================
