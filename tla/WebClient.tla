------------------------------ MODULE WebClient ------------------------------
(***************************************************************************)
(* The chat page (webclient/public/main.js) in one browser tab, against    *)
(* the API of the nodes.                                                   *)
(*                                                                         *)
(* JavaScript runs one callback at a time: a step of the page is the code  *)
(* between two awaits of a request.  At most one request is under way for  *)
(* the start of the page ("init"), one for polling ("poll") and one for    *)
(* every send that has not ended; nothing keeps the user from pressing     *)
(* Enter again while a send is under way.  keys, contacts, messages and    *)
(* the accepted terms are persisted whenever they change; everything else  *)
(* is gone when the page is loaded again.                                  *)
(*                                                                         *)
(* A contact is its public key, as it was typed; its id is its position in *)
(* the list, which only grows.  Names, search, colours and the rendering   *)
(* of times do not influence anything modelled here.                       *)
(***************************************************************************)
EXTENDS Api, SequencesExt

CONSTANTS
    Boot,         \* bootstrapNode
    Sends,        \* sends that can be under way at the same time
    Quotas        \* bounds: how many messages the user is sent ("posts"), sends,
                  \*   contacts the user adds and failures there may be; one of
                  \*   these combinations in every behaviour

ASSUME ClientAssumption ==
    /\ Boot \in Nodes /\ 0 \notin Texts
    /\ IsFiniteSet(Sends) /\ Sends \cap {"init", "poll"} = {}
    /\ Quotas \subseteq [{"posts", "sends", "adds", "faults"} -> Nat]

VARIABLES
    page,           \* "terms", "loading", "connecting", "ready"
    termsAccepted,  \* the box in the terms dialog is ticked
    keys,           \* which key pair was generated; 0 before the first one
    contacts,       \* publicKey of every contact
    messages,       \* messages[c]: the conversation of contact c
    active,         \* activeContactId, 0 for null
    draft,          \* newMessage, 0 when it is blank
    node,           \* the node requests go to
    isPolling,
    req,            \* req[f]: the apiRequest of flow f
    sending,        \* sending[s]: text and recipient of send s
    answer,         \* the messages a poll's answer carries
    quota,          \* what is left of the bounds
    reads,          \* history: polls accepted for that challenge
    calm,           \* history: nothing has failed, the page was not left
    pressed,        \* history: pressed[<<t, p>>], how often t was sent to p
    switched        \* history: another contact was selected during a send

pageVars  == <<page, termsAccepted, keys, contacts, messages, active, draft, node, isPolling>>
flowVars  == <<req, sending, answer>>
histVars  == <<quota, reads, calm, pressed, switched>>
vars      == <<apiVars, pageVars, flowVars, histVars>>

Spend(what) == quota[what] > 0 /\ quota' = [quota EXCEPT ![what] = @ - 1]

Fault == Spend("faults") /\ calm' = FALSE

Flows == {"init", "poll"} \cup Sends

Request == [st : {"sent", "answered", "rejected", "failed", "switching"},
            path : {"connect", "challenge", "poll", "message"},
            at : Nodes, retries : 0 .. 1]

Idle == [st |-> "idle", path |-> "none", at |-> Boot, retries |-> 0]

NoSend == [text |-> 0, to |-> None]

\* A message in a conversation; "peer" is whose key it was encrypted with.
Entry == [sender : {"me", "them"}, peer : Peers, text : Nat \cup Texts, ts : Nat]

TypeOK ==
    /\ ApiTypeOK
    /\ page \in {"terms", "loading", "connecting", "ready"}
    /\ termsAccepted \in BOOLEAN
    /\ keys \in Nat
    /\ contacts \in Seq(Peers)
    /\ messages \in Seq(Seq(Entry)) /\ Len(messages) = Len(contacts)
    /\ active \in 0 .. Len(contacts)
    /\ draft \in Texts \cup {0}
    /\ node \in Nodes
    /\ isPolling \in BOOLEAN
    /\ req \in [Flows -> Request \cup {Idle}]
    /\ sending \in [Sends -> [text : Texts, to : Peers] \cup {NoSend}]
    /\ answer \in Seq(Letter)
    /\ reads \in Nat
    /\ quota \in [{"posts", "sends", "adds", "faults"} -> Nat]
    /\ calm \in BOOLEAN
    /\ pressed \in [Texts \X Peers -> Nat]
    /\ switched \in BOOLEAN

\* The first visit.
Init ==
    /\ ApiInit
    /\ page = "terms"
    /\ keys = 0 /\ contacts = <<>> /\ messages = <<>>
    /\ termsAccepted = FALSE
    /\ active = 0 /\ draft = 0 /\ node = Boot /\ isPolling = FALSE
    /\ req = [f \in Flows |-> Idle]
    /\ sending = [s \in Sends |-> NoSend]
    /\ answer = <<>>
    /\ quota \in Quotas /\ reads = 0 /\ calm = TRUE
    /\ pressed = [d \in Texts \X Peers |-> 0]
    /\ switched = FALSE

-----------------------------------------------------------------------------
(* apiRequest: one request, and at most one retry                          *)

\* fetch(getUrl(path)).  The node is looked up when the request is made.
Fetch(f, path, n, retries) ==
    req' = [req EXCEPT ![f] = [st |-> "sent", path |-> path, at |-> n, retries |-> retries]]

Mark(f, st) == req' = [req EXCEPT ![f] = [@ EXCEPT !.st = st]]

ServeConnect(f) ==
    /\ req[f].path = "connect"
    /\ Mark(f, "answered")
    /\ UNCHANGED <<apiVars, sending, answer, histVars>>

ServeChallenge(f) ==
    /\ req[f].path = "challenge"
    /\ GetChallenge(req[f].at)
    /\ reads' = 0
    /\ Mark(f, "answered")
    /\ UNCHANGED <<mailbox, delivered, sending, answer, quota, calm, pressed, switched>>

ServePoll(f) ==
    /\ req[f].path = "poll"
    /\ \/ /\ AcceptPoll(req[f].at)
          /\ \/ answer' = mailbox /\ UNCHANGED <<quota, calm>>
             \/ answer' = <<>> /\ mailbox # <<>> /\ Fault
          /\ reads' = reads + 1
          /\ Mark(f, "answered")
       \/ /\ RejectPoll(req[f].at)
          /\ Mark(f, "rejected")
          /\ UNCHANGED <<answer, quota, reads, calm>>
    /\ UNCHANGED <<mailbox, delivered, sending, pressed, switched>>

ServeMessage(f) ==
    /\ req[f].path = "message"
    /\ StoreMessage(sending[f].text, sending[f].to)
    /\ Mark(f, "answered")
    /\ UNCHANGED <<challenge, mailbox, sending, answer, histVars>>

\* A node handles the request of f.
Serve(f) ==
    /\ req[f].st = "sent"
    /\ ServeConnect(f) \/ ServeChallenge(f) \/ ServePoll(f) \/ ServeMessage(f)
    /\ UNCHANGED pageVars

\* The request never arrives, or the answer is an error or never arrives.
Fail(f) ==
    /\ req[f].st \in {"sent", "answered"}
    /\ Fault
    /\ Mark(f, "failed")
    /\ challenge' = IF req[f].path = "challenge" THEN None ELSE challenge
    /\ answer' = IF f = "poll" THEN <<>> ELSE answer
    /\ UNCHANGED <<mailbox, delivered, pageVars, sending, reads, pressed, switched>>

\* Error seeded for the runs: the number of retries is not looked at.
RetryAlways(f) ==
    /\ req[f].st \in {"rejected", "failed"}
    /\ Mark(f, "switching")
    /\ UNCHANGED <<apiVars, pageVars, sending, answer, histVars>>

\* catch with retries left: whatever the error was, also a 4xx.
Retry(f) ==
    /\ req[f].st \in {"rejected", "failed"} /\ req[f].retries > 0
    /\ Mark(f, "switching")
    /\ UNCHANGED <<apiVars, pageVars, sending, answer, histVars>>

\* catch without retries: the error reaches the flow.
Rejected(f) == req[f].st \in {"rejected", "failed"} /\ req[f].retries = 0

\* Error seeded for the runs: apiRequest is called again with the same retries.
FetchNewNodeSame(f) ==
    /\ req[f].st = "switching"
    /\ \E n \in Nodes : /\ node' = n
                        /\ Fetch(f, req[f].path, n, req[f].retries)
    /\ UNCHANGED <<apiVars, page, termsAccepted, keys, contacts, messages, active, draft,
                   isPolling, sending, answer, histVars>>

\* fetchNewNode, then apiRequest again.  The bootstrap node names some node;
\* when it fails the node stays what it was.
FetchNewNode(f) ==
    /\ req[f].st = "switching"
    /\ \E n \in Nodes : /\ node' = n
                        /\ Fetch(f, req[f].path, n, req[f].retries - 1)
    /\ UNCHANGED <<apiVars, page, termsAccepted, keys, contacts, messages, active, draft,
                   isPolling, sending, answer, histVars>>

-----------------------------------------------------------------------------
(* Start of the page                                                       *)

TickTerms ==
    /\ page = "terms"
    /\ termsAccepted' = ~termsAccepted
    /\ UNCHANGED <<apiVars, page, keys, contacts, messages, active, draft, node, isPolling,
                   flowVars, histVars>>

AttemptCloseTermsModal ==
    /\ page = "terms" /\ termsAccepted
    /\ page' = "loading"
    /\ UNCHANGED <<apiVars, termsAccepted, keys, contacts, messages, active, draft, node,
                   isPolling, flowVars, histVars>>

\* initWasmAndApp up to the request of loadNodeUrl.
InitWasm ==
    /\ page = "loading"
    /\ page' = "connecting"
    /\ Fetch("init", "connect", node, 1)
    /\ UNCHANGED <<apiVars, termsAccepted, keys, contacts, messages, active, draft, node,
                   isPolling, sending, answer, histVars>>

KeysAtStart == IF keys = 0 THEN 1 ELSE keys

\* The rest of initWasmAndApp, with n the node afterwards: keys, and
\* startPolling, which polls at once.
StartPolling(n) ==
    /\ node' = n
    /\ keys' = KeysAtStart
    /\ page' = "ready"
    /\ isPolling' = TRUE
    /\ req' = [req EXCEPT !["init"] = Idle,
                          !["poll"] = [st |-> "sent", path |-> "challenge", at |-> n, retries |-> 1]]
    /\ UNCHANGED <<apiVars, termsAccepted, contacts, messages, active, draft, sending,
                   answer, histVars>>

\* loadNodeUrl: the answer names a node, or the error is logged.
LoadNodeUrl ==
    \/ req["init"].st = "answered" /\ \E n \in Nodes : StartPolling(n)
    \/ Rejected("init") /\ StartPolling(node)

-----------------------------------------------------------------------------
(* pollMessages                                                            *)

\* Every five seconds; nothing happens while a poll is under way.
PollMessages ==
    /\ page = "ready" /\ keys # 0 /\ ~isPolling
    /\ isPolling' = TRUE
    /\ Fetch("poll", "challenge", node, 1)
    /\ UNCHANGED <<apiVars, page, termsAccepted, keys, contacts, messages, active, draft, node,
                   sending, answer, histVars>>

\* The challenge is signed and sent to the node of this moment.
SignChallenge ==
    /\ req["poll"].st = "answered" /\ req["poll"].path = "challenge"
    /\ Fetch("poll", "poll", node, 1)
    /\ UNCHANGED <<apiVars, pageVars, sending, answer, histVars>>

\* Error seeded for the runs: the contact that was added last.
FindLastContact(list, from) == SelectLastInSeq(list, LAMBDA k : k = from)

\* contacts.find(c => c.publicKey === msg.from); 0 for undefined.
FindContact(list, from) == SelectInSeq(list, LAMBDA k : k = from)

\* The messages of the answer are taken one after the other.  When it is the
\* turn of message i, its sender has a contact: an old one, or the one made for
\* the first message of that sender that could be decrypted, maybe this one.
\* Otherwise message i is skipped.
HasContact(i) ==
    \/ FindContact(contacts, answer[i].from) # 0
    \/ \E j \in 1 .. i : answer[j].from = answer[i].from /\ ~answer[j].sealed

\* Error seeded for the runs: a message of the same second from anybody.
ExistsForAnyone(i) ==
    \/ \E c \in 1 .. Len(messages) : \E k \in 1 .. Len(messages[c]) :
          messages[c][k].sender = "them" /\ messages[c][k].ts = answer[i].ts
    \/ \E j \in 1 .. i - 1 : answer[j].ts = answer[i].ts /\ HasContact(j)

\* messageExists: the conversation has a received message of the same second,
\* from before or from an earlier message of this answer.
MessageExists(i) ==
    \/ LET c == FindContact(contacts, answer[i].from) IN
         c # 0 /\ \E k \in 1 .. Len(messages[c]) :
                     messages[c][k].sender = "them" /\ messages[c][k].ts = answer[i].ts
    \/ \E j \in 1 .. i - 1 : /\ answer[j].from = answer[i].from /\ answer[j].ts = answer[i].ts
                             /\ HasContact(j)

\* A set of positions, in ascending order.
InOrder(I) == [k \in 1 .. Cardinality(I) |->
                 CHOOSE i \in I : Cardinality({j \in I : j <= i}) = k]

\* The positions at which a sender becomes a contact.
Introductions ==
    {i \in 1 .. Len(answer) :
        /\ HasContact(i) /\ FindContact(contacts, answer[i].from) = 0
        /\ \A j \in 1 .. i - 1 : answer[j].from = answer[i].from => ~HasContact(j)}

\* The senders that become contacts, in the order of their messages.
NewContacts ==
    LET new == InOrder(Introductions)
    IN  [k \in 1 .. Len(new) |-> answer[new[k]].from]

\* Error seeded for the runs: pushed to the conversation on screen, if any.
PushedActive(list, c) ==
    {i \in 1 .. Len(answer) :
        /\ HasContact(i) /\ ~MessageExists(i)
        /\ c = (IF active # 0 THEN active ELSE FindContact(list, answer[i].from))}

\* The positions that are pushed to the conversation of contact c of the list.
Pushed(list, c) ==
    {i \in 1 .. Len(answer) : /\ HasContact(i) /\ ~MessageExists(i)
                              /\ FindContact(list, answer[i].from) = c}

NewMessages(list, c) ==
    LET new == InOrder(Pushed(list, c))
    IN  [k \in 1 .. Len(new) |-> [sender |-> "them", peer |-> answer[new[k]].from,
                                  text |-> answer[new[k]].text, ts |-> answer[new[k]].ts]]

PollOver ==
    /\ req' = [req EXCEPT !["poll"] = Idle]
    /\ challenge' = None /\ answer' = <<>> /\ reads' = 0

\* The answer is shown, and the poll is over.
ShowAnswer ==
    /\ req["poll"].st = "answered" /\ req["poll"].path = "poll"
    /\ contacts' = contacts \o NewContacts
    /\ messages' = [c \in 1 .. Len(contacts') |->
                      (IF c <= Len(messages) THEN messages[c] ELSE <<>>) \o NewMessages(contacts', c)]
    /\ isPolling' = FALSE
    /\ PollOver
    /\ UNCHANGED <<mailbox, delivered, page, termsAccepted, keys, active, draft, node, sending,
                   quota, calm, pressed, switched>>

\* Error seeded for the runs: isPolling is reset on success only.
PollFailedStuck ==
    /\ Rejected("poll")
    /\ PollOver
    /\ UNCHANGED <<mailbox, delivered, pageVars, sending, quota, calm, pressed, switched>>

PollFailed ==
    /\ Rejected("poll")
    /\ isPolling' = FALSE
    /\ PollOver
    /\ UNCHANGED <<mailbox, delivered, page, termsAccepted, keys, contacts, messages, active, draft, node,
                   sending, quota, calm, pressed, switched>>

-----------------------------------------------------------------------------
(* sendMessage                                                             *)

\* Up to the request.  Without keys, or before the WASM module is there,
\* encrypt throws and nothing but an alert happens.
SendMessage(s) ==
    /\ page \in {"connecting", "ready"} /\ keys # 0
    /\ draft # 0 /\ active # 0
    /\ req[s] = Idle
    /\ LET to == contacts[active] IN
         /\ pressed' = [pressed EXCEPT ![<<draft, to>>] = @ + 1]
         /\ sending' = [sending EXCEPT ![s] = [text |-> draft, to |-> to]]
    /\ Fetch(s, "message", node, 1)
    /\ Spend("sends")
    /\ UNCHANGED <<apiVars, pageVars, answer, reads, calm, switched>>

SendOver(s) ==
    /\ req' = [req EXCEPT ![s] = Idle]
    /\ sending' = [sending EXCEPT ![s] = NoSend]

\* Error seeded for the runs: a failed request counts as an answer.
RecordSentUnchecked(s) ==
    /\ req[s].st \in {"answered", "failed"}
    /\ messages' = [messages EXCEPT ![active] =
                      Append(@, [sender |-> "me", peer |-> sending[s].to,
                                 text |-> sending[s].text, ts |-> 0])]
    /\ draft' = 0
    /\ SendOver(s)
    /\ UNCHANGED <<apiVars, page, termsAccepted, keys, contacts, active, node, isPolling,
                   answer, histVars>>

\* The message is filed under the contact that is active now, and the input
\* is cleared, whatever it holds now.
RecordSent(s) ==
    /\ req[s].st = "answered"
    /\ messages' = [messages EXCEPT ![active] =
                      Append(@, [sender |-> "me", peer |-> sending[s].to,
                                 text |-> sending[s].text, ts |-> 0])]
    /\ draft' = 0
    /\ SendOver(s)
    /\ UNCHANGED <<apiVars, page, termsAccepted, keys, contacts, active, node, isPolling,
                   answer, histVars>>

\* An alert; the input keeps its text.
SendFailed(s) ==
    /\ Rejected(s)
    /\ SendOver(s)
    /\ UNCHANGED <<apiVars, pageVars, answer, histVars>>

-----------------------------------------------------------------------------
(* The user                                                                *)

\* addContact with a well-formed key; a key that is there already is added again.
AddContact(p) ==
    /\ page # "terms"
    /\ Spend("adds")
    /\ contacts' = Append(contacts, p)
    /\ messages' = Append(messages, <<>>)
    /\ UNCHANGED <<apiVars, page, termsAccepted, keys, active, draft, node, isPolling,
                   flowVars, reads, calm, pressed, switched>>

\* Bound: the user looks at conversations only to write.
Writing == quota["sends"] > 0 \/ \E s \in Sends : req[s] # Idle

SelectContact(c) ==
    /\ page # "terms" /\ c # active
    /\ Writing
    /\ active' = c
    /\ switched' = (switched \/ \E s \in Sends : req[s] # Idle)
    /\ UNCHANGED <<apiVars, page, termsAccepted, keys, contacts, messages, draft, node,
                   isPolling, flowVars, reads, quota, calm, pressed>>

\* A text that was not sent before is typed over what is in the input.
TypeDraft(t) ==
    /\ active # 0 /\ draft # t
    /\ Writing
    /\ \A p \in Peers : pressed[<<t, p>>] = 0
    /\ draft' = t
    /\ UNCHANGED <<apiVars, page, termsAccepted, keys, contacts, messages, active, node,
                   isPolling, flowVars, histVars>>

\* The page is loaded again: what is not persisted is gone, and nobody waits
\* for the requests under way any more.
Reload ==
    /\ Fault
    /\ page' = IF page = "terms" THEN "terms" ELSE "loading"
    /\ termsAccepted' = FALSE
    /\ active' = 0 /\ draft' = 0 /\ node' = Boot /\ isPolling' = FALSE
    /\ req' = [f \in Flows |-> Idle]
    /\ sending' = [s \in Sends |-> NoSend]
    /\ challenge' = None /\ answer' = <<>> /\ reads' = 0
    /\ UNCHANGED <<mailbox, delivered, keys, contacts, messages, pressed, switched>>

-----------------------------------------------------------------------------
(* Everybody else                                                          *)

\* People who know the browser's public key write to it.
Others ==
    /\ keys # 0
    /\ \E p \in Peers : PeerPosts(p) \/ PeerRetries(p)
    /\ Spend("posts")
    /\ UNCHANGED <<pageVars, flowVars, reads, calm, pressed, switched>>

\* A node loses the challenge, or replaces it for another page of the user.
ChallengeLost(n) ==
    /\ Fault
    /\ \/ ForgetChallenge(n)
       \/ GetOtherChallenge(n)
    /\ UNCHANGED <<mailbox, delivered, pageVars, flowVars, reads, pressed, switched>>

\* The steps of a flow.  One of them at most is possible at any time.
Requesting(f) == Serve(f) \/ Retry(f) \/ FetchNewNode(f)

InitFlow == InitWasm \/ LoadNodeUrl \/ Requesting("init")

PollFlow == PollMessages \/ SignChallenge \/ ShowAnswer \/ PollFailed \/ Requesting("poll")

SendFlow(s) == RecordSent(s) \/ SendFailed(s) \/ Requesting(s)

User == \/ TickTerms \/ AttemptCloseTermsModal \/ Reload
        \/ \E s \in Sends : SendMessage(s)
        \/ \E p \in Peers : AddContact(p)
        \/ \E c \in 1 .. Len(contacts) : SelectContact(c)
        \/ \E t \in Texts : TypeDraft(t)

Network == \/ \E f \in Flows : Fail(f)
           \/ \E n \in Nodes : ChallengeLost(n)

Next == \/ InitFlow \/ PollFlow \/ \E s \in Sends : SendFlow(s)
        \/ User \/ Network \/ Others

Spec == Init /\ [][Next]_vars

\* Callbacks run, timers fire, and a request that was made ends: browsers give
\* up on one that gets no answer, which is a Fail.
Fairness == WF_vars(InitFlow) /\ WF_vars(PollFlow) /\ \A s \in Sends : WF_vars(SendFlow(s))

FairSpec == Spec /\ Fairness

-----------------------------------------------------------------------------
(* Properties                                                              *)

\* Positions of the conversations.
Places == UNION {{c} \X (1 .. Len(messages[c])) : c \in 1 .. Len(messages)}

EntryAt(x) == messages[x[1]][x[2]]

\* How often what "from" sent in second ts is on display.
TimesShown(from, ts) ==
    Cardinality({x \in Places : LET e == EntryAt(x) IN
                                  e.sender = "them" /\ e.peer = from /\ e.ts = ts})

\* How often the page says that t went to p.
TimesRecorded(t, p) ==
    Cardinality({x \in Places : LET e == EntryAt(x) IN
                                  e.sender = "me" /\ e.peer = p /\ e.text = t})

\* decryptMessage: the contact whose key is tried for entry e while contact c
\* is on screen; own messages carry no "from".
DecryptContact(c, e) ==
    SelectInSeq([k \in 1 .. Len(contacts) |-> <<k, contacts[k]>>],
                LAMBDA kc : kc[1] = c \/ (e.sender = "them" /\ kc[2] = e.peer))

\* Polls return the whole mailbox every time, contacts may be listed twice and
\* pages are loaded again: still, what a sender sent in one second is on display
\* at most once.
ShownOnce == \A p \in Peers, ts \in 0 .. MaxClock : TimesShown(p, ts) <= 1

\* Unless another contact was selected while a message was under way, every
\* message of every conversation is decrypted with the key it was encrypted with.
RightKey ==
    ~switched => \A x \in Places :
                    contacts[DecryptContact(x[1], EntryAt(x))] = EntryAt(x).peer

\* The page never records a message as sent that was not stored, as often as it
\* says so, whatever fails and whichever node the retry went to.
RecordedWasStored ==
    \A t \in Texts, p \in Peers : TimesRecorded(t, p) <= delivered[<<t, p>>]

\* For one press of Enter nodes take the message at most twice, and exactly once,
\* and it is recorded, when nothing fails and the page is not left in the meantime.
CopiesPerPress ==
    \A t \in Texts, p \in Peers :
        /\ delivered[<<t, p>>] <= 2 * pressed[<<t, p>>]
        /\ (calm /\ \A s \in Sends : req[s] = Idle) =>
               delivered[<<t, p>>] = pressed[<<t, p>>] /\ TimesRecorded(t, p) = pressed[<<t, p>>]

\* One challenge opens the mailbox at most once, also when the answer was lost
\* and the same signed nonce is sent again, to the same or to another node.
ReadOnce == reads <= 1

\* A poll ends on every path, so that the next one can start.
PollEnds == isPolling ~> ~isPolling

InboxLetters == [from : Peers, ts : 0 .. MaxClock]

\* Refinement mapping: what can be shown, and how often it is.
InboxSpec == INSTANCE Inbox WITH
    Letters <- InboxLetters,
    mail    <- {l \in InboxLetters : \E i \in 1 .. Len(mailbox) :
                  /\ mailbox[i].from = l.from /\ mailbox[i].ts = l.ts
                  /\ ~mailbox[i].sealed \/ Contains(contacts, l.from)},
    shown   <- [l \in InboxLetters |-> TimesShown(l.from, l.ts)]

\* The page implements the abstract inbox: every letter, told apart by sender
\* and second, is shown, and never twice.
ImplementsInbox == InboxSpec!Spec

=============================================================================
