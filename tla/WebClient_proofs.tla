-------------------------- MODULE WebClient_proofs ---------------------------
(***************************************************************************)
(* Theorems about the chat page for any number of nodes, sends, contacts,  *)
(* messages, failures and reloads.                                         *)
(***************************************************************************)
EXTENDS WebClient, FiniteSetTheorems, SequenceTheorems, WellFoundedInduction, TLAPS

-----------------------------------------------------------------------------
(* What FindContact and InOrder compute.                                   *)

LEMMA LeastPosition ==
    ASSUME NEW T \in SUBSET Nat, T # {}
    PROVE  /\ Min(T) \in T
           /\ \A y \in T : Min(T) <= y
<1>1. IsWellFoundedOn(OpToRel(<, Nat), Nat)
  BY NatLessThanWellFounded
<1>2. PICK x \in T : \A y \in T : ~(<<y, x>> \in OpToRel(<, Nat))
  BY <1>1, WFMin
<1>3. \A y \in T : ~(y < x)
  BY <1>2 DEF OpToRel
<1>4. \A y \in T : x <= y
  BY <1>3
<1> QED BY <1>2, <1>4 DEF Min

\* FindContact is the first position of the key, and 0 without one.
LEMMA FindFirst ==
    ASSUME NEW l \in Seq(Peers), NEW k
    PROVE  /\ FindContact(l, k) \in 0 .. Len(l)
           /\ FindContact(l, k) = 0 => \A i \in 1 .. Len(l) : l[i] # k
           /\ FindContact(l, k) # 0 =>
                 /\ l[FindContact(l, k)] = k
                 /\ \A i \in 1 .. Len(l) : l[i] = k => FindContact(l, k) <= i
<1> DEFINE I == {i \in 1 .. Len(l) : l[i] = k}
<1>1. FindContact(l, k) = IF I # {} THEN Min(I) ELSE 0
  BY DEF FindContact, SelectInSeq
<1>2. I \in SUBSET Nat /\ \A i \in I : i \in 1 .. Len(l) /\ l[i] = k
  OBVIOUS
<1>3. \A i \in 1 .. Len(l) : l[i] = k => i \in I
  OBVIOUS
<1>4. Len(l) \in Nat
  OBVIOUS
<1> HIDE DEF I
<1>5. CASE I = {}
  BY <1>1, <1>3, <1>4, <1>5
<1>6. CASE I # {}
  <2>1. Min(I) \in I /\ \A i \in I : Min(I) <= i
    BY <1>2, <1>6, LeastPosition
  <2>2. PICK m \in 1 .. Len(l) : m = Min(I) /\ l[m] = k
    BY <1>2, <2>1
  <2>3. FindContact(l, k) = m /\ m \in 0 .. Len(l) /\ m # 0
    BY <1>1, <1>4, <1>6, <2>2
  <2>4. \A i \in 1 .. Len(l) : l[i] = k => m <= i
    BY <1>3, <2>1, <2>2
  <2> QED BY <2>2, <2>3, <2>4
<1> QED BY <1>5, <1>6

\* A contact that was found is found at the same place when others are added.
LEMMA FindKept ==
    ASSUME NEW l \in Seq(Peers), NEW m \in Seq(Peers), Len(l) <= Len(m),
           \A i \in 1 .. Len(l) : m[i] = l[i],
           NEW k, FindContact(l, k) # 0
    PROVE  FindContact(m, k) = FindContact(l, k)
<1>1. Len(l) \in Nat /\ Len(m) \in Nat
  OBVIOUS
<1>2. PICK a \in 0 .. Len(l) : a = FindContact(l, k)
  BY FindFirst
<1>3. PICK b \in 0 .. Len(m) : b = FindContact(m, k)
  BY FindFirst
<1>4. a \in 1 .. Len(l) /\ l[a] = k /\ m[a] = k /\ a \in 1 .. Len(m)
  BY <1>1, <1>2, FindFirst
<1>5. b # 0 /\ m[b] = k /\ b <= a
  BY <1>3, <1>4, FindFirst
<1>6. b \in 1 .. Len(l) /\ l[b] = k
  BY <1>1, <1>3, <1>4, <1>5
<1>7. a <= b
  BY <1>2, <1>4, <1>6, FindFirst
<1> QED BY <1>2, <1>3, <1>5, <1>7

\* InOrder lists every position of the set at most once, and no others.
LEMMA InOrderTyped ==
    ASSUME NEW n \in Nat, NEW I \in SUBSET (1 .. n)
    PROVE  /\ InOrder(I) \in [1 .. Cardinality(I) -> I]
           /\ \A a, b \in 1 .. Cardinality(I) : InOrder(I)[a] = InOrder(I)[b] => a = b
           /\ Cardinality(I) \in Nat
<1> DEFINE Upto(i) == {j \in I : j <= i}
           rank == [i \in I |-> Cardinality(Upto(i))]
           N == Cardinality(I)
<1>1. IsFiniteSet(I) /\ N \in Nat
  <2>1. IsFiniteSet(1 .. n)
    BY FS_Interval
  <2>2. IsFiniteSet(I)
    BY <2>1, FS_Subset
  <2> QED BY <2>2, FS_CardinalityType
<1>2. ASSUME NEW i \in I
      PROVE  /\ IsFiniteSet(Upto(i)) /\ Cardinality(Upto(i)) \in 1 .. N
  <2>1. Upto(i) \in SUBSET I /\ i \in Upto(i)
    OBVIOUS
  <2>2. IsFiniteSet(Upto(i)) /\ Cardinality(Upto(i)) <= N
    BY <1>1, <2>1, FS_Subset
  <2>3. Cardinality(Upto(i)) \in Nat /\ Cardinality(Upto(i)) # 0
    BY <2>1, <2>2, FS_CardinalityType, FS_EmptySet
  <2> QED BY <1>1, <2>2, <2>3
<1>3. rank \in [I -> 1 .. N]
  BY <1>2
<1>4. ASSUME NEW i \in I, NEW j \in I, i < j PROVE rank[i] # rank[j]
  <2>0. j \in Upto(j) /\ j \notin Upto(i) /\ \A x \in I : x <= i => x <= j
    BY <1>4
  <2>1. Upto(i) \in SUBSET Upto(j) /\ Upto(i) # Upto(j)
    BY <2>0
  <2>2. Cardinality(Upto(i)) # Cardinality(Upto(j))
    BY <1>2, <2>1, FS_Subset
  <2> QED BY <2>2
<1>5. rank \in Injection(I, 1 .. N)
  <2>1. \A i, j \in I : i = j \/ i < j \/ j < i
    OBVIOUS
  <2>2. \A i, j \in I : rank[i] = rank[j] => i = j
    <3> HIDE DEF rank
    <3> QED BY <1>4, <2>1
  <2> HIDE DEF rank
  <2> QED BY <1>3, <2>2 DEF Injection, IsInjective
<1>6. IsFiniteSet(1 .. N) /\ Cardinality(1 .. N) = N
  <2> HIDE DEF N
  <2> QED BY <1>1, FS_Interval
<1>7. rank \in Surjection(I, 1 .. N)
  <2> HIDE DEF rank
  <2> QED BY <1>5, <1>6, FS_Injection
<1>8. \A k \in 1 .. N : \E i \in I : rank[i] = k
  <2> HIDE DEF rank
  <2> QED BY <1>7 DEF Surjection
<1>9. \A k \in 1 .. N : \E i \in I : Cardinality({j \in I : j <= i}) = k
  BY <1>8
<1>10. ASSUME NEW k \in 1 .. N
       PROVE  InOrder(I)[k] \in I /\ Cardinality({j \in I : j <= InOrder(I)[k]}) = k
  <2>1. InOrder(I)[k] = CHOOSE i \in I : Cardinality({j \in I : j <= i}) = k
    BY DEF InOrder
  <2> QED BY <1>9, <2>1
<1>11. InOrder(I) \in [1 .. N -> I]
  BY <1>10 DEF InOrder
<1> QED BY <1>1, <1>10, <1>11

-----------------------------------------------------------------------------
(* Type correctness, and the state of the requests under way.              *)

PageTyped ==
    /\ page \in {"terms", "loading", "connecting", "ready"}
    /\ termsAccepted \in BOOLEAN
    /\ keys \in Nat
    /\ contacts \in Seq(Peers)
    /\ messages \in Seq(Seq(Entry)) /\ Len(messages) = Len(contacts)
    /\ active \in 0 .. Len(contacts)
    /\ draft \in Texts \cup {0}
    /\ node \in Nodes
    /\ isPolling \in BOOLEAN

FlowTyped ==
    /\ req \in [Flows -> Request \cup {Idle}]
    /\ sending \in [Sends -> [text : Texts, to : Peers] \cup {NoSend}]
    /\ answer \in Seq(Letter)

HistTyped ==
    /\ reads \in Nat
    /\ quota \in [{"posts", "sends", "adds", "faults"} -> Nat]
    /\ calm \in BOOLEAN
    /\ pressed \in [Texts \X Peers -> Nat]
    /\ switched \in BOOLEAN

LEMMA TypeParts == TypeOK <=> ApiTypeOK /\ PageTyped /\ FlowTyped /\ HistTyped
BY DEF TypeOK, PageTyped, FlowTyped, HistTyped

LEMMA TypePartsNext == TypeOK' <=> ApiTypeOK' /\ PageTyped' /\ FlowTyped' /\ HistTyped'
BY DEF TypeOK, PageTyped, FlowTyped, HistTyped

\* A send is over, or its request is on its way with a text and a recipient,
\* and the recipient is still on screen unless the user has looked elsewhere.
SendSound(s) ==
    \/ req[s] = Idle /\ sending[s] = NoSend
    \/ /\ req[s] \in Request /\ req[s].path = "message" /\ req[s].st # "rejected"
       /\ sending[s] \in [text : Texts, to : Peers]
       /\ active \in 1 .. Len(contacts)
       /\ ~switched => contacts[active] = sending[s].to

\* Only a request with a retry left switches to another node.
FlowInv ==
    /\ \A f \in Flows : req[f].st = "switching" => req[f].retries = 1
    /\ \A f \in {"init", "poll"} : req[f].path # "message"
    /\ \A s \in Sends : SendSound(s)

LEMMA FlowNames == /\ "init" \in Flows /\ "poll" \in Flows
                   /\ \A s \in Sends : s \in Flows /\ s # "init" /\ s # "poll"
                   /\ \A f \in Flows : f \in Sends \/ f \in {"init", "poll"}
BY ClientAssumption DEF ClientAssumption, Flows

LEMMA IdleFields ==
    /\ Idle.st = "idle" /\ Idle.path = "none" /\ Idle.retries = 0
    /\ Idle \notin Request
BY DEF Idle, Request

\* Contacts are only added at the end.
MoreContacts ==
    /\ Len(contacts) <= Len(contacts')
    /\ \A i \in 1 .. Len(contacts) : contacts'[i] = contacts[i]

LEMMA SendKept ==
    ASSUME NEW s \in Sends, SendSound(s), req'[s] = req[s], sending'[s] = sending[s],
           active' = active, contacts \in Seq(Peers), contacts' \in Seq(Peers),
           MoreContacts, switched => switched'
    PROVE  SendSound(s)'
<1>1. CASE req[s] = Idle /\ sending[s] = NoSend
  BY <1>1 DEF SendSound
<1>2. CASE ~(req[s] = Idle /\ sending[s] = NoSend)
  <2>1. /\ req[s] \in Request /\ req[s].path = "message" /\ req[s].st # "rejected"
        /\ sending[s] \in [text : Texts, to : Peers]
        /\ active \in 1 .. Len(contacts)
        /\ ~switched => contacts[active] = sending[s].to
    BY <1>2 DEF SendSound
  <2>2. active \in 1 .. Len(contacts') /\ contacts'[active] = contacts[active]
    <3>1. Len(contacts) \in Nat /\ Len(contacts') \in Nat
      OBVIOUS
    <3> QED BY <2>1, <3>1 DEF MoreContacts
  <2>3. ~switched' => contacts'[active'] = sending'[s].to
    BY <2>1, <2>2
  <2> QED BY <2>1, <2>2, <2>3 DEF SendSound
<1> QED BY <1>1, <1>2

\* No request is touched, and the page shows the same contact.
LEMMA FlowKept ==
    ASSUME FlowInv, UNCHANGED <<req, sending, active>>,
           contacts \in Seq(Peers), contacts' \in Seq(Peers),
           MoreContacts, switched => switched'
    PROVE  FlowInv'
<1>1. \A s \in Sends : SendSound(s)'
  BY SendKept DEF FlowInv
<1> QED BY <1>1 DEF FlowInv

LEMMA SameContacts ==
    ASSUME contacts' = contacts
    PROVE  MoreContacts
BY DEF MoreContacts

RequestPaths == {"connect", "challenge", "poll", "message"}

\* Requests are typed, and sound.
FlowOk == req \in [Flows -> Request \cup {Idle}] /\ FlowInv

LEMMA MarkFlow ==
    ASSUME NEW f \in Flows, req[f] \in Request, FlowOk,
           NEW st \in {"answered", "rejected", "failed", "switching"}, Mark(f, st),
           st = "switching" => req[f].retries = 1,
           st = "rejected" => req[f].path # "message",
           UNCHANGED <<sending, contacts, active, switched>>
    PROVE  FlowOk'
<1>1. PICK r \in Request : /\ r = [req[f] EXCEPT !.st = st]
                           /\ r.st = st /\ r.path = req[f].path /\ r.retries = req[f].retries
  <2> DEFINE r == [req[f] EXCEPT !.st = st]
  <2>1. r \in Request /\ r.st = st /\ r.path = req[f].path /\ r.retries = req[f].retries
    BY DEF Request
  <2> QED BY <2>1
<1>2. req' = [req EXCEPT ![f] = r]
  BY <1>1 DEF Mark
<1>3. /\ req' \in [Flows -> Request \cup {Idle}]
      /\ req'[f] = r /\ \A g \in Flows \ {f} : req'[g] = req[g]
  BY <1>2 DEF FlowOk
<1>4. \A g \in Flows : req'[g].st = "switching" => req'[g].retries = 1
  BY <1>1, <1>3 DEF FlowOk, FlowInv
<1>5. \A g \in {"init", "poll"} : req'[g].path # "message"
  <2> SUFFICES ASSUME NEW g \in {"init", "poll"} PROVE req'[g].path # "message"
    OBVIOUS
  <2>1. req[g].path # "message" /\ g \in Flows
    BY FlowNames DEF FlowOk, FlowInv
  <2>2. CASE g = f
    BY <1>1, <1>3, <2>1, <2>2
  <2>3. CASE g # f
    BY <1>3, <2>1, <2>3
  <2> QED BY <2>2, <2>3
<1>6. ASSUME NEW s \in Sends PROVE SendSound(s)'
  <2>1. SendSound(s) /\ s \in Flows
    BY FlowNames DEF FlowOk, FlowInv
  <2>2. CASE s = f
    <3>1. req[s] # Idle
      BY <2>2, IdleFields
    <3>2. req'[s].path = "message" /\ req'[s].st # "rejected" /\ req'[s] \in Request
      BY <1>1, <1>3, <2>1, <2>2, <3>1 DEF SendSound
    <3> QED BY <2>1, <3>1, <3>2 DEF SendSound
  <2>3. CASE s # f
    <3>1. req'[s] = req[s]
      BY <1>3, <2>1, <2>3
    <3> QED BY <2>1, <3>1 DEF SendSound
  <2> QED BY <2>2, <2>3
<1> QED BY <1>3, <1>4, <1>5, <1>6 DEF FlowOk, FlowInv

LEMMA FetchFlow ==
    ASSUME NEW f \in Flows, FlowOk, NEW path \in RequestPaths, NEW n \in Nodes,
           NEW r \in 0 .. 1, Fetch(f, path, n, r),
           path = "message" <=> f \in Sends,
           f \in Sends => /\ sending'[f] \in [text : Texts, to : Peers]
                          /\ active \in 1 .. Len(contacts)
                          /\ ~switched => contacts[active] = sending'[f].to,
           \A s \in Sends \ {f} : sending'[s] = sending[s],
           UNCHANGED <<contacts, active, switched>>
    PROVE  FlowOk'
<1>1. PICK q \in Request : /\ q = [st |-> "sent", path |-> path, at |-> n, retries |-> r]
                           /\ q.st = "sent" /\ q.path = path
  <2> DEFINE q == [st |-> "sent", path |-> path, at |-> n, retries |-> r]
  <2>1. q \in Request /\ q.st = "sent" /\ q.path = path
    BY DEF Request, RequestPaths
  <2> QED BY <2>1
<1>2. req' = [req EXCEPT ![f] = q]
  BY <1>1 DEF Fetch
<1>3. /\ req' \in [Flows -> Request \cup {Idle}]
      /\ req'[f] = q /\ \A g \in Flows \ {f} : req'[g] = req[g]
  BY <1>2 DEF FlowOk
<1>4. \A g \in Flows : req'[g].st = "switching" => req'[g].retries = 1
  BY <1>1, <1>3 DEF FlowOk, FlowInv
<1>5. \A g \in {"init", "poll"} : req'[g].path # "message"
  BY <1>1, <1>3, FlowNames DEF FlowOk, FlowInv
<1>6. ASSUME NEW s \in Sends PROVE SendSound(s)'
  <2>1. SendSound(s) /\ s \in Flows
    BY FlowNames DEF FlowOk, FlowInv
  <2>2. CASE s = f
    BY <1>1, <1>3, <2>2 DEF SendSound
  <2>3. CASE s # f
    <3>1. req'[s] = req[s] /\ sending'[s] = sending[s]
      BY <1>3, <2>1, <2>3
    <3> QED BY <2>1, <3>1 DEF SendSound
  <2> QED BY <2>2, <2>3
<1> QED BY <1>3, <1>4, <1>5, <1>6 DEF FlowOk, FlowInv

\* A flow ends; a send forgets its text.
LEMMA IdleFlow ==
    ASSUME NEW f \in Flows, FlowOk, req' = [req EXCEPT ![f] = Idle],
           f \in Sends => sending'[f] = NoSend,
           \A s \in Sends \ {f} : sending'[s] = sending[s],
           UNCHANGED <<contacts, active, switched>> \/
              (contacts \in Seq(Peers) /\ contacts' \in Seq(Peers) /\ MoreContacts
               /\ UNCHANGED <<active, switched>>)
    PROVE  FlowOk'
<1>3. /\ req' \in [Flows -> Request \cup {Idle}]
      /\ req'[f] = Idle /\ \A g \in Flows \ {f} : req'[g] = req[g]
  BY DEF FlowOk
<1>4. \A g \in Flows : req'[g].st = "switching" => req'[g].retries = 1
  BY <1>3, IdleFields DEF FlowOk, FlowInv
<1>5. \A g \in {"init", "poll"} : req'[g].path # "message"
  BY <1>3, FlowNames, IdleFields DEF FlowOk, FlowInv
<1>6. ASSUME NEW s \in Sends PROVE SendSound(s)'
  <2>1. SendSound(s) /\ s \in Flows
    BY FlowNames DEF FlowOk, FlowInv
  <2>2. CASE s = f
    BY <1>3, <2>2 DEF SendSound
  <2>3. CASE s # f
    <3>1. req'[s] = req[s] /\ sending'[s] = sending[s]
      BY <1>3, <2>1, <2>3
    <3>2. CASE UNCHANGED <<contacts, active, switched>>
      BY <2>1, <3>1, <3>2 DEF SendSound
    <3>3. CASE contacts \in Seq(Peers) /\ contacts' \in Seq(Peers) /\ MoreContacts
               /\ UNCHANGED <<active, switched>>
      BY <2>1, <3>1, <3>3, SendKept
    <3> QED BY <3>2, <3>3
  <2> QED BY <2>2, <2>3
<1> QED BY <1>3, <1>4, <1>5, <1>6 DEF FlowOk, FlowInv

\* The conversations after an answer was shown: what was there, then what the
\* answer adds to them.
Before(c) == IF c <= Len(messages) THEN messages[c] ELSE <<>>

LEMMA NewContactsTyped ==
    ASSUME answer \in Seq(Letter)
    PROVE  NewContacts \in Seq(Peers)
<1> DEFINE I == Introductions
           n == Len(answer)
<1>1. n \in Nat /\ I \in SUBSET (1 .. n)
  BY DEF Introductions
<1>2. \A i \in I : answer[i].from \in Peers
  <2>1. \A i \in I : answer[i] \in Letter
    BY <1>1
  <2> QED BY <2>1 DEF Letter
<1> HIDE DEF I, n
<1>3. InOrder(I) \in [1 .. Cardinality(I) -> I] /\ Cardinality(I) \in Nat
  BY <1>1, InOrderTyped
<1>4. Len(InOrder(I)) = Cardinality(I)
  BY <1>3
<1>5. NewContacts = [k \in 1 .. Cardinality(I) |-> answer[InOrder(I)[k]].from]
  BY <1>4 DEF NewContacts, I
<1> QED BY <1>2, <1>3, <1>5

\* The k-th new message of a conversation is the letter at pos[k], one of the
\* positions I.
MadeFrom(new, pos, I) ==
    /\ pos \in [1 .. Len(new) -> I]
    /\ \A k \in 1 .. Len(new) :
          /\ new[k].sender = "them"
          /\ new[k].peer = answer[pos[k]].from
          /\ new[k].ts = answer[pos[k]].ts
          /\ \A j \in 1 .. Len(new) : pos[j] = pos[k] => j = k

LEMMA NewMessagesAre ==
    ASSUME answer \in Seq(Letter), NEW list, NEW c
    PROVE  /\ NewMessages(list, c) \in Seq(Entry)
           /\ \E pos : MadeFrom(NewMessages(list, c), pos, Pushed(list, c))
<1> DEFINE I == Pushed(list, c)
           n == Len(answer)
<1>1. n \in Nat /\ I \in SUBSET (1 .. n)
  BY DEF Pushed
<1>2. ASSUME NEW i \in I
      PROVE  [sender |-> "them", peer |-> answer[i].from,
              text |-> answer[i].text, ts |-> answer[i].ts] \in Entry
  <2>1. answer[i] \in Letter
    BY <1>1
  <2>2. /\ answer[i].from \in Peers /\ answer[i].text \in Nat /\ answer[i].ts \in Nat
    BY <2>1, ApiAssumption DEF Letter, ApiAssumption
  <2> QED BY <2>2 DEF Entry
<1> HIDE DEF I, n
<1>3. PICK pos : /\ pos = InOrder(I) /\ pos \in [1 .. Cardinality(I) -> I]
                 /\ Cardinality(I) \in Nat
                 /\ \A a, b \in 1 .. Cardinality(I) : pos[a] = pos[b] => a = b
  BY <1>1, InOrderTyped
<1>4. Len(pos) = Cardinality(I)
  BY <1>3
<1>5. NewMessages(list, c) =
         [k \in 1 .. Cardinality(I) |->
            [sender |-> "them", peer |-> answer[pos[k]].from,
             text |-> answer[pos[k]].text, ts |-> answer[pos[k]].ts]]
  BY <1>3, <1>4 DEF NewMessages, I
<1>6. NewMessages(list, c) \in Seq(Entry) /\ Len(NewMessages(list, c)) = Cardinality(I)
  <2>1. \A k \in 1 .. Cardinality(I) : pos[k] \in I
    BY <1>3
  <2>2. NewMessages(list, c) \in [1 .. Cardinality(I) -> Entry]
    BY <1>2, <1>5, <2>1
  <2> QED BY <1>3, <2>2
<1>7. \A k \in 1 .. Cardinality(I) :
         /\ NewMessages(list, c)[k].sender = "them"
         /\ NewMessages(list, c)[k].peer = answer[pos[k]].from
         /\ NewMessages(list, c)[k].ts = answer[pos[k]].ts
  BY <1>5
<1>8. MadeFrom(NewMessages(list, c), pos, I)
  BY <1>3, <1>6, <1>7 DEF MadeFrom
<1> QED BY <1>6, <1>8 DEF I

LEMMA ShowContacts ==
    ASSUME contacts \in Seq(Peers), answer \in Seq(Letter), ShowAnswer
    PROVE  contacts' \in Seq(Peers) /\ MoreContacts
<1>1. NewContacts \in Seq(Peers) /\ contacts' = contacts \o NewContacts
  BY NewContactsTyped DEF ShowAnswer
<1>2. /\ contacts \o NewContacts \in Seq(Peers)
      /\ Len(contacts \o NewContacts) = Len(contacts) + Len(NewContacts)
      /\ \A i \in 1 .. Len(contacts) + Len(NewContacts) : (contacts \o NewContacts)[i] =
            IF i <= Len(contacts) THEN contacts[i] ELSE NewContacts[i - Len(contacts)]
  BY <1>1, ConcatProperties
<1>3. Len(contacts) \in Nat /\ Len(NewContacts) \in Nat
  BY <1>1
<1> QED BY <1>1, <1>2, <1>3 DEF MoreContacts

LEMMA ShowMessages ==
    ASSUME PageTyped, answer \in Seq(Letter), ShowAnswer
    PROVE  /\ messages' \in Seq(Seq(Entry)) /\ Len(messages') = Len(contacts')
           /\ \A c \in 1 .. Len(contacts') :
                 /\ Before(c) \in Seq(Entry)
                 /\ messages'[c] = Before(c) \o NewMessages(contacts', c)
<1>1. contacts' \in Seq(Peers) /\ Len(contacts') \in Nat
  BY ShowContacts DEF PageTyped
<1>2. ASSUME NEW c \in 1 .. Len(contacts') PROVE Before(c) \in Seq(Entry)
  <2>1. messages \in Seq(Seq(Entry)) /\ << >> \in Seq(Entry) /\ Len(messages) \in Nat
    BY DEF PageTyped
  <2> QED BY <1>1, <2>1 DEF Before
<1>3. \A c : NewMessages(contacts', c) \in Seq(Entry)
  BY NewMessagesAre
<1>4. \A c \in 1 .. Len(contacts') : Before(c) \o NewMessages(contacts', c) \in Seq(Entry)
  BY <1>2, <1>3, ConcatProperties
<1>5. messages' = [c \in 1 .. Len(contacts') |-> Before(c) \o NewMessages(contacts', c)]
  BY DEF ShowAnswer, Before
<1> QED BY <1>1, <1>2, <1>4, <1>5

LEMMA SpendTyped ==
    ASSUME NEW what \in {"posts", "sends", "adds", "faults"}, Spend(what),
           quota \in [{"posts", "sends", "adds", "faults"} -> Nat]
    PROVE  quota' \in [{"posts", "sends", "adds", "faults"} -> Nat]
BY DEF Spend

LEMMA FaultTyped ==
    ASSUME Fault, quota \in [{"posts", "sends", "adds", "faults"} -> Nat]
    PROVE  /\ quota' \in [{"posts", "sends", "adds", "faults"} -> Nat]
           /\ calm' \in BOOLEAN /\ calm' = FALSE
<1>1. quota' \in [{"posts", "sends", "adds", "faults"} -> Nat]
  BY SpendTyped DEF Fault
<1>2. calm' = FALSE
  BY DEF Fault
<1> QED BY <1>1, <1>2

LEMMA ApiSame == ASSUME ApiTypeOK, UNCHANGED apiVars PROVE ApiTypeOK'
BY DEF ApiTypeOK, apiVars

LEMMA PageSame == ASSUME PageTyped, UNCHANGED pageVars PROVE PageTyped'
BY DEF PageTyped, pageVars

LEMMA HistSame == ASSUME HistTyped, UNCHANGED histVars PROVE HistTyped'
BY DEF HistTyped, histVars

SendingTyped == sending \in [Sends -> [text : Texts, to : Peers] \cup {NoSend}]

AnswerTyped == answer \in Seq(Letter)

\* All that is kept by every step.
Sound == ApiTypeOK /\ PageTyped /\ HistTyped /\ FlowOk /\ SendingTyped /\ AnswerTyped

LEMMA SoundIsTyped == Sound <=> TypeOK /\ FlowInv
BY TypeParts DEF Sound, FlowOk, FlowTyped, SendingTyped, AnswerTyped

\* An answer to a request, a retry and a new attempt.
LEMMA RequestingSound ==
    ASSUME Sound, NEW f \in Flows, Requesting(f)
    PROVE  Sound'
<1>0. ApiTypeOK /\ PageTyped /\ HistTyped /\ FlowOk /\ SendingTyped /\ AnswerTyped
  BY DEF Sound
<1>1. ASSUME req[f].st \in {"sent", "answered", "rejected", "failed", "switching"}
      PROVE  req[f] \in Request
  BY <1>0, <1>1, IdleFields DEF FlowOk
<1>2. UNCHANGED <<sending, contacts, active, switched>> /\ PageTyped' /\ SendingTyped' 
  <2>1. CASE Serve(f)
    BY <1>0, <2>1, PageSame DEF Serve, ServeConnect, ServeChallenge, ServePoll, ServeMessage,
                         pageVars, histVars, SendingTyped
  <2>2. CASE Retry(f)
    BY <1>0, <2>2, PageSame DEF Retry, pageVars, histVars, SendingTyped
  <2>3. CASE FetchNewNode(f)
    BY <1>0, <2>3 DEF FetchNewNode, PageTyped, histVars, SendingTyped
  <2> QED BY <2>1, <2>2, <2>3 DEF Requesting
<1>3. CASE Serve(f)
  <2>0. req[f] \in Request /\ req[f].st = "sent"
    BY <1>1, <1>3 DEF Serve
  <2>1. CASE ServeConnect(f)
    <3>1. FlowOk'
      BY <1>0, <1>2, <2>0, <2>1, MarkFlow DEF ServeConnect
    <3> QED BY <1>0, <1>2, <2>1, <3>1, ApiSame, HistSame DEF ServeConnect, Sound, AnswerTyped
  <2>2. CASE ServeChallenge(f)
    <3>1. FlowOk'
      BY <1>0, <1>2, <2>0, <2>2, MarkFlow DEF ServeChallenge
    <3>2. ApiTypeOK'
      BY <1>0, <2>0, <2>2 DEF ServeChallenge, GetChallenge, ApiTypeOK, Request
    <3>3. HistTyped'
      BY <1>0, <2>2 DEF ServeChallenge, HistTyped
    <3> QED BY <1>0, <1>2, <2>2, <3>1, <3>2, <3>3 DEF ServeChallenge, Sound, AnswerTyped
  <2>3. CASE ServePoll(f)
    <3>1. CASE AcceptPoll(req[f].at) /\ Mark(f, "answered") /\ reads' = reads + 1
      <4>1. FlowOk'
        BY <1>0, <1>2, <2>0, <3>1, MarkFlow
      <4>2. ApiTypeOK'
        BY <1>0, <2>3, <3>1 DEF ServePoll, AcceptPoll, ApiTypeOK
      <4>3. /\ quota' \in [{"posts", "sends", "adds", "faults"} -> Nat]
            /\ calm' \in BOOLEAN
        <5>1. CASE Fault
          BY <1>0, <5>1, FaultTyped DEF HistTyped
        <5>2. CASE UNCHANGED <<quota, calm>>
          BY <1>0, <5>2 DEF HistTyped
        <5>3. RejectPoll(req[f].at) => FALSE
          BY <3>1 DEF RejectPoll, AcceptPoll
        <5> QED BY <2>3, <5>1, <5>2, <5>3 DEF ServePoll
      <4>4. HistTyped'
        BY <1>0, <2>3, <3>1, <4>3 DEF ServePoll, HistTyped
      <4>5. AnswerTyped'
        <5>1. << >> \in Seq(Letter)
          OBVIOUS
        <5>2. answer' \in {mailbox, << >>, answer}
          BY <2>3 DEF ServePoll
        <5> QED BY <1>0, <5>1, <5>2 DEF AnswerTyped, ApiTypeOK
      <4> QED BY <1>2, <4>1, <4>2, <4>4, <4>5 DEF Sound
    <3>2. CASE RejectPoll(req[f].at) /\ Mark(f, "rejected") /\ UNCHANGED <<answer, quota, reads, calm>>
      <4>1. FlowOk'
        BY <1>0, <1>2, <2>0, <2>3, <3>2, MarkFlow DEF ServePoll
      <4>2. ApiTypeOK'
        BY <1>0, <2>3, <3>2 DEF ServePoll, RejectPoll, ApiTypeOK
      <4>3. HistTyped'
        BY <1>0, <2>3, <3>2 DEF ServePoll, HistTyped
      <4> QED BY <1>0, <1>2, <3>2, <4>1, <4>2, <4>3 DEF Sound, AnswerTyped
    <3> QED BY <2>3, <3>1, <3>2 DEF ServePoll
  <2>4. CASE ServeMessage(f)
    <3>1. FlowOk'
      BY <1>0, <1>2, <2>0, <2>4, MarkFlow DEF ServeMessage
    <3>2. f \in Sends /\ sending[f] \in [text : Texts, to : Peers]
      <4>1. f \in Sends
        BY <1>0, <2>4, FlowNames DEF ServeMessage, FlowOk, FlowInv
      <4>2. SendSound(f) /\ req[f] # Idle
        BY <1>0, <2>0, <4>1, IdleFields DEF FlowOk, FlowInv
      <4> QED BY <4>1, <4>2 DEF SendSound
    <3>3. <<sending[f].text, sending[f].to>> \in Texts \X Peers
      BY <3>2
    <3>4. ApiTypeOK'
      BY <1>0, <2>4, <3>3 DEF ServeMessage, StoreMessage, ApiTypeOK
    <3> QED BY <1>0, <1>2, <2>4, <3>1, <3>4, HistSame DEF ServeMessage, Sound, AnswerTyped
  <2> QED BY <1>3, <2>1, <2>2, <2>3, <2>4 DEF Serve
<1>4. CASE Retry(f)
  <2>0. req[f] \in Request /\ req[f].retries = 1
    <3>1. req[f] \in Request
      BY <1>1, <1>4 DEF Retry
    <3> QED BY <1>4, <3>1 DEF Retry, Request
  <2>1. FlowOk'
    BY <1>0, <1>2, <1>4, <2>0, MarkFlow DEF Retry
  <2> QED BY <1>0, <1>2, <1>4, <2>1, ApiSame, HistSame DEF Retry, Sound, AnswerTyped
<1>5. CASE FetchNewNode(f)
  <2>0. req[f] \in Request /\ req[f].retries = 1
    <3>1. req[f] \in Request
      BY <1>1, <1>5 DEF FetchNewNode
    <3> QED BY <1>0, <1>5, <3>1 DEF FetchNewNode, FlowOk, FlowInv
  <2>1. PICK n \in Nodes : Fetch(f, req[f].path, n, req[f].retries - 1)
    BY <1>5 DEF FetchNewNode
  <2>2. req[f].path \in RequestPaths /\ req[f].retries - 1 \in 0 .. 1
    BY <2>0 DEF Request, RequestPaths
  <2>3. req[f].path = "message" <=> f \in Sends
    BY <1>0, <2>0, FlowNames, IdleFields DEF FlowOk, FlowInv, SendSound
  <2>4. f \in Sends => /\ sending'[f] \in [text : Texts, to : Peers]
                       /\ active \in 1 .. Len(contacts)
                       /\ ~switched => contacts[active] = sending'[f].to
    BY <1>0, <1>2, <2>0, IdleFields DEF FlowOk, FlowInv, SendSound
  <2>5. FlowOk'
    BY <1>0, <1>2, <2>1, <2>2, <2>3, <2>4, FetchFlow
  <2> QED BY <1>0, <1>2, <1>5, <2>5, ApiSame, HistSame DEF FetchNewNode, Sound, AnswerTyped
<1> QED BY <1>3, <1>4, <1>5 DEF Requesting

LEMMA InitSound == Init => Sound
<1> SUFFICES ASSUME Init PROVE Sound
  OBVIOUS
<1>1. << >> \in Seq(Letter) /\ << >> \in Seq(Peers) /\ << >> \in Seq(Seq(Entry))
  OBVIOUS
<1>2. ApiTypeOK
  BY <1>1 DEF Init, ApiInit, ApiTypeOK
<1>3. PageTyped
  <2>1. Boot \in Nodes
    BY ClientAssumption DEF ClientAssumption
  <2>2. termsAccepted \in BOOLEAN /\ isPolling \in BOOLEAN
    BY DEF Init
  <2>3. /\ contacts = << >> /\ messages = << >> /\ Len(contacts) = 0 /\ Len(messages) = 0
        /\ active = 0 /\ node = Boot /\ page = "terms" /\ keys = 0 /\ draft = 0
    BY DEF Init
  <2> QED BY <1>1, <2>1, <2>2, <2>3 DEF PageTyped
<1>4. HistTyped
  BY ClientAssumption DEF Init, HistTyped, ClientAssumption
<1>5. FlowOk
  BY FlowNames, IdleFields DEF Init, FlowOk, FlowInv, SendSound
<1>6. SendingTyped /\ AnswerTyped
  BY <1>1 DEF Init, SendingTyped, AnswerTyped
<1> QED BY <1>2, <1>3, <1>4, <1>5, <1>6 DEF Sound

LEMMA StartSound ==
    ASSUME Sound, TickTerms \/ AttemptCloseTermsModal \/ InitWasm \/ LoadNodeUrl
    PROVE  Sound'
<1>0. ApiTypeOK /\ PageTyped /\ HistTyped /\ FlowOk /\ SendingTyped /\ AnswerTyped
  BY DEF Sound
<1>1. /\ ApiTypeOK' /\ HistTyped' /\ SendingTyped' /\ AnswerTyped'
      /\ UNCHANGED <<sending, contacts, active, switched>>
  BY <1>0, ApiSame, HistSame
  DEF TickTerms, AttemptCloseTermsModal, InitWasm, LoadNodeUrl, StartPolling, flowVars,
      histVars, SendingTyped, AnswerTyped
<1>2. CASE TickTerms
  <2>1. termsAccepted' \in BOOLEAN
    BY <1>2 DEF TickTerms
  <2>2. PageTyped'
    BY <1>0, <1>2, <2>1 DEF TickTerms, PageTyped
  <2>3. FlowOk'
    BY <1>0, <1>2, FlowKept, SameContacts DEF TickTerms, FlowOk, PageTyped, flowVars, histVars
  <2> QED BY <1>1, <2>2, <2>3 DEF Sound
<1>3. CASE AttemptCloseTermsModal
  <2>1. PageTyped'
    BY <1>0, <1>3 DEF AttemptCloseTermsModal, PageTyped
  <2>2. FlowOk'
    BY <1>0, <1>3, FlowKept, SameContacts
    DEF AttemptCloseTermsModal, FlowOk, PageTyped, flowVars, histVars
  <2> QED BY <1>1, <2>1, <2>2 DEF Sound
<1>4. CASE InitWasm
  <2>1. PageTyped'
    BY <1>0, <1>4 DEF InitWasm, PageTyped
  <2>2. FlowOk'
    BY <1>0, <1>1, <1>4, FlowNames, FetchFlow DEF InitWasm, PageTyped, RequestPaths
  <2> QED BY <1>1, <2>1, <2>2 DEF Sound
<1>5. CASE LoadNodeUrl
  <2>1. PICK n \in Nodes : StartPolling(n)
    BY <1>0, <1>5 DEF LoadNodeUrl, PageTyped
  <2>2. keys' \in Nat
    BY <1>0, <2>1 DEF StartPolling, KeysAtStart, PageTyped
  <2>3. PageTyped'
    BY <1>0, <2>1, <2>2 DEF StartPolling, PageTyped
  <2>4. PICK q \in Request :
           /\ q = [st |-> "sent", path |-> "challenge", at |-> n, retries |-> 1]
           /\ q.st = "sent" /\ q.path = "challenge"
    <3> DEFINE q == [st |-> "sent", path |-> "challenge", at |-> n, retries |-> 1]
    <3>1. q \in Request /\ q.st = "sent" /\ q.path = "challenge"
      BY DEF Request
    <3> QED BY <3>1
  <2>5. req' = [req EXCEPT !["init"] = Idle, !["poll"] = q]
    BY <2>1, <2>4 DEF StartPolling
  <2>6. /\ req' \in [Flows -> Request \cup {Idle}]
        /\ req'["init"] = Idle /\ req'["poll"] = q
        /\ \A g \in Flows \ {"init", "poll"} : req'[g] = req[g]
    BY <1>0, <2>5, FlowNames DEF FlowOk
  <2>7. \A g \in Flows : req'[g].st = "switching" => req'[g].retries = 1
    BY <1>0, <2>4, <2>6, IdleFields DEF FlowOk, FlowInv
  <2>8. \A g \in {"init", "poll"} : req'[g].path # "message"
    BY <2>4, <2>6, IdleFields
  <2>9. ASSUME NEW s \in Sends PROVE SendSound(s)'
    <3>1. req'[s] = req[s] /\ SendSound(s)
      BY <1>0, <2>6, FlowNames DEF FlowOk, FlowInv
    <3> QED BY <1>1, <3>1 DEF SendSound
  <2>10. FlowOk'
    BY <2>6, <2>7, <2>8, <2>9 DEF FlowOk, FlowInv
  <2> QED BY <1>1, <2>3, <2>10 DEF Sound
<1> QED BY <1>2, <1>3, <1>4, <1>5

LEMMA PollSound ==
    ASSUME Sound, PollMessages \/ SignChallenge \/ ShowAnswer \/ PollFailed
    PROVE  Sound'
<1>0. ApiTypeOK /\ PageTyped /\ HistTyped /\ FlowOk /\ SendingTyped /\ AnswerTyped
  BY DEF Sound
<1>1. CASE PollMessages
  <2>1. PageTyped'
    BY <1>0, <1>1 DEF PollMessages, PageTyped
  <2>2. FlowOk'
    BY <1>0, <1>1, FlowNames, FetchFlow DEF PollMessages, PageTyped, RequestPaths, histVars
  <2> QED BY <1>0, <1>1, <2>1, <2>2, ApiSame, HistSame
          DEF PollMessages, Sound, SendingTyped, AnswerTyped
<1>2. CASE SignChallenge
  <2>1. FlowOk'
    BY <1>0, <1>2, FlowNames, FetchFlow
    DEF SignChallenge, PageTyped, RequestPaths, pageVars, histVars
  <2> QED BY <1>0, <1>2, <2>1, ApiSame, PageSame, HistSame
          DEF SignChallenge, Sound, SendingTyped, AnswerTyped
<1>3. ASSUME PollOver, UNCHANGED <<mailbox, delivered, sending, quota, calm, pressed, switched, active>>,
             contacts' \in Seq(Peers), MoreContacts, PageTyped'
      PROVE  Sound'
  <2>1. << >> \in Seq(Letter)
    OBVIOUS
  <2>2. ApiTypeOK' /\ SendingTyped' /\ AnswerTyped'
    BY <1>0, <1>3, <2>1 DEF PollOver, ApiTypeOK, SendingTyped, AnswerTyped
  <2>3. HistTyped'
    BY <1>0, <1>3 DEF PollOver, HistTyped
  <2>4. FlowOk'
    BY <1>0, <1>3, FlowNames, IdleFlow DEF PollOver, PageTyped
  <2> QED BY <1>3, <2>2, <2>3, <2>4 DEF Sound
<1>4. CASE ShowAnswer
  <2>1. contacts' \in Seq(Peers) /\ MoreContacts
    BY <1>0, <1>4, ShowContacts DEF PageTyped, AnswerTyped
  <2>2. messages' \in Seq(Seq(Entry)) /\ Len(messages') = Len(contacts')
    BY <1>0, <1>4, ShowMessages DEF AnswerTyped
  <2>3. active' \in 0 .. Len(contacts')
    <3>1. Len(contacts) \in Nat /\ Len(contacts') \in Nat /\ active \in 0 .. Len(contacts)
      BY <1>0, <2>1 DEF PageTyped
    <3> QED BY <1>4, <2>1, <3>1 DEF ShowAnswer, MoreContacts
  <2>4. PageTyped'
    BY <1>0, <1>4, <2>1, <2>2, <2>3 DEF ShowAnswer, PageTyped
  <2> QED BY <1>3, <1>4, <2>1, <2>4 DEF ShowAnswer
<1>5. CASE PollFailed
  <2>1. PageTyped'
    BY <1>0, <1>5 DEF PollFailed, PageTyped
  <2> QED BY <1>0, <1>3, <1>5, <2>1, SameContacts DEF PollFailed, PageTyped
<1> QED BY <1>1, <1>2, <1>4, <1>5

\* What RecordSent(s) adds to the conversation on screen.
SentEntry(s) == [sender |-> "me", peer |-> sending[s].to, text |-> sending[s].text, ts |-> 0]

LEMMA RecordTyped ==
    ASSUME Sound, NEW s \in Sends, RecordSent(s)
    PROVE  /\ active \in 1 .. Len(messages) /\ active \in 1 .. Len(contacts)
           /\ sending[s] \in [text : Texts, to : Peers]
           /\ SentEntry(s) \in Entry
           /\ messages' = [messages EXCEPT ![active] = Append(messages[active], SentEntry(s))]
           /\ messages' \in Seq(Seq(Entry)) /\ Len(messages') = Len(messages)
<1>0. messages \in Seq(Seq(Entry)) /\ Len(messages) = Len(contacts) /\ SendSound(s)
  BY DEF Sound, PageTyped, FlowOk, FlowInv
<1>1. req[s] # Idle
  BY IdleFields DEF RecordSent
<1>2. /\ active \in 1 .. Len(messages) /\ active \in 1 .. Len(contacts)
      /\ sending[s] \in [text : Texts, to : Peers]
  BY <1>0, <1>1 DEF SendSound
<1>3. SentEntry(s) \in Entry
  BY <1>2 DEF SentEntry, Entry
<1>4. messages' = [messages EXCEPT ![active] = Append(messages[active], SentEntry(s))]
  BY DEF RecordSent, SentEntry
<1>5. Append(messages[active], SentEntry(s)) \in Seq(Entry)
  <2>1. messages[active] \in Seq(Entry)
    BY <1>0, <1>2
  <2> QED BY <1>3, <2>1
<1>6. messages' \in Seq(Seq(Entry)) /\ Len(messages') = Len(messages)
  BY <1>0, <1>2, <1>4, <1>5
<1> QED BY <1>2, <1>3, <1>4, <1>6

LEMMA SendsSound ==
    ASSUME Sound, NEW s \in Sends, SendMessage(s) \/ RecordSent(s) \/ SendFailed(s)
    PROVE  Sound'
<1>0. ApiTypeOK /\ PageTyped /\ HistTyped /\ FlowOk /\ SendingTyped /\ AnswerTyped
  BY DEF Sound
<1>a. s \in Flows
  BY FlowNames
<1>1. CASE SendMessage(s)
  <2>1. PICK to \in Peers : to = contacts[active] /\ active \in 1 .. Len(contacts)
    BY <1>0, <1>1 DEF SendMessage, PageTyped
  <2>2. draft \in Texts
    BY <1>0, <1>1 DEF SendMessage, PageTyped
  <2>3. pressed' = [pressed EXCEPT ![<<draft, to>>] = @ + 1]
        /\ sending' = [sending EXCEPT ![s] = [text |-> draft, to |-> to]]
    BY <1>1, <2>1 DEF SendMessage
  <2>4. /\ sending' \in [Sends -> [text : Texts, to : Peers] \cup {NoSend}]
        /\ sending'[s] = [text |-> draft, to |-> to]
        /\ \A u \in Sends \ {s} : sending'[u] = sending[u]
    BY <1>0, <2>2, <2>3 DEF SendingTyped
  <2>5. <<draft, to>> \in Texts \X Peers
    BY <2>2
  <2>6. pressed' \in [Texts \X Peers -> Nat]
    BY <1>0, <2>3, <2>5 DEF HistTyped
  <2>7. quota' \in [{"posts", "sends", "adds", "faults"} -> Nat]
    BY <1>0, <1>1, SpendTyped DEF SendMessage, HistTyped
  <2>8. HistTyped'
    BY <1>0, <1>1, <2>6, <2>7 DEF SendMessage, HistTyped
  <2>9. /\ sending'[s] \in [text : Texts, to : Peers]
        /\ contacts[active] = sending'[s].to
    BY <2>1, <2>2, <2>4
  <2>10. Fetch(s, "message", node, 1) /\ node \in Nodes /\ UNCHANGED <<contacts, active, switched>>
    BY <1>0, <1>1 DEF SendMessage, PageTyped, pageVars
  <2>11. FlowOk'
    BY <1>0, <1>a, <2>1, <2>4, <2>9, <2>10, FetchFlow DEF RequestPaths
  <2> QED BY <1>0, <1>1, <2>4, <2>8, <2>11, ApiSame, PageSame
          DEF SendMessage, Sound, SendingTyped, AnswerTyped
<1>2. ASSUME SendOver(s), UNCHANGED <<contacts, active, switched>>
      PROVE  FlowOk' /\ SendingTyped'
  <2>1. /\ sending' \in [Sends -> [text : Texts, to : Peers] \cup {NoSend}]
        /\ sending'[s] = NoSend
        /\ \A u \in Sends \ {s} : sending'[u] = sending[u]
    BY <1>0, <1>2 DEF SendOver, SendingTyped
  <2>2. FlowOk'
    BY <1>0, <1>a, <1>2, <2>1, IdleFlow DEF SendOver
  <2> QED BY <2>1, <2>2 DEF SendingTyped
<1>3. CASE RecordSent(s)
  <2>1. FlowOk' /\ SendingTyped'
    BY <1>2, <1>3 DEF RecordSent, histVars
  <2>2. PageTyped'
    BY <1>0, <1>3, RecordTyped DEF RecordSent, PageTyped
  <2> QED BY <1>0, <1>3, <2>1, <2>2, ApiSame, HistSame DEF RecordSent, Sound, AnswerTyped
<1>4. CASE SendFailed(s)
  <2>1. FlowOk' /\ SendingTyped'
    BY <1>2, <1>4 DEF SendFailed, histVars, pageVars
  <2> QED BY <1>0, <1>4, <2>1, ApiSame, HistSame, PageSame DEF SendFailed, Sound, AnswerTyped
<1> QED BY <1>1, <1>3, <1>4

LEMMA AddTyped ==
    ASSUME PageTyped, NEW p \in Peers, AddContact(p)
    PROVE  /\ contacts' \in Seq(Peers) /\ MoreContacts
           /\ messages' \in Seq(Seq(Entry)) /\ Len(messages') = Len(contacts')
           /\ Len(messages') = Len(messages) + 1
           /\ \A c \in 1 .. Len(messages) : messages'[c] = messages[c]
           /\ messages'[Len(messages) + 1] = << >>
<1>1. contacts \in Seq(Peers) /\ messages \in Seq(Seq(Entry)) /\ << >> \in Seq(Entry)
      /\ Len(messages) = Len(contacts)
  BY DEF PageTyped
<1>2. contacts' = Append(contacts, p) /\ messages' = Append(messages, << >>)
  BY DEF AddContact
<1>3. contacts' \in Seq(Peers) /\ Len(contacts') = Len(contacts) + 1
      /\ \A i \in 1 .. Len(contacts) : contacts'[i] = contacts[i]
  BY <1>1, <1>2
<1>4. messages' \in Seq(Seq(Entry)) /\ Len(messages') = Len(messages) + 1
      /\ (\A c \in 1 .. Len(messages) : messages'[c] = messages[c])
      /\ messages'[Len(messages) + 1] = << >>
  BY <1>1, <1>2
<1>5. Len(contacts) \in Nat
  BY <1>1
<1> QED BY <1>1, <1>3, <1>4, <1>5 DEF MoreContacts

LEMMA UserSound ==
    ASSUME Sound,
           \/ Reload
           \/ \E p \in Peers : AddContact(p)
           \/ \E c \in 1 .. Len(contacts) : SelectContact(c)
           \/ \E t \in Texts : TypeDraft(t)
    PROVE  Sound'
<1>0. ApiTypeOK /\ PageTyped /\ HistTyped /\ FlowOk /\ SendingTyped /\ AnswerTyped
  BY DEF Sound
<1>1. CASE Reload
  <2>1. Fault
    BY <1>1 DEF Reload
  <2>2. HistTyped'
    BY <1>0, <1>1, <2>1, FaultTyped DEF Reload, HistTyped
  <2>3. Boot \in Nodes /\ << >> \in Seq(Letter)
    BY ClientAssumption DEF ClientAssumption
  <2>4. active' \in 0 .. Len(contacts')
    BY <1>0, <1>1 DEF Reload, PageTyped
  <2>5. page' \in {"terms", "loading", "connecting", "ready"}
    BY <1>1 DEF Reload
  <2>6. termsAccepted' \in BOOLEAN /\ isPolling' \in BOOLEAN
    BY <1>1 DEF Reload
  <2>7. PageTyped'
    BY <1>0, <1>1, <2>3, <2>4, <2>5, <2>6 DEF Reload, PageTyped
  <2>8. ApiTypeOK' /\ AnswerTyped'
    BY <1>0, <1>1, <2>3 DEF Reload, ApiTypeOK, AnswerTyped
  <2>9. SendingTyped'
    BY <1>1 DEF Reload, SendingTyped
  <2>10. FlowOk'
    BY <1>1, FlowNames, IdleFields DEF Reload, FlowOk, FlowInv, SendSound
  <2> QED BY <2>2, <2>7, <2>8, <2>9, <2>10 DEF Sound
<1>2. ASSUME NEW p \in Peers, AddContact(p) PROVE Sound'
  <2>1. /\ contacts' \in Seq(Peers) /\ MoreContacts
        /\ messages' \in Seq(Seq(Entry)) /\ Len(messages') = Len(contacts')
    BY <1>0, <1>2, AddTyped
  <2>2. active' \in 0 .. Len(contacts')
    <3>1. Len(contacts) \in Nat /\ Len(contacts') \in Nat /\ active \in 0 .. Len(contacts)
      BY <1>0, <2>1 DEF PageTyped
    <3> QED BY <1>2, <2>1, <3>1 DEF AddContact, MoreContacts
  <2>3. PageTyped'
    BY <1>0, <1>2, <2>1, <2>2 DEF AddContact, PageTyped
  <2>4. quota' \in [{"posts", "sends", "adds", "faults"} -> Nat]
    BY <1>0, <1>2, SpendTyped DEF AddContact, HistTyped
  <2>5. HistTyped'
    BY <1>0, <1>2, <2>4 DEF AddContact, HistTyped
  <2>6. FlowOk'
    BY <1>0, <1>2, <2>1, FlowKept DEF AddContact, FlowOk, PageTyped, flowVars
  <2> QED BY <1>0, <1>2, <2>3, <2>5, <2>6, ApiSame
          DEF AddContact, Sound, SendingTyped, AnswerTyped, flowVars
<1>3. ASSUME NEW c \in 1 .. Len(contacts), SelectContact(c) PROVE Sound'
  <2>1. PageTyped'
    <3>1. active' \in 0 .. Len(contacts')
      BY <1>0, <1>3 DEF SelectContact, PageTyped
    <3> QED BY <1>0, <1>3, <3>1 DEF SelectContact, PageTyped
  <2>2. switched' = (switched \/ \E s \in Sends : req[s] # Idle)
    BY <1>3 DEF SelectContact
  <2>3. switched' \in BOOLEAN
    BY <2>2
  <2>4. HistTyped'
    BY <1>0, <1>3, <2>3 DEF SelectContact, HistTyped
  <2>5. ASSUME NEW s \in Sends PROVE SendSound(s)'
    <3>1. SendSound(s) /\ UNCHANGED <<req, sending, contacts>> /\ active' = c
      BY <1>0, <1>3 DEF FlowOk, FlowInv, SelectContact, flowVars
    <3>2. CASE req[s] = Idle
      BY <3>1, <3>2, IdleFields DEF SendSound
    <3>3. CASE req[s] # Idle
      <4>1. switched'
        BY <2>2, <3>3
      <4> QED BY <3>1, <3>3, <4>1 DEF SendSound
    <3> QED BY <3>2, <3>3
  <2>6. FlowOk'
    BY <1>0, <1>3, <2>5 DEF SelectContact, FlowOk, FlowInv, flowVars
  <2> QED BY <1>0, <1>3, <2>1, <2>4, <2>6, ApiSame
          DEF SelectContact, Sound, SendingTyped, AnswerTyped, flowVars
<1>4. ASSUME NEW t \in Texts, TypeDraft(t) PROVE Sound'
  <2>1. PageTyped'
    BY <1>0, <1>4 DEF TypeDraft, PageTyped
  <2>2. FlowOk'
    BY <1>0, <1>4, FlowKept, SameContacts DEF TypeDraft, FlowOk, PageTyped, flowVars, histVars
  <2> QED BY <1>0, <1>4, <2>1, <2>2, ApiSame, HistSame
          DEF TypeDraft, Sound, SendingTyped, AnswerTyped, flowVars
<1> QED BY <1>1, <1>2, <1>3, <1>4

LEMMA WorldSound ==
    ASSUME Sound, Network \/ Others
    PROVE  Sound'
<1>0. ApiTypeOK /\ PageTyped /\ HistTyped /\ FlowOk /\ SendingTyped /\ AnswerTyped
  BY DEF Sound
<1>1. ASSUME NEW f \in Flows, Fail(f) PROVE Sound'
  <2>1. req[f] \in Request
    BY <1>0, <1>1, IdleFields DEF Fail, FlowOk
  <2>2. FlowOk'
    BY <1>0, <1>1, <2>1, MarkFlow DEF Fail, pageVars
  <2>3. HistTyped'
    BY <1>0, <1>1, FaultTyped DEF Fail, HistTyped
  <2>4. << >> \in Seq(Letter)
    OBVIOUS
  <2>5. ApiTypeOK' /\ AnswerTyped'
    BY <1>0, <1>1, <2>4 DEF Fail, ApiTypeOK, AnswerTyped
  <2> QED BY <1>0, <1>1, <2>2, <2>3, <2>5, PageSame DEF Fail, Sound, SendingTyped
<1>2. ASSUME NEW n \in Nodes, ChallengeLost(n) PROVE Sound'
  <2>1. FlowOk'
    BY <1>0, <1>2, FlowKept, SameContacts DEF ChallengeLost, FlowOk, PageTyped, flowVars, pageVars
  <2>2. HistTyped'
    BY <1>0, <1>2, FaultTyped DEF ChallengeLost, HistTyped
  <2>3. ApiTypeOK'
    BY <1>0, <1>2 DEF ChallengeLost, ForgetChallenge, GetOtherChallenge, ApiTypeOK
  <2> QED BY <1>0, <1>2, <2>1, <2>2, <2>3, PageSame
          DEF ChallengeLost, Sound, SendingTyped, AnswerTyped, flowVars
<1>3. CASE Others
  <2>1. FlowOk'
    BY <1>0, <1>3, FlowKept, SameContacts DEF Others, FlowOk, PageTyped, flowVars, pageVars
  <2>2. quota' \in [{"posts", "sends", "adds", "faults"} -> Nat]
    BY <1>0, <1>3, SpendTyped DEF Others, HistTyped
  <2>3. HistTyped'
    BY <1>0, <1>3, <2>2 DEF Others, HistTyped
  <2>4. PICK p \in Peers : PeerPosts(p) \/ PeerRetries(p)
    BY <1>3 DEF Others
  <2>5. mailbox \in Seq(Letter) /\ Len(mailbox) \in Nat
    BY <1>0 DEF ApiTypeOK
  <2>6. \E l \in Letter : mailbox' = Append(mailbox, l)
    <3>1. CASE PeerPosts(p)
      <4>1. PICK sealed \in BOOLEAN, ts \in 0 .. MaxClock :
               mailbox' = Append(mailbox, [from |-> p, text |-> Len(mailbox) + 1,
                                           sealed |-> sealed, ts |-> ts])
        BY <3>1 DEF PeerPosts
      <4>2. [from |-> p, text |-> Len(mailbox) + 1, sealed |-> sealed, ts |-> ts] \in Letter
        BY <2>5 DEF Letter
      <4> QED BY <4>1, <4>2
    <3>2. CASE PeerRetries(p)
      <4>1. PICK i \in 1 .. Len(mailbox), ts \in 0 .. MaxClock :
               mailbox' = Append(mailbox, [mailbox[i] EXCEPT !.ts = ts])
        BY <3>2 DEF PeerRetries
      <4>2. mailbox[i] \in Letter
        BY <2>5
      <4>3. [mailbox[i] EXCEPT !.ts = ts] \in Letter
        BY <4>2 DEF Letter
      <4> QED BY <4>1, <4>3
    <3> QED BY <2>4, <3>1, <3>2
  <2>7. ApiTypeOK'
    BY <1>0, <2>4, <2>5, <2>6 DEF ApiTypeOK, PeerPosts, PeerRetries
  <2> QED BY <1>0, <1>3, <2>1, <2>3, <2>7, PageSame
          DEF Others, Sound, SendingTyped, AnswerTyped, flowVars
<1> QED BY <1>1, <1>2, <1>3 DEF Network

LEMMA NextSound == Sound /\ [Next]_vars => Sound'
<1> SUFFICES ASSUME Sound, [Next]_vars PROVE Sound'
  OBVIOUS
<1>1. CASE InitFlow
  BY <1>1, StartSound, RequestingSound, FlowNames DEF InitFlow
<1>2. CASE PollFlow
  BY <1>2, PollSound, RequestingSound, FlowNames DEF PollFlow
<1>3. ASSUME NEW s \in Sends, SendFlow(s) PROVE Sound'
  BY <1>3, SendsSound, RequestingSound, FlowNames DEF SendFlow
<1>4. CASE User
  BY <1>4, StartSound, SendsSound, UserSound DEF User
<1>5. CASE Network \/ Others
  BY <1>5, WorldSound
<1>6. CASE UNCHANGED vars
  <2>1. FlowOk'
    BY <1>6, FlowKept, SameContacts DEF vars, Sound, FlowOk, PageTyped, flowVars, pageVars, histVars
  <2>2. ApiTypeOK' /\ PageTyped' /\ HistTyped'
    BY <1>6, ApiSame, PageSame, HistSame DEF vars, Sound
  <2> QED BY <1>6, <2>1, <2>2 DEF vars, Sound, SendingTyped, AnswerTyped, flowVars
<1> QED BY <1>1, <1>2, <1>3, <1>4, <1>5, <1>6 DEF Next

\* Whatever is lost, retried or reloaded, the page stays in a state its code
\* can handle: a retry is never repeated, a conversation belongs to a contact,
\* and the active contact exists.
THEOREM TypeCorrect == Spec => []TypeOK
<1>1. Sound => TypeOK
  BY SoundIsTyped
<1> QED
  BY <1>1, InitSound, NextSound, PTL DEF Spec

-----------------------------------------------------------------------------
(* Where messages are filed, and that each is shown once.                  *)

\* Every step but three leaves the conversations alone.
LEMMA PageEffects ==
    ASSUME Sound, [Next]_vars
    PROVE  /\ switched => switched'
           /\ \/ UNCHANGED <<contacts, messages>>
              \/ ShowAnswer
              \/ \E p \in Peers : AddContact(p)
              \/ \E s \in Sends : RecordSent(s)
<1>1. ASSUME NEW f \in Flows, Requesting(f)
      PROVE  UNCHANGED <<contacts, messages, switched>>
  BY <1>1 DEF Requesting, Serve, ServeConnect, ServeChallenge, ServePoll, ServeMessage,
              Retry, FetchNewNode, pageVars, histVars
<1>2. CASE InitFlow
  BY <1>1, <1>2, FlowNames DEF InitFlow, InitWasm, LoadNodeUrl, StartPolling, histVars
<1>3. CASE PollFlow
  BY <1>1, <1>3, FlowNames
  DEF PollFlow, PollMessages, SignChallenge, ShowAnswer, PollFailed, pageVars, histVars
<1>4. ASSUME NEW s \in Sends, SendFlow(s)
      PROVE  (switched => switched') /\ (UNCHANGED <<contacts, messages>> \/ RecordSent(s))
  BY <1>1, <1>4, FlowNames DEF SendFlow, RecordSent, SendFailed, pageVars, histVars
<1>5. CASE User
  <2>1. ASSUME NEW c \in 1 .. Len(contacts), SelectContact(c)
        PROVE  (switched => switched') /\ UNCHANGED <<contacts, messages>>
    <3>1. switched' = (switched \/ \E s \in Sends : req[s] # Idle)
      BY <2>1 DEF SelectContact
    <3> QED BY <2>1, <3>1 DEF SelectContact
  <2>2. ASSUME NEW p \in Peers, AddContact(p) PROVE switched' = switched
    BY <2>2 DEF AddContact
  <2>3. ASSUME \/ TickTerms \/ AttemptCloseTermsModal \/ Reload
               \/ \E s \in Sends : SendMessage(s)
               \/ \E t \in Texts : TypeDraft(t)
        PROVE  UNCHANGED <<contacts, messages, switched>>
    BY <2>3 DEF TickTerms, AttemptCloseTermsModal, Reload, SendMessage, TypeDraft,
                pageVars, histVars
  <2> QED BY <1>5, <2>1, <2>2, <2>3 DEF User
<1>6. CASE Network \/ Others
  BY <1>6 DEF Network, Others, Fail, ChallengeLost, pageVars
<1>7. CASE UNCHANGED vars
  BY <1>7 DEF vars, pageVars, histVars
<1> QED BY <1>2, <1>3, <1>4, <1>5, <1>6, <1>7 DEF Next

\* Entry e may be in the conversation of contact c: a received message is under
\* the first contact with its sender's key, a sent one under its recipient,
\* unless another contact was selected in the meantime.
FiledAt(c, e) ==
    /\ e.sender = "them" => FindContact(contacts, e.peer) = c
    /\ e.sender = "me" /\ ~switched => contacts[c] = e.peer

SameLetter(d, e) ==
    d.sender = "them" /\ e.sender = "them" /\ d.peer = e.peer /\ d.ts = e.ts

\* Every entry is where it belongs, and none is there twice.
ConversationOk(c) ==
    /\ \A k \in 1 .. Len(messages[c]) : FiledAt(c, messages[c][k])
    /\ \A j, k \in 1 .. Len(messages[c]) :
          SameLetter(messages[c][j], messages[c][k]) => j = k

ShownInv == \A c \in 1 .. Len(messages) : ConversationOk(c)

LEMMA FiledKept ==
    ASSUME NEW c \in 1 .. Len(contacts), NEW e, FiledAt(c, e), contacts \in Seq(Peers),
           contacts' \in Seq(Peers), MoreContacts, switched => switched'
    PROVE  FiledAt(c, e)'
<1>1. ASSUME e.sender = "them" PROVE FindContact(contacts', e.peer) = c
  <2>1. FindContact(contacts, e.peer) = c /\ c # 0
    BY <1>1 DEF FiledAt
  <2> QED BY <2>1, FindKept DEF MoreContacts
<1>2. ASSUME e.sender = "me", ~switched' PROVE contacts'[c] = e.peer
  BY <1>2 DEF FiledAt, MoreContacts
<1> QED BY <1>1, <1>2 DEF FiledAt

\* A conversation that no message is added to.
LEMMA ConversationKept ==
    ASSUME NEW c \in 1 .. Len(contacts), ConversationOk(c), messages'[c] = messages[c],
           contacts \in Seq(Peers), contacts' \in Seq(Peers), MoreContacts, switched => switched'
    PROVE  ConversationOk(c)'
<1>1. \A k \in 1 .. Len(messages[c]) : FiledAt(c, messages[c][k])'
  <2> SUFFICES ASSUME NEW k \in 1 .. Len(messages[c]) PROVE FiledAt(c, messages[c][k])'
    OBVIOUS
  <2>1. PICK e : e = messages[c][k]
    OBVIOUS
  <2>2. messages'[c][k] = e /\ FiledAt(c, e)
    BY <2>1 DEF ConversationOk
  <2>3. FiledAt(c, e)'
    BY <2>2, FiledKept
  <2> QED BY <2>2, <2>3 DEF FiledAt
<1> QED BY <1>1 DEF ConversationOk, SameLetter, FiledAt

\* Two messages of one answer with the same sender and second are not both
\* pushed, and none is pushed that the conversation already shows.
LEMMA PushedOnce ==
    ASSUME NEW list, NEW c, NEW i \in Pushed(list, c), answer \in Seq(Letter)
    PROVE  /\ \A j \in Pushed(list, c) :
                 answer[j].from = answer[i].from /\ answer[j].ts = answer[i].ts => j = i
           /\ FindContact(list, answer[i].from) = c
           /\ LET o == FindContact(contacts, answer[i].from) IN
                 o # 0 => ~\E k \in 1 .. Len(messages[o]) :
                              /\ messages[o][k].sender = "them"
                              /\ messages[o][k].ts = answer[i].ts
<1>1. /\ i \in 1 .. Len(answer) /\ Len(answer) \in Nat
      /\ HasContact(i) /\ ~MessageExists(i) /\ FindContact(list, answer[i].from) = c
  BY DEF Pushed
<1>2. ASSUME NEW j \in Pushed(list, c), answer[j].from = answer[i].from, answer[j].ts = answer[i].ts
      PROVE  j = i
  <2>1. j \in 1 .. Len(answer) /\ HasContact(j) /\ ~MessageExists(j)
    BY DEF Pushed
  <2>2. ~(j \in 1 .. i - 1)
    BY <1>1, <1>2, <2>1 DEF MessageExists
  <2>3. ~(i \in 1 .. j - 1)
    BY <1>1, <1>2, <2>1 DEF MessageExists
  <2> QED BY <1>1, <2>1, <2>2, <2>3
<1>3. LET o == FindContact(contacts, answer[i].from) IN
         o # 0 => ~\E k \in 1 .. Len(messages[o]) :
                      /\ messages[o][k].sender = "them"
                      /\ messages[o][k].ts = answer[i].ts
  BY <1>1 DEF MessageExists
<1> QED BY <1>1, <1>2, <1>3

\* What is at place k of conversation c after the answer was shown.
LEMMA ShownEntries ==
    ASSUME PageTyped, AnswerTyped, ShowAnswer, NEW c \in 1 .. Len(messages')
    PROVE  \E n, m \in Nat : \E pos \in [1 .. m -> Pushed(contacts', c)] :
              /\ c <= Len(messages) => n = Len(messages[c])
              /\ c > Len(messages) => n = 0
              /\ Len(messages'[c]) = n + m
              /\ \A k \in 1 .. n : messages'[c][k] = messages[c][k]
              /\ \A k \in 1 .. m :
                    /\ messages'[c][n + k].sender = "them"
                    /\ messages'[c][n + k].peer = answer[pos[k]].from
                    /\ messages'[c][n + k].ts = answer[pos[k]].ts
              /\ \A j, k \in 1 .. m : pos[j] = pos[k] => j = k
<1>0. answer \in Seq(Letter) /\ messages \in Seq(Seq(Entry))
  BY DEF AnswerTyped, PageTyped
<1>1. /\ Before(c) \in Seq(Entry)
      /\ messages'[c] = Before(c) \o NewMessages(contacts', c)
  BY <1>0, ShowMessages
<1>2. PICK list : list = contacts'
  OBVIOUS
<1>3. PICK new, pos : /\ new \in Seq(Entry) /\ new = NewMessages(list, c)
                      /\ MadeFrom(new, pos, Pushed(list, c))
  BY <1>0, NewMessagesAre
<1>3a. /\ pos \in [1 .. Len(new) -> Pushed(list, c)]
       /\ \A k \in 1 .. Len(new) :
             /\ new[k].sender = "them"
             /\ new[k].peer = answer[pos[k]].from
             /\ new[k].ts = answer[pos[k]].ts
             /\ \A j \in 1 .. Len(new) : pos[j] = pos[k] => j = k
  BY <1>3 DEF MadeFrom
<1>4. PICK old \in Seq(Entry) : old = Before(c)
  BY <1>1
<1>5. PICK n \in Nat, m \in Nat : n = Len(old) /\ m = Len(new)
  BY <1>3, <1>4
<1>6. c \in Nat /\ Len(messages) \in Nat
  BY <1>0, ShowMessages
<1>7. /\ c <= Len(messages) => old = messages[c]
      /\ c > Len(messages) => old = << >>
  BY <1>4, <1>6 DEF Before
<1>8. /\ c <= Len(messages) => n = Len(messages[c])
      /\ c > Len(messages) => n = 0
  BY <1>5, <1>7
<1>9. messages'[c] = old \o new
  BY <1>1, <1>2, <1>3, <1>4
<1>10. /\ Len(messages'[c]) = n + m
       /\ \A k \in 1 .. n : messages'[c][k] = old[k]
       /\ \A k \in 1 .. m : messages'[c][n + k] = new[k]
  BY <1>4, <1>5, <1>9
<1>11. \A k \in 1 .. n : messages'[c][k] = messages[c][k]
  BY <1>6, <1>7, <1>8, <1>10
<1>12. \A k \in 1 .. m :
          /\ messages'[c][n + k].sender = "them"
          /\ messages'[c][n + k].peer = answer[pos[k]].from
          /\ messages'[c][n + k].ts = answer[pos[k]].ts
  BY <1>3a, <1>5, <1>10
<1>13. pos \in [1 .. m -> Pushed(contacts', c)] /\ \A j, k \in 1 .. m : pos[j] = pos[k] => j = k
  BY <1>2, <1>3a, <1>5
<1> QED BY <1>8, <1>10, <1>11, <1>12, <1>13

LEMMA ShowKeepsInv ==
    ASSUME Sound, ShownInv, ShowAnswer
    PROVE  ShownInv'
<1>0. PageTyped /\ AnswerTyped /\ switched' = switched /\ answer \in Seq(Letter)
  BY DEF Sound, ShowAnswer, AnswerTyped
<1>1. /\ contacts \in Seq(Peers) /\ messages \in Seq(Seq(Entry)) /\ Len(messages) = Len(contacts)
      /\ Len(contacts) \in Nat
  BY <1>0 DEF PageTyped
<1>2. contacts' \in Seq(Peers) /\ MoreContacts /\ Len(contacts') \in Nat /\ Len(messages') = Len(contacts')
  BY <1>0, <1>1, ShowContacts, ShowMessages
<1> SUFFICES ASSUME NEW c \in 1 .. Len(messages') PROVE ConversationOk(c)'
  BY DEF ShownInv
<1>3. PICK list : list = contacts'
  OBVIOUS
<1>4. PICK n, m \in Nat : \E pos \in [1 .. m -> Pushed(contacts', c)] :
         /\ c <= Len(messages) => n = Len(messages[c])
         /\ c > Len(messages) => n = 0
         /\ Len(messages'[c]) = n + m
         /\ \A k \in 1 .. n : messages'[c][k] = messages[c][k]
         /\ \A k \in 1 .. m :
               /\ messages'[c][n + k].sender = "them"
               /\ messages'[c][n + k].peer = answer[pos[k]].from
               /\ messages'[c][n + k].ts = answer[pos[k]].ts
         /\ \A j, k \in 1 .. m : pos[j] = pos[k] => j = k
  BY <1>0, ShownEntries
<1>5. PICK pos \in [1 .. m -> Pushed(list, c)] :
         /\ c <= Len(messages) => n = Len(messages[c])
         /\ c > Len(messages) => n = 0
         /\ Len(messages'[c]) = n + m
         /\ \A k \in 1 .. n : messages'[c][k] = messages[c][k]
         /\ \A k \in 1 .. m :
               /\ messages'[c][n + k].sender = "them"
               /\ messages'[c][n + k].peer = answer[pos[k]].from
               /\ messages'[c][n + k].ts = answer[pos[k]].ts
         /\ \A j, k \in 1 .. m : pos[j] = pos[k] => j = k
  BY <1>3, <1>4
<1>6. ASSUME NEW k \in 1 .. n
      PROVE  c \in 1 .. Len(contacts) /\ ConversationOk(c) /\ k \in 1 .. Len(messages[c])
  BY <1>1, <1>2, <1>5 DEF ShownInv
<1>7. ASSUME NEW k \in 1 .. m
      PROVE  /\ FindContact(list, answer[pos[k]].from) = c
             /\ \A i \in 1 .. n : messages[c][i].sender = "them" =>
                   ~(/\ messages[c][i].peer = answer[pos[k]].from
                     /\ messages[c][i].ts = answer[pos[k]].ts)
             /\ \A j \in 1 .. m : answer[pos[j]].from = answer[pos[k]].from
                                  /\ answer[pos[j]].ts = answer[pos[k]].ts => j = k
  <2>1. PICK i \in Pushed(list, c) : i = pos[k]
    OBVIOUS
  <2>2. /\ \A j \in Pushed(list, c) :
              answer[j].from = answer[i].from /\ answer[j].ts = answer[i].ts => j = i
        /\ FindContact(list, answer[i].from) = c
    BY <1>0, PushedOnce
  <2>3. ASSUME NEW h \in 1 .. n, messages[c][h].sender = "them",
               messages[c][h].peer = answer[i].from, messages[c][h].ts = answer[i].ts
        PROVE  FALSE
    <3>1. /\ c \in 1 .. Len(contacts) /\ h \in 1 .. Len(messages[c])
          /\ FiledAt(c, messages[c][h])
      BY <1>6 DEF ConversationOk
    <3>2. FindContact(contacts, answer[i].from) = c /\ c # 0
      BY <2>3, <3>1 DEF FiledAt
    <3> QED BY <1>0, <2>3, <3>1, <3>2, PushedOnce
  <2>4. ASSUME NEW j \in 1 .. m, answer[pos[j]].from = answer[pos[k]].from,
               answer[pos[j]].ts = answer[pos[k]].ts
        PROVE  j = k
    <3>1. pos[j] \in Pushed(list, c)
      OBVIOUS
    <3>2. pos[j] = pos[k]
      BY <2>1, <2>2, <2>4, <3>1
    <3> QED BY <1>5, <3>2
  <2> QED BY <2>1, <2>2, <2>3, <2>4
<1>8. ASSUME NEW k \in 1 .. n + m
      PROVE  (k \in 1 .. n) \/ \E h \in 1 .. m : k = n + h
  <2>1. k \in 1 .. n \/ (k - n \in 1 .. m /\ k = n + (k - n))
    OBVIOUS
  <2> QED BY <2>1
<1>9. ASSUME NEW k \in 1 .. n + m PROVE FiledAt(c, messages[c][k])'
  <2>0. PICK e : e = messages'[c][k]
    OBVIOUS
  <2>1. CASE k \in 1 .. n
    <3>1. c \in 1 .. Len(contacts) /\ FiledAt(c, e)
      BY <1>5, <1>6, <2>0, <2>1 DEF ConversationOk
    <3>2. FiledAt(c, e)'
      BY <1>0, <1>1, <1>2, <3>1, FiledKept
    <3> QED BY <2>0, <3>2 DEF FiledAt
  <2>2. ASSUME NEW h \in 1 .. m, k = n + h PROVE FiledAt(c, messages[c][k])'
    <3>1. e.sender = "them" /\ e.peer = answer[pos[h]].from
      BY <1>5, <2>0, <2>2
    <3>2. FindContact(contacts', e.peer) = c
      BY <1>3, <1>7, <3>1
    <3> QED BY <2>0, <3>1, <3>2 DEF FiledAt
  <2> QED BY <1>8, <2>1, <2>2
<1>10. ASSUME NEW j \in 1 .. n + m, NEW k \in 1 .. n + m,
              SameLetter(messages'[c][j], messages'[c][k])
       PROVE  j = k
  <2>1. CASE j \in 1 .. n /\ k \in 1 .. n
    <3>1. SameLetter(messages[c][j], messages[c][k])
      BY <1>5, <1>10, <2>1
    <3> QED BY <1>6, <2>1, <3>1 DEF ConversationOk
  <2>2. ASSUME NEW g \in 1 .. n, NEW h \in 1 .. m,
               SameLetter(messages'[c][g], messages'[c][n + h])
        PROVE  FALSE
    <3>1. messages'[c][g] = messages[c][g] /\ SameLetter(messages[c][g], messages'[c][n + h])
      BY <1>5, <2>2
    <3>2. /\ messages[c][g].sender = "them" /\ messages[c][g].peer = messages'[c][n + h].peer
          /\ messages[c][g].ts = messages'[c][n + h].ts
      BY <3>1 DEF SameLetter
    <3>3. /\ messages'[c][n + h].peer = answer[pos[h]].from
          /\ messages'[c][n + h].ts = answer[pos[h]].ts
      BY <1>5
    <3>4. messages[c][g].sender = "them" => ~(/\ messages[c][g].peer = answer[pos[h]].from
                                              /\ messages[c][g].ts = answer[pos[h]].ts)
      BY <1>7
    <3> QED BY <3>2, <3>3, <3>4
  <2>3. \A d, e : SameLetter(d, e) => SameLetter(e, d)
    BY DEF SameLetter
  <2>4. ASSUME NEW g \in 1 .. m, NEW h \in 1 .. m, j = n + g, k = n + h PROVE g = h
    BY <1>5, <1>7, <1>10, <2>4 DEF SameLetter
  <2> QED BY <1>8, <1>10, <2>1, <2>2, <2>3, <2>4
<1>11. Len(messages'[c]) = n + m
  BY <1>5
<1>12. \A k \in 1 .. Len(messages'[c]) : FiledAt(c, messages[c][k])'
  BY <1>9, <1>11 DEF FiledAt
<1> QED BY <1>10, <1>11, <1>12 DEF ConversationOk, SameLetter

LEMMA NextShown == Sound /\ ShownInv /\ [Next]_vars => ShownInv'
<1> SUFFICES ASSUME Sound, ShownInv, [Next]_vars PROVE ShownInv'
  OBVIOUS
<1>0. PageTyped /\ contacts \in Seq(Peers) /\ messages \in Seq(Seq(Entry))
      /\ Len(messages) = Len(contacts) /\ Len(contacts) \in Nat
  BY DEF Sound, PageTyped
<1>1. switched => switched'
  BY PageEffects
<1>2. CASE UNCHANGED <<contacts, messages>>
  BY <1>0, <1>1, <1>2, ConversationKept, SameContacts DEF ShownInv
<1>3. CASE ShowAnswer
  BY <1>3, ShowKeepsInv
<1>4. ASSUME NEW p \in Peers, AddContact(p) PROVE ShownInv'
  <2>1. /\ contacts' \in Seq(Peers) /\ MoreContacts
        /\ Len(messages') = Len(messages) + 1
        /\ \A c \in 1 .. Len(messages) : messages'[c] = messages[c]
        /\ messages'[Len(messages) + 1] = << >>
    BY <1>0, <1>4, AddTyped
  <2>2. ASSUME NEW c \in 1 .. Len(messages) PROVE ConversationOk(c)'
    BY <1>0, <1>1, <2>1, ConversationKept DEF ShownInv
  <2>3. ASSUME NEW c, c = Len(messages) + 1 PROVE ConversationOk(c)'
    BY <2>1, <2>3 DEF ConversationOk
  <2>4. \A c \in 1 .. Len(messages') : c \in 1 .. Len(messages) \/ c = Len(messages) + 1
    BY <1>0, <2>1
  <2> QED BY <2>2, <2>3, <2>4 DEF ShownInv
<1>5. ASSUME NEW s \in Sends, RecordSent(s) PROVE ShownInv'
  <2>1. /\ active \in 1 .. Len(messages) /\ SentEntry(s) \in Entry
        /\ messages' = [messages EXCEPT ![active] = Append(messages[active], SentEntry(s))]
        /\ Len(messages') = Len(messages)
    BY <1>5, RecordTyped
  <2>2. UNCHANGED <<contacts, switched>>
    BY <1>5 DEF RecordSent, histVars
  <2>3. PICK a, e : a = active /\ e = SentEntry(s)
    OBVIOUS
  <2>4. /\ a \in 1 .. Len(messages) /\ messages[a] \in Seq(Entry) /\ e \in Entry
        /\ messages'[a] = Append(messages[a], e)
        /\ \A c \in 1 .. Len(messages) : c # a => messages'[c] = messages[c]
    BY <1>0, <2>1, <2>3
  <2>5. e.sender = "me" /\ e.peer = sending[s].to
    BY <2>3 DEF SentEntry
  <2>6. ~switched => contacts[a] = e.peer
    <3>1. SendSound(s) /\ req[s] # Idle
      BY <1>5, IdleFields DEF Sound, FlowOk, FlowInv, RecordSent
    <3> QED BY <2>3, <2>5, <3>1 DEF SendSound
  <2>7. ConversationOk(a)'
    <3>1. PICK n \in Nat : n = Len(messages[a])
      BY <2>4
    <3>2. /\ Len(messages'[a]) = n + 1 /\ messages'[a][n + 1] = e
          /\ \A k \in 1 .. n : messages'[a][k] = messages[a][k]
      BY <2>4, <3>1
    <3>3. ConversationOk(a)
      BY <2>4 DEF ShownInv
    <3>4. ASSUME NEW k \in 1 .. n + 1 PROVE FiledAt(a, messages[a][k])'
      <4>1. CASE k \in 1 .. n
        <5>1. FiledAt(a, messages[a][k]) /\ messages'[a][k] = messages[a][k]
          BY <3>1, <3>2, <3>3, <4>1 DEF ConversationOk
        <5> QED BY <2>2, <5>1 DEF FiledAt
      <4>2. CASE k = n + 1
        <5>1. messages'[a][k] = e
          BY <3>2, <4>2
        <5> QED BY <2>2, <2>5, <2>6, <5>1 DEF FiledAt
      <4> QED BY <4>1, <4>2
    <3>5. ASSUME NEW j \in 1 .. n + 1, NEW k \in 1 .. n + 1,
                 SameLetter(messages[a][j], messages[a][k])'
          PROVE  j = k
      <4>1. SameLetter(messages'[a][j], messages'[a][k])
        BY <3>5 DEF SameLetter
      <4>2. j # n + 1 /\ k # n + 1
        BY <2>5, <3>2, <4>1 DEF SameLetter
      <4>3. j \in 1 .. n /\ k \in 1 .. n
        BY <4>2
      <4> QED BY <3>1, <3>2, <3>3, <4>1, <4>3 DEF ConversationOk
    <3> QED BY <3>2, <3>4, <3>5 DEF ConversationOk
  <2>8. ASSUME NEW c \in 1 .. Len(messages), c # a PROVE ConversationOk(c)'
    BY <1>0, <1>1, <2>2, <2>4, <2>8, ConversationKept, SameContacts DEF ShownInv
  <2> QED BY <2>1, <2>7, <2>8 DEF ShownInv
<1> QED BY <1>2, <1>3, <1>4, <1>5, PageEffects

LEMMA SpecShown == Spec => [](Sound /\ ShownInv)
<1>1. Init => ShownInv
  BY DEF Init, ShownInv
<1> QED BY <1>1, InitSound, NextSound, NextShown, PTL DEF Spec

LEMMA PlacesAre ==
    ASSUME NEW x
    PROVE  x \in Places <=>
              \E c \in 1 .. Len(messages) : \E k \in 1 .. Len(messages[c]) : x = <<c, k>>
BY DEF Places

\* Where what "from" sent in second ts is on display.
ShownAt(from, ts) == {x \in Places : LET e == EntryAt(x) IN
                                       e.sender = "them" /\ e.peer = from /\ e.ts = ts}

InOnePlace == \A from, ts : \A x, y \in ShownAt(from, ts) : x = y

LEMMA OnePlace == Sound /\ ShownInv => InOnePlace
<1> SUFFICES ASSUME Sound, ShownInv, NEW from, NEW ts,
                    NEW x \in ShownAt(from, ts), NEW y \in ShownAt(from, ts)
             PROVE  x = y
  BY DEF InOnePlace
<1>1. PICK c \in 1 .. Len(messages) : \E k \in 1 .. Len(messages[c]) : x = <<c, k>>
  BY PlacesAre DEF ShownAt
<1>2. PICK j \in 1 .. Len(messages[c]) : x = <<c, j>>
  BY <1>1
<1>3. PICK d \in 1 .. Len(messages) : \E k \in 1 .. Len(messages[d]) : y = <<d, k>>
  BY PlacesAre DEF ShownAt
<1>4. PICK k \in 1 .. Len(messages[d]) : y = <<d, k>>
  BY <1>3
<1>5. /\ messages[c][j].sender = "them" /\ messages[c][j].peer = from /\ messages[c][j].ts = ts
      /\ messages[d][k].sender = "them" /\ messages[d][k].peer = from /\ messages[d][k].ts = ts
  BY <1>2, <1>4 DEF ShownAt, EntryAt
<1>6. c = d
  BY <1>5 DEF ShownInv, ConversationOk, FiledAt
<1>7. j = k
  BY <1>5, <1>6 DEF ShownInv, ConversationOk, SameLetter
<1> QED BY <1>2, <1>4, <1>6, <1>7

\* However often a poll is answered with the same mailbox, whatever is lost,
\* retried or reloaded and however contacts are listed, what a sender sent in
\* one second is on display at most once.
THEOREM NeverTwice == Spec => []ShownOnce
<1>1. ASSUME Sound, ShownInv, NEW p \in Peers, NEW ts \in 0 .. MaxClock
      PROVE  TimesShown(p, ts) <= 1
  <2>1. PICK S : S = ShownAt(p, ts)
    OBVIOUS
  <2>2. TimesShown(p, ts) = Cardinality(S)
    BY <2>1 DEF TimesShown, ShownAt
  <2>3. CASE S = {}
    BY <2>2, <2>3, FS_EmptySet
  <2>4. CASE S # {}
    <3>1. PICK x : x \in S
      BY <2>4
    <3>2. S = {x}
      BY <1>1, <2>1, <3>1, OnePlace DEF InOnePlace
    <3> QED BY <2>2, <3>2, FS_Singleton
  <2> QED BY <2>3, <2>4
<1>2. Sound /\ ShownInv => ShownOnce
  BY <1>1 DEF ShownOnce
<1> QED BY <1>2, SpecShown, PTL

\* Own messages carry no sender and are opened with the key of the contact on
\* screen, received ones with the first contact that matches: as long as the
\* user does not select another contact during a send, every message on display
\* is opened with the key it was encrypted with.
THEOREM KeysMatch == Spec => []RightKey
<1>1. ASSUME Sound, ShownInv, ~switched, NEW x \in Places
      PROVE  contacts[DecryptContact(x[1], EntryAt(x))] = EntryAt(x).peer
  <2>1. PICK c \in 1 .. Len(messages) : \E k \in 1 .. Len(messages[c]) : x = <<c, k>>
    BY PlacesAre
  <2>2. PICK k \in 1 .. Len(messages[c]) : x = <<c, k>>
    BY <2>1
  <2>3. PICK e : e = EntryAt(x) /\ e = messages[c][k]
    BY <2>2 DEF EntryAt
  <2>4. /\ contacts \in Seq(Peers) /\ messages \in Seq(Seq(Entry)) /\ Len(messages) = Len(contacts)
    BY <1>1 DEF Sound, PageTyped
  <2>5. c \in 1 .. Len(contacts) /\ e \in Entry /\ Len(contacts) \in Nat
    BY <2>3, <2>4
  <2>6. contacts[c] = e.peer
    <3>1. FiledAt(c, e)
      BY <1>1, <2>3 DEF ShownInv, ConversationOk
    <3>2. CASE e.sender = "them"
      BY <2>4, <2>5, <3>1, <3>2, FindFirst DEF FiledAt
    <3>3. CASE e.sender = "me"
      BY <1>1, <3>1, <3>3 DEF FiledAt
    <3> QED BY <2>5, <3>2, <3>3 DEF Entry
  <2> DEFINE L == [h \in 1 .. Len(contacts) |-> <<h, contacts[h]>>]
             I == {h \in 1 .. Len(contacts) : h = c \/ (e.sender = "them" /\ contacts[h] = e.peer)}
  <2>7. Len(L) = Len(contacts)
    BY <2>5
  <2>8. DecryptContact(c, e) = IF I # {} THEN Min(I) ELSE 0
    <3>1. {h \in 1 .. Len(L) : L[h][1] = c \/ (e.sender = "them" /\ L[h][2] = e.peer)} = I
      BY <2>7
    <3>2. DecryptContact(c, e) =
            LET J == {h \in 1 .. Len(L) : L[h][1] = c \/ (e.sender = "them" /\ L[h][2] = e.peer)}
            IN  IF J # {} THEN Min(J) ELSE 0
      <4> HIDE DEF I
      <4> QED BY DEF DecryptContact, SelectInSeq
    <3> QED BY <3>1, <3>2
  <2>9. I \in SUBSET Nat /\ c \in I
    BY <2>5
  <2>10. \A h \in I : contacts[h] = e.peer
    BY <2>6
  <2> HIDE DEF I
  <2>11. Min(I) \in I
    BY <2>9, LeastPosition
  <2>12. contacts[DecryptContact(c, e)] = e.peer
    BY <2>8, <2>9, <2>10, <2>11
  <2> QED BY <2>2, <2>3, <2>12
<1>2. Sound /\ ShownInv => RightKey
  BY <1>1 DEF RightKey
<1> QED BY <1>2, SpecShown, PTL

-----------------------------------------------------------------------------
(* What a press of Enter comes to: copies at the nodes, records on the page. *)

\* Sets A and B that differ in s at most, and how many elements they have.
Moves(A, B, s) ==
    /\ Cardinality(A) \in Nat /\ Cardinality(B) \in Nat
    /\ (s \in A <=> s \in B) => Cardinality(B) = Cardinality(A)
    /\ s \notin A /\ s \in B => Cardinality(B) = Cardinality(A) + 1
    /\ s \in A /\ s \notin B => Cardinality(A) = Cardinality(B) + 1

LEMMA OneMember ==
    ASSUME NEW A, NEW B, NEW s, IsFiniteSet(A), \A x : x # s => (x \in A <=> x \in B)
    PROVE  Moves(A, B, s) /\ IsFiniteSet(B)
<1>0. Cardinality(A) \in Nat
  BY FS_CardinalityType
<1>1. CASE s \in A <=> s \in B
  <2>1. A = B
    BY <1>1
  <2> QED BY <1>0, <2>1 DEF Moves
<1>2. CASE s \notin A /\ s \in B
  <2>1. B = A \cup {s}
    BY <1>2
  <2>2. IsFiniteSet(B) /\ Cardinality(B) = Cardinality(A) + 1
    BY <1>2, <2>1, FS_AddElement
  <2> QED BY <1>0, <1>2, <2>2 DEF Moves
<1>3. CASE s \in A /\ s \notin B
  <2>1. B = A \ {s}
    BY <1>3
  <2>2. IsFiniteSet(B) /\ Cardinality(B) = Cardinality(A) - 1
    BY <1>3, <2>1, FS_RemoveElement
  <2>3. Cardinality(B) \in Nat
    BY <2>2, FS_CardinalityType
  <2> QED BY <1>0, <1>3, <2>2, <2>3 DEF Moves
<1> QED BY <1>1, <1>2, <1>3

\* The sends of t to p under way, those whose request is at a node, those that
\* were answered, and those with a retry left.
Under(t, p)    == {s \in Sends : sending[s].text = t /\ sending[s].to = p}
Waiting(t, p)  == {s \in Under(t, p) : req[s].st = "sent"}
Answered(t, p) == {s \in Under(t, p) : req[s].st = "answered"}
Spare(t, p)    == {s \in Under(t, p) : req[s].retries = 1}

\* Where the page says that t went to p.
Recorded(t, p) == {x \in Places : LET e == EntryAt(x) IN
                                    e.sender = "me" /\ e.peer = p /\ e.text = t}

\* A node has stored what is recorded or will be, and every press has paid for
\* two attempts.  Until something fails every press is one copy and one record.
CountInv(t, p) ==
    /\ IsFiniteSet(Recorded(t, p))
    /\ Cardinality(Recorded(t, p)) + Cardinality(Answered(t, p)) <= delivered[<<t, p>>]
    /\ delivered[<<t, p>>] + Cardinality(Waiting(t, p)) + Cardinality(Spare(t, p))
          <= 2 * pressed[<<t, p>>]
    /\ calm => /\ pressed[<<t, p>>] = delivered[<<t, p>>] + Cardinality(Waiting(t, p))
               /\ pressed[<<t, p>>] = Cardinality(Recorded(t, p)) + Cardinality(Under(t, p))

CalmInv == calm => \A s \in Sends : req[s].st \in {"idle", "sent", "answered"}

\* A step that changes the request of at most one send.
OnlySend(s) == \A u \in Sends \ {s} : req'[u] = req[u] /\ sending'[u] = sending[u]

LEMMA SendMoves ==
    ASSUME NEW s \in Sends, OnlySend(s), NEW t, NEW p
    PROVE  /\ Moves(Under(t, p), Under(t, p)', s) /\ Moves(Waiting(t, p), Waiting(t, p)', s)
           /\ Moves(Answered(t, p), Answered(t, p)', s) /\ Moves(Spare(t, p), Spare(t, p)', s)
<1>1. IsFiniteSet(Sends)
  BY ClientAssumption DEF ClientAssumption
<1>2. /\ IsFiniteSet(Under(t, p)) /\ IsFiniteSet(Waiting(t, p))
      /\ IsFiniteSet(Answered(t, p)) /\ IsFiniteSet(Spare(t, p))
  <2>1. /\ Under(t, p) \in SUBSET Sends /\ Waiting(t, p) \in SUBSET Sends
        /\ Answered(t, p) \in SUBSET Sends /\ Spare(t, p) \in SUBSET Sends
    BY DEF Under, Waiting, Answered, Spare
  <2> QED BY <1>1, <2>1, FS_Subset
<1>3. \A u : u # s => (u \in Under(t, p) <=> u \in Under(t, p)')
  BY DEF OnlySend, Under
<1>4. \A u : u # s => (u \in Waiting(t, p) <=> u \in Waiting(t, p)')
  BY DEF OnlySend, Under, Waiting
<1>5. \A u : u # s => (u \in Answered(t, p) <=> u \in Answered(t, p)')
  BY DEF OnlySend, Under, Answered
<1>6. \A u : u # s => (u \in Spare(t, p) <=> u \in Spare(t, p)')
  BY DEF OnlySend, Under, Spare
<1>7. Moves(Under(t, p), Under(t, p)', s)
  BY <1>2, <1>3, OneMember
<1>8. Moves(Waiting(t, p), Waiting(t, p)', s)
  BY <1>2, <1>4, OneMember
<1>9. Moves(Answered(t, p), Answered(t, p)', s)
  BY <1>2, <1>5, OneMember
<1>10. Moves(Spare(t, p), Spare(t, p)', s)
  BY <1>2, <1>6, OneMember
<1> QED BY <1>7, <1>8, <1>9, <1>10

\* Nothing about the sends changes.
SendsKept ==
    /\ \A s \in Sends : req'[s] = req[s] /\ sending'[s] = sending[s]
    /\ UNCHANGED <<delivered, pressed>>
    /\ calm' => calm

SendStep(s) == \/ SendMessage(s) \/ Serve(s) \/ Fail(s) \/ Retry(s)
               \/ FetchNewNode(s) \/ RecordSent(s) \/ SendFailed(s)

\* The request of another flow.
LEMMA OtherFlow ==
    ASSUME Sound, NEW f \in {"init", "poll"}, Requesting(f) \/ Fail(f)
    PROVE  SendsKept
<1>0. f \in Flows /\ \A s \in Sends : s \in Flows /\ s # f
  BY FlowNames
<1>1. req \in [Flows -> Request \cup {Idle}] /\ req[f].path # "message"
  BY DEF Sound, FlowOk, FlowInv
<1>2. UNCHANGED <<sending, delivered, pressed>>
  BY <1>1 DEF Requesting, Serve, ServeConnect, ServeChallenge, ServePoll, ServeMessage, Retry,
              FetchNewNode, Fail, apiVars, histVars
<1>3. calm' => calm
  <2>1. calm' = calm \/ calm' = FALSE
    BY <1>1 DEF Requesting, Serve, ServeConnect, ServeChallenge, ServePoll, ServeMessage, Retry,
                FetchNewNode, Fail, Fault, histVars
  <2> QED BY <2>1
<1>4. \E r : req' = [req EXCEPT ![f] = r]
  BY DEF Requesting, Serve, ServeConnect, ServeChallenge, ServePoll, ServeMessage, Retry,
         FetchNewNode, Fail, Mark, Fetch
<1>5. \A s \in Sends : req'[s] = req[s]
  BY <1>0, <1>1, <1>4
<1> QED BY <1>2, <1>3, <1>5 DEF SendsKept

LEMMA SendEffects ==
    ASSUME Sound, [Next]_vars
    PROVE  SendsKept \/ Reload \/ \E s \in Sends : SendStep(s)
<1>0. /\ req \in [Flows -> Request \cup {Idle}]
      /\ \A s \in Sends : s \in Flows /\ s # "init" /\ s # "poll"
      /\ "init" \in Flows /\ "poll" \in Flows
  BY FlowNames DEF Sound, FlowOk
<1>1. CASE InitFlow
  <2>1. CASE InitWasm
    BY <1>0, <2>1 DEF InitWasm, Fetch, SendsKept, apiVars, histVars
  <2>2. CASE LoadNodeUrl
    BY <1>0, <2>2 DEF LoadNodeUrl, StartPolling, SendsKept, apiVars, histVars
  <2> QED BY <1>1, <2>1, <2>2, OtherFlow DEF InitFlow
<1>2. CASE PollFlow
  <2>1. CASE PollMessages
    BY <1>0, <2>1 DEF PollMessages, Fetch, SendsKept, apiVars, histVars
  <2>2. CASE SignChallenge
    BY <1>0, <2>2 DEF SignChallenge, Fetch, SendsKept, apiVars, histVars
  <2>3. CASE ShowAnswer
    BY <1>0, <2>3 DEF ShowAnswer, PollOver, SendsKept
  <2>4. CASE PollFailed
    BY <1>0, <2>4 DEF PollFailed, PollOver, SendsKept
  <2> QED BY <1>2, <2>1, <2>2, <2>3, <2>4, OtherFlow DEF PollFlow
<1>3. ASSUME NEW s \in Sends, SendFlow(s) PROVE SendStep(s)
  BY <1>3 DEF SendFlow, Requesting, SendStep
<1>4. CASE User
  <2>1. CASE TickTerms \/ AttemptCloseTermsModal
    BY <2>1 DEF TickTerms, AttemptCloseTermsModal, SendsKept, apiVars, flowVars, histVars
  <2>2. ASSUME NEW p \in Peers, AddContact(p) PROVE SendsKept
    BY <2>2 DEF AddContact, SendsKept, apiVars, flowVars
  <2>3. ASSUME NEW c \in 1 .. Len(contacts), SelectContact(c) PROVE SendsKept
    BY <2>3 DEF SelectContact, SendsKept, apiVars, flowVars
  <2>4. ASSUME NEW t \in Texts, TypeDraft(t) PROVE SendsKept
    BY <2>4 DEF TypeDraft, SendsKept, apiVars, flowVars, histVars
  <2> QED BY <1>4, <2>1, <2>2, <2>3, <2>4 DEF User, SendStep
<1>5. CASE Network
  <2>1. ASSUME NEW n \in Nodes, ChallengeLost(n) PROVE SendsKept
    <3>1. calm' = FALSE
      BY <2>1 DEF ChallengeLost, Fault
    <3> QED BY <2>1, <3>1 DEF ChallengeLost, SendsKept, flowVars
  <2>2. ASSUME NEW f \in Flows, Fail(f) PROVE SendsKept \/ \E s \in Sends : SendStep(s)
    BY <2>2, FlowNames, OtherFlow DEF SendStep
  <2> QED BY <1>5, <2>1, <2>2 DEF Network
<1>6. CASE Others
  BY <1>6 DEF Others, PeerPosts, PeerRetries, SendsKept, flowVars
<1>7. CASE UNCHANGED vars
  BY <1>7 DEF vars, SendsKept, apiVars, flowVars, histVars
<1> QED BY <1>1, <1>2, <1>3, <1>4, <1>5, <1>6, <1>7 DEF Next

\* Conversation c keeps its n entries, and m others follow.
Grew(c, n, m) ==
    /\ n \in Nat /\ m \in Nat
    /\ c \in 1 .. Len(messages) => n = Len(messages[c])
    /\ c \notin 1 .. Len(messages) => n = 0
    /\ Len(messages'[c]) = n + m
    /\ \A k \in 1 .. n : messages'[c][k] = messages[c][k]

\* What is added to conversation c: a letter of the answer that was pushed, or
\* the message that was sent from the conversation on screen.
Added(c, e) ==
    \/ /\ ShowAnswer /\ e.sender = "them"
       /\ \E i \in Pushed(contacts', c) : e.peer = answer[i].from /\ e.ts = answer[i].ts
    \/ \E s \in Sends : RecordSent(s) /\ c = active /\ e = SentEntry(s)

\* Nothing leaves a conversation.
LEMMA StepGrows ==
    ASSUME Sound, [Next]_vars
    PROVE  /\ Len(messages) \in Nat /\ Len(messages') \in Nat /\ Len(messages) <= Len(messages')
           /\ \A c \in 1 .. Len(messages') : \E n, m :
                 Grew(c, n, m) /\ \A k \in 1 .. m : Added(c, messages'[c][n + k])
<1>0. PageTyped /\ AnswerTyped /\ messages \in Seq(Seq(Entry)) /\ Len(messages) \in Nat
      /\ Len(messages) = Len(contacts)
  BY DEF Sound, PageTyped
<1>1. ASSUME NEW c \in 1 .. Len(messages), messages'[c] = messages[c]
      PROVE  \E n, m : Grew(c, n, m) /\ \A k \in 1 .. m : Added(c, messages'[c][n + k])
  <2>1. PICK n \in Nat : n = Len(messages[c])
    BY <1>0
  <2>2. Grew(c, n, 0)
    BY <1>1, <2>1 DEF Grew
  <2> QED BY <2>2
<1>2. CASE UNCHANGED <<contacts, messages>>
  BY <1>0, <1>1, <1>2
<1>3. CASE ShowAnswer
  <2>1. Len(messages') = Len(contacts') /\ Len(contacts) <= Len(contacts') /\ Len(contacts') \in Nat
    BY <1>0, <1>3, ShowMessages, ShowContacts DEF MoreContacts, PageTyped, AnswerTyped
  <2>2. ASSUME NEW c \in 1 .. Len(messages')
        PROVE  \E n, m : Grew(c, n, m) /\ \A k \in 1 .. m : Added(c, messages'[c][n + k])
    <3>1. PICK n, m \in Nat : \E pos \in [1 .. m -> Pushed(contacts', c)] :
             /\ c <= Len(messages) => n = Len(messages[c])
             /\ c > Len(messages) => n = 0
             /\ Len(messages'[c]) = n + m
             /\ \A k \in 1 .. n : messages'[c][k] = messages[c][k]
             /\ \A k \in 1 .. m :
                   /\ messages'[c][n + k].sender = "them"
                   /\ messages'[c][n + k].peer = answer[pos[k]].from
                   /\ messages'[c][n + k].ts = answer[pos[k]].ts
             /\ \A j, k \in 1 .. m : pos[j] = pos[k] => j = k
      BY <1>0, <1>3, ShownEntries
    <3>2. Grew(c, n, m)
      BY <1>0, <2>1, <3>1 DEF Grew
    <3>3. ASSUME NEW k \in 1 .. m PROVE Added(c, messages'[c][n + k])
      BY <1>3, <3>1 DEF Added
    <3> QED BY <3>2, <3>3
  <2> QED BY <1>0, <2>1, <2>2
<1>4. ASSUME NEW p \in Peers, AddContact(p)
      PROVE  /\ Len(messages') = Len(messages) + 1
             /\ \A c \in 1 .. Len(messages') : \E n, m :
                   Grew(c, n, m) /\ \A k \in 1 .. m : Added(c, messages'[c][n + k])
  <2>1. /\ Len(messages') = Len(messages) + 1
        /\ \A c \in 1 .. Len(messages) : messages'[c] = messages[c]
        /\ messages'[Len(messages) + 1] = << >>
    BY <1>0, <1>4, AddTyped
  <2>2. ASSUME NEW c, c = Len(messages) + 1 PROVE Grew(c, 0, 0)
    BY <1>0, <2>1, <2>2 DEF Grew
  <2>3. \A c \in 1 .. Len(messages') : c \in 1 .. Len(messages) \/ c = Len(messages) + 1
    BY <1>0, <2>1
  <2> QED BY <1>1, <2>1, <2>2, <2>3
<1>5. ASSUME NEW s \in Sends, RecordSent(s)
      PROVE  /\ Len(messages') = Len(messages)
             /\ \A c \in 1 .. Len(messages') : \E n, m :
                   Grew(c, n, m) /\ \A k \in 1 .. m : Added(c, messages'[c][n + k])
  <2>1. PICK a, e : a = active /\ e = SentEntry(s)
    OBVIOUS
  <2>2. /\ a \in 1 .. Len(messages) /\ e \in Entry
        /\ messages' = [messages EXCEPT ![a] = Append(messages[a], e)]
        /\ Len(messages') = Len(messages)
    BY <1>5, <2>1, RecordTyped
  <2>3. /\ messages[a] \in Seq(Entry) /\ messages'[a] = Append(messages[a], e)
        /\ \A c \in 1 .. Len(messages) : c # a => messages'[c] = messages[c]
    BY <1>0, <2>2
  <2>4. PICK n \in Nat : n = Len(messages[a])
    BY <2>3
  <2>5. /\ Len(messages'[a]) = n + 1 /\ messages'[a][n + 1] = e
        /\ \A k \in 1 .. n : messages'[a][k] = messages[a][k]
    BY <2>2, <2>3, <2>4
  <2>6. Grew(a, n, 1)
    BY <2>2, <2>4, <2>5 DEF Grew
  <2>7. \A k \in 1 .. 1 : Added(a, messages'[a][n + k])
    BY <1>5, <2>1, <2>5 DEF Added
  <2>8. ASSUME NEW c \in 1 .. Len(messages')
        PROVE  \E h, m : Grew(c, h, m) /\ \A k \in 1 .. m : Added(c, messages'[c][h + k])
    <3>1. CASE c = a
      BY <2>6, <2>7, <3>1
    <3>2. CASE c # a
      BY <1>1, <2>2, <2>3, <3>2
    <3> QED BY <3>1, <3>2
  <2> QED BY <2>2, <2>8
<1>6. CASE \E p \in Peers : AddContact(p)
  <2>1. PICK p \in Peers : AddContact(p)
    BY <1>6
  <2>2. /\ Len(messages') = Len(messages) + 1
        /\ \A c \in 1 .. Len(messages') : \E n, m :
              Grew(c, n, m) /\ \A k \in 1 .. m : Added(c, messages'[c][n + k])
    BY <1>4, <2>1
  <2> QED BY <1>0, <2>2
<1>7. CASE \E s \in Sends : RecordSent(s)
  <2>1. PICK s \in Sends : RecordSent(s)
    BY <1>7
  <2>2. /\ Len(messages') = Len(messages)
        /\ \A c \in 1 .. Len(messages') : \E n, m :
              Grew(c, n, m) /\ \A k \in 1 .. m : Added(c, messages'[c][n + k])
    BY <1>5, <2>1
  <2> QED BY <1>0, <2>2
<1> QED BY <1>2, <1>3, <1>6, <1>7, PageEffects

\* Where an entry of W is, and where one was added.
PlacesIn(W) == {x \in Places : EntryAt(x) \in W}

LEMMA PlacesGrow ==
    ASSUME Sound, [Next]_vars, NEW W
    PROVE  /\ PlacesIn(W) \subseteq PlacesIn(W)'
           /\ \A x \in PlacesIn(W)' \ PlacesIn(W) :
                 /\ x[1] \in 1 .. Len(messages')
                 /\ EntryAt(x)' \in W /\ Added(x[1], EntryAt(x)')
<1>0. /\ Len(messages) \in Nat /\ Len(messages') \in Nat /\ Len(messages) <= Len(messages')
      /\ messages \in Seq(Seq(Entry))
  BY StepGrows DEF Sound, PageTyped
<1>1. \A x : x \in PlacesIn(W) <=>
                \E c \in 1 .. Len(messages) : \E k \in 1 .. Len(messages[c]) :
                   x = <<c, k>> /\ messages[c][k] \in W
  BY DEF PlacesIn, Places, EntryAt
<1>2. \A x : x \in PlacesIn(W)' <=>
                \E c \in 1 .. Len(messages') : \E k \in 1 .. Len(messages'[c]) :
                   x = <<c, k>> /\ messages'[c][k] \in W
  BY DEF PlacesIn, Places, EntryAt
<1>3. ASSUME NEW x \in PlacesIn(W) PROVE x \in PlacesIn(W)'
  <2>1. PICK c \in 1 .. Len(messages) : \E k \in 1 .. Len(messages[c]) :
           x = <<c, k>> /\ messages[c][k] \in W
    BY <1>1
  <2>2. PICK k \in 1 .. Len(messages[c]) : x = <<c, k>> /\ messages[c][k] \in W
    BY <2>1
  <2>3. c \in 1 .. Len(messages') /\ Len(messages[c]) \in Nat
    BY <1>0
  <2>4. PICK n, m : Grew(c, n, m)
    BY <2>3, StepGrows
  <2>5. k \in 1 .. Len(messages'[c]) /\ messages'[c][k] = messages[c][k]
    BY <2>3, <2>4 DEF Grew
  <2> QED BY <1>2, <2>2, <2>3, <2>5
<1>4. ASSUME NEW x \in PlacesIn(W)', x \notin PlacesIn(W)
      PROVE  x[1] \in 1 .. Len(messages') /\ EntryAt(x)' \in W /\ Added(x[1], EntryAt(x)')
  <2>1. PICK c \in 1 .. Len(messages') : \E k \in 1 .. Len(messages'[c]) :
           x = <<c, k>> /\ messages'[c][k] \in W
    BY <1>2
  <2>2. PICK k \in 1 .. Len(messages'[c]) : x = <<c, k>> /\ messages'[c][k] \in W
    BY <2>1
  <2>3. PICK n, m : Grew(c, n, m) /\ \A h \in 1 .. m : Added(c, messages'[c][n + h])
    BY StepGrows
  <2>4. k \notin 1 .. n
    <3>1. ASSUME k \in 1 .. n PROVE FALSE
      <4>1. c \in 1 .. Len(messages) /\ k \in 1 .. Len(messages[c]) /\ messages[c][k] \in W
        BY <2>2, <2>3, <3>1 DEF Grew
      <4> QED BY <1>1, <1>4, <2>2, <4>1
    <3> QED BY <3>1
  <2>5. k - n \in 1 .. m /\ k = n + (k - n)
    BY <2>3, <2>4 DEF Grew
  <2>6. Added(c, messages'[c][k])
    BY <2>3, <2>5
  <2>7. x[1] = c /\ EntryAt(x)' = messages'[c][k]
    BY <2>2 DEF EntryAt
  <2> QED BY <2>2, <2>6, <2>7
<1> QED BY <1>3, <1>4

LEMMA EntriesTyped ==
    ASSUME Sound, NEW x \in Places
    PROVE  EntryAt(x) \in Entry
<1>1. PICK c \in 1 .. Len(messages) : \E k \in 1 .. Len(messages[c]) : x = <<c, k>>
  BY PlacesAre
<1>2. messages \in Seq(Seq(Entry))
  BY DEF Sound, PageTyped
<1>3. messages[c] \in Seq(Entry)
  BY <1>2
<1> QED BY <1>1, <1>3 DEF EntryAt

LEMMA EntriesTypedNext ==
    ASSUME Sound, [Next]_vars, NEW x \in Places'
    PROVE  EntryAt(x)' \in Entry
<1>1. PICK c \in 1 .. Len(messages') : \E k \in 1 .. Len(messages'[c]) : x = <<c, k>>
  BY DEF Places
<1>2. messages' \in Seq(Seq(Entry))
  BY NextSound DEF Sound, PageTyped
<1>3. messages'[c] \in Seq(Entry)
  BY <1>2
<1> QED BY <1>1, <1>3 DEF EntryAt

\* Only RecordSent adds to what the page says it has sent.
LEMMA RecordedKept ==
    ASSUME Sound, [Next]_vars, \A s \in Sends : ~RecordSent(s), NEW t, NEW p
    PROVE  Recorded(t, p)' = Recorded(t, p)
<1> DEFINE W == {e \in Entry : e.sender = "me" /\ e.peer = p /\ e.text = t}
<1>1. Recorded(t, p) = PlacesIn(W)
  BY EntriesTyped DEF Recorded, PlacesIn
<1>2. Recorded(t, p)' = PlacesIn(W)'
  BY EntriesTypedNext DEF Recorded, PlacesIn
<1>3. \A c, e : Added(c, e) => e \notin W
  BY DEF Added
<1> HIDE DEF W
<1> QED BY <1>1, <1>2, <1>3, PlacesGrow

LEMMA RecordedOne ==
    ASSUME Sound, NEW s \in Sends, RecordSent(s), NEW t, NEW p
    PROVE  \E x : /\ x \notin Recorded(t, p)
                  /\ \A y : y # x => (y \in Recorded(t, p) <=> y \in Recorded(t, p)')
                  /\ x \in Recorded(t, p)' <=> s \in Under(t, p)
<1>0. messages \in Seq(Seq(Entry))
  BY DEF Sound, PageTyped
<1>1. PICK a, e : a = active /\ e = SentEntry(s)
  OBVIOUS
<1>2. /\ a \in 1 .. Len(messages) /\ e \in Entry
      /\ messages' = [messages EXCEPT ![a] = Append(messages[a], e)]
      /\ Len(messages') = Len(messages)
  BY <1>1, RecordTyped
<1>3. PICK n \in Nat : n = Len(messages[a])
  BY <1>0, <1>2
<1>4. /\ messages'[a] = Append(messages[a], e)
      /\ \A c \in 1 .. Len(messages) : c # a => messages'[c] = messages[c]
  BY <1>0, <1>2
<1>5. /\ Len(messages'[a]) = n + 1 /\ messages'[a][n + 1] = e
      /\ \A k \in 1 .. n : messages'[a][k] = messages[a][k]
  <2>1. messages[a] \in Seq(Entry)
    BY <1>0, <1>2
  <2> QED BY <1>2, <1>3, <1>4, <2>1
<1> DEFINE Me(b) == b.sender = "me" /\ b.peer = p /\ b.text = t
           x == <<a, n + 1>>
<1>6. \A y : y \in Recorded(t, p) <=>
                \E c \in 1 .. Len(messages) : \E k \in 1 .. Len(messages[c]) :
                   y = <<c, k>> /\ Me(messages[c][k])
  BY DEF Recorded, Places, EntryAt
<1>7. \A y : y \in Recorded(t, p)' <=>
                \E c \in 1 .. Len(messages') : \E k \in 1 .. Len(messages'[c]) :
                   y = <<c, k>> /\ Me(messages'[c][k])
  BY DEF Recorded, Places, EntryAt
<1>8. Me(e) <=> s \in Under(t, p)
  BY <1>1 DEF SentEntry, Under
<1> HIDE DEF Me
<1>9. x \notin Recorded(t, p)
  BY <1>3, <1>6
<1>10. x \in Recorded(t, p)' <=> Me(e)
  BY <1>2, <1>5, <1>7
<1>11. ASSUME NEW y, y # x PROVE y \in Recorded(t, p) <=> y \in Recorded(t, p)'
  <2>1. ASSUME y \in Recorded(t, p) PROVE y \in Recorded(t, p)'
    <3>1. PICK c \in 1 .. Len(messages) : \E k \in 1 .. Len(messages[c]) :
             y = <<c, k>> /\ Me(messages[c][k])
      BY <1>6, <2>1
    <3>2. PICK k \in 1 .. Len(messages[c]) : y = <<c, k>> /\ Me(messages[c][k])
      BY <3>1
    <3>3. k \in 1 .. Len(messages'[c]) /\ messages'[c][k] = messages[c][k]
      BY <1>3, <1>4, <1>5
    <3> QED BY <1>2, <1>7, <3>2, <3>3
  <2>2. ASSUME y \in Recorded(t, p)' PROVE y \in Recorded(t, p)
    <3>1. PICK c \in 1 .. Len(messages') : \E k \in 1 .. Len(messages'[c]) :
             y = <<c, k>> /\ Me(messages'[c][k])
      BY <1>7, <2>2
    <3>2. PICK k \in 1 .. Len(messages'[c]) : y = <<c, k>> /\ Me(messages'[c][k])
      BY <3>1
    <3>3. k \in 1 .. Len(messages[c]) /\ messages'[c][k] = messages[c][k]
      <4>1. CASE c = a
        <5>1. k # n + 1
          BY <1>11, <3>2, <4>1
        <5> QED BY <1>3, <1>5, <4>1, <5>1
      <4>2. CASE c # a
        BY <1>2, <1>4, <4>2
      <4> QED BY <4>1, <4>2
    <3> QED BY <1>2, <1>6, <3>2, <3>3
  <2> QED BY <2>1, <2>2
<1> QED BY <1>8, <1>9, <1>10, <1>11

LEMMA SendStepOne ==
    ASSUME Sound, NEW s \in Sends, SendStep(s)
    PROVE  OnlySend(s) /\ (Serve(s) => ServeMessage(s) /\ req[s].st = "sent" /\ UNCHANGED messages)
<1>1. /\ SendSound(s) /\ s \in Flows /\ req \in [Flows -> Request \cup {Idle}]
      /\ sending \in [Sends -> [text : Texts, to : Peers] \cup {NoSend}]
  BY FlowNames DEF Sound, FlowOk, FlowInv, SendingTyped
<1>2. Serve(s) => ServeMessage(s) /\ req[s].st = "sent" /\ UNCHANGED messages
  <2> SUFFICES ASSUME Serve(s) PROVE ServeMessage(s) /\ req[s].st = "sent" /\ UNCHANGED messages
    OBVIOUS
  <2>1. req[s].path = "message" /\ req[s].st = "sent" /\ UNCHANGED messages
    BY <1>1, IdleFields DEF Serve, SendSound, pageVars
  <2> QED BY <2>1 DEF Serve, ServeConnect, ServeChallenge, ServePoll
<1>3. \E v : req' = [req EXCEPT ![s] = v]
  BY <1>2 DEF SendStep, SendMessage, ServeMessage, Fail, Retry, FetchNewNode, RecordSent,
              SendFailed, SendOver, Mark, Fetch
<1>4. sending' = sending \/ \E v : sending' = [sending EXCEPT ![s] = v]
  BY <1>2 DEF SendStep, SendMessage, ServeMessage, Fail, Retry, FetchNewNode, RecordSent,
              SendFailed, SendOver
<1>5. \A v \in Sends \ {s} : req'[v] = req[v]
  BY <1>1, <1>3, FlowNames
<1>6. \A v \in Sends \ {s} : sending'[v] = sending[v]
  BY <1>1, <1>4
<1> QED BY <1>2, <1>5, <1>6 DEF OnlySend

\* Until something fails, every send waits for its first request or has its answer.
LEMMA NextCalm ==
    ASSUME Sound, CalmInv, [Next]_vars
    PROVE  CalmInv'
<1>1. CASE SendsKept
  BY <1>1 DEF CalmInv, SendsKept
<1>2. CASE Reload
  <2>1. ~calm'
    BY <1>2 DEF Reload, Fault
  <2> QED BY <2>1 DEF CalmInv
<1>3. ASSUME NEW s \in Sends, SendStep(s) PROVE CalmInv'
  <2>0. OnlySend(s) /\ (Serve(s) => ServeMessage(s) /\ req[s].st = "sent")
        /\ s \in Flows /\ req \in [Flows -> Request \cup {Idle}]
    BY <1>3, SendStepOne, FlowNames DEF Sound, FlowOk
  <2>1. ASSUME req'[s].st \in {"idle", "sent", "answered"}, calm' => calm PROVE CalmInv'
    <3>1. ASSUME calm', NEW v \in Sends PROVE req'[v].st \in {"idle", "sent", "answered"}
      BY <2>0, <2>1, <3>1 DEF CalmInv, OnlySend
    <3> QED BY <3>1 DEF CalmInv
  <2>2. ASSUME ~calm' PROVE CalmInv'
    BY <2>2 DEF CalmInv
  <2>3. CASE SendMessage(s)
    <3>1. req'[s].st = "sent"
      BY <2>0, <2>3 DEF SendMessage, Fetch
    <3>2. calm' => calm
      BY <2>3 DEF SendMessage
    <3> QED BY <2>1, <3>1, <3>2
  <2>4. CASE Serve(s)
    <3>1. req[s] \in Request
      BY <2>0, <2>4, IdleFields
    <3>2. req'[s].st = "answered"
      BY <2>0, <2>4, <3>1 DEF ServeMessage, Mark, Request
    <3>3. calm' => calm
      BY <2>0, <2>4 DEF ServeMessage, histVars
    <3> QED BY <2>1, <3>2, <3>3
  <2>5. CASE Fail(s)
    <3>1. ~calm'
      BY <2>5 DEF Fail, Fault
    <3> QED BY <2>2, <3>1
  <2>6. CASE Retry(s) \/ FetchNewNode(s) \/ SendFailed(s)
    <3>1. ~calm
      BY <2>6 DEF Retry, FetchNewNode, SendFailed, Rejected, CalmInv
    <3>2. ~calm'
      BY <2>6, <3>1 DEF Retry, FetchNewNode, SendFailed, histVars
    <3> QED BY <2>2, <3>2
  <2>7. CASE RecordSent(s)
    <3>1. req'[s].st = "idle"
      BY <2>0, <2>7, IdleFields DEF RecordSent, SendOver
    <3>2. calm' => calm
      BY <2>7 DEF RecordSent, histVars
    <3> QED BY <2>1, <3>1, <3>2
  <2> QED BY <1>3, <2>3, <2>4, <2>5, <2>6, <2>7 DEF SendStep
<1> QED BY <1>1, <1>2, <1>3, SendEffects

\* A step of one send moves it between the sets that are counted.
LEMMA SendCounts ==
    ASSUME Sound, [Next]_vars, CalmInv, NEW t \in Texts, NEW p \in Peers, CountInv(t, p),
           NEW s \in Sends, SendStep(s)
    PROVE  CountInv(t, p)'
<1> DEFINE d == <<t, p>>
<1>0. /\ d \in Texts \X Peers /\ delivered[d] \in Nat /\ pressed[d] \in Nat
      /\ delivered \in [Texts \X Peers -> Nat] /\ pressed \in [Texts \X Peers -> Nat]
  BY DEF Sound, ApiTypeOK, HistTyped
<1>1. /\ SendSound(s) /\ s \in Flows /\ req \in [Flows -> Request \cup {Idle}]
      /\ sending \in [Sends -> [text : Texts, to : Peers] \cup {NoSend}]
  BY FlowNames DEF Sound, FlowOk, FlowInv, SendingTyped
<1>2. NoSend.text = 0 /\ t # 0
  BY ClientAssumption DEF NoSend, ClientAssumption
<1>3. OnlySend(s) /\ (Serve(s) => ServeMessage(s) /\ req[s].st = "sent" /\ UNCHANGED messages)
  BY SendStepOne
<1>4. /\ Moves(Under(t, p), Under(t, p)', s) /\ Moves(Waiting(t, p), Waiting(t, p)', s)
      /\ Moves(Answered(t, p), Answered(t, p)', s) /\ Moves(Spare(t, p), Spare(t, p)', s)
  BY <1>3, SendMoves
<1>5. /\ s \in Under(t, p) <=> sending[s].text = t /\ sending[s].to = p
      /\ s \in Waiting(t, p) <=> s \in Under(t, p) /\ req[s].st = "sent"
      /\ s \in Answered(t, p) <=> s \in Under(t, p) /\ req[s].st = "answered"
      /\ s \in Spare(t, p) <=> s \in Under(t, p) /\ req[s].retries = 1
  BY DEF Under, Waiting, Answered, Spare
<1>6. /\ s \in Under(t, p)' <=> sending'[s].text = t /\ sending'[s].to = p
      /\ s \in Waiting(t, p)' <=> s \in Under(t, p)' /\ req'[s].st = "sent"
      /\ s \in Answered(t, p)' <=> s \in Under(t, p)' /\ req'[s].st = "answered"
      /\ s \in Spare(t, p)' <=> s \in Under(t, p)' /\ req'[s].retries = 1
  BY DEF Under, Waiting, Answered, Spare
<1>7. Cardinality(Recorded(t, p)) \in Nat
  BY FS_CardinalityType DEF CountInv
<1>9. ASSUME messages' = messages PROVE Recorded(t, p)' = Recorded(t, p)
  BY <1>9 DEF Recorded, Places, EntryAt
<1>10. PICK u, w, a, r, R, D, P \in Nat :
          /\ u = Cardinality(Under(t, p)) /\ w = Cardinality(Waiting(t, p))
          /\ a = Cardinality(Answered(t, p)) /\ r = Cardinality(Spare(t, p))
          /\ R = Cardinality(Recorded(t, p)) /\ D = delivered[d] /\ P = pressed[d]
  BY <1>0, <1>4, <1>7 DEF Moves
<1>11. PICK u1, w1, a1, r1 \in Nat :
          /\ u1 = Cardinality(Under(t, p)') /\ w1 = Cardinality(Waiting(t, p)')
          /\ a1 = Cardinality(Answered(t, p)') /\ r1 = Cardinality(Spare(t, p)')
  BY <1>4 DEF Moves
<1>12. /\ R + a <= D /\ D + w + r <= 2 * P
       /\ calm => P = D + w /\ P = R + u
  BY <1>10 DEF CountInv
<1>13. ASSUME NEW R1 \in Nat, NEW D1 \in Nat, NEW P1 \in Nat,
              IsFiniteSet(Recorded(t, p)'), R1 = Cardinality(Recorded(t, p)'),
              D1 = delivered'[d], P1 = pressed'[d],
              R1 + a1 <= D1, D1 + w1 + r1 <= 2 * P1,
              calm' => P1 = D1 + w1 /\ P1 = R1 + u1
       PROVE  CountInv(t, p)'
  BY <1>11, <1>13 DEF CountInv
<1>14. ASSUME NEW D1 \in Nat, NEW P1 \in Nat, messages' = messages,
              D1 = delivered'[d], P1 = pressed'[d],
              R + a1 <= D1, D1 + w1 + r1 <= 2 * P1,
              calm' => P1 = D1 + w1 /\ P1 = R + u1
       PROVE  CountInv(t, p)'
  <2>1. IsFiniteSet(Recorded(t, p)') /\ R = Cardinality(Recorded(t, p)')
    BY <1>9, <1>10, <1>14 DEF CountInv
  <2> QED BY <1>13, <1>14, <2>1
<1>15. CASE SendMessage(s)
  <2>1. PICK to : to = contacts[active]
    OBVIOUS
  <2>2. /\ req[s] = Idle /\ draft \in Texts \cup {0} /\ draft # 0 /\ to \in Peers
        /\ pressed' = [pressed EXCEPT ![<<draft, to>>] = @ + 1]
        /\ sending' = [sending EXCEPT ![s] = [text |-> draft, to |-> to]]
        /\ req' = [req EXCEPT ![s] = [st |-> "sent", path |-> "message", at |-> node, retries |-> 1]]
        /\ UNCHANGED <<delivered, messages>>
    BY <1>15, <2>1 DEF SendMessage, Fetch, Sound, PageTyped, apiVars, pageVars
  <2>3. s \notin Under(t, p) /\ s \notin Waiting(t, p) /\ s \notin Answered(t, p) /\ s \notin Spare(t, p)
    <3>1. sending[s] = NoSend
      BY <1>1, <2>2, IdleFields DEF SendSound
    <3> QED BY <1>2, <1>5, <3>1
  <2>4. req'[s].st = "sent" /\ req'[s].retries = 1 /\ sending'[s].text = draft /\ sending'[s].to = to
    BY <1>1, <2>2
  <2>5. s \notin Answered(t, p)'
    BY <1>6, <2>4
  <2>6. calm' => calm
    BY <1>15 DEF SendMessage
  <2>7. ASSUME draft = t, to = p PROVE CountInv(t, p)'
    <3>1. s \in Under(t, p)' /\ s \in Waiting(t, p)' /\ s \in Spare(t, p)'
      BY <1>6, <2>4, <2>7
    <3>2. pressed'[d] = P + 1 /\ delivered'[d] = D
      BY <1>0, <1>10, <2>2, <2>7
    <3>3. u1 = u + 1 /\ w1 = w + 1 /\ a1 = a /\ r1 = r + 1
      BY <1>4, <1>10, <1>11, <2>3, <2>5, <3>1 DEF Moves
    <3> QED BY <1>12, <1>14, <2>2, <2>6, <3>2, <3>3
  <2>8. ASSUME ~(draft = t /\ to = p) PROVE CountInv(t, p)'
    <3>1. s \notin Under(t, p)' /\ s \notin Waiting(t, p)' /\ s \notin Spare(t, p)'
      BY <1>6, <2>4, <2>8
    <3>2. pressed'[d] = P /\ delivered'[d] = D
      <4>1. d # <<draft, to>>
        BY <2>8
      <4> QED BY <1>0, <1>10, <2>2, <4>1
    <3>3. u1 = u /\ w1 = w /\ a1 = a /\ r1 = r
      BY <1>4, <1>10, <1>11, <2>3, <2>5, <3>1 DEF Moves
    <3> QED BY <1>12, <1>14, <2>2, <2>6, <3>2, <3>3
  <2> QED BY <2>7, <2>8
<1>16. CASE Serve(s)
  <2>1. /\ req[s].st = "sent" /\ req' = [req EXCEPT ![s] = [req[s] EXCEPT !.st = "answered"]]
        /\ delivered' = [delivered EXCEPT ![<<sending[s].text, sending[s].to>>] = @ + 1]
        /\ UNCHANGED <<sending, pressed, messages>>
    BY <1>3, <1>16 DEF ServeMessage, StoreMessage, Mark, histVars
  <2>2. calm' => calm
    BY <1>3, <1>16 DEF ServeMessage, histVars
  <2>3. req[s] \in Request /\ sending[s] \in [text : Texts, to : Peers]
    BY <1>1, <2>1, IdleFields DEF SendSound
  <2>4. req'[s].st = "answered" /\ req'[s].retries = req[s].retries
    BY <1>1, <2>1, <2>3 DEF Request
  <2>5. pressed'[d] = P
    BY <1>10, <2>1
  <2>6. ASSUME s \in Under(t, p) PROVE CountInv(t, p)'
    <3>1. /\ s \in Under(t, p)' /\ s \in Waiting(t, p) /\ s \notin Waiting(t, p)'
          /\ s \notin Answered(t, p) /\ s \in Answered(t, p)'
          /\ s \in Spare(t, p) <=> s \in Spare(t, p)'
      BY <1>5, <1>6, <2>1, <2>4, <2>6
    <3>2. delivered'[d] = D + 1
      BY <1>0, <1>5, <1>10, <2>1, <2>6
    <3>3. u1 = u /\ w = w1 + 1 /\ a1 = a + 1 /\ r1 = r
      BY <1>4, <1>10, <1>11, <2>6, <3>1 DEF Moves
    <3> QED BY <1>12, <1>14, <2>1, <2>2, <2>5, <3>2, <3>3
  <2>7. ASSUME s \notin Under(t, p) PROVE CountInv(t, p)'
    <3>1. /\ s \notin Under(t, p)' /\ s \notin Waiting(t, p) /\ s \notin Waiting(t, p)'
          /\ s \notin Answered(t, p) /\ s \notin Answered(t, p)'
          /\ s \notin Spare(t, p) /\ s \notin Spare(t, p)'
      BY <1>5, <1>6, <2>1, <2>7
    <3>2. delivered'[d] = D
      <4>1. d # <<sending[s].text, sending[s].to>>
        BY <1>5, <2>7
      <4> QED BY <1>0, <1>10, <2>1, <4>1
    <3>3. u1 = u /\ w1 = w /\ a1 = a /\ r1 = r
      BY <1>4, <1>10, <1>11, <2>7, <3>1 DEF Moves
    <3> QED BY <1>12, <1>14, <2>1, <2>2, <2>5, <3>2, <3>3
  <2> QED BY <2>6, <2>7
<1>17. ASSUME NEW st \in {"failed", "switching"}, Mark(s, st), ~calm',
              req[s] \in Request, UNCHANGED <<sending, delivered, pressed, messages>>
       PROVE  CountInv(t, p)'
  <2>1. req'[s].st = st /\ req'[s].retries = req[s].retries
    BY <1>1, <1>17 DEF Mark, Request
  <2>2. /\ s \in Under(t, p)' <=> s \in Under(t, p)
        /\ s \notin Waiting(t, p)' /\ s \notin Answered(t, p)'
        /\ s \in Spare(t, p)' <=> s \in Spare(t, p)
    BY <1>5, <1>6, <1>17, <2>1
  <2>3. w1 <= w /\ a1 <= a /\ r1 = r
    BY <1>4, <1>10, <1>11, <2>2 DEF Moves
  <2>4. delivered'[d] = D /\ pressed'[d] = P
    BY <1>10, <1>17
  <2> QED BY <1>12, <1>14, <1>17, <2>3, <2>4
<1>18. CASE Fail(s)
  <2>1. req[s] \in Request
    BY <1>1, <1>18, IdleFields DEF Fail
  <2>2. ~calm'
    BY <1>18 DEF Fail, Fault
  <2> QED BY <1>17, <1>18, <2>1, <2>2 DEF Fail, pageVars
<1>19. CASE Retry(s)
  <2>1. req[s] \in Request
    BY <1>1, <1>19, IdleFields DEF Retry
  <2>2. ~calm
    BY <1>19 DEF Retry, CalmInv
  <2>3. ~calm'
    BY <1>19, <2>2 DEF Retry, histVars
  <2> QED BY <1>17, <1>19, <2>1, <2>3 DEF Retry, apiVars, pageVars, histVars
<1>20. CASE FetchNewNode(s)
  <2>1. ~calm
    BY <1>20 DEF FetchNewNode, CalmInv
  <2>2. ~calm'
    BY <1>20, <2>1 DEF FetchNewNode, histVars
  <2>3. req[s].st = "switching" /\ req[s].retries = 1
    BY <1>1, <1>20 DEF FetchNewNode, Sound, FlowOk, FlowInv
  <2>4. \E n \in Nodes : Fetch(s, req[s].path, n, 0)
    BY <1>20, <2>3 DEF FetchNewNode
  <2>5. req'[s].st = "sent" /\ req'[s].retries = 0
    BY <1>1, <2>4 DEF Fetch
  <2>6. UNCHANGED <<sending, delivered, pressed, messages>>
    BY <1>20 DEF FetchNewNode, apiVars, histVars
  <2>7. /\ s \in Under(t, p)' <=> s \in Under(t, p)
        /\ s \notin Waiting(t, p) /\ (s \in Waiting(t, p)' <=> s \in Under(t, p))
        /\ s \notin Answered(t, p) /\ s \notin Answered(t, p)'
        /\ s \in Spare(t, p) <=> s \in Under(t, p)
        /\ s \notin Spare(t, p)'
    BY <1>5, <1>6, <2>3, <2>5, <2>6
  <2>8. w1 + r1 = w + r /\ a1 = a
    BY <1>4, <1>10, <1>11, <2>7 DEF Moves
  <2>9. delivered'[d] = D /\ pressed'[d] = P
    BY <1>10, <2>6
  <2> QED BY <1>12, <1>14, <2>2, <2>6, <2>8, <2>9
<1>21. ASSUME SendOver(s), UNCHANGED <<delivered, pressed>>
       PROVE  /\ req'[s].st = "idle" /\ delivered'[d] = D /\ pressed'[d] = P
              /\ s \notin Under(t, p)' /\ s \notin Waiting(t, p)'
              /\ s \notin Answered(t, p)' /\ s \notin Spare(t, p)'
  <2>1. req'[s] = Idle /\ sending'[s] = NoSend
    BY <1>1, <1>21 DEF SendOver
  <2> QED BY <1>2, <1>6, <1>10, <1>21, <2>1, IdleFields
<1>22. CASE SendFailed(s)
  <2>1. ~calm
    BY <1>22 DEF SendFailed, Rejected, CalmInv
  <2>2. ~calm'
    BY <1>22, <2>1 DEF SendFailed, histVars
  <2>3. SendOver(s) /\ UNCHANGED <<delivered, pressed, messages>>
    BY <1>22 DEF SendFailed, apiVars, pageVars, histVars
  <2>4. w1 <= w /\ a1 <= a /\ r1 <= r
    BY <1>4, <1>10, <1>11, <1>21, <2>3 DEF Moves
  <2> QED BY <1>12, <1>14, <1>21, <2>2, <2>3, <2>4
<1>23. CASE RecordSent(s)
  <2>1. SendOver(s) /\ UNCHANGED <<delivered, pressed>> /\ req[s].st = "answered"
    BY <1>23 DEF RecordSent, apiVars, histVars
  <2>2. calm' => calm
    BY <1>23 DEF RecordSent, histVars
  <2>3. PICK x : /\ x \notin Recorded(t, p)
                 /\ \A y : y # x => (y \in Recorded(t, p) <=> y \in Recorded(t, p)')
                 /\ x \in Recorded(t, p)' <=> s \in Under(t, p)
    BY <1>23, RecordedOne
  <2>4. IsFiniteSet(Recorded(t, p)') /\ Moves(Recorded(t, p), Recorded(t, p)', x)
    BY <2>3, OneMember DEF CountInv
  <2>5. s \notin Waiting(t, p) /\ (s \in Answered(t, p) <=> s \in Under(t, p))
    BY <1>5, <2>1
  <2>6. PICK R1 \in Nat : R1 = Cardinality(Recorded(t, p)')
    BY <2>4 DEF Moves
  <2>7. R1 + u1 = R + u /\ R1 + a1 = R + a /\ w1 = w /\ r1 <= r
    <3>1. CASE s \in Under(t, p)
      BY <1>4, <1>10, <1>11, <1>21, <2>1, <2>3, <2>4, <2>5, <2>6, <3>1 DEF Moves
    <3>2. CASE s \notin Under(t, p)
      BY <1>4, <1>10, <1>11, <1>21, <2>1, <2>3, <2>4, <2>5, <2>6, <3>2 DEF Moves
    <3> QED BY <3>1, <3>2
  <2>8. delivered'[d] = D /\ pressed'[d] = P /\ req'[s].st = "idle"
    BY <1>21, <2>1
  <2> QED BY <1>12, <1>13, <2>2, <2>4, <2>6, <2>7, <2>8
<1> QED BY <1>15, <1>16, <1>18, <1>19, <1>20, <1>22, <1>23 DEF SendStep

LEMMA NoneUnder ==
    ASSUME NEW t, NEW p, Under(t, p) = {}
    PROVE  /\ Cardinality(Under(t, p)) = 0 /\ Cardinality(Waiting(t, p)) = 0
           /\ Cardinality(Answered(t, p)) = 0 /\ Cardinality(Spare(t, p)) = 0
<1>1. Waiting(t, p) = {} /\ Answered(t, p) = {} /\ Spare(t, p) = {}
  BY DEF Waiting, Answered, Spare
<1> QED BY <1>1, FS_EmptySet

LEMMA NoneUnderNext ==
    ASSUME NEW t, NEW p, Under(t, p)' = {}
    PROVE  /\ Cardinality(Under(t, p)') = 0 /\ Cardinality(Waiting(t, p)') = 0
           /\ Cardinality(Answered(t, p)') = 0 /\ Cardinality(Spare(t, p)') = 0
<1>1. Waiting(t, p)' = {} /\ Answered(t, p)' = {} /\ Spare(t, p)' = {}
  BY DEF Waiting, Answered, Spare
<1> QED BY <1>1, FS_EmptySet

LEMMA CountsFinite ==
    ASSUME NEW t, NEW p
    PROVE  /\ Cardinality(Under(t, p)) \in Nat /\ Cardinality(Waiting(t, p)) \in Nat
           /\ Cardinality(Answered(t, p)) \in Nat /\ Cardinality(Spare(t, p)) \in Nat
<1>1. IsFiniteSet(Sends)
  BY ClientAssumption DEF ClientAssumption
<1>2. /\ Under(t, p) \in SUBSET Sends /\ Waiting(t, p) \in SUBSET Sends
      /\ Answered(t, p) \in SUBSET Sends /\ Spare(t, p) \in SUBSET Sends
  BY DEF Under, Waiting, Answered, Spare
<1>3. /\ IsFiniteSet(Under(t, p)) /\ IsFiniteSet(Waiting(t, p))
      /\ IsFiniteSet(Answered(t, p)) /\ IsFiniteSet(Spare(t, p))
  BY <1>1, <1>2, FS_Subset
<1> QED BY <1>3, FS_CardinalityType

LEMMA NextCounts ==
    ASSUME Sound, [Next]_vars, CalmInv, NEW t \in Texts, NEW p \in Peers, CountInv(t, p)
    PROVE  CountInv(t, p)'
<1>1. ASSUME NEW s \in Sends, SendStep(s) PROVE CountInv(t, p)'
  BY <1>1, SendCounts
<1>2. ASSUME \A s \in Sends : ~SendStep(s) PROVE Recorded(t, p)' = Recorded(t, p)
  BY <1>2, RecordedKept DEF SendStep
<1>3. CASE SendsKept /\ \A s \in Sends : ~SendStep(s)
  <2>1. UNCHANGED <<delivered, pressed>> /\ Recorded(t, p)' = Recorded(t, p)
    BY <1>2, <1>3 DEF SendsKept
  <2>2. calm' => calm
    BY <1>3 DEF SendsKept
  <2>3. /\ Under(t, p)' = Under(t, p) /\ Waiting(t, p)' = Waiting(t, p)
        /\ Answered(t, p)' = Answered(t, p) /\ Spare(t, p)' = Spare(t, p)
    BY <1>3 DEF SendsKept, Under, Waiting, Answered, Spare
  <2> QED BY <2>1, <2>2, <2>3 DEF CountInv
<1>4. CASE Reload /\ \A s \in Sends : ~SendStep(s)
  <2>1. UNCHANGED <<delivered, pressed>> /\ Recorded(t, p)' = Recorded(t, p)
    BY <1>2, <1>4 DEF Reload
  <2>2. ~calm'
    BY <1>4 DEF Reload, Fault
  <2>3. Under(t, p)' = {}
    <3>1. \A s \in Sends : sending'[s].text = 0
      BY <1>4 DEF Reload, NoSend
    <3>2. t # 0
      BY ClientAssumption DEF ClientAssumption
    <3> QED BY <3>1, <3>2 DEF Under
  <2>4. /\ Cardinality(Waiting(t, p)') = 0 /\ Cardinality(Answered(t, p)') = 0
        /\ Cardinality(Spare(t, p)') = 0
    BY <2>3, NoneUnderNext
  <2>5. delivered[<<t, p>>] \in Nat /\ pressed[<<t, p>>] \in Nat
    BY DEF Sound, ApiTypeOK, HistTyped
  <2>6. Cardinality(Recorded(t, p)) \in Nat
    BY FS_CardinalityType DEF CountInv
  <2>7. PICK a, w, r \in Nat : /\ a = Cardinality(Answered(t, p)) /\ w = Cardinality(Waiting(t, p))
                               /\ r = Cardinality(Spare(t, p))
    BY CountsFinite
  <2>8. /\ Cardinality(Recorded(t, p)) + a <= delivered[<<t, p>>]
        /\ delivered[<<t, p>>] + w + r <= 2 * pressed[<<t, p>>]
    BY <2>7 DEF CountInv
  <2> QED BY <2>1, <2>2, <2>4, <2>5, <2>6, <2>8 DEF CountInv
<1> QED BY <1>1, <1>3, <1>4, SendEffects

AllCounts == CalmInv /\ \A t \in Texts, p \in Peers : CountInv(t, p)

LEMMA InitCounts == Init => AllCounts
<1> SUFFICES ASSUME Init PROVE AllCounts
  OBVIOUS
<1>1. CalmInv
  BY FlowNames, IdleFields DEF Init, CalmInv
<1>2. ASSUME NEW t \in Texts, NEW p \in Peers PROVE CountInv(t, p)
  <2>1. Recorded(t, p) = {}
    BY DEF Init, Recorded, Places
  <2>2. Under(t, p) = {}
    <3>1. \A s \in Sends : sending[s].text = 0
      BY DEF Init, NoSend
    <3>2. t # 0
      BY ClientAssumption DEF ClientAssumption
    <3> QED BY <3>1, <3>2 DEF Under
  <2>3. IsFiniteSet(Recorded(t, p)) /\ Cardinality(Recorded(t, p)) = 0
    BY <2>1, FS_EmptySet
  <2>4. delivered[<<t, p>>] = 0 /\ pressed[<<t, p>>] = 0
    BY DEF Init, ApiInit
  <2> QED BY <2>2, <2>3, <2>4, NoneUnder DEF CountInv
<1> QED BY <1>1, <1>2 DEF AllCounts

LEMMA SpecCounts == Spec => [](Sound /\ AllCounts)
<1>1. Sound /\ AllCounts /\ [Next]_vars => AllCounts'
  <2> SUFFICES ASSUME Sound, AllCounts, [Next]_vars PROVE AllCounts'
    OBVIOUS
  <2>1. ASSUME NEW t \in Texts, NEW p \in Peers PROVE CountInv(t, p)'
    BY NextCounts DEF AllCounts
  <2>2. CalmInv'
    BY NextCalm DEF AllCounts
  <2> QED BY <2>1, <2>2 DEF AllCounts
<1> QED BY <1>1, InitCounts, InitSound, NextSound, PTL DEF Spec

\* What the page says it has sent was stored by a node, as often as it says so:
\* no failure, retry, reload or second press of Enter makes the record run ahead.
THEOREM StoredFirst == Spec => []RecordedWasStored
<1>1. ASSUME Sound, AllCounts, NEW t \in Texts, NEW p \in Peers
      PROVE  TimesRecorded(t, p) <= delivered[<<t, p>>]
  <2>1. TimesRecorded(t, p) = Cardinality(Recorded(t, p))
    BY DEF TimesRecorded, Recorded
  <2>2. CountInv(t, p)
    BY <1>1 DEF AllCounts
  <2>3. /\ Cardinality(Recorded(t, p)) \in Nat /\ Cardinality(Answered(t, p)) \in Nat
        /\ delivered[<<t, p>>] \in Nat
    BY <1>1, <2>2, CountsFinite, FS_CardinalityType DEF Sound, ApiTypeOK, CountInv
  <2>4. Cardinality(Recorded(t, p)) + Cardinality(Answered(t, p)) <= delivered[<<t, p>>]
    BY <2>2 DEF CountInv
  <2> QED BY <2>1, <2>3, <2>4
<1>2. Sound /\ AllCounts => RecordedWasStored
  BY <1>1 DEF RecordedWasStored
<1> QED BY <1>2, SpecCounts, PTL

\* A press of Enter comes to two stored copies at most, however its request and
\* its retry are lost, and to exactly one copy and one record when nothing failed.
THEOREM CopiesBounded == Spec => []CopiesPerPress
<1>1. ASSUME Sound, AllCounts, NEW t \in Texts, NEW p \in Peers
      PROVE  /\ delivered[<<t, p>>] <= 2 * pressed[<<t, p>>]
             /\ (calm /\ \A s \in Sends : req[s] = Idle) =>
                   /\ delivered[<<t, p>>] = pressed[<<t, p>>]
                   /\ TimesRecorded(t, p) = pressed[<<t, p>>]
  <2>1. TimesRecorded(t, p) = Cardinality(Recorded(t, p))
    BY DEF TimesRecorded, Recorded
  <2>2. CountInv(t, p)
    BY <1>1 DEF AllCounts
  <2>3. PICK w, r, R, D, P \in Nat :
           /\ w = Cardinality(Waiting(t, p)) /\ r = Cardinality(Spare(t, p))
           /\ R = Cardinality(Recorded(t, p)) /\ D = delivered[<<t, p>>] /\ P = pressed[<<t, p>>]
    <3>1. delivered[<<t, p>>] \in Nat /\ pressed[<<t, p>>] \in Nat
      BY <1>1 DEF Sound, ApiTypeOK, HistTyped
    <3>2. Cardinality(Recorded(t, p)) \in Nat
      BY <2>2, FS_CardinalityType DEF CountInv
    <3> QED BY <3>1, <3>2, CountsFinite
  <2>4. D + w + r <= 2 * P
    BY <2>2, <2>3 DEF CountInv
  <2>5. D <= 2 * P
    BY <2>4
  <2>6. ASSUME calm, \A s \in Sends : req[s] = Idle PROVE D = P /\ R = P
    <3>1. P = D + w /\ P = R + Cardinality(Under(t, p))
      BY <2>2, <2>3, <2>6 DEF CountInv
    <3>2. Under(t, p) = {}
      <4>1. \A s \in Sends : sending[s] = NoSend
        BY <1>1, <2>6, IdleFields DEF Sound, FlowOk, FlowInv, SendSound
      <4>2. NoSend.text = 0 /\ t # 0
        BY ClientAssumption DEF NoSend, ClientAssumption
      <4> QED BY <4>1, <4>2 DEF Under
    <3>3. w = 0 /\ Cardinality(Under(t, p)) = 0
      BY <2>3, <3>2, NoneUnder
    <3> QED BY <3>1, <3>3
  <2> QED BY <2>1, <2>3, <2>5, <2>6
<1>2. Sound /\ AllCounts => CopiesPerPress
  BY <1>1 DEF CopiesPerPress
<1> QED BY <1>2, SpecCounts, PTL

-----------------------------------------------------------------------------
(* The page implements the inbox: what its steps may do.                   *)

\* What a poll's answer carries is in the mailbox.
AnswerInv == \A i \in 1 .. Len(answer) : \E j \in 1 .. Len(mailbox) : mailbox[j] = answer[i]

\* The mailbox only grows at its end, and only a poll fills the answer.
LEMMA MailEffects ==
    ASSUME Sound, [Next]_vars
    PROVE  /\ Len(mailbox) <= Len(mailbox')
           /\ \A i \in 1 .. Len(mailbox) : mailbox'[i] = mailbox[i]
           /\ \/ answer' = answer
              \/ answer' = << >>
              \/ answer' = mailbox /\ mailbox' = mailbox
<1>0. mailbox \in Seq(Letter) /\ Len(mailbox) \in Nat
  BY DEF Sound, ApiTypeOK
<1>1. CASE Others
  <2>1. PICK p \in Peers : PeerPosts(p) \/ PeerRetries(p)
    BY <1>1 DEF Others
  <2>2. \E l : mailbox' = Append(mailbox, l)
    BY <2>1 DEF PeerPosts, PeerRetries
  <2>3. Len(mailbox') = Len(mailbox) + 1 /\ \A i \in 1 .. Len(mailbox) : mailbox'[i] = mailbox[i]
    BY <1>0, <2>2
  <2> QED BY <1>0, <1>1, <2>3 DEF Others, flowVars
<1>2. ASSUME NEW f \in Flows, Requesting(f)
      PROVE  mailbox' = mailbox /\ answer' \in {answer, mailbox, << >>}
  BY <1>2 DEF Requesting, Serve, ServeConnect, ServeChallenge, ServePoll, ServeMessage, Retry,
              FetchNewNode, apiVars
<1>3. ASSUME InitFlow \/ PollFlow \/ (\E s \in Sends : SendFlow(s)) \/ User \/ Network \/ UNCHANGED vars
      PROVE  mailbox' = mailbox /\ answer' \in {answer, mailbox, << >>}
  <2>1. CASE InitFlow
    BY <1>2, <2>1, FlowNames DEF InitFlow, InitWasm, LoadNodeUrl, StartPolling, apiVars
  <2>2. CASE PollFlow
    BY <1>2, <2>2, FlowNames
    DEF PollFlow, PollMessages, SignChallenge, ShowAnswer, PollFailed, PollOver, apiVars
  <2>3. ASSUME NEW s \in Sends, SendFlow(s)
        PROVE  mailbox' = mailbox /\ answer' \in {answer, mailbox, << >>}
    BY <1>2, <2>3, FlowNames DEF SendFlow, RecordSent, SendFailed, apiVars
  <2>4. CASE User
    BY <2>4 DEF User, TickTerms, AttemptCloseTermsModal, Reload, SendMessage, AddContact,
                SelectContact, TypeDraft, apiVars, flowVars
  <2>5. CASE Network
    BY <2>5 DEF Network, Fail, ChallengeLost, flowVars
  <2>6. CASE UNCHANGED vars
    BY <2>6 DEF vars, apiVars, flowVars
  <2> QED BY <1>3, <2>1, <2>2, <2>3, <2>4, <2>5, <2>6
<1> QED BY <1>0, <1>1, <1>3 DEF Next

LEMMA NextAnswer == Sound /\ AnswerInv /\ [Next]_vars => AnswerInv'
<1> SUFFICES ASSUME Sound, AnswerInv, [Next]_vars PROVE AnswerInv'
  OBVIOUS
<1>0. mailbox \in Seq(Letter) /\ Len(mailbox) \in Nat /\ Len(mailbox') \in Nat
  BY NextSound DEF Sound, ApiTypeOK
<1>1. \A j \in 1 .. Len(mailbox) : j \in 1 .. Len(mailbox') /\ mailbox'[j] = mailbox[j]
  BY <1>0, MailEffects
<1>2. CASE answer' = answer
  BY <1>1, <1>2 DEF AnswerInv
<1>3. CASE answer' = << >>
  BY <1>3 DEF AnswerInv
<1>4. CASE answer' = mailbox /\ mailbox' = mailbox
  BY <1>4 DEF AnswerInv
<1> QED BY <1>2, <1>3, <1>4, MailEffects

LEMMA OnePlaceNext == Sound' /\ ShownInv' => InOnePlace'
BY OnePlace, PTL

\* The step shows a letter that was not on display, and can be shown.
ShowsFirst(from, ts) ==
    /\ ShownAt(from, ts) = {} /\ \E x : ShownAt(from, ts)' = {x}
    /\ Contains(contacts', from)
    /\ \E j \in 1 .. Len(mailbox') : mailbox'[j].from = from /\ mailbox'[j].ts = ts

\* A letter is shown first by ShowAnswer, which found it in the mailbox, with a
\* contact for its sender.
LEMMA ShownStep ==
    ASSUME Sound, ShownInv, AnswerInv, [Next]_vars, NEW from \in Peers, NEW ts \in 0 .. MaxClock
    PROVE  ShownAt(from, ts)' = ShownAt(from, ts) \/ ShowsFirst(from, ts)
<1> DEFINE W == {e \in Entry : e.sender = "them" /\ e.peer = from /\ e.ts = ts}
<1>1. ShownAt(from, ts) = PlacesIn(W)
  BY EntriesTyped DEF ShownAt, PlacesIn
<1>2. ShownAt(from, ts)' = PlacesIn(W)'
  BY EntriesTypedNext DEF ShownAt, PlacesIn
<1>3. \A e \in W : e.sender = "them" /\ e.peer = from /\ e.ts = ts
  OBVIOUS
<1> HIDE DEF W
<1>4. \A x, y \in ShownAt(from, ts)' : x = y
  <2>1. Sound' /\ ShownInv'
    BY NextSound, NextShown
  <2> QED BY <2>1, OnePlaceNext DEF InOnePlace
<1>5. CASE PlacesIn(W)' \subseteq PlacesIn(W)
  <2>1. PlacesIn(W) \subseteq PlacesIn(W)'
    BY PlacesGrow
  <2>2. PlacesIn(W)' = PlacesIn(W)
    BY <1>5, <2>1
  <2>3. ShownAt(from, ts)' = ShownAt(from, ts)
    BY <1>1, <1>2, <2>2
  <2> QED BY <2>3
<1>6. ASSUME NEW x \in PlacesIn(W)', x \notin PlacesIn(W)
      PROVE  ShowsFirst(from, ts)
  <2>1. ShownAt(from, ts)' = {x}
    BY <1>2, <1>4, <1>6
  <2>2. ShownAt(from, ts) = {}
    <3>1. PlacesIn(W) \subseteq PlacesIn(W)'
      BY PlacesGrow
    <3>2. PlacesIn(W) \subseteq {x}
      BY <1>2, <2>1, <3>1
    <3> QED BY <1>1, <1>6, <3>2
  <2>3. PICK c, e : c = x[1] /\ e = EntryAt(x)'
    OBVIOUS
  <2>4. e \in W /\ Added(c, e) /\ c \in 1 .. Len(messages')
    BY <1>6, <2>3, PlacesGrow
  <2>5. e.sender = "them" /\ e.peer = from /\ e.ts = ts
    BY <1>3, <2>4
  <2>6. ~\E s \in Sends : e = SentEntry(s)
    BY <2>5 DEF SentEntry
  <2>7. ShowAnswer /\ \E i \in Pushed(contacts', c) : e.peer = answer[i].from /\ e.ts = answer[i].ts
    BY <2>4, <2>6 DEF Added
  <2>8. PICK i \in Pushed(contacts', c) : from = answer[i].from /\ ts = answer[i].ts
    BY <2>5, <2>7
  <2>9. i \in 1 .. Len(answer) /\ FindContact(contacts', from) = c
    BY <2>8 DEF Pushed
  <2>10. Contains(contacts', from)
    <3>1. contacts' \in Seq(Peers) /\ Len(messages') = Len(contacts')
      BY NextSound DEF Sound, PageTyped
    <3>2. c # 0 /\ c \in 1 .. Len(contacts')
      BY <2>4, <3>1
    <3>3. PICK l \in Seq(Peers) : l = contacts'
      BY <3>1
    <3>4. l[c] = from
      BY <2>9, <3>2, <3>3, FindFirst
    <3> QED BY <3>2, <3>3, <3>4 DEF Contains
  <2>11. PICK j \in 1 .. Len(mailbox) : mailbox[j] = answer[i]
    BY <2>9 DEF AnswerInv
  <2>12. mailbox' = mailbox
    BY <2>7 DEF ShowAnswer
  <2> QED BY <2>1, <2>2, <2>8, <2>10, <2>11, <2>12 DEF ShowsFirst
<1> QED BY <1>5, <1>6

\* Letters neither leave the mailbox nor become unreadable.
LEMMA MailGrows ==
    ASSUME Sound, [Next]_vars, NEW from \in Peers
    PROVE  /\ Contains(contacts, from) => Contains(contacts', from)
           /\ \A i \in 1 .. Len(mailbox) : i \in 1 .. Len(mailbox') /\ mailbox'[i] = mailbox[i]
<1>0. /\ contacts \in Seq(Peers) /\ contacts' \in Seq(Peers)
      /\ Len(mailbox) \in Nat /\ Len(mailbox') \in Nat
  BY NextSound DEF Sound, PageTyped, ApiTypeOK
<1>1. \A i \in 1 .. Len(mailbox) : i \in 1 .. Len(mailbox') /\ mailbox'[i] = mailbox[i]
  BY <1>0, MailEffects
<1>2. MoreContacts
  <2>1. CASE UNCHANGED <<contacts, messages>> \/ \E s \in Sends : RecordSent(s)
    BY <2>1, SameContacts DEF RecordSent
  <2>2. CASE ShowAnswer
    BY <1>0, <2>2, ShowContacts DEF Sound, AnswerTyped
  <2>3. ASSUME NEW p \in Peers, AddContact(p) PROVE MoreContacts
    BY <2>3, AddTyped DEF Sound
  <2> QED BY <2>1, <2>2, <2>3, PageEffects
<1>3. \A i \in 1 .. Len(contacts) : i \in 1 .. Len(contacts') /\ contacts'[i] = contacts[i]
  BY <1>0, <1>2 DEF MoreContacts
<1>4. Contains(contacts, from) => Contains(contacts', from)
  BY <1>3 DEF Contains
<1> QED BY <1>1, <1>4

\* The page takes the steps of the abstract inbox and no others: letters that
\* can be shown stay so, each is shown at most once, and only what has arrived
\* and can be shown appears.
THEOREM TakesInboxSteps == Spec => InboxSpec!Safety
<1> DEFINE mail  == {l \in InboxLetters : \E i \in 1 .. Len(mailbox) :
                       /\ mailbox[i].from = l.from /\ mailbox[i].ts = l.ts
                       /\ ~mailbox[i].sealed \/ Contains(contacts, l.from)}
           shown == [l \in InboxLetters |-> TimesShown(l.from, l.ts)]
<1>1. Init => InboxSpec!Init
  <2> SUFFICES ASSUME Init PROVE mail = {} /\ shown = [l \in InboxLetters |-> 0]
    BY DEF InboxSpec!Init
  <2>1. mail = {}
    BY DEF Init, ApiInit
  <2>2. ASSUME NEW l \in InboxLetters PROVE TimesShown(l.from, l.ts) = 0
    <3>1. Places = {}
      BY DEF Init, Places
    <3>2. TimesShown(l.from, l.ts) = Cardinality({})
      BY <3>1 DEF TimesShown
    <3> QED BY <3>2, FS_EmptySet
  <2> QED BY <2>1, <2>2
<1>2. Init => ShownInv /\ AnswerInv
  BY DEF Init, ShownInv, AnswerInv
<1>3. Sound /\ ShownInv /\ AnswerInv /\ [Next]_vars => InboxSpec!Step
  <2> SUFFICES ASSUME Sound, ShownInv, AnswerInv, [Next]_vars
               PROVE  /\ mail \subseteq mail' /\ mail' \subseteq InboxLetters
                      /\ \A l \in InboxLetters :
                            \/ shown'[l] = shown[l]
                            \/ l \in mail' /\ shown[l] = 0 /\ shown'[l] = 1
    BY DEF InboxSpec!Step
  <2>1. ASSUME NEW l \in mail PROVE l \in mail'
    <3>1. PICK i \in 1 .. Len(mailbox) :
             /\ mailbox[i].from = l.from /\ mailbox[i].ts = l.ts
             /\ ~mailbox[i].sealed \/ Contains(contacts, l.from)
      OBVIOUS
    <3>2. l \in InboxLetters /\ l.from \in Peers
      BY DEF InboxLetters
    <3>3. /\ i \in 1 .. Len(mailbox') /\ mailbox'[i] = mailbox[i]
          /\ Contains(contacts, l.from) => Contains(contacts', l.from)
      BY <3>2, MailGrows
    <3> QED BY <3>1, <3>2, <3>3
  <2>2. mail' \subseteq InboxLetters
    OBVIOUS
  <2>3. ASSUME NEW l \in InboxLetters
        PROVE  \/ shown'[l] = shown[l]
               \/ l \in mail' /\ shown[l] = 0 /\ shown'[l] = 1
    <3>1. l.from \in Peers /\ l.ts \in 0 .. MaxClock
      BY DEF InboxLetters
    <3>2. /\ shown[l] = Cardinality(ShownAt(l.from, l.ts))
          /\ shown'[l] = Cardinality(ShownAt(l.from, l.ts)')
      BY DEF TimesShown, ShownAt
    <3> HIDE DEF shown, mail
    <3>3. CASE ShownAt(l.from, l.ts)' = ShownAt(l.from, l.ts)
      BY <3>2, <3>3
    <3>4. CASE ShowsFirst(l.from, l.ts)
      <4>1. shown[l] = 0 /\ shown'[l] = 1
        BY <3>2, <3>4, FS_EmptySet, FS_Singleton DEF ShowsFirst
      <4>2. l \in mail'
        BY <3>4 DEF mail, ShowsFirst
      <4> QED BY <4>1, <4>2
    <3>5. ShownAt(l.from, l.ts)' = ShownAt(l.from, l.ts) \/ ShowsFirst(l.from, l.ts)
      BY <3>1, ShownStep
    <3> QED BY <3>3, <3>4, <3>5
  <2> QED BY <2>1, <2>2, <2>3
<1>4. Sound /\ ShownInv /\ AnswerInv /\ [Next]_vars => [InboxSpec!Step]_<<mail, shown>>
  BY <1>3
<1>5. Spec => [](Sound /\ ShownInv /\ AnswerInv)
  BY <1>2, InitSound, NextSound, NextShown, NextAnswer, PTL DEF Spec
<1> QED BY <1>1, <1>4, <1>5, PTL DEF Spec, InboxSpec!Safety

-----------------------------------------------------------------------------
(* A challenge is read with at most once.                                  *)

USE ApiAssumption, ClientAssumption DEF ApiAssumption, ClientAssumption

States == {"idle", "sent", "answered", "rejected", "failed", "switching"}

Paths == {"none", "connect", "challenge", "poll", "message"}

AnyRequest == [st : States, path : Paths, at : Nodes, retries : Int]

\* Requests go to nodes, and once the mailbox was opened with the nonce the
\* page holds, no node has that nonce any more.
ReadInv ==
    /\ node \in Nodes
    /\ req \in [Flows -> AnyRequest]
    /\ reads \in {0, 1}
    /\ reads = 1 => challenge = None

LEMMA IdleTyped == Idle \in AnyRequest
  BY DEF Idle, AnyRequest, States, Paths

LEMMA FetchTyped ==
    ASSUME NEW f \in Flows, NEW path \in Paths, NEW n \in Nodes, NEW r \in Int,
           req \in [Flows -> AnyRequest], Fetch(f, path, n, r)
    PROVE  req' \in [Flows -> AnyRequest]
<1>1. [st |-> "sent", path |-> path, at |-> n, retries |-> r] \in AnyRequest
  BY DEF AnyRequest, States
<1> QED BY <1>1 DEF Fetch

LEMMA MarkTyped ==
    ASSUME NEW f \in Flows, NEW st \in States,
           req \in [Flows -> AnyRequest], Mark(f, st)
    PROVE  req' \in [Flows -> AnyRequest]
<1>1. [req[f] EXCEPT !.st = st] \in AnyRequest
  <2>1. req[f] \in AnyRequest
    OBVIOUS
  <2> QED BY <2>1 DEF AnyRequest
<1> QED BY <1>1 DEF Mark

\* Serving, retrying and switching nodes keep the invariant.
LEMMA RequestingKeepsReadInv ==
    ASSUME NEW f \in Flows, ReadInv, Requesting(f)
    PROVE  ReadInv'
<1>1. CASE Serve(f)
  <2>1. UNCHANGED node
    BY <1>1 DEF Serve, pageVars
  <2>2. CASE ServeConnect(f)
    <3>1. req' \in [Flows -> AnyRequest]
      BY <2>2, MarkTyped DEF ServeConnect, ReadInv, States
    <3> QED BY <2>1, <2>2, <3>1 DEF ServeConnect, ReadInv, apiVars, histVars
  <2>3. CASE ServeChallenge(f)
    <3>1. req' \in [Flows -> AnyRequest]
      BY <2>3, MarkTyped DEF ServeChallenge, ReadInv, States
    <3> QED BY <2>1, <2>3, <3>1 DEF ServeChallenge, ReadInv
  <2>4. CASE ServePoll(f)
    <3>1. req' \in [Flows -> AnyRequest]
      BY <2>4, MarkTyped DEF ServePoll, ReadInv, States
    <3>2. req[f].at \in Nodes
      BY DEF ReadInv, AnyRequest
    <3>3. (reads \in {0, 1} /\ (reads = 1 => challenge = None))'
      <4>1. CASE AcceptPoll(req[f].at) /\ reads' = reads + 1
        BY <3>2, <4>1 DEF AcceptPoll, ReadInv
      <4>2. CASE RejectPoll(req[f].at) /\ UNCHANGED reads
        BY <4>2 DEF RejectPoll, ReadInv
      <4> QED BY <2>4, <4>1, <4>2 DEF ServePoll
    <3> QED BY <2>1, <3>1, <3>3 DEF ReadInv
  <2>5. CASE ServeMessage(f)
    <3>1. req' \in [Flows -> AnyRequest]
      BY <2>5, MarkTyped DEF ServeMessage, ReadInv, States
    <3> QED BY <2>1, <2>5, <3>1 DEF ServeMessage, ReadInv, histVars
  <2> QED BY <1>1, <2>2, <2>3, <2>4, <2>5 DEF Serve
<1>2. CASE Retry(f)
  <2>1. req' \in [Flows -> AnyRequest]
    BY <1>2, MarkTyped DEF Retry, ReadInv, States
  <2> QED BY <1>2, <2>1 DEF Retry, ReadInv, pageVars, apiVars, histVars
<1>3. CASE FetchNewNode(f)
  <2>1. PICK n \in Nodes : node' = n /\ Fetch(f, req[f].path, n, req[f].retries - 1)
    BY <1>3 DEF FetchNewNode
  <2>2. req[f].path \in Paths /\ req[f].retries - 1 \in Int
    BY DEF ReadInv, AnyRequest
  <2>3. req' \in [Flows -> AnyRequest]
    BY <2>1, <2>2, FetchTyped DEF ReadInv
  <2> QED BY <1>3, <2>1, <2>3 DEF FetchNewNode, ReadInv, apiVars, histVars
<1> QED BY <1>1, <1>2, <1>3 DEF Requesting

\* However a poll is retried, and whatever is lost, one challenge opens the
\* mailbox at most once.
THEOREM ChallengeOpensOnce == Spec => []ReadOnce
<1>1. Init => ReadInv
  BY IdleTyped DEF Init, ReadInv
<1>2. ReadInv /\ [Next]_vars => ReadInv'
  <2> SUFFICES ASSUME ReadInv, [Next]_vars PROVE ReadInv'
    OBVIOUS
  <2>a. "init" \in Flows /\ "poll" \in Flows /\ Sends \subseteq Flows
    BY DEF Flows
  <2>1. CASE InitFlow
    <3>1. CASE InitWasm
      <4>1. req' \in [Flows -> AnyRequest]
        BY <2>a, <3>1, FetchTyped DEF InitWasm, ReadInv, Paths
      <4> QED BY <3>1, <4>1 DEF InitWasm, ReadInv, apiVars, histVars
    <3>2. ASSUME NEW n \in Nodes, StartPolling(n) PROVE ReadInv'
      <4>0. [st |-> "sent", path |-> "challenge", at |-> n, retries |-> 1] \in AnyRequest
        BY DEF AnyRequest, States, Paths
      <4>1. req' \in [Flows -> AnyRequest]
        BY <2>a, <3>2, <4>0, IdleTyped DEF StartPolling, ReadInv
      <4> QED BY <3>2, <4>1 DEF StartPolling, ReadInv, apiVars, histVars
    <3>3. CASE LoadNodeUrl
      BY <3>2, <3>3 DEF LoadNodeUrl, ReadInv
    <3>4. CASE Requesting("init")
      BY <2>a, <3>4, RequestingKeepsReadInv
    <3> QED BY <2>1, <3>1, <3>3, <3>4 DEF InitFlow
  <2>2. CASE PollFlow
    <3>1. CASE PollMessages
      <4>1. req' \in [Flows -> AnyRequest]
        BY <2>a, <3>1, FetchTyped DEF PollMessages, ReadInv, Paths
      <4> QED BY <3>1, <4>1 DEF PollMessages, ReadInv, apiVars, histVars
    <3>2. CASE SignChallenge
      <4>1. req' \in [Flows -> AnyRequest]
        BY <2>a, <3>2, FetchTyped DEF SignChallenge, ReadInv, Paths
      <4> QED BY <3>2, <4>1 DEF SignChallenge, ReadInv, pageVars, apiVars, histVars
    <3>3. ASSUME PollOver, UNCHANGED node PROVE ReadInv'
      BY <2>a, <3>3, IdleTyped DEF PollOver, ReadInv
    <3>4. CASE ShowAnswer
      BY <3>3, <3>4 DEF ShowAnswer
    <3>5. CASE PollFailed
      BY <3>3, <3>5 DEF PollFailed
    <3>6. CASE Requesting("poll")
      BY <2>a, <3>6, RequestingKeepsReadInv
    <3> QED BY <2>2, <3>1, <3>2, <3>4, <3>5, <3>6 DEF PollFlow
  <2>3. ASSUME NEW s \in Sends, SendFlow(s) PROVE ReadInv'
    <3>1. ASSUME SendOver(s), UNCHANGED <<node, challenge, reads>> PROVE ReadInv'
      BY <2>a, <3>1, IdleTyped DEF SendOver, ReadInv
    <3>2. CASE RecordSent(s)
      BY <3>1, <3>2 DEF RecordSent, apiVars, histVars
    <3>3. CASE SendFailed(s)
      BY <3>1, <3>3 DEF SendFailed, pageVars, apiVars, histVars
    <3>4. CASE Requesting(s)
      BY <2>a, <3>4, RequestingKeepsReadInv
    <3> QED BY <2>3, <3>2, <3>3, <3>4 DEF SendFlow
  <2>4. CASE User
    <3>1. CASE TickTerms \/ AttemptCloseTermsModal
      BY <3>1 DEF TickTerms, AttemptCloseTermsModal, ReadInv, apiVars, flowVars, histVars
    <3>2. CASE Reload
      BY <3>2, IdleTyped DEF Reload, ReadInv
    <3>3. ASSUME NEW s \in Sends, SendMessage(s) PROVE ReadInv'
      <4>1. req' \in [Flows -> AnyRequest]
        BY <2>a, <3>3, FetchTyped DEF SendMessage, ReadInv, Paths
      <4> QED BY <3>3, <4>1 DEF SendMessage, ReadInv, apiVars, pageVars
    <3>4. ASSUME NEW p \in Peers, AddContact(p) PROVE ReadInv'
      BY <3>4 DEF AddContact, ReadInv, apiVars, flowVars
    <3>5. ASSUME NEW c \in 1 .. Len(contacts), SelectContact(c) PROVE ReadInv'
      BY <3>5 DEF SelectContact, ReadInv, apiVars, flowVars
    <3>6. ASSUME NEW t \in Texts, TypeDraft(t) PROVE ReadInv'
      BY <3>6 DEF TypeDraft, ReadInv, apiVars, flowVars, histVars
    <3> QED BY <2>4, <3>1, <3>2, <3>3, <3>4, <3>5, <3>6 DEF User
  <2>5. CASE Network
    <3>1. ASSUME NEW f \in Flows, Fail(f) PROVE ReadInv'
      <4>1. req' \in [Flows -> AnyRequest]
        BY <3>1, MarkTyped DEF Fail, ReadInv, States
      <4> QED BY <3>1, <4>1 DEF Fail, ReadInv, pageVars
    <3>2. ASSUME NEW n \in Nodes, ChallengeLost(n) PROVE ReadInv'
      BY <3>2 DEF ChallengeLost, ForgetChallenge, GetOtherChallenge, ReadInv, pageVars, flowVars
    <3> QED BY <2>5, <3>1, <3>2 DEF Network
  <2>6. CASE Others
    BY <2>6 DEF Others, PeerPosts, PeerRetries, ReadInv, pageVars, flowVars
  <2>7. CASE UNCHANGED vars
    BY <2>7 DEF vars, ReadInv, apiVars, pageVars, flowVars, histVars
  <2> QED BY <2>1, <2>2, <2>3, <2>4, <2>5, <2>6, <2>7 DEF Next
<1>3. ReadInv => ReadOnce
  BY DEF ReadInv, ReadOnce
<1> QED BY <1>1, <1>2, <1>3, PTL DEF Spec

=============================================================================
