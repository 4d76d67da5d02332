------------------------- MODULE MetricsPanel_proofs -------------------------
(***************************************************************************)
(* The canvas of the metrics dialog never holds a chart that nothing       *)
(* refers to, for any number of openings.                                  *)
(***************************************************************************)
EXTENDS MetricsPanel, TLAPS

USE MaxOpenAssumption DEF MaxOpenAssumption

\* Every variable of the dialog keeps its type, and there are no more pending
\* ticks and fetches than openings of the dialog.
THEOREM PanelTypeCorrect == Spec => []TypeOK
<1> DEFINE Flags   == open \in BOOLEAN /\ loaded \in BOOLEAN /\ spoilt \in BOOLEAN
           Numbers == /\ opened \in 0 .. MaxOpen
                      /\ ticks \in Nat /\ fetched \in Nat
                      /\ ticks + fetched <= opened
                      /\ inFlight \subseteq 1 .. fetched
                      /\ chart \in 0 .. fetched
                      /\ canvas \subseteq 1 .. fetched
<1>0. TypeOK <=> Flags /\ Numbers
  BY Zenon DEF TypeOK
<1>1. Init => Flags /\ Numbers
  <2>1. Init => Flags
    BY Zenon DEF Init
  <2>2. Init => Numbers
    BY DEF Init
  <2> QED BY <2>1, <2>2
<1>2. Flags /\ Numbers /\ [Next]_vars => (Flags /\ Numbers)'
  <2> SUFFICES ASSUME Flags, Numbers, [Next]_vars PROVE Flags' /\ Numbers'
    OBVIOUS
  <2>1. CASE OpenPanel
    <3>1. Flags'   BY <2>1, Zenon DEF OpenPanel
    <3>2. Numbers' BY <2>1 DEF OpenPanel
    <3> QED BY <3>1, <3>2
  <2>2. CASE RunTick
    <3>1. Flags'   BY <2>2, Zenon DEF RunTick
    <3>2. CASE loaded
      <4>1. ticks > 0 /\ ticks' = ticks - 1 /\ UNCHANGED <<opened, fetched, inFlight, chart, canvas>>
        BY <2>2, <3>2, Zenon DEF RunTick
      <4> QED BY <3>1, <4>1
    <3>3. CASE ~loaded
      <4>1. /\ ticks > 0 /\ ticks' = ticks - 1 /\ fetched' = fetched + 1
            /\ inFlight' = inFlight \cup {fetched + 1} /\ UNCHANGED <<opened, chart, canvas>>
        BY <2>2, <3>3, Zenon DEF RunTick
      <4> QED BY <3>1, <4>1
    <3> QED BY <3>2, <3>3
  <2>3. CASE ClosePanel
    <3>1. Flags'   BY <2>3, Zenon DEF ClosePanel
    <3>2. Numbers' BY <2>3 DEF ClosePanel, DropChart
    <3> QED BY <3>1, <3>2
  <2>4. ASSUME NEW i \in inFlight, FetchEnds(i) PROVE Flags' /\ Numbers'
    <3>1. Flags'   BY <2>4, Zenon DEF FetchEnds, FetchFails, FetchEmpty, FetchAnswers
    <3>2. CASE FetchFails(i)
      <4>1. Numbers' BY <3>2 DEF FetchFails
      <4> QED BY <3>1, <4>1
    <3>3. CASE FetchEmpty(i)
      <4>1. Numbers' BY <3>3 DEF FetchEmpty, DropChart
      <4> QED BY <3>1, <4>1
    <3>4. CASE FetchAnswers(i)
      <4>1. inFlight' \subseteq inFlight /\ UNCHANGED <<opened, ticks, fetched>>
        BY <3>4 DEF FetchAnswers
      <4>2. i \in 1 .. fetched
        OBVIOUS
      <4>3. \/ chart' = i /\ canvas' = {i}
            \/ chart' = chart /\ canvas' \subseteq canvas
        BY <3>4 DEF FetchAnswers, Redraw
      <4>4. chart' \in 0 .. fetched
        BY <4>2, <4>3
      <4>5. canvas' \subseteq 1 .. fetched
        <5>1. CASE canvas' = {i}
          BY <4>2, <5>1
        <5>2. CASE canvas' \subseteq canvas
          BY <5>2
        <5> QED BY <4>3, <5>1, <5>2
      <4>6. Numbers'
        BY <4>1, <4>4, <4>5
      <4> QED BY <3>1, <4>6
    <3> QED BY <2>4, <3>2, <3>3, <3>4 DEF FetchEnds
  <2>5. CASE UNCHANGED vars
    <3>1. Flags'   BY <2>5, Zenon DEF vars
    <3>2. Numbers' BY <2>5 DEF vars
    <3> QED BY <3>1, <3>2
  <2> QED BY <2>1, <2>2, <2>3, <2>4, <2>5 DEF Next
<1> QED BY <1>0, <1>1, <1>2, PTL DEF Spec

\* renderChart finds the canvas free whenever it draws, and closing the dialog
\* leaves it empty: the only chart there is the one metricsChart refers to.
THEOREM PanelKeepsOneChart == Spec => []OneChart
<1>1. Init => OneChart
  BY DEF Init, OneChart
<1>2. TypeOK /\ OneChart /\ [Next]_vars => OneChart'
  <2> SUFFICES ASSUME TypeOK, OneChart, [Next]_vars PROVE OneChart'
    OBVIOUS
  <2> USE DEF OneChart
  <2>1. CASE OpenPanel
    BY <2>1 DEF OpenPanel
  <2>2. CASE RunTick
    BY <2>2 DEF RunTick
  <2>3. CASE ClosePanel
    BY <2>3 DEF ClosePanel, DropChart
  <2>4. ASSUME NEW i \in inFlight, FetchEnds(i) PROVE OneChart'
    <3>1. CASE FetchFails(i)
      BY <3>1 DEF FetchFails
    <3>2. CASE FetchEmpty(i)
      BY <3>2 DEF FetchEmpty, DropChart
    <3>3. CASE FetchAnswers(i)
      <4>1. i # 0
        BY DEF TypeOK
      <4>2. canvas \ {chart} = {}
        OBVIOUS
      <4> QED BY <3>3, <4>1, <4>2 DEF FetchAnswers, Redraw
    <3> QED BY <2>4, <3>1, <3>2, <3>3 DEF FetchEnds
  <2>5. CASE UNCHANGED vars
    BY <2>5 DEF vars
  <2> QED BY <2>1, <2>2, <2>3, <2>4, <2>5 DEF Next
<1> QED BY <1>1, <1>2, PanelTypeCorrect, PTL DEF Spec

=============================================================================
