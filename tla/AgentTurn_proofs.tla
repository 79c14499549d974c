-------------------------- MODULE AgentTurn_proofs --------------------------
(***************************************************************************)
(* AgentTurn keeps its types, bounds how far a session's meter runs past   *)
(* its ceiling, and accounts for every charge: the ledger and what is not  *)
(* in it add up to the bill.  For any number of senders, any catalog, any  *)
(* prices and any limits.                                                  *)
(***************************************************************************)
EXTENDS AgentTurn, FiniteSetTheorems, WellFoundedInduction, TLAPS

(* A product is monotone in both factors. *)
LEMMA ProductGrows ==
  ASSUME NEW a \in Nat, NEW b \in Nat, NEW c \in Nat, NEW d \in Nat, a <= b, c <= d
  PROVE  a * c <= b * d
<1>1. PICK x \in Nat : b = a + x
  <2>1. b - a \in Nat /\ b = a + (b - a)  OBVIOUS
  <2>2. QED  BY <2>1
<1>2. PICK y \in Nat : d = c + y
  <2>1. d - c \in Nat /\ d = c + (d - c)  OBVIOUS
  <2>2. QED  BY <2>1
<1>3. b * d = a * c + a * y + x * c + x * y  BY <1>1, <1>2
<1>4. a * c \in Nat /\ a * y \in Nat /\ x * c \in Nat /\ x * y \in Nat  BY <1>1, <1>2
<1>5. QED  BY <1>3, <1>4

(* The types AgentTurn's variables keep, and the two facts about a turn's   *)
(* counters: its usage is bounded by its steps, and its steps by stopWhen.  *)
THEOREM TypeCorrect == Spec => []TypeOK
<1> USE AgentAssumption
<1>1. Init => TypeOK
  <2> SUFFICES ASSUME Init PROVE TypeOK  OBVIOUS
  <2>1. \A s \in Senders : tokens[s] = 0 /\ steps[s] = 0 /\ pc[s] = "unsent" /\ lost[s] = 0
    BY DEF Init
  <2>2. 0 <= 0 * MaxTokens  OBVIOUS
  <2>3. /\ pc \in [Senders -> Underway \cup Verdicts \cup {"unsent"}]
        /\ alias \in [Senders -> Aliases] /\ steps \in [Senders -> 0..MaxSteps]
        /\ tokens \in [Senders -> Nat] /\ lost \in [Senders -> Nat]
    BY DEF Init
  <2>4. QED  BY <2>1, <2>2, <2>3 DEF Init, TypeOK
<1>2. TypeOK /\ [Next]_vars => TypeOK'
  <2> SUFFICES ASSUME TypeOK, [Next]_vars PROVE TypeOK'  OBVIOUS
  <2> USE DEF TypeOK, Underway, Verdicts, Active
  <2>1. ASSUME NEW s \in Senders, NEW a \in Aliases, Send(s, a) PROVE TypeOK'
    <3>1. pc' \in [Senders -> Underway \cup Verdicts \cup {"unsent"}]  BY <2>1 DEF Send
    <3>2. \A r \in Senders : pc'[r] \in {"preparing", "asking"} => steps'[r] < MaxSteps
      BY <2>1 DEF Send, Active
    <3>3. QED  BY <2>1, <3>1, <3>2 DEF Send, billVars
  <2>2. \A s \in Senders : Unrecorded(s) \in Nat
    BY DEF Unrecorded
  <2>3. ASSUME NEW s \in Senders, PrepareStep(s) PROVE TypeOK'
    BY <2>2, <2>3 DEF PrepareStep, End, Loses, meterVars
  <2>4. ASSUME NEW s \in Senders, NEW used \in 0..MaxTokens, NEW calls \in BOOLEAN,
               StepFinished(s, used, calls)
        PROVE  TypeOK'
    <3>1. used * Rate[alias[s]] \in Nat  OBVIOUS
    <3>2. steps[s] + 1 \in 0..MaxSteps  BY <2>4 DEF StepFinished
    <3>3. tokens[s] + used <= (steps[s] + 1) * MaxTokens
      <4>1. (steps[s] + 1) * MaxTokens = steps[s] * MaxTokens + MaxTokens  OBVIOUS
      <4>2. steps[s] * MaxTokens \in Nat  OBVIOUS
      <4>3. QED  BY <4>1, <4>2
    <3>4. QED  BY <2>4, <3>1, <3>2, <3>3 DEF StepFinished, meterVars
  <2>5. ASSUME NEW s \in Senders, Progress(s), ToolsDone(s) PROVE TypeOK'
    <3>1. /\ run' \in Nat /\ session' \in Nat /\ ledger' \in Nat
          /\ billed' \in Nat /\ imageBilled' \in Nat /\ lost' \in [Senders -> Nat]
      BY <2>5 DEF Progress, PrepareStep, StepFinished, ToolsReturn, ScoutsReturn, ScoutReportFails,
                  ImageReturns, Complete, ToolsDone, Record, Loses, meterVars
    <3>2. QED  BY <2>5, <3>1 DEF ToolsDone
  <2>6. ASSUME NEW s \in Senders, Complete(s) PROVE TypeOK'
    <3>1. tokens[s] * Rate[currentAlias] \in Nat  OBVIOUS
    <3>2. QED  BY <2>6, <3>1 DEF Complete, Record, End
  <2>7. ASSUME NEW s \in Senders, Fail(s) PROVE TypeOK'
    BY <2>2, <2>7 DEF Fail, End, Loses, meterVars
  <2>8. CASE Restart
    BY <2>2, <2>8 DEF Restart
  <2>9. CASE UNCHANGED vars
    BY <2>9 DEF vars, turnVars, meterVars, billVars
  <2>10. QED
    BY <2>1, <2>3, <2>4, <2>5, <2>6, <2>7, <2>8, <2>9
    DEF Next, Progress, ToolsReturn, ScoutsReturn, ScoutReportFails, ImageReturns
<1>3. QED  BY <1>1, <1>2, PTL DEF Spec

-----------------------------------------------------------------------------
(* What the turns under way may still record: those past the check and not *)
(* yet through their tools, then those only waiting for their usage.        *)
Exposed == {s \in Senders : pc[s] \in {"asking", "calling"}}
Closing == {s \in Senders : pc[s] = "ending"}
Exposure == Cardinality(Exposed) * LateCost + Cardinality(Closing) * TurnCeiling
Share(state) == IF state \in {"asking", "calling"} THEN LateCost
                ELSE IF state = "ending" THEN TurnCeiling ELSE 0

(* Each of them was let through while the meter was below its ceiling. *)
Headroom == session + Exposure < PerSession + Cardinality(Senders) * LateCost

(* The two ceilings are natural numbers. *)
LEMMA CeilingTypes == TurnCeiling \in Nat /\ LateCost \in Nat /\ LateCost = TurnCeiling + MaxSideCost
<1>1. MaxSteps * MaxTokens \in Nat  BY AgentAssumption
<1>2. MaxSteps * MaxTokens * MaxRate \in Nat  BY <1>1, AgentAssumption
<1>3. QED  BY <1>2, AgentAssumption DEF TurnCeiling, LateCost

(* The two sets of senders are finite, and no sender is in both. *)
LEMMA Sizes ==
  /\ IsFiniteSet(Exposed) /\ IsFiniteSet(Closing)
  /\ Cardinality(Exposed) \in Nat /\ Cardinality(Closing) \in Nat
  /\ Cardinality(Senders) \in Nat
  /\ Cardinality(Exposed) + Cardinality(Closing) <= Cardinality(Senders)
<1>1. Exposed \subseteq Senders /\ Closing \subseteq Senders /\ Exposed \cap Closing = {}
  BY DEF Exposed, Closing
<1>2. IsFiniteSet(Senders)  BY AgentAssumption
<1>3. IsFiniteSet(Exposed) /\ IsFiniteSet(Closing)  BY <1>1, <1>2, FS_Subset
<1>4. Cardinality(Exposed) \in Nat /\ Cardinality(Closing) \in Nat /\ Cardinality(Senders) \in Nat
  BY <1>2, <1>3, FS_CardinalityType
<1>5. Cardinality(Exposed \cup Closing) = Cardinality(Exposed) + Cardinality(Closing)
  <2>1. Cardinality(Exposed \cup Closing)
          = Cardinality(Exposed) + Cardinality(Closing) - Cardinality(Exposed \cap Closing)
    BY <1>3, FS_Union
  <2>2. Cardinality(Exposed \cap Closing) = 0  BY <1>1, FS_EmptySet
  <2>3. QED  BY <1>4, <2>1, <2>2
<1>6. Cardinality(Exposed \cup Closing) <= Cardinality(Senders)
  <2>1. Exposed \cup Closing \subseteq Senders  BY <1>1
  <2>2. QED  BY <1>2, <2>1, FS_Subset
<1>7. QED  BY <1>3, <1>4, <1>5, <1>6

(* What a finite set weighs, at c apiece, when one element joins or leaves. *)
LEMMA Toggle ==
  ASSUME NEW S, NEW T, IsFiniteSet(S), NEW x, NEW c \in Nat,
         NEW in \in BOOLEAN, in => T = S \cup {x}, ~in => T = S \ {x}
  PROVE  Cardinality(T) * c = Cardinality(S) * c - (IF x \in S THEN c ELSE 0) + (IF in THEN c ELSE 0)
<1>1. Cardinality(S) \in Nat  BY FS_CardinalityType
<1>2. CASE x \in S /\ in
  <2>1. T = S  BY <1>2
  <2>2. Cardinality(S) * c \in Nat  BY <1>1
  <2>3. QED  BY <1>2, <2>1, <2>2
<1>3. CASE x \notin S /\ ~in
  <2>1. T = S  BY <1>3
  <2>2. Cardinality(S) * c \in Nat  BY <1>1
  <2>3. QED  BY <1>3, <2>1, <2>2
<1>4. CASE x \notin S /\ in
  <2>1. Cardinality(T) = Cardinality(S) + 1  BY <1>4, FS_AddElement
  <2>2. (Cardinality(S) + 1) * c = Cardinality(S) * c + c /\ Cardinality(S) * c \in Nat  BY <1>1
  <2>3. QED  BY <1>4, <2>1, <2>2
<1>5. CASE x \in S /\ ~in
  <2>1. Cardinality(T) = Cardinality(S) - 1  BY <1>5, FS_RemoveElement
  <2>2. (Cardinality(S) - 1) * c = Cardinality(S) * c - c /\ Cardinality(S) * c \in Nat  BY <1>1
  <2>3. QED  BY <1>5, <2>1, <2>2
<1>6. QED  BY <1>2, <1>3, <1>4, <1>5

(* Moving one turn to another state moves its share, and nobody else's. *)
LEMMA ShareMoves ==
  ASSUME TypeOK, NEW s \in Senders, NEW state, pc' = [pc EXCEPT ![s] = state]
  PROVE  Exposure' = Exposure - Share(pc[s]) + Share(state) /\ Exposure \in Nat
<1> DEFINE exposed == state \in {"asking", "calling"}
           closing == state = "ending"
<1>1. Exposed' = IF exposed THEN Exposed \cup {s} ELSE Exposed \ {s}
  BY DEF Exposed, TypeOK
<1>2. Closing' = IF closing THEN Closing \cup {s} ELSE Closing \ {s}
  BY DEF Closing, TypeOK
<1>3. Cardinality(Exposed') * LateCost
        = Cardinality(Exposed) * LateCost - (IF s \in Exposed THEN LateCost ELSE 0)
          + (IF exposed THEN LateCost ELSE 0)
  <2>1. exposed \in BOOLEAN  OBVIOUS
  <2> HIDE DEF exposed
  <2>2. (exposed => Exposed' = Exposed \cup {s}) /\ (~exposed => Exposed' = Exposed \ {s})  BY <1>1
  <2>3. IsFiniteSet(Exposed) /\ LateCost \in Nat  BY Sizes, CeilingTypes
  <2>4. QED  BY <2>1, <2>2, <2>3, Toggle
<1>4. Cardinality(Closing') * TurnCeiling
        = Cardinality(Closing) * TurnCeiling - (IF s \in Closing THEN TurnCeiling ELSE 0)
          + (IF closing THEN TurnCeiling ELSE 0)
  <2>1. closing \in BOOLEAN  OBVIOUS
  <2> HIDE DEF closing
  <2>2. (closing => Closing' = Closing \cup {s}) /\ (~closing => Closing' = Closing \ {s})  BY <1>2
  <2>3. IsFiniteSet(Closing) /\ TurnCeiling \in Nat  BY Sizes, CeilingTypes
  <2>4. QED  BY <2>1, <2>2, <2>3, Toggle
<1>5. /\ Cardinality(Exposed) * LateCost \in Nat
      /\ Cardinality(Closing) * TurnCeiling \in Nat
  BY Sizes, CeilingTypes
<1>6. Share(pc[s]) = (IF s \in Exposed THEN LateCost ELSE 0) + (IF s \in Closing THEN TurnCeiling ELSE 0)
  BY CeilingTypes DEF Share, Exposed, Closing
<1>7. Share(state) = (IF exposed THEN LateCost ELSE 0) + (IF closing THEN TurnCeiling ELSE 0)
  BY CeilingTypes DEF Share
<1>8. LateCost' = LateCost /\ TurnCeiling' = TurnCeiling  BY DEF LateCost, TurnCeiling
<1> HIDE DEF exposed, closing
<1>9. QED  BY <1>3, <1>4, <1>5, <1>6, <1>7, <1>8, CeilingTypes DEF Exposure

(* A turn's usage costs at most TurnCeiling, at anybody's rate. *)
LEMMA UsageBounded ==
  ASSUME TypeOK, NEW s \in Senders, NEW a \in Aliases
  PROVE  tokens[s] * Rate[a] \in Nat /\ tokens[s] * Rate[a] <= TurnCeiling
<1> USE AgentAssumption
<1>1. steps[s] \in Nat /\ steps[s] <= MaxSteps /\ tokens[s] \in Nat /\ tokens[s] <= steps[s] * MaxTokens
  BY DEF TypeOK
<1>2. steps[s] * MaxTokens <= MaxSteps * MaxTokens  BY <1>1, ProductGrows
<1>3. steps[s] * MaxTokens \in Nat /\ MaxSteps * MaxTokens \in Nat  BY <1>1
<1>4. tokens[s] <= MaxSteps * MaxTokens  BY <1>1, <1>2, <1>3
<1>5. Rate[a] \in Nat /\ Rate[a] <= MaxRate  OBVIOUS
<1>6. tokens[s] * Rate[a] <= (MaxSteps * MaxTokens) * MaxRate  BY <1>1, <1>3, <1>4, <1>5, ProductGrows
<1>7. QED  BY <1>1, <1>5, <1>6 DEF TurnCeiling

(* What the senders may still record is a natural number. *)
LEMMA ExposureIsNat == Exposure \in Nat /\ Cardinality(Senders) * LateCost \in Nat
  BY Sizes, CeilingTypes DEF Exposure

(* Whatever the senders do, their shares fit under one LateCost each. *)
LEMMA ExposureFits == Exposure <= Cardinality(Senders) * LateCost
<1> DEFINE e == Cardinality(Exposed)  c == Cardinality(Closing)  n == Cardinality(Senders)
<1>1. e \in Nat /\ c \in Nat /\ n \in Nat /\ e + c <= n  BY Sizes
<1>2. LateCost \in Nat /\ TurnCeiling \in Nat /\ TurnCeiling <= LateCost
  BY CeilingTypes, AgentAssumption
<1> HIDE DEF e, c, n
<1>3. c * TurnCeiling <= c * LateCost  BY <1>1, <1>2, ProductGrows
<1>4. (e + c) * LateCost <= n * LateCost
  <2>1. e + c \in Nat /\ LateCost <= LateCost  BY <1>1, <1>2
  <2>2. QED  BY <1>1, <1>2, <2>1, ProductGrows
<1>5. (e + c) * LateCost = e * LateCost + c * LateCost  BY <1>1, <1>2
<1>6. /\ e * LateCost \in Nat /\ c * LateCost \in Nat /\ c * TurnCeiling \in Nat
      /\ n * LateCost \in Nat
  BY <1>1, <1>2
<1>7. e * LateCost + c * TurnCeiling <= n * LateCost  BY <1>3, <1>4, <1>5, <1>6
<1>8. QED  BY <1>7 DEF Exposure, e, c, n

(* A step that records no more than the share its turn gives up keeps the   *)
(* headroom.                                                                *)
LEMMA HeadroomKept ==
  ASSUME TypeOK, Headroom, NEW s \in Senders, NEW state, pc' = [pc EXCEPT ![s] = state],
         NEW paid \in Nat, session' = session + paid, paid + Share(state) <= Share(pc[s])
  PROVE  Headroom'
<1>1. Exposure' = Exposure - Share(pc[s]) + Share(state) /\ Exposure \in Nat  BY ShareMoves
<1>2. Share(state) \in Nat /\ Share(pc[s]) \in Nat  BY CeilingTypes DEF Share
<1>3. session \in Nat  BY DEF TypeOK
<1>4. LateCost' = LateCost  BY DEF LateCost, TurnCeiling
<1>5. Cardinality(Senders) * LateCost \in Nat /\ PerSession \in Nat
  BY Sizes, CeilingTypes, AgentAssumption
<1>6. QED  BY <1>1, <1>2, <1>3, <1>4, <1>5 DEF Headroom

(* However many turns run at once, a session's meter ends less than one     *)
(* LateCost per sender past perSessionUsd.                                  *)
THEOREM OvershootIsBounded == Spec => []OvershootBounded
<1>1. Init => Headroom
  <2> SUFFICES ASSUME Init PROVE Headroom  OBVIOUS
  <2>1. Exposure <= Cardinality(Senders) * LateCost  BY ExposureFits
  <2>2. QED  BY <2>1, ExposureIsNat, AgentAssumption DEF Init, Headroom
<1>2. TypeOK /\ TypeOK' /\ Headroom /\ [Next]_vars => Headroom'
  <2> SUFFICES ASSUME TypeOK, TypeOK', Headroom, [Next]_vars PROVE Headroom'  OBVIOUS
  <2> USE AgentAssumption
  <2>1. session \in Nat /\ session = session + 0  BY DEF TypeOK
  <2>2. TurnCeiling \in Nat /\ LateCost \in Nat /\ LateCost = TurnCeiling + MaxSideCost
    BY CeilingTypes
  <2>3. ASSUME NEW s \in Senders, NEW a \in Aliases, Send(s, a) PROVE Headroom'
    <3>1. PICK state \in {"preparing", "budget_exceeded", "error"} : pc' = [pc EXCEPT ![s] = state]
      BY <2>3 DEF Send
    <3>2. 0 + Share(state) <= Share(pc[s])
      BY <2>3, <3>1 DEF Send, Active, Underway, Share
    <3>3. session' = session + 0  BY <2>1, <2>3 DEF Send
    <3>4. QED  BY <3>1, <3>2, <3>3, HeadroomKept
  <2>4. ASSUME session < PerSession, UNCHANGED session PROVE Headroom'
    <3>1. /\ (Exposure <= Cardinality(Senders) * LateCost)'
          /\ (Exposure \in Nat /\ Cardinality(Senders) * LateCost \in Nat)'
      BY ExposureFits, ExposureIsNat, PTL
    <3>2. QED  BY <2>1, <2>4, <3>1 DEF Headroom
  <2>5. ASSUME NEW s \in Senders, PrepareStep(s) PROVE Headroom'
    <3>1. CASE CanProceed(run)
      BY <2>4, <2>5, <3>1 DEF PrepareStep, CanProceed, meterVars
    <3>2. CASE ~CanProceed(run)
      <4>1. pc' = [pc EXCEPT ![s] = "budget_exceeded"] /\ session' = session + 0
        BY <2>1, <2>5, <3>2 DEF PrepareStep, End, meterVars
      <4>2. 0 + Share("budget_exceeded") <= Share(pc[s])  BY <2>5 DEF PrepareStep, Share
      <4>3. QED  BY <4>1, <4>2, HeadroomKept
    <3>3. QED  BY <3>1, <3>2
  <2>6. ASSUME NEW s \in Senders, NEW used \in 0..MaxTokens, NEW calls \in BOOLEAN,
               StepFinished(s, used, calls)
        PROVE  Headroom'
    <3>1. PICK state \in {"calling", "ending"} : pc' = [pc EXCEPT ![s] = state]
      BY <2>6 DEF StepFinished
    <3>2. session' = session + 0  BY <2>1, <2>6 DEF StepFinished, meterVars
    <3>3. 0 + Share(state) <= Share(pc[s])  BY <2>2, <2>6 DEF StepFinished, Share
    <3>4. QED  BY <3>1, <3>2, <3>3, HeadroomKept
  <2>7. ASSUME NEW s \in Senders, ToolsDone(s), NEW cost \in 0..MaxSideCost, session' = session + cost
        PROVE  Headroom'
    <3>1. PICK state \in {"preparing", "ending"} : pc' = [pc EXCEPT ![s] = state]
      BY <2>7 DEF ToolsDone
    <3>2. cost + Share(state) <= Share(pc[s])  BY <2>2, <2>7 DEF ToolsDone, Share
    <3>3. cost \in Nat  OBVIOUS
    <3>4. QED  BY <2>7, <3>1, <3>2, <3>3, HeadroomKept
  <2>8. ASSUME NEW s \in Senders, Complete(s) PROVE Headroom'
    <3> DEFINE cost == tokens[s] * Rate[currentAlias]
    <3>1. cost \in Nat /\ cost <= TurnCeiling  BY UsageBounded DEF TypeOK
    <3>2. pc' = [pc EXCEPT ![s] = "complete"] /\ session' = session + cost /\ pc[s] = "ending"
      BY <2>8 DEF Complete, End, Record
    <3> HIDE DEF cost
    <3>3. cost + Share("complete") <= Share(pc[s])  BY <2>2, <3>1, <3>2 DEF Share
    <3>4. QED  BY <3>1, <3>2, <3>3, HeadroomKept
  <2>9. ASSUME NEW s \in Senders, Fail(s) PROVE Headroom'
    <3>1. pc' = [pc EXCEPT ![s] = "error"] /\ session' = session + 0
      BY <2>1, <2>9 DEF Fail, End, meterVars
    <3>2. 0 + Share("error") <= Share(pc[s])  BY <2>2 DEF Share
    <3>3. QED  BY <3>1, <3>2, HeadroomKept
  <2>10. CASE Restart
    <3>1. Exposed' = {} /\ Closing' = {}  BY <2>10 DEF Restart, Exposed, Closing
    <3>2. Exposure' = 0  BY <2>2, <3>1, FS_EmptySet DEF Exposure, LateCost, TurnCeiling
    <3>3. session' = 0  BY <2>10 DEF Restart
    <3>4. Cardinality(Senders) * LateCost \in Nat /\ LateCost' = LateCost
      BY <2>2, Sizes DEF LateCost, TurnCeiling
    <3>5. QED  BY <3>2, <3>3, <3>4 DEF Headroom
  <2>11. CASE UNCHANGED vars
    BY <2>11 DEF vars, turnVars, meterVars, Headroom, Exposure, Exposed, Closing, LateCost, TurnCeiling
  <2>12. ASSUME NEW s \in Senders, Progress(s) PROVE Headroom'
    <3>1. ASSUME NEW cost \in 1..MaxSideCost, ScoutsReturn(s, cost) PROVE Headroom'
      BY <2>7, <3>1 DEF ScoutsReturn, Record
    <3>2. ASSUME ToolsDone(s), UNCHANGED session PROVE Headroom'
      BY <2>1, <2>7, <3>2
    <3>3. QED
      BY <2>5, <2>6, <2>8, <2>12, <3>1, <3>2
      DEF Progress, ToolsReturn, ScoutReportFails, ImageReturns, meterVars
  <2>13. QED  BY <2>3, <2>9, <2>10, <2>11, <2>12 DEF Next
<1>3. TypeOK /\ Headroom => OvershootBounded
  BY ExposureIsNat, AgentAssumption DEF TypeOK, Headroom, OvershootBounded
<1>4. QED  BY TypeCorrect, <1>1, <1>2, <1>3, PTL DEF Spec

-----------------------------------------------------------------------------
(***************************************************************************)
(* Sums.  SumFunction adds along a recursive function on the subsets of    *)
(* its indices (Table); that one exists, and so a sum moves by what one of *)
(* its terms moves.                                                        *)
(***************************************************************************)
NatOrder == {ss \in Nat \X Nat : ss[1] < ss[2]}

(* The library's fact, about a relation the provers can name.               *)
LEMMA NatOrderWellFounded == IsWellFoundedOn(NatOrder, Nat)
BY NatLessThanWellFounded DEF OpToRel, NatOrder

(* A nonempty set of numbers has a least one.                               *)
LEMMA Least ==
  ASSUME NEW B \in SUBSET Nat, B # {}
  PROVE  \E d \in B : \A e \in B : d <= e
<1>1. PICK d \in B : \A e \in B : ~(<<e, d>> \in NatOrder)
  BY NatOrderWellFounded, WFMin
<1>2. \A e \in B : ~(e < d)
  BY <1>1 DEF NatOrder
<1> QED BY <1>2

Pick(T) == CHOOSE x \in T : TRUE
Entry(f, g, T) == IF T = {} THEN 0 ELSE f[Pick(T)] + g[T \ {Pick(T)}]
Table(f, S) == CHOOSE g : g = [T \in SUBSET S |-> Entry(f, g, T)]
UpTo(n, f, S) ==
  \E g \in [SUBSET S -> Nat] : \A T \in SUBSET S : Cardinality(T) <= n => g[T] = Entry(f, g, T)

(* What the library's sum is, said with them.                               *)
LEMMA SumIsEntry == ASSUME NEW f, NEW S PROVE SumFunctionOnSet(f, S) = Table(f, S)[S]
BY DEF SumFunctionOnSet, FoldFunctionOnSet, MapThenFoldSet, Table, Entry, Pick

(* What is left of a nonempty subset when its pick is taken out.            *)
LEMMA Taking ==
  ASSUME NEW S, IsFiniteSet(S), NEW T \in SUBSET S
  PROVE  /\ Cardinality(T) \in Nat /\ Cardinality(T) <= Cardinality(S)
         /\ Cardinality(T) = 0 <=> T = {}
         /\ T # {} => /\ Pick(T) \in T /\ Pick(T) \in S
                      /\ T \ {Pick(T)} \in SUBSET S
                      /\ Cardinality(T \ {Pick(T)}) = Cardinality(T) - 1
                      /\ ~(Cardinality(T) <= Cardinality(T \ {Pick(T)}))
<1>1. IsFiniteSet(T) /\ Cardinality(T) <= Cardinality(S)
  BY FS_Subset
<1>2. T # {} => Pick(T) \in T
  BY DEF Pick
<1>3. Cardinality(T) \in Nat /\ (Cardinality(T) = 0 <=> T = {})
  BY <1>1, FS_CardinalityType, FS_EmptySet
<1>4. ASSUME T # {} PROVE Cardinality(T \ {Pick(T)}) = Cardinality(T) - 1
  BY <1>1, <1>2, <1>4, FS_RemoveElement
<1>5. T # {} => ~(Cardinality(T) <= Cardinality(T \ {Pick(T)}))
  BY <1>3, <1>4
<1> QED BY <1>1, <1>2, <1>3, <1>4, <1>5

(* Among the subsets with a property there is a smallest.                   *)
LEMMA Smallest ==
  ASSUME NEW S, IsFiniteSet(S), NEW B \in SUBSET (SUBSET S), B # {}
  PROVE  \E T \in B : \A U \in B : Cardinality(T) <= Cardinality(U)
<1> DEFINE sizes == {Cardinality(T) : T \in B}
<1>1. sizes \in SUBSET Nat /\ sizes # {}
  <2>1. \A T \in B : Cardinality(T) \in Nat
    BY Taking
  <2> QED BY <2>1
<1>2. PICK d \in sizes : \A e \in sizes : d <= e
  <2> HIDE DEF sizes
  <2> QED BY <1>1, Least
<1> QED BY <1>2

(* An entry is a number when what it adds to is.                            *)
LEMMA EntryIsNat ==
  ASSUME NEW S, IsFiniteSet(S), NEW f \in [S -> Nat], NEW g \in [SUBSET S -> Nat], NEW T \in SUBSET S
  PROVE  Entry(f, g, T) \in Nat
<1>1. CASE T = {}
  BY <1>1 DEF Entry
<1>2. CASE T # {}
  <2>1. Pick(T) \in S /\ T \ {Pick(T)} \in SUBSET S
    BY <1>2, Taking
  <2>2. f[Pick(T)] \in Nat /\ g[T \ {Pick(T)}] \in Nat
    BY <2>1
  <2> QED BY <1>2, <2>2 DEF Entry
<1> QED BY <1>1, <1>2

(* A function right up to size n can be made right up to size n + 1.        *)
LEMMA UpToGrows ==
  ASSUME NEW S, IsFiniteSet(S), NEW f \in [S -> Nat], NEW n \in Nat, UpTo(n, f, S)
  PROVE  UpTo(n + 1, f, S)
<1>1. PICK g \in [SUBSET S -> Nat] : \A T \in SUBSET S : Cardinality(T) <= n => g[T] = Entry(f, g, T)
  BY DEF UpTo
<1> DEFINE h == [T \in SUBSET S |-> IF Cardinality(T) <= n THEN g[T] ELSE Entry(f, g, T)]
<1>2. \A T \in SUBSET S : Entry(f, g, T) \in Nat
  BY EntryIsNat
<1>3. h \in [SUBSET S -> Nat]
  BY <1>2
<1>4. \A T \in SUBSET S : h[T] = Entry(f, g, T)
  BY <1>1
<1>5. \A T \in SUBSET S : Cardinality(T) <= n => h[T] = g[T]
  OBVIOUS
<1> HIDE DEF h
<1>6. ASSUME NEW T \in SUBSET S, Cardinality(T) <= n + 1 PROVE h[T] = Entry(f, h, T)
  <2>1. CASE T = {}
    BY <1>4, <2>1 DEF Entry
  <2>2. CASE T # {}
    <3>1. T \ {Pick(T)} \in SUBSET S /\ Cardinality(T \ {Pick(T)}) <= n
      BY <1>6, <2>2, Taking
    <3> QED BY <1>4, <1>5, <2>2, <3>1 DEF Entry
  <2> QED BY <2>1, <2>2
<1> QED BY <1>3, <1>6 DEF UpTo

(* The recursive function SumFunction adds along is there, and has numbers. *)
LEMMA TableExists ==
  ASSUME NEW S, IsFiniteSet(S), NEW f \in [S -> Nat]
  PROVE  /\ Table(f, S) \in [SUBSET S -> Nat]
         /\ \A T \in SUBSET S : Table(f, S)[T] = Entry(f, Table(f, S), T)
<1>1. UpTo(0, f, S)
  <2> DEFINE g == [T \in SUBSET S |-> 0]
  <2>1. \A T \in SUBSET S : Cardinality(T) <= 0 => g[T] = Entry(f, g, T)
    <3> SUFFICES ASSUME NEW T \in SUBSET S, Cardinality(T) <= 0 PROVE T = {}
      BY DEF Entry
    <3>1. Cardinality(T) \in Nat /\ (Cardinality(T) = 0 <=> T = {})
      BY Taking
    <3> QED BY <3>1
  <2> QED BY <2>1 DEF UpTo
<1>2. \A n \in Nat : UpTo(n, f, S)
  <2> DEFINE B == {n \in Nat : ~UpTo(n, f, S)}
  <2>1. SUFFICES ASSUME B # {} PROVE FALSE
    OBVIOUS
  <2>2. PICK d \in B : \A e \in B : d <= e
    <3> HIDE DEF B
    <3>1. B \in SUBSET Nat
      BY DEF B
    <3> QED BY <2>1, <3>1, Least
  <2>3. d # 0 /\ d - 1 \in Nat /\ d - 1 \notin B
    BY <1>1, <2>2
  <2>4. UpTo((d - 1) + 1, f, S)
    BY <2>3, UpToGrows
  <2> QED BY <2>2, <2>4
<1>3. Cardinality(S) \in Nat
  BY FS_CardinalityType
<1>4. PICK g \in [SUBSET S -> Nat] :
        \A T \in SUBSET S : Cardinality(T) <= Cardinality(S) => g[T] = Entry(f, g, T)
  BY <1>2, <1>3 DEF UpTo
<1>5. g = [T \in SUBSET S |-> Entry(f, g, T)]
  <2>1. \A T \in SUBSET S : g[T] = Entry(f, g, T)
    BY <1>4, Taking
  <2> QED BY <2>1
<1>6. Table(f, S) = [T \in SUBSET S |-> Entry(f, Table(f, S), T)]
  BY <1>5 DEF Table
<1> DEFINE t == Table(f, S)
<1> HIDE DEF t
<1>7. \A T \in SUBSET S : t[T] = Entry(f, t, T)
  BY <1>6 DEF t
<1>8. \A T \in SUBSET S : t[T] \in Nat
  <2> DEFINE B == {T \in SUBSET S : t[T] \notin Nat}
  <2>1. SUFFICES ASSUME B # {} PROVE FALSE
    OBVIOUS
  <2>2. PICK T \in B : \A U \in B : Cardinality(T) <= Cardinality(U)
    <3> HIDE DEF B
    <3>1. B \in SUBSET (SUBSET S)
      BY DEF B
    <3> QED BY <2>1, <3>1, Smallest
  <2>3. t[T] = Entry(f, t, T)
    BY <1>7
  <2>4. T # {}
    BY <2>2, <2>3 DEF Entry
  <2> DEFINE U == T \ {Pick(T)}
  <2>5. Pick(T) \in S /\ U \in SUBSET S /\ ~(Cardinality(T) <= Cardinality(U))
    BY <2>2, <2>4, Taking
  <2>6. t[U] \in Nat
    BY <2>2, <2>5
  <2>7. t[T] = f[Pick(T)] + t[U]
    BY <2>3, <2>4 DEF Entry
  <2> QED BY <2>2, <2>5, <2>6, <2>7
<1>9. t = [T \in SUBSET S |-> t[T]]
  BY <1>6 DEF t
<1>10. t \in [SUBSET S -> Nat]
  BY <1>8, <1>9
<1> QED BY <1>7, <1>10 DEF t

(* A sum of nothing but zeros is zero.                                      *)
LEMMA SumOfZeros ==
  ASSUME NEW S, IsFiniteSet(S), NEW f \in [S -> Nat], \A x \in S : f[x] = 0
  PROVE  SumFunction(f) = 0
<1> DEFINE t == Table(f, S)
           B == {T \in SUBSET S : t[T] # 0}
<1>1. \A T \in SUBSET S : t[T] = Entry(f, t, T)
  BY TableExists
<1> HIDE DEF t
<1>2. B = {}
  <2>1. SUFFICES ASSUME B # {} PROVE FALSE
    OBVIOUS
  <2>2. PICK T \in B : \A U \in B : Cardinality(T) <= Cardinality(U)
    <3> HIDE DEF B
    <3>1. B \in SUBSET (SUBSET S)
      BY DEF B
    <3> QED BY <2>1, <3>1, Smallest
  <2>3. t[T] = Entry(f, t, T)
    BY <1>1
  <2>4. T # {}
    BY <2>2, <2>3 DEF Entry
  <2> DEFINE U == T \ {Pick(T)}
  <2>5. Pick(T) \in S /\ U \in SUBSET S /\ ~(Cardinality(T) <= Cardinality(U))
    BY <2>2, <2>4, Taking
  <2>6. t[U] = 0
    BY <2>2, <2>5
  <2>7. t[T] = f[Pick(T)] + t[U]
    BY <2>3, <2>4 DEF Entry
  <2> QED BY <2>2, <2>5, <2>6, <2>7
<1>3. SumFunction(f) = t[S]
  BY SumIsEntry DEF SumFunction, t
<1> QED BY <1>2, <1>3

(* A sum moves by what one of its terms moves.                              *)
LEMMA SumMoves ==
  ASSUME NEW S, IsFiniteSet(S), NEW f \in [S -> Nat], NEW h \in [S -> Nat], NEW x \in S,
         \A y \in S : y # x => h[y] = f[y]
  PROVE  /\ SumFunction(f) \in Nat /\ SumFunction(h) \in Nat
         /\ SumFunction(h) + f[x] = SumFunction(f) + h[x]
<1> DEFINE t == Table(f, S)
           u == Table(h, S)
           Moved(T) == u[T] + (IF x \in T THEN f[x] ELSE 0) = t[T] + (IF x \in T THEN h[x] ELSE 0)
<1>1. /\ t \in [SUBSET S -> Nat] /\ u \in [SUBSET S -> Nat]
      /\ \A T \in SUBSET S : t[T] = Entry(f, t, T) /\ u[T] = Entry(h, u, T)
  BY TableExists
<1> HIDE DEF t, u
<1>2. \A T \in SUBSET S : Moved(T)
  <2> DEFINE B == {T \in SUBSET S : ~Moved(T)}
  <2>1. SUFFICES ASSUME B # {} PROVE FALSE
    <3> HIDE DEF Moved
    <3> QED OBVIOUS
  <2>2. PICK T \in B : \A U \in B : Cardinality(T) <= Cardinality(U)
    <3> HIDE DEF B
    <3>1. B \in SUBSET (SUBSET S)
      BY DEF B
    <3> QED BY <2>1, <3>1, Smallest
  <2>3. ~Moved(T)
    <3> HIDE DEF Moved
    <3> QED BY <2>2
  <2>4. T # {}
    BY <1>1, <2>3 DEF Entry
  <2> DEFINE U == T \ {Pick(T)}
  <2>5. U \in SUBSET S /\ ~(Cardinality(T) <= Cardinality(U)) /\ Pick(T) \in S /\ Pick(T) \in T
    BY <2>2, <2>4, Taking
  <2>6. Moved(U)
    <3> HIDE DEF Moved
    <3> QED BY <2>2, <2>5
  <2>7. t[T] = f[Pick(T)] + t[U] /\ u[T] = h[Pick(T)] + u[U]
    BY <1>1, <2>4 DEF Entry
  <2>8. /\ x \in T <=> x \in U \/ x = Pick(T)
        /\ x = Pick(T) => x \notin U
    BY <2>5
  <2>9. /\ t[U] \in Nat /\ u[U] \in Nat /\ f[Pick(T)] \in Nat /\ f[x] \in Nat
        /\ h[Pick(T)] \in Nat /\ h[x] \in Nat
    BY <1>1, <2>5
  <2>10. Pick(T) # x => h[Pick(T)] = f[Pick(T)]
    BY <2>5
  <2> HIDE DEF U
  <2>11. Moved(T)
    BY <2>6, <2>7, <2>8, <2>9, <2>10
  <2> QED BY <2>3, <2>11
<1>3. SumFunction(f) = t[S] /\ SumFunction(h) = u[S]
  <2>1. DOMAIN f = S /\ DOMAIN h = S
    OBVIOUS
  <2> QED BY <2>1, SumIsEntry DEF SumFunction, t, u
<1>4. Moved(S)
  BY <1>2
<1> QED BY <1>1, <1>3, <1>4

-----------------------------------------------------------------------------
(* What the senders owe is a number each.                                   *)
LEMMA OwedIsNat == ASSUME TypeOK PROVE Owed \in [Senders -> Nat]
<1>1. ASSUME NEW s \in Senders PROVE Unrecorded(s) + lost[s] \in Nat
  <2>1. tokens[s] \in Nat /\ Rate[alias[s]] \in Nat /\ lost[s] \in Nat
    BY AgentAssumption DEF TypeOK
  <2>2. tokens[s] * Rate[alias[s]] \in Nat
    BY <2>1
  <2> QED BY <2>1, <2>2 DEF Unrecorded
<1> QED BY <1>1 DEF Owed

(* A step that changes what s owes, and no other sender.                    *)
LEMMA OwedMoves ==
  ASSUME TypeOK, NEW s \in Senders, NEW v \in Nat,
         \A r \in Senders : Owed'[r] = IF r = s THEN v ELSE Owed[r]
  PROVE  NotInLedger \in Nat /\ NotInLedger' \in Nat /\ NotInLedger' + Owed[s] = NotInLedger + v
<1>1. Owed \in [Senders -> Nat] /\ Owed[s] \in Nat
  BY OwedIsNat
<1>2. Owed' \in [Senders -> Nat]
  <2>1. \A r \in Senders : Owed'[r] \in Nat
    BY <1>1
  <2>2. Owed' = [r \in Senders |-> Owed'[r]]
    BY DEF Owed
  <2> QED BY <2>1, <2>2
<1>3. IsFiniteSet(Senders)
  BY AgentAssumption
<1>4. /\ SumFunction(Owed) \in Nat /\ SumFunction(Owed') \in Nat
      /\ SumFunction(Owed') + Owed[s] = SumFunction(Owed) + Owed'[s]
  BY <1>1, <1>2, <1>3, SumMoves
<1> QED BY <1>4 DEF NotInLedger

(* A step that leaves what everybody owes.                                  *)
LEMMA OwedStays ==
  ASSUME \A r \in Senders : Owed'[r] = Owed[r]
  PROVE  NotInLedger' = NotInLedger
<1>1. Owed' = [r \in Senders |-> Owed'[r]] /\ Owed = [r \in Senders |-> Owed[r]]
  BY DEF Owed
<1>2. Owed' = Owed
  BY <1>1
<1> QED BY <1>2 DEF NotInLedger

(* One step of the turn of s, by what it records and what it costs.         *)
LEMMA LedgerKept ==
  ASSUME TypeOK, TypeOK', LedgerMatchesBill, NEW s \in Senders, NEW v \in Nat,
         \A r \in Senders : Owed'[r] = IF r = s THEN v ELSE Owed[r],
         repriced => repriced',
         ~repriced' => (ledger' + v) + billed = (billed' + Owed[s]) + ledger
  PROVE  LedgerMatchesBill'
<1>1. NotInLedger \in Nat /\ NotInLedger' \in Nat /\ NotInLedger' + Owed[s] = NotInLedger + v
  BY OwedMoves
<1>2. ledger \in Nat /\ ledger' \in Nat /\ billed \in Nat /\ billed' \in Nat /\ Owed[s] \in Nat
  BY OwedIsNat DEF TypeOK
<1>3. SUFFICES ASSUME ~repriced' PROVE ledger' + NotInLedger' = billed'
  BY DEF LedgerMatchesBill
<1>4. ledger + NotInLedger = billed
  BY <1>3 DEF LedgerMatchesBill
<1>5. (ledger' + v) + billed = (billed' + Owed[s]) + ledger
  BY <1>3
<1>6. (ledger' + NotInLedger') + Owed[s] = (billed' + Owed[s])
  BY <1>1, <1>2, <1>4, <1>5
<1>7. ASSUME NEW x \in Int, NEW y \in Int, NEW z \in Int, x + z = y + z PROVE x = y
  BY <1>7
<1>8. ledger' + NotInLedger' \in Int /\ billed' \in Int /\ Owed[s] \in Int
  BY <1>1, <1>2
<1> QED BY <1>6, <1>7, <1>8

(* What s owes is what it has used, at its model's price, and what it lost. *)
LEMMA OwedIs == ASSUME NEW s \in Senders PROVE Owed[s] = tokens[s] * Rate[alias[s]] + lost[s]
BY DEF Owed, Unrecorded

(* A turn that ends without its usage owes it for good: one of s's own.     *)
LEMMA LosesKeeps ==
  ASSUME TypeOK, TypeOK', LedgerMatchesBill, NEW s \in Senders, NEW verdict,
         End(s, verdict), Loses(s, Unrecorded(s)), UNCHANGED <<ledger, billed, repriced>>
  PROVE  LedgerMatchesBill'
<1>1. Owed \in [Senders -> Nat]
  BY OwedIsNat
<1>2. Owed[s] = Unrecorded(s) + lost[s] /\ Unrecorded(s) \in Nat /\ lost[s] \in Nat
  <2>1. tokens[s] \in Nat /\ Rate[alias[s]] \in Nat /\ lost[s] \in Nat
    BY AgentAssumption DEF TypeOK
  <2> QED BY <2>1 DEF Owed, Unrecorded
<1>3. \A r \in Senders : Owed'[r] = IF r = s THEN Owed[s] ELSE Owed[r]
  <2>1. lost'[s] = lost[s] + Unrecorded(s) /\ tokens'[s] = 0
    BY DEF Loses, End, TypeOK
  <2>2. \A r \in Senders : r # s => lost'[r] = lost[r] /\ tokens'[r] = tokens[r]
    BY DEF Loses, End, TypeOK
  <2>3. alias' = alias
    BY DEF End
  <2>4. Owed'[s] = 0 * Rate[alias[s]] + (lost[s] + Unrecorded(s))
    BY <2>1, <2>3 DEF Owed, Unrecorded
  <2>5. Owed'[s] = Owed[s]
    <3>1. 0 * Rate[alias[s]] = 0
      BY AgentAssumption DEF TypeOK
    <3> QED BY <1>2, <2>4, <3>1
  <2>6. \A r \in Senders : r # s => Owed'[r] = Owed[r]
    BY <2>2, <2>3 DEF Owed, Unrecorded
  <2> QED BY <2>5, <2>6
<1>4. Owed[s] \in Nat /\ ledger \in Nat /\ billed \in Nat
  BY <1>1 DEF TypeOK
<1>5. (ledger' + Owed[s]) + billed = (billed' + Owed[s]) + ledger
  BY <1>4
<1> QED BY <1>3, <1>4, <1>5, LedgerKept

(* agent.ts, send, and meter.ts, record: what the ledger holds and what is  *)
(* known to be dropped or in flight is what providers charged, as long as   *)
(* no turn is recorded at another model's rate.                             *)
THEOREM LedgerIsTheBill == Spec => []LedgerMatchesBill
<1>1. TypeOK /\ Init => LedgerMatchesBill
  <2> SUFFICES ASSUME TypeOK, Init PROVE LedgerMatchesBill
    OBVIOUS
  <2>1. Owed \in [Senders -> Nat] /\ IsFiniteSet(Senders)
    BY OwedIsNat, AgentAssumption
  <2>2. \A s \in Senders : Owed[s] = 0
    BY AgentAssumption DEF Init, Owed, Unrecorded
  <2>3. NotInLedger = 0
    BY <2>1, <2>2, SumOfZeros DEF NotInLedger
  <2> QED BY <2>3 DEF Init, LedgerMatchesBill
<1>2. TypeOK /\ TypeOK' /\ LedgerMatchesBill /\ [Next]_vars => LedgerMatchesBill'
  <2> SUFFICES ASSUME TypeOK, TypeOK', LedgerMatchesBill, [Next]_vars PROVE LedgerMatchesBill'
    OBVIOUS
  <2>1. ASSUME \A r \in Senders : Owed'[r] = Owed[r], UNCHANGED <<ledger, billed, repriced>>
        PROVE  LedgerMatchesBill'
    <3>1. NotInLedger' = NotInLedger
      BY <2>1, OwedStays
    <3> QED BY <2>1, <3>1 DEF LedgerMatchesBill
  <2>2. ASSUME NEW s \in Senders, NEW a \in Aliases, Send(s, a) PROVE LedgerMatchesBill'
    <3>1. tokens[s] = 0
      BY <2>2, AgentAssumption DEF Send, TypeOK
    <3>2. Rate[alias[s]] \in Nat /\ Rate[a] \in Nat
      BY AgentAssumption DEF TypeOK
    <3>3. tokens' = tokens /\ lost' = lost /\ alias' = [alias EXCEPT ![s] = a]
      BY <2>2 DEF Send, billVars
    <3>4. \A r \in Senders : tokens'[r] * Rate[alias'[r]] = tokens[r] * Rate[alias[r]]
      BY <3>1, <3>2, <3>3 DEF TypeOK
    <3>5. \A r \in Senders : Owed'[r] = Owed[r]
      BY <3>3, <3>4 DEF Owed, Unrecorded
    <3> QED BY <2>1, <2>2, <3>5 DEF Send, billVars
  <2>3. ASSUME NEW s \in Senders, PrepareStep(s) PROVE LedgerMatchesBill'
    <3>1. CASE CanProceed(run)
      BY <2>1, <2>3, <3>1 DEF PrepareStep, meterVars, Owed, Unrecorded
    <3>2. CASE ~CanProceed(run)
      BY <2>3, <3>2, LosesKeeps DEF PrepareStep, meterVars
    <3> QED BY <3>1, <3>2
  <2>4. ASSUME NEW s \in Senders, NEW used \in 0..MaxTokens, NEW calls \in BOOLEAN,
               StepFinished(s, used, calls)
        PROVE  LedgerMatchesBill'
    <3> DEFINE rate == Rate[alias[s]]
    <3>1. rate \in Nat /\ used \in Nat /\ tokens[s] \in Nat /\ lost[s] \in Nat
      BY AgentAssumption DEF TypeOK
    <3>2. /\ tokens' = [tokens EXCEPT ![s] = @ + used] /\ alias' = alias /\ lost' = lost
          /\ billed' = billed + used * rate /\ UNCHANGED <<ledger, repriced>>
      BY <2>4 DEF StepFinished, meterVars
    <3>3. Owed[s] = tokens[s] * rate + lost[s]
      BY OwedIs
    <3>4. Owed'[s] = (tokens[s] + used) * rate + lost[s]
      BY <3>2 DEF TypeOK, Owed, Unrecorded
    <3>5. \A r \in Senders : r # s => Owed'[r] = Owed[r]
      BY <3>2 DEF TypeOK, Owed, Unrecorded
    <3> HIDE DEF rate
    <3>6. (tokens[s] + used) * rate = tokens[s] * rate + used * rate
      BY <3>1
    <3>7. tokens[s] * rate \in Nat /\ used * rate \in Nat /\ (tokens[s] + used) * rate \in Nat
      BY <3>1
    <3>8. ledger \in Nat /\ billed \in Nat
      BY DEF TypeOK
    <3>9. Owed'[s] \in Nat
      BY <3>1, <3>4, <3>7
    <3>10. (ledger' + Owed'[s]) + billed = (billed' + Owed[s]) + ledger
      BY <3>1, <3>2, <3>3, <3>4, <3>6, <3>7, <3>8
    <3> QED BY <3>2, <3>5, <3>9, <3>10, LedgerKept
  <2>5. ASSUME NEW s \in Senders, ToolsReturn(s) PROVE LedgerMatchesBill'
    BY <2>1, <2>5 DEF ToolsReturn, ToolsDone, meterVars, Owed, Unrecorded
  <2>6. ASSUME NEW s \in Senders, NEW cost \in 1..MaxSideCost, ScoutsReturn(s, cost)
        PROVE  LedgerMatchesBill'
    <3>1. ledger' = ledger + cost /\ billed' = billed + cost /\ repriced' = repriced
      BY <2>6 DEF ScoutsReturn, ToolsDone, Record
    <3>2. \A r \in Senders : Owed'[r] = Owed[r]
      BY <2>6 DEF ScoutsReturn, ToolsDone, Owed, Unrecorded
    <3>3. Owed[s] \in Nat /\ ledger \in Nat /\ billed \in Nat /\ cost \in Nat
      BY OwedIsNat, AgentAssumption DEF TypeOK
    <3>4. (ledger' + Owed[s]) + billed = (billed' + Owed[s]) + ledger
      BY <3>1, <3>3
    <3> QED BY <3>1, <3>2, <3>3, <3>4, LedgerKept
  <2>7. ASSUME NEW s \in Senders, NEW cost \in 1..MaxSideCost, ScoutReportFails(s, cost)
        PROVE  LedgerMatchesBill'
    <3>1. /\ ledger' = ledger /\ billed' = billed + cost /\ repriced' = repriced
          /\ lost' = [lost EXCEPT ![s] = @ + cost] /\ UNCHANGED <<tokens, alias>>
      BY <2>7 DEF ScoutReportFails, ToolsDone, Loses, meterVars
    <3>2. cost \in Nat /\ ledger \in Nat /\ billed \in Nat /\ lost[s] \in Nat /\ Owed[s] \in Nat
      BY OwedIsNat, AgentAssumption DEF TypeOK
    <3>3. Owed'[s] = Owed[s] + cost
      <4>1. Owed'[s] = tokens[s] * Rate[alias[s]] + (lost[s] + cost)
        BY <3>1 DEF TypeOK, Owed, Unrecorded
      <4>2. tokens[s] \in Nat /\ Rate[alias[s]] \in Nat
        BY AgentAssumption DEF TypeOK
      <4>3. tokens[s] * Rate[alias[s]] \in Nat
        BY <4>2
      <4> QED BY <3>2, <4>1, <4>3, OwedIs
    <3>4. \A r \in Senders : r # s => Owed'[r] = Owed[r]
      BY <3>1 DEF TypeOK, Owed, Unrecorded
    <3>5. (ledger' + Owed'[s]) + billed = (billed' + Owed[s]) + ledger
      BY <3>1, <3>2, <3>3
    <3>6. Owed'[s] \in Nat
      BY <3>2, <3>3
    <3> QED BY <3>1, <3>4, <3>5, <3>6, LedgerKept
  <2>8. ASSUME NEW s \in Senders, NEW cost \in 1..MaxSideCost, ImageReturns(s, cost)
        PROVE  LedgerMatchesBill'
    BY <2>1, <2>8 DEF ImageReturns, ToolsDone, meterVars, Owed, Unrecorded
  <2>9. ASSUME NEW s \in Senders, Complete(s) PROVE LedgerMatchesBill'
    <3> DEFINE rate == Rate[alias[s]]  now == Rate[currentAlias]
    <3>1. /\ ledger' = ledger + tokens[s] * now /\ billed' = billed /\ lost' = lost /\ alias' = alias
          /\ tokens' = [tokens EXCEPT ![s] = 0] /\ repriced' = (repriced \/ now # rate)
      BY <2>9 DEF Complete, Record, End
    <3>2. rate \in Nat /\ now \in Nat /\ tokens[s] \in Nat /\ lost[s] \in Nat
      BY AgentAssumption DEF TypeOK
    <3>3. Owed'[s] = 0 * rate + lost[s] /\ Owed[s] = tokens[s] * rate + lost[s]
      BY <3>1 DEF TypeOK, Owed, Unrecorded
    <3>4. \A r \in Senders : r # s => Owed'[r] = Owed[r]
      BY <3>1 DEF TypeOK, Owed, Unrecorded
    <3> HIDE DEF rate, now
    <3>5. tokens[s] * rate \in Nat /\ Owed'[s] = lost[s]
      BY <3>2, <3>3
    <3>6. ASSUME ~repriced' PROVE (ledger' + Owed'[s]) + billed = (billed' + Owed[s]) + ledger
      <4>1. now = rate
        BY <3>1, <3>6
      <4>2. ledger \in Nat /\ billed \in Nat
        BY DEF TypeOK
      <4> QED BY <3>1, <3>2, <3>3, <3>5, <4>1, <4>2
    <3>7. repriced => repriced'
      BY <3>1
    <3>8. Owed'[s] \in Nat
      BY <3>2, <3>5
    <3> QED BY <3>4, <3>6, <3>7, <3>8, LedgerKept
  <2>10. ASSUME NEW s \in Senders, Fail(s) PROVE LedgerMatchesBill'
    BY <2>10, LosesKeeps DEF Fail, meterVars
  <2>11. CASE Restart
    <3>1. ASSUME NEW r \in Senders PROVE Owed'[r] = Owed[r]
      <4>1. tokens[r] \in Nat /\ Rate[alias[r]] \in Nat /\ lost[r] \in Nat
        BY AgentAssumption DEF TypeOK
      <4>2. Unrecorded(r) \in Nat
        BY <4>1 DEF Unrecorded
      <4>3. tokens'[r] = 0 /\ alias' = alias /\ lost'[r] = lost[r] + Unrecorded(r)
        BY <2>11 DEF Restart
      <4>4. Owed'[r] = 0 * Rate[alias[r]] + (lost[r] + Unrecorded(r))
        BY <4>3 DEF Owed, Unrecorded
      <4> QED BY <4>1, <4>2, <4>4 DEF Owed
    <3> QED BY <2>1, <2>11, <3>1 DEF Restart
  <2>12. CASE UNCHANGED vars
    BY <2>1, <2>12 DEF vars, turnVars, meterVars, billVars, Owed, Unrecorded
  <2> QED
    BY <2>2, <2>3, <2>4, <2>5, <2>6, <2>7, <2>8, <2>9, <2>10, <2>11, <2>12 DEF Next, Progress
<1> QED BY TypeCorrect, <1>1, <1>2, PTL DEF Spec
=============================================================================
