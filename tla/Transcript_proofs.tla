-------------------------- MODULE Transcript_proofs --------------------------
(***************************************************************************)
(* Proofs about Condenser and Transcript: the verbatim tail always begins  *)
(* between a pair, and so every request keeps each call with its result    *)
(* (first part); and what compaction carries over (Carries) leaves the     *)
(* opening and the newest messages, the large outputs and the attachments  *)
(* of the question where the model can reach them (second part, Lasts).    *)
(***************************************************************************)
EXTENDS Transcript, WellFoundedInduction, SequenceTheorems, TLAPS

NatOrder == {ss \in Nat \X Nat : ss[1] < ss[2]}

(* The library's fact, about a relation the provers can name. *)
LEMMA NatOrderWellFounded == IsWellFoundedOn(NatOrder, Nat)
BY NatLessThanWellFounded DEF OpToRel, NatOrder

(* A tail that begins between pairs always exists, and recentBoundary finds *)
(* the latest one keepRecent allows (condenser.ts:186-208).                 *)
LEMMA BoundaryIsWhole ==
  ASSUME NEW h, Len(h) \in Nat
  PROVE  /\ RecentBoundary(h) \in 0..Latest(h)
         /\ Whole(h, RecentBoundary(h))
         /\ \A c \in 0..Latest(h) : Whole(h, c) => c <= RecentBoundary(h)
         /\ Latest(h) \in 0..Len(h)
         /\ Len(h) > 0 => Latest(h) < Len(h)
<1> DEFINE n == Latest(h)
           T == {b \in 0..n : Whole(h, b)}
           D == {n - b : b \in T}
<1>1. n \in 0..Len(h) /\ (Len(h) > 0 => n < Len(h))
  BY KeepAssumption DEF Latest
<1>2. 0 \in T
  BY <1>1 DEF Whole
<1>3. D \subseteq Nat /\ D # {}
  BY <1>1, <1>2
<1>4. PICK d \in D : \A e \in D : ~(<<e, d>> \in NatOrder)
  <2> HIDE DEF D
  <2> QED BY <1>3, NatOrderWellFounded, WFMin
<1>5. \A e \in D : ~(e < d)
  BY <1>3, <1>4 DEF NatOrder
<1>6. PICK b \in T : d = n - b
  OBVIOUS
<1>7. \A c \in T : c <= b
  <2> TAKE c \in T
  <2>1. n - c \in D
    OBVIOUS
  <2>2. ~(n - c < n - b)
    BY <1>5, <1>6, <2>1
  <2> QED BY <1>1, <2>2
<1>8. Whole(h, b) /\ b \in 0..n /\ \A c \in 0..n : Whole(h, c) => c <= b
  BY <1>7
<1>9. /\ RecentBoundary(h) \in 0..n /\ Whole(h, RecentBoundary(h))
      /\ \A c \in 0..n : Whole(h, c) => c <= RecentBoundary(h)
  BY <1>8 DEF RecentBoundary
<1> QED BY <1>1, <1>9

------------------------------------------------------------------------------
(* Two messages that make and answer the same calls.                        *)
Alike(m, n) == CallsOf(m) = CallsOf(n) /\ ResultsOf(m) = ResultsOf(n)

(* Pairs depend on nothing else. *)
LEMMA AlikeArePaired ==
  ASSUME NEW a, NEW b, Len(a) \in Nat, Len(b) = Len(a), Paired(a),
         \A i \in 1..Len(a) : Alike(a[i], b[i])
  PROVE  Paired(b)
<1> SUFFICES ASSUME NEW i \in 1..Len(b)
             PROVE  /\ HasResult(b[i]) => i > 1 /\ CallsOf(b[i - 1]) = ResultsOf(b[i])
                    /\ HasCall(b[i]) => i < Len(b) /\ ResultsOf(b[i + 1]) = CallsOf(b[i])
  BY DEF Paired
<1>1. \A j \in 1..Len(a) : CallsOf(a[j]) = CallsOf(b[j]) /\ ResultsOf(a[j]) = ResultsOf(b[j])
  BY DEF Alike
<1>2. /\ ResultsOf(a[i]) # {} => i > 1 /\ CallsOf(a[i - 1]) = ResultsOf(a[i])
      /\ CallsOf(a[i]) # {} => i < Len(a) /\ ResultsOf(a[i + 1]) = CallsOf(a[i])
  BY DEF Paired, HasCall, HasResult
<1>3. i > 1 => i - 1 \in 1..Len(a)
  OBVIOUS
<1>4. i < Len(a) => i + 1 \in 1..Len(a)
  OBVIOUS
<1> QED BY <1>1, <1>2, <1>3, <1>4 DEF HasCall, HasResult

(* What a sequence of messages is made of, and how one is recognised.       *)
LEMMA MessageParts ==
  ASSUME NEW a \in Seq(Messages)
  PROVE  /\ Len(a) \in Nat /\ DOMAIN a = 1..Len(a)
         /\ \A i \in 1..Len(a) : /\ a[i] \in Messages
                                /\ a[i].role \in {"user", "assistant", "tool"}
                                /\ a[i].parts \in SUBSET Parts
<1>1. \A m \in Messages : m.role \in {"user", "assistant", "tool"} /\ m.parts \in SUBSET Parts
  BY DEF Messages
<1>2. \A i \in 1..Len(a) : a[i] \in Messages
  OBVIOUS
<1> QED BY <1>1, <1>2

LEMMA MessageOf ==
  ASSUME NEW role \in {"user", "assistant", "tool"}, NEW S \in SUBSET Parts
  PROVE  Message(role, S) \in Messages /\ Message(role, S).parts = S
BY DEF Messages, Message

LEMMA MessageSeq ==
  ASSUME NEW n \in Nat, NEW b, b = [i \in 1..n |-> b[i]], \A i \in 1..n : b[i] \in Messages
  PROVE  b \in Seq(Messages) /\ Len(b) = n
<1>1. b \in [1..n -> Messages]
  OBVIOUS
<1> QED BY <1>1, SeqDef

Results == {"small", "big", "note"}

(* A message whose parts change kind, but never to or from a call or a      *)
(* result, is like the one it was.                                          *)
Respects(f) ==
  \A p \in Parts : /\ f[p].kind = "call" <=> p.kind = "call"
                   /\ f[p].kind \in Results <=> p.kind \in Results
                   /\ p.kind \in Results \cup {"call"} => f[p].of = p.of

LEMMA RekindedIsAlike ==
  ASSUME NEW m \in Messages, NEW f \in [Parts -> Parts], Respects(f),
         NEW n, n = Message(m.role, {f[p] : p \in m.parts})
  PROVE  n \in Messages /\ Alike(m, n)
<1>1. m.role \in {"user", "assistant", "tool"} /\ m.parts \in SUBSET Parts
  BY DEF Messages
<1>2. {f[p] : p \in m.parts} \in SUBSET Parts
  BY <1>1
<1>3. n \in Messages /\ n.parts = {f[p] : p \in m.parts}
  BY <1>1, <1>2, MessageOf
<1>4. CallsOf(m) = CallsOf(n)
  <2>1. ASSUME NEW x \in CallsOf(m) PROVE x \in CallsOf(n)
    <3>1. PICK p \in m.parts : p.kind \in {"call"} /\ x = p.of
      BY DEF CallsOf, OfKind
    <3>2. p \in Parts /\ f[p] \in n.parts
      BY <1>1, <1>3
    <3>3. f[p].kind \in {"call"} /\ f[p].of = x
      BY <3>1, <3>2 DEF Respects, Results
    <3> QED BY <3>2, <3>3 DEF CallsOf, OfKind
  <2>2. ASSUME NEW x \in CallsOf(n) PROVE x \in CallsOf(m)
    <3>1. PICK q \in n.parts : q.kind \in {"call"} /\ x = q.of
      BY DEF CallsOf, OfKind
    <3>2. PICK p \in m.parts : q = f[p]
      BY <1>3
    <3>3. p \in Parts
      BY <1>1
    <3>4. p.kind \in {"call"} /\ p.of = x
      BY <3>1, <3>2, <3>3 DEF Respects, Results
    <3> QED BY <3>4 DEF CallsOf, OfKind
  <2> QED BY <2>1, <2>2
<1>5. ResultsOf(m) = ResultsOf(n)
  <2>1. ASSUME NEW x \in ResultsOf(m) PROVE x \in ResultsOf(n)
    <3>1. PICK p \in m.parts : p.kind \in {"small", "big", "note"} /\ x = p.of
      BY DEF ResultsOf, OfKind
    <3>2. p \in Parts /\ f[p] \in n.parts
      BY <1>1, <1>3
    <3>3. f[p].kind \in {"small", "big", "note"} /\ f[p].of = x
      BY <3>1, <3>2 DEF Respects, Results
    <3> QED BY <3>2, <3>3 DEF ResultsOf, OfKind
  <2>2. ASSUME NEW x \in ResultsOf(n) PROVE x \in ResultsOf(m)
    <3>1. PICK q \in n.parts : q.kind \in {"small", "big", "note"} /\ x = q.of
      BY DEF ResultsOf, OfKind
    <3>2. PICK p \in m.parts : q = f[p]
      BY <1>3
    <3>3. p \in Parts
      BY <1>1
    <3>4. p.kind \in {"small", "big", "note"} /\ p.of = x
      BY <3>1, <3>2, <3>3 DEF Respects, Results
    <3> QED BY <3>4 DEF ResultsOf, OfKind
  <2> QED BY <2>1, <2>2
<1> QED BY <1>3, <1>4, <1>5 DEF Alike

(* Sequences of such messages, one by one.                                  *)
AllAlike(a, b) ==
  b \in Seq(Messages) /\ Len(b) = Len(a) /\ \A i \in 1..Len(a) : Alike(a[i], b[i])

LEMMA MappedIsAlike ==
  ASSUME NEW a \in Seq(Messages), NEW f \in [Parts -> Parts], Respects(f),
         NEW b, b = [i \in 1..Len(a) |-> Message(a[i].role, {f[p] : p \in a[i].parts})]
  PROVE  AllAlike(a, b)
<1>1. \A i \in 1..Len(a) : b[i] \in Messages /\ Alike(a[i], b[i])
  BY MessageParts, RekindedIsAlike
<1>2. b = [i \in 1..Len(a) |-> b[i]]
  OBVIOUS
<1>3. b \in Seq(Messages) /\ Len(b) = Len(a)
  <2>1. Len(a) \in Nat
    BY MessageParts
  <2>2. \A i \in 1..Len(a) : b[i] \in Messages
    BY <1>1
  <2> QED BY <1>2, <2>1, <2>2, MessageSeq
<1> QED BY <1>1, <1>3 DEF AllAlike

(* Reading attachments, noting the missing ones, and the SDK's types.       *)
LEMMA WithBytesIsAlike ==
  ASSUME NEW a \in Seq(Messages), NEW S
  PROVE  AllAlike(a, WithBytes(a, S))
<1> DEFINE F(p) == IF p.kind = "file" /\ p.of \in S THEN [p EXCEPT !.kind = "bytes"] ELSE p
           f == [p \in Parts |-> F(p)]
<1>1. f \in [Parts -> Parts] /\ Respects(f)
  BY DEF Parts, Respects, Results
<1>2. WithBytes(a, S) = [i \in 1..Len(a) |-> Message(a[i].role, {F(p) : p \in a[i].parts})]
  BY MessageParts DEF WithBytes, Mapped
<1>3. \A i \in 1..Len(a) : {F(p) : p \in a[i].parts} = {f[p] : p \in a[i].parts}
  BY MessageParts
<1>4. WithBytes(a, S) = [i \in 1..Len(a) |-> Message(a[i].role, {f[p] : p \in a[i].parts})]
  BY <1>2, <1>3
<1> QED BY <1>1, <1>4, MappedIsAlike

LEMMA WithNotesIsAlike ==
  ASSUME NEW a \in Seq(Messages)
  PROVE  AllAlike(a, WithNotes(a))
<1> DEFINE F(p) == IF p.kind = "file" THEN [p EXCEPT !.kind = "missing"] ELSE p
           f == [p \in Parts |-> F(p)]
<1>1. f \in [Parts -> Parts] /\ Respects(f)
  BY DEF Parts, Respects, Results
<1>2. WithNotes(a) = [i \in 1..Len(a) |-> Message(a[i].role, {F(p) : p \in a[i].parts})]
  BY MessageParts DEF WithNotes, Mapped
<1>3. \A i \in 1..Len(a) : {F(p) : p \in a[i].parts} = {f[p] : p \in a[i].parts}
  BY MessageParts
<1>4. WithNotes(a) = [i \in 1..Len(a) |-> Message(a[i].role, {f[p] : p \in a[i].parts})]
  BY <1>2, <1>3
<1> QED BY <1>1, <1>4, MappedIsAlike

LEMMA FromModelIsAlike ==
  ASSUME NEW a \in Seq(Messages)
  PROVE  AllAlike(a, FromModelMessages(a))
<1> DEFINE F(p) == IF p.kind = "reasoning" THEN [p EXCEPT !.by = Unknown] ELSE p
           f == [p \in Parts |-> F(p)]
<1>1. f \in [Parts -> Parts] /\ Respects(f)
  BY DEF Parts, Respects, Results
<1>2. FromModelMessages(a) = [i \in 1..Len(a) |-> Message(a[i].role, {F(p) : p \in a[i].parts})]
  BY MessageParts DEF FromModelMessages, Mapped
<1>3. \A i \in 1..Len(a) : {F(p) : p \in a[i].parts} = {f[p] : p \in a[i].parts}
  BY MessageParts
<1>4. FromModelMessages(a) = [i \in 1..Len(a) |-> Message(a[i].role, {f[p] : p \in a[i].parts})]
  BY <1>2, <1>3
<1> QED BY <1>1, <1>4, MappedIsAlike

(* The lossless pass replaces outputs, not results.                         *)
LEMMA ElidedIsAlike ==
  ASSUME NEW a \in Seq(Messages)
  PROVE  AllAlike(a, ElideToolOutputs(a))
<1> DEFINE F(p) == IF p.kind = "big" THEN [p EXCEPT !.kind = "note"] ELSE p
           f == [p \in Parts |-> F(p)]
           b == ElideToolOutputs(a)
<1>1. f \in [Parts -> Parts] /\ Respects(f)
  BY DEF Parts, Respects, Results
<1>2. b = [i \in 1..Len(a) |-> IF i > ElidedBefore(a) THEN a[i]
                               ELSE Message(a[i].role, {F(p) : p \in a[i].parts})]
  BY MessageParts DEF ElideToolOutputs
<1>3. \A i \in 1..Len(a) : {F(p) : p \in a[i].parts} = {f[p] : p \in a[i].parts}
  BY MessageParts
<1>4. \A i \in 1..Len(a) : b[i] = a[i] \/ b[i] = Message(a[i].role, {f[p] : p \in a[i].parts})
  BY <1>2, <1>3
<1> HIDE DEF f, b
<1>5. \A i \in 1..Len(a) : b[i] \in Messages /\ Alike(a[i], b[i])
  <2> SUFFICES ASSUME NEW i \in 1..Len(a)
               PROVE  b[i] \in Messages /\ Alike(a[i], b[i])
    OBVIOUS
  <2>1. a[i] \in Messages
    BY MessageParts
  <2>2. CASE b[i] = a[i]
    BY <2>1, <2>2 DEF Alike
  <2>3. CASE b[i] = Message(a[i].role, {f[p] : p \in a[i].parts})
    BY <1>1, <2>1, <2>3, RekindedIsAlike
  <2> QED BY <1>4, <2>2, <2>3
<1>6. b = [i \in 1..Len(a) |-> b[i]]
  BY <1>2
<1>7. b \in Seq(Messages) /\ Len(b) = Len(a)
  BY <1>5, <1>6, MessageParts, MessageSeq
<1> QED BY <1>5, <1>7 DEF AllAlike, b

(* Only reasoning is stripped.                                              *)
LEMMA StrippedIsAlike ==
  ASSUME NEW a \in Seq(Messages), NEW v
  PROVE  AllAlike(a, StripForeignReasoning(a, v))
<1> DEFINE K(i) == {p \in a[i].parts : p.kind = "reasoning" => p.by = v}
           b == StripForeignReasoning(a, v)
<1>1. b = [i \in 1..Len(a) |-> Message(a[i].role, K(i))]
  BY MessageParts DEF StripForeignReasoning
<1>2. \A i \in 1..Len(a) : K(i) \in SUBSET Parts
  BY MessageParts
<1> HIDE DEF b
<1>3. \A i \in 1..Len(a) : b[i] \in Messages /\ b[i].parts = K(i)
  BY <1>1, <1>2, MessageParts, MessageOf
<1>4. \A i \in 1..Len(a) : Alike(a[i], b[i])
  BY <1>3 DEF Alike, CallsOf, ResultsOf, OfKind
<1>5. b = [i \in 1..Len(a) |-> b[i]]
  BY <1>1
<1>6. b \in Seq(Messages) /\ Len(b) = Len(a)
  BY <1>3, <1>5, MessageParts, MessageSeq
<1> QED BY <1>4, <1>6 DEF AllAlike, b

(* A summary has no calls and no results.                                   *)
LEMMA SummaryIsWordy ==
  ASSUME NEW a \in Seq(Messages)
  PROVE  Summary(a) \in Messages /\ Wordy(Summary(a))
<1> DEFINE words == {p.of : p \in UNION {OfKind(a[i], {"text"}) : i \in DOMAIN a}}
           held == {w \in words : Cardinality({v \in words : v < w}) < SummaryWords}
           part == [kind |-> "summary", words |-> held]
<1>1. words \subseteq Nat
  <2>1. \A i \in DOMAIN a : a[i].parts \subseteq Parts
    BY MessageParts
  <2>2. \A p \in Parts : p.kind = "text" => p.of \in Nat
    BY DEF Parts
  <2> QED BY <2>1, <2>2 DEF OfKind
<1> HIDE DEF words
<1>2. part \in Parts
  BY <1>1 DEF Parts
<1>3. Summary(a) = Message("assistant", {part})
  BY DEF Summary, words
<1>4. Summary(a) \in Messages /\ Summary(a).parts = {part}
  BY <1>2, <1>3, MessageOf
<1> QED BY <1>4 DEF Wordy, HasCall, HasResult, CallsOf, ResultsOf, OfKind

(* The lossy pass cuts only between pairs: after the opening message, which *)
(* makes no call, and where the verbatim tail begins.                       *)
LEMMA SummarisedIsPaired ==
  ASSUME NEW a \in Seq(Messages), Len(a) > 0, Paired(a), Wordy(a[1])
  PROVE  SummariseMiddle(a) \in Seq(Messages) /\ Paired(SummariseMiddle(a))
<1> DEFINE b == RecentBoundary(a)
           middle == SubSeq(a, 2, b)
           tail == SubSeq(a, b + 1, Len(a))
           s == <<a[1], Summary(middle)>> \o tail
<1>1. b \in Nat /\ b < Len(a) /\ Whole(a, b) /\ Len(a) \in Nat
  BY BoundaryIsWhole, MessageParts
<1> HIDE DEF b
<1>2. CASE b < 3
  BY <1>2 DEF SummariseMiddle, b
<1>3. CASE ~(b < 3)
  <2>1. middle \in Seq(Messages) /\ tail \in Seq(Messages) /\ Len(tail) = Len(a) - b
        /\ \A k \in 1..Len(tail) : tail[k] = a[b + k]
    BY <1>1, <1>3
  <2>2. Summary(middle) \in Messages /\ Wordy(Summary(middle))
    BY <2>1, SummaryIsWordy
  <2>3. a[1] \in Messages
    BY MessageParts
  <2> HIDE DEF middle, tail
  <2>4. s \in Seq(Messages) /\ Len(s) = 2 + Len(a) - b
    BY <1>1, <2>1, <2>2, <2>3
  <2>5. s[1] = a[1] /\ s[2] = Summary(middle) /\ \A k \in 3..Len(s) : s[k] = a[b + k - 2]
    BY <1>1, <2>1, <2>2, <2>3
  <2> HIDE DEF s
  <2>6. Paired(s)
    <3> SUFFICES ASSUME NEW i \in 1..Len(s)
                 PROVE  /\ HasResult(s[i]) => i > 1 /\ CallsOf(s[i - 1]) = ResultsOf(s[i])
                        /\ HasCall(s[i]) => i < Len(s) /\ ResultsOf(s[i + 1]) = CallsOf(s[i])
      BY DEF Paired
    <3>1. CASE i = 1
      BY <2>5, <3>1 DEF Wordy
    <3>2. CASE i = 2
      BY <2>2, <2>5, <3>2 DEF Wordy
    <3>3. CASE i > 2
      <4> DEFINE j == b + i - 2
      <4>1. j \in 1..Len(a) /\ j > b /\ s[i] = a[j]
        BY <1>1, <2>4, <2>5, <3>3
      <4>2. /\ HasResult(a[j]) => j > 1 /\ CallsOf(a[j - 1]) = ResultsOf(a[j])
            /\ HasCall(a[j]) => j < Len(a) /\ ResultsOf(a[j + 1]) = CallsOf(a[j])
        BY <4>1 DEF Paired
      <4>3. j < Len(a) => i < Len(s) /\ s[i + 1] = a[j + 1]
        BY <1>1, <2>4, <2>5, <3>3
      <4>4. CASE i = 3
        BY <1>1, <1>3, <4>1, <4>2, <4>3, <4>4 DEF Whole
      <4>5. CASE i > 3
        <5>1. s[i - 1] = a[j - 1]
          BY <1>1, <2>4, <2>5, <4>5
        <5> QED BY <4>1, <4>2, <4>3, <4>5, <5>1
      <4> QED BY <3>3, <4>4, <4>5
    <3> QED BY <3>1, <3>2, <3>3
  <2>7. SummariseMiddle(a) = s
    BY <1>3 DEF SummariseMiddle, b, s, middle, tail
  <2> QED BY <2>4, <2>6, <2>7
<1> QED BY <1>2, <1>3

(* So condense, whatever the limit and the sizes, parts no call from its    *)
(* result.                                                                  *)
LEMMA CondensedIsPaired ==
  ASSUME NEW a \in Seq(Messages), Len(a) > 0, Paired(a), Wordy(a[1])
  PROVE  Condense(a) \in Seq(Messages) /\ Paired(Condense(a))
<1> DEFINE e == ElideToolOutputs(a)
<1>1. AllAlike(a, e)
  BY ElidedIsAlike
<1> HIDE DEF e
<1>2. e \in Seq(Messages) /\ Len(e) = Len(a) /\ Len(a) \in Nat /\ \A i \in 1..Len(a) : Alike(a[i], e[i])
  BY <1>1, MessageParts DEF AllAlike
<1>3. Paired(e)
  BY <1>2, AlikeArePaired
<1>4. Wordy(e[1])
  BY <1>2 DEF Wordy, Alike, HasCall, HasResult
<1>5. SummariseMiddle(e) \in Seq(Messages) /\ Paired(SummariseMiddle(e))
  BY <1>2, <1>3, <1>4, SummarisedIsPaired
<1> QED BY <1>2, <1>3, <1>5 DEF Condense, e

(* What prepareStep sends is paired when the SDK's array is.                *)
LEMMA PreparedIsPaired ==
  ASSUME NEW a \in Seq(Messages), Len(a) > 0, Paired(a), Wordy(a[1]), NEW v
  PROVE  LET r == StripForeignReasoning(Condense(FromModelMessages(a)), v)
         IN  r \in Seq(Messages) /\ Paired(r)
<1> DEFINE f == FromModelMessages(a)
           c == Condense(f)
           r == StripForeignReasoning(c, v)
<1>1. AllAlike(a, f)
  BY FromModelIsAlike
<1> HIDE DEF f
<1>2. f \in Seq(Messages) /\ Len(f) = Len(a) /\ Len(a) \in Nat /\ \A i \in 1..Len(a) : Alike(a[i], f[i])
  BY <1>1, MessageParts DEF AllAlike
<1>3. Paired(f)
  BY <1>2, AlikeArePaired
<1>4. Wordy(f[1])
  BY <1>2 DEF Wordy, Alike, HasCall, HasResult
<1>5. c \in Seq(Messages) /\ Paired(c)
  BY <1>2, <1>3, <1>4, CondensedIsPaired
<1> HIDE DEF c
<1>6. AllAlike(c, r)
  BY <1>5, StrippedIsAlike
<1> HIDE DEF r
<1>7. r \in Seq(Messages) /\ Len(r) = Len(c) /\ Len(c) \in Nat /\ \A i \in 1..Len(c) : Alike(c[i], r[i])
  BY <1>5, <1>6, MessageParts DEF AllAlike
<1>8. Paired(r)
  BY <1>5, <1>7, AlikeArePaired
<1> QED BY <1>7, <1>8 DEF f, c, r

(* Only calls' numbers become file names.                                   *)
LEMMA PersistedIsNat ==
  ASSUME NEW a \in Seq(Messages), Len(a) > 0
  PROVE  Persisted(FromModelMessages(a)) \subseteq Nat
<1> DEFINE f == FromModelMessages(a)
<1>1. f \in Seq(Messages) /\ Len(f) = Len(a) /\ Len(a) \in Nat
  BY FromModelIsAlike, MessageParts DEF AllAlike
<1> HIDE DEF f
<1>2. ElidedBefore(f) \in 0..Len(f)
  BY <1>1, BoundaryIsWhole DEF ElidedBefore
<1>3. \A i \in 1..ElidedBefore(f) : f[i].parts \subseteq Parts
  BY <1>1, <1>2, MessageParts
<1>4. \A p \in Parts : p.kind = "big" => p.of \in Nat
  BY DEF Parts
<1>5. ToPersist(f) \subseteq Nat
  BY <1>3, <1>4 DEF ToPersist, OfKind
<1> QED BY <1>5 DEF Persisted, f

------------------------------------------------------------------------------
IInv == TypeOK /\ ArrayIsPaired /\ CallsKeepResults

LEMMA EmptyIsPaired == <<>> \in Seq(Messages) /\ Len(<<>>) = 0 /\ Paired(<<>>)
BY DEF Paired

LEMMA InitIInv == Init => IInv
<1> SUFFICES ASSUME Init PROVE IInv
  OBVIOUS
<1>1. TypeOK
  BY EmptyIsPaired DEF Init, TypeOK, Idle
<1>2. ArrayIsPaired /\ CallsKeepResults
  BY EmptyIsPaired DEF Init, ArrayIsPaired, CallsKeepResults, Idle
<1> QED BY <1>1, <1>2 DEF IInv

(* A user's message, resolved or not, has words and files only.             *)
LEMMA UserMessageIsWordy ==
  ASSUME NEW n \in Nat, NEW attached \in BOOLEAN
  PROVE  UserMessage(n, attached) \in Messages /\ Wordy(UserMessage(n, attached))
<1> DEFINE S == {Part("text", n, Unknown)} \cup (IF attached THEN {Part("file", n, Unknown)} ELSE {})
<1>1. S \in SUBSET Parts /\ \A p \in S : p.kind \in {"text", "file"}
  BY DEF Part, Parts
<1>2. UserMessage(n, attached) \in Messages /\ UserMessage(n, attached).parts = S
  BY <1>1, MessageOf DEF UserMessage
<1> HIDE DEF S
<1> QED BY <1>1, <1>2 DEF Wordy, HasCall, HasResult, CallsOf, ResultsOf, OfKind

LEMMA WordyIsPaired ==
  ASSUME NEW a, \A i \in 1..Len(a) : Wordy(a[i])
  PROVE  Paired(a)
BY DEF Paired, Wordy

(* Like messages are wordy together. *)
LEMMA AlikeAreWordy ==
  ASSUME NEW m, NEW n, Alike(m, n), Wordy(m)
  PROVE  Wordy(n)
BY DEF Alike, Wordy, HasCall, HasResult

LEMMA SendKeeps ==
  ASSUME IInv, NEW attached \in BOOLEAN, NEW read \in SUBSET (1..said + 1), Send(attached, read)
  PROVE  IInv'
<1> DEFINE u == UserMessage(said + 1, attached)
           b == WithBytes(history', read)
           w == WithNotes(b)
<1>1. u \in Messages /\ Wordy(u) /\ said + 1 \in Nat
  BY UserMessageIsWordy DEF IInv, TypeOK
<1> HIDE DEF u
<1>2. history \in Seq(Messages) /\ Len(history) \in Nat /\ \A i \in 1..Len(history) : Wordy(history[i])
  BY DEF IInv, TypeOK, ArrayIsPaired
<1>3. history' = Append(history, u)
  BY DEF Send, u
<1>4. /\ history' \in Seq(Messages) /\ Len(history') = Len(history) + 1
      /\ \A i \in 1..Len(history') : Wordy(history'[i])
  BY <1>1, <1>2, <1>3
<1>5. AllAlike(history', b)
  BY <1>4, WithBytesIsAlike
<1> HIDE DEF b
<1>6. b \in Seq(Messages) /\ Len(b) = Len(history') /\ \A i \in 1..Len(b) : Wordy(b[i])
  BY <1>4, <1>5, AlikeAreWordy DEF AllAlike
<1>7. AllAlike(b, w)
  BY <1>6, WithNotesIsAlike
<1> HIDE DEF w
<1>8. w \in Seq(Messages) /\ Len(w) = Len(history') /\ \A i \in 1..Len(w) : Wordy(w[i])
  BY <1>4, <1>6, <1>7, AlikeAreWordy DEF AllAlike
<1>9. array' = w
  BY DEF Send, ToModelMessages, w, b
<1>10. TypeOK'
  <2>1. loaded' = read /\ read \subseteq Nat
    BY <1>1 DEF Send
  <2> QED BY <1>1, <1>4, <1>8, <1>9, <2>1, EmptyIsPaired DEF Send, IInv, TypeOK
<1>11. ArrayIsPaired'
  <2>1. Paired(w)
    BY <1>8, WordyIsPaired
  <2>2. Len(w) > 0 /\ Wordy(w[1])
    BY <1>2, <1>4, <1>8
  <2> QED BY <1>4, <1>9, <2>1, <2>2 DEF ArrayIsPaired
<1>12. CallsKeepResults'
  BY EmptyIsPaired DEF Send, CallsKeepResults
<1> QED BY <1>10, <1>11, <1>12 DEF IInv

LEMMA PrepareStepKeeps ==
  ASSUME IInv, PrepareStep
  PROVE  IInv'
<1>1. array \in Seq(Messages) /\ Len(array) > 0 /\ Paired(array) /\ Wordy(array[1])
  BY DEF IInv, TypeOK, ArrayIsPaired, PrepareStep
<1>2. request' \in Seq(Messages) /\ Paired(request')
  BY <1>1, PreparedIsPaired DEF PrepareStep
<1>3. elided' \subseteq Nat
  BY <1>1, PersistedIsNat DEF PrepareStep, IInv, TypeOK
<1>4. TypeOK'
  BY <1>2, <1>3 DEF PrepareStep, IInv, TypeOK
<1>5. ArrayIsPaired'
  BY <1>1 DEF PrepareStep, IInv, ArrayIsPaired
<1> QED BY <1>2, <1>4, <1>5 DEF IInv, CallsKeepResults

(* A turn that ends forgets its array and its request.                      *)
LEMMA TurnEndKeeps ==
  ASSUME TurnEnds, history' \in Seq(Messages),
         \A i \in 1..Len(history') : Wordy(history'[i])
  PROVE  /\ ArrayIsPaired' /\ CallsKeepResults'
         /\ array' \in Seq(Messages) /\ request' \in Seq(Messages)
         /\ turn' \in [at : {"idle", "preparing", "asked"}, vendor : Vendors \cup {Unknown}]
         /\ loaded' \subseteq Nat
BY EmptyIsPaired DEF TurnEnds, Idle, ArrayIsPaired, CallsKeepResults

LEMMA PersistFailsKeeps ==
  ASSUME IInv, PersistFails
  PROVE  IInv'
<1>1. array \in Seq(Messages) /\ Len(array) > 0
  BY DEF IInv, TypeOK, ArrayIsPaired, PersistFails
<1>2. elided' \subseteq Nat
  BY <1>1, PersistedIsNat DEF PersistFails, IInv, TypeOK
<1>3. TurnEnds /\ history' = history
  BY DEF PersistFails
<1>4. history \in Seq(Messages) /\ \A i \in 1..Len(history) : Wordy(history[i])
  BY DEF IInv, TypeOK, ArrayIsPaired
<1> QED BY <1>2, <1>3, <1>4, TurnEndKeeps DEF PersistFails, IInv, TypeOK

(* A step adds one pair: the calls, and exactly their results.              *)
LEMMA StepFinishedKeeps ==
  ASSUME IInv, NEW outputs \in Outputs, NEW thinks \in BOOLEAN, StepFinished(outputs, thinks)
  PROVE  IInv'
<1> DEFINE n == Len(outputs)
           made == {calls + i : i \in DOMAIN outputs}
           R == IF thinks THEN {Part("reasoning", calls, turn.vendor)} ELSE {}
           A == R \cup {Part("call", c, Unknown) : c \in made}
           T == {Part(outputs[i], calls + i, Unknown) : i \in DOMAIN outputs}
           a == Message("assistant", A)
           t == Message("tool", T)
<1>1. n \in Nat \ {0} /\ DOMAIN outputs = 1..n /\ \A i \in 1..n : outputs[i] \in {"small", "big"}
  BY TranscriptAssumption DEF Outputs
<1>2. calls \in Nat /\ made \subseteq Nat /\ made # {}
  BY <1>1 DEF IInv, TypeOK
<1>3. A \in SUBSET Parts /\ \A p \in A : p.kind = "call" \/ p.kind = "reasoning"
  BY <1>2 DEF Part, Parts, IInv, TypeOK
<1>4. T \in SUBSET Parts /\ \A p \in T : p.kind \in Results
  BY <1>1, <1>2 DEF Part, Parts, Results
<1>5. {p.of : p \in {q \in A : q.kind = "call"}} = made
  <2>1. \A p \in A : p.kind = "call" => \E c \in made : p = Part("call", c, Unknown)
    BY DEF Part
  <2>2. \A c \in made : Part("call", c, Unknown) \in A /\ Part("call", c, Unknown).kind = "call"
                         /\ Part("call", c, Unknown).of = c
    BY DEF Part
  <2> HIDE DEF A, made
  <2> QED BY <2>1, <2>2
<1>6. {p.of : p \in T} = made
  <2>1. \A i \in DOMAIN outputs : Part(outputs[i], calls + i, Unknown).of = calls + i
    BY DEF Part
  <2> QED BY <2>1
<1> HIDE DEF A, T, made
<1>7. a \in Messages /\ t \in Messages /\ a.parts = A /\ t.parts = T
  BY <1>3, <1>4, MessageOf
<1> HIDE DEF a, t
<1>8. CallsOf(a) = made /\ ResultsOf(a) = {}
  BY <1>3, <1>5, <1>7 DEF CallsOf, ResultsOf, OfKind
<1>9. CallsOf(t) = {} /\ ResultsOf(t) = made
  <2>1. OfKind(t, {"small", "big", "note"}) = T
    BY <1>4, <1>7 DEF OfKind, Results
  <2>2. OfKind(t, {"call"}) = {}
    BY <1>4, <1>7 DEF OfKind, Results
  <2> QED BY <1>6, <2>1, <2>2 DEF CallsOf, ResultsOf
<1>10. /\ array \in Seq(Messages) /\ Len(array) \in Nat /\ Len(array) > 0
       /\ Paired(array) /\ Wordy(array[1])
  BY DEF IInv, TypeOK, ArrayIsPaired, StepFinished
<1>11. array' = array \o <<a, t>>
  BY DEF StepFinished, a, t, A, T, made
<1>12. /\ array' \in Seq(Messages) /\ Len(array') = Len(array) + 2
       /\ \A i \in 1..Len(array) : array'[i] = array[i]
       /\ array'[Len(array) + 1] = a /\ array'[Len(array) + 2] = t
  BY <1>7, <1>10, <1>11
<1>13. Paired(array')
  <2> SUFFICES ASSUME NEW i \in 1..Len(array')
               PROVE  /\ HasResult(array'[i]) => i > 1 /\ CallsOf(array'[i - 1]) = ResultsOf(array'[i])
                      /\ HasCall(array'[i]) => i < Len(array') /\ ResultsOf(array'[i + 1]) = CallsOf(array'[i])
    BY DEF Paired
  <2>1. CASE i \in 1..Len(array)
    <3>1. /\ HasResult(array[i]) => i > 1 /\ CallsOf(array[i - 1]) = ResultsOf(array[i])
          /\ HasCall(array[i]) => i < Len(array) /\ ResultsOf(array[i + 1]) = CallsOf(array[i])
      BY <1>10, <2>1 DEF Paired
    <3>2. array'[i] = array[i] /\ (i > 1 => array'[i - 1] = array[i - 1])
          /\ (i < Len(array) => array'[i + 1] = array[i + 1])
      BY <1>10, <1>12, <2>1
    <3> QED BY <1>12, <2>1, <3>1, <3>2
  <2>2. CASE i = Len(array) + 1
    BY <1>8, <1>9, <1>10, <1>12, <2>2 DEF HasCall, HasResult
  <2>3. CASE i = Len(array) + 2
    <3>1. i - 1 = Len(array) + 1
      BY <1>10, <2>3
    <3> QED BY <1>8, <1>9, <1>10, <1>12, <2>3, <3>1 DEF HasCall, HasResult
  <2> QED BY <1>10, <1>12, <2>1, <2>2, <2>3
<1>14. Len(array') > 0 /\ Wordy(array'[1])
  BY <1>10, <1>12
<1>15. TypeOK'
  <2>1. calls' \in Nat
    BY <1>1, <1>2 DEF StepFinished
  <2>2. turn' \in [at : {"idle", "preparing", "asked"}, vendor : Vendors \cup {Unknown}]
    BY DEF StepFinished, IInv, TypeOK
  <2> QED BY <1>12, <2>1, <2>2 DEF IInv, TypeOK, StepFinished
<1>16. ArrayIsPaired'
  BY <1>13, <1>14 DEF IInv, ArrayIsPaired, StepFinished
<1>17. CallsKeepResults'
  BY DEF IInv, CallsKeepResults, StepFinished
<1> QED BY <1>15, <1>16, <1>17 DEF IInv

LEMMA AnswerKeeps ==
  ASSUME IInv, NEW words \in BOOLEAN, Answer(words)
  PROVE  IInv'
<1> DEFINE m == Message("assistant", {Part("text", said + 1, Unknown)})
<1>1. said + 1 \in Nat
  BY DEF IInv, TypeOK
<1>2. m \in Messages /\ m.parts = {Part("text", said + 1, Unknown)}
  <2>1. {Part("text", said + 1, Unknown)} \in SUBSET Parts
    BY <1>1 DEF Part, Parts
  <2> QED BY <2>1, MessageOf
<1>3. Wordy(m)
  BY <1>2 DEF Wordy, HasCall, HasResult, CallsOf, ResultsOf, OfKind, Part
<1>4. history \in Seq(Messages) /\ \A i \in 1..Len(history) : Wordy(history[i])
  BY DEF IInv, TypeOK, ArrayIsPaired
<1>5. history' = history \/ history' = Append(history, m)
  BY DEF Answer
<1> HIDE DEF m
<1>6. history' \in Seq(Messages) /\ \A i \in 1..Len(history') : Wordy(history'[i])
  BY <1>2, <1>3, <1>4, <1>5
<1>7. TurnEnds
  BY DEF Answer
<1> QED BY <1>1, <1>6, <1>7, TurnEndKeeps DEF Answer, IInv, TypeOK

LEMMA NextKeepsIInv == IInv /\ [Next]_vars => IInv'
<1> SUFFICES ASSUME IInv, [Next]_vars PROVE IInv'
  OBVIOUS
<1>1. ASSUME NEW attached \in BOOLEAN, NEW read \in SUBSET (1..said + 1), Send(attached, read) PROVE IInv'
  BY <1>1, SendKeeps
<1>3. ASSUME NEW v \in Vendors, SwitchModel(v) PROVE IInv'
  BY <1>3 DEF SwitchModel, IInv, TypeOK, ArrayIsPaired, CallsKeepResults
<1>4. CASE PrepareStep
  BY <1>4, PrepareStepKeeps
<1>5. CASE PersistFails
  BY <1>5, PersistFailsKeeps
<1>6. ASSUME NEW outputs \in Outputs, NEW thinks \in BOOLEAN, StepFinished(outputs, thinks) PROVE IInv'
  BY <1>6, StepFinishedKeeps
<1>7. ASSUME NEW words \in BOOLEAN, Answer(words) PROVE IInv'
  BY <1>7, AnswerKeeps
<1>8. CASE Fail
  <2>1. TurnEnds /\ history' = history
    BY <1>8 DEF Fail
  <2>2. history \in Seq(Messages) /\ \A i \in 1..Len(history) : Wordy(history[i])
    BY DEF IInv, TypeOK, ArrayIsPaired
  <2> QED BY <1>8, <2>1, <2>2, TurnEndKeeps DEF Fail, IInv, TypeOK
<1>9. CASE UNCHANGED vars
  BY <1>9 DEF vars, IInv, TypeOK, ArrayIsPaired, CallsKeepResults
<1> QED BY <1>1, <1>3, <1>4, <1>5, <1>6, <1>7, <1>8, <1>9 DEF Next

LEMMA IInvHolds == Spec => []IInv
<1>1. Init => IInv
  BY InitIInv
<1>2. IInv /\ [Next]_vars => IInv'
  BY NextKeepsIInv
<1> QED BY <1>1, <1>2, PTL DEF Spec

(* A provider never sees a tool result without its call or a call without   *)
(* its result, whatever keepRecent, the token limit, the sizes of parts and *)
(* the summary's capacity are: the requests of send and prepareStep.        *)
THEOREM RequestsArePaired == Spec => []CallsKeepResults
<1>1. IInv => CallsKeepResults
  BY DEF IInv
<1> QED BY <1>1, IInvHolds, PTL

------------------------------------------------------------------------------
(* What the words, the outputs and the references of a message are.         *)
Words(m) == OfKind(m, {"text", "bytes", "missing"})
Bigs(m) == {p.of : p \in OfKind(m, {"big"})}
Notes(m) == {p.of : p \in OfKind(m, {"note"})}

(* What compaction keeps of a: the opening message and all after b, of the  *)
(* messages before that no words without the attachments beside them, and   *)
(* a reference for nothing but their large outputs.                         *)
Carries(a, r, b) ==
  /\ r \in Seq(Messages) /\ Len(r) > 0 /\ Content(r[1]) = Content(a[1])
  /\ \A i \in 1..Len(a) : i > b =>
       LET j == i + Len(r) - Len(a)
       IN  j \in 1..Len(r) /\ Content(r[j]) = Content(a[i])
  /\ \A j \in 1..Len(r) : Words(r[j]) = {} \/ \E i \in 1..Len(a) : Words(r[j]) = Words(a[i])
  /\ \A j \in 1..Len(r) : Notes(r[j]) \subseteq UNION {Bigs(a[i]) : i \in 1..b}

HasText(m, n) == \E p \in Words(m) : p.kind = "text" /\ p.of = n
Mark(n, S) == IF n \in S THEN "bytes" ELSE "missing"
HasMark(m, n, S) == \E p \in Words(m) : p.kind = Mark(n, S) /\ p.of = n

(* History is of what has been said, each message of its own number; the    *)
(* array has the outputs themselves, and by the words of a message that came *)
(* with a file its bytes or their absence, as they were when the turn began. *)
HistoryIsSaid ==
  /\ \A i \in 1..Len(history) : \A p \in history[i].parts : p.kind \in {"text", "file"} /\ p.of <= said
  /\ \A i, k \in 1..Len(history) : \A p \in history[i].parts, q \in history[k].parts : p.of = q.of => i = k
ArrayIsWhole == \A i \in 1..Len(array) : Notes(array[i]) = {}
AttachedIsLoaded ==
  turn.at # "idle" =>
    \A n \in Attached(history), i \in 1..Len(array) : HasText(array[i], n) => HasMark(array[i], n, loaded)

Lasts ==
  /\ HistoryIsSaid /\ ArrayIsWhole /\ AttachedIsLoaded
  /\ EndsAreVerbatim /\ OutputsSurvive /\ AttachmentsArrive

(* Messages of one content have the same of each.                           *)
LEMMA OfContent ==
  ASSUME NEW m, NEW n, Content(m) = Content(n)
  PROVE  Words(m) = Words(n) /\ Bigs(m) = Bigs(n) /\ Notes(m) = Notes(n)
<1>1. \A S \in {{"text", "bytes", "missing"}, {"big"}, {"note"}} : OfKind(m, S) = OfKind(n, S)
  <2> SUFFICES ASSUME NEW S \in {{"text", "bytes", "missing"}, {"big"}, {"note"}}
               PROVE  OfKind(m, S) = OfKind(n, S)
    OBVIOUS
  <2>1. \A p \in m.parts : p.kind \in S => p \in Content(m)
    BY DEF Content
  <2>2. \A p \in n.parts : p.kind \in S => p \in Content(n)
    BY DEF Content
  <2>3. Content(m) \subseteq m.parts /\ Content(n) \subseteq n.parts
    BY DEF Content
  <2> QED BY <2>1, <2>2, <2>3 DEF OfKind
<1> QED BY <1>1 DEF Words, Bigs, Notes

SameContent(a, b) ==
  b \in Seq(Messages) /\ Len(b) = Len(a) /\ \A i \in 1..Len(a) : Content(b[i]) = Content(a[i])

(* The SDK's types change who made a reasoning part; stripping drops it.    *)
LEMMA FromModelIsSame ==
  ASSUME NEW a \in Seq(Messages)
  PROVE  SameContent(a, FromModelMessages(a))
<1> DEFINE F(p) == IF p.kind = "reasoning" THEN [p EXCEPT !.by = Unknown] ELSE p
           f == FromModelMessages(a)
<1>1. f = [i \in 1..Len(a) |-> Message(a[i].role, {F(p) : p \in a[i].parts})]
  BY MessageParts DEF FromModelMessages, Mapped
<1>2. f \in Seq(Messages) /\ Len(f) = Len(a)
  BY FromModelIsAlike DEF AllAlike
<1> HIDE DEF f
<1>3. ASSUME NEW i \in 1..Len(a) PROVE Content(f[i]) = Content(a[i])
  <2>1. f[i].parts = {F(p) : p \in a[i].parts}
    BY <1>1 DEF Message
  <2>2. a[i].parts \subseteq Parts
    BY MessageParts
  <2>3. \A p \in Parts : (F(p).kind = "reasoning" <=> p.kind = "reasoning") /\ (p.kind # "reasoning" => F(p) = p)
    BY DEF Parts
  <2> HIDE DEF F
  <2> QED BY <2>1, <2>2, <2>3 DEF Content
<1> QED BY <1>2, <1>3 DEF SameContent, f

LEMMA StrippedIsSame ==
  ASSUME NEW a \in Seq(Messages), NEW v
  PROVE  SameContent(a, StripForeignReasoning(a, v))
<1> DEFINE b == StripForeignReasoning(a, v)
<1>1. \A i \in 1..Len(a) : b[i].parts = {p \in a[i].parts : p.kind = "reasoning" => p.by = v}
  BY MessageParts DEF StripForeignReasoning, Message
<1>2. b \in Seq(Messages) /\ Len(b) = Len(a)
  BY StrippedIsAlike DEF AllAlike
<1> HIDE DEF b
<1>3. \A i \in 1..Len(a) : Content(b[i]) = Content(a[i])
  BY <1>1 DEF Content
<1> QED BY <1>2, <1>3 DEF SameContent, b

(* The lossless pass: nothing after the boundary, of the rest the outputs,  *)
(* and of a message without outputs nothing.                                *)
LEMMA ElidedCarries ==
  ASSUME NEW a \in Seq(Messages), NEW e, e = ElideToolOutputs(a)
  PROVE  /\ e \in Seq(Messages) /\ Len(e) = Len(a)
         /\ \A i \in 1..Len(a) : /\ i > RecentBoundary(a) => e[i] = a[i]
                                 /\ Words(e[i]) = Words(a[i])
                                 /\ Notes(e[i]) \subseteq Notes(a[i]) \cup Bigs(a[i])
                                 /\ Wordy(a[i]) => Content(e[i]) = Content(a[i])
<1> DEFINE F(p) == IF p.kind = "big" THEN [p EXCEPT !.kind = "note"] ELSE p
<1>1. e = [i \in 1..Len(a) |-> IF i > RecentBoundary(a) THEN a[i]
                               ELSE Message(a[i].role, {F(p) : p \in a[i].parts})]
  BY MessageParts DEF ElideToolOutputs, ElidedBefore
<1>2. e \in Seq(Messages) /\ Len(e) = Len(a)
  BY ElidedIsAlike DEF AllAlike
<1>3. ASSUME NEW i \in 1..Len(a), ~(i > RecentBoundary(a))
      PROVE  /\ Words(e[i]) = Words(a[i]) /\ Notes(e[i]) \subseteq Notes(a[i]) \cup Bigs(a[i])
             /\ Wordy(a[i]) => Content(e[i]) = Content(a[i])
  <2>1. e[i].parts = {F(p) : p \in a[i].parts}
    BY <1>1, <1>3 DEF Message
  <2>2. a[i].parts \subseteq Parts
    BY MessageParts
  <2>3. \A p \in Parts : /\ p.kind # "big" => F(p) = p
                         /\ p.kind = "big" => F(p).kind = "note" /\ F(p).of = p.of
    BY DEF Parts
  <2> HIDE DEF F
  <2>4. Words(e[i]) = Words(a[i])
    BY <2>1, <2>2, <2>3 DEF Words, OfKind
  <2>5. Notes(e[i]) \subseteq Notes(a[i]) \cup Bigs(a[i])
    <3> SUFFICES ASSUME NEW x \in Notes(e[i]) PROVE x \in Notes(a[i]) \cup Bigs(a[i])
      OBVIOUS
    <3>1. PICK q \in e[i].parts : q.kind = "note" /\ x = q.of
      BY DEF Notes, OfKind
    <3>2. PICK p \in a[i].parts : q = F(p)
      BY <2>1
    <3>3. p.kind \in {"note", "big"} /\ x = p.of
      BY <2>2, <2>3, <3>1, <3>2
    <3> QED BY <3>3 DEF Notes, Bigs, OfKind
  <2>6. ASSUME Wordy(a[i]) PROVE Content(e[i]) = Content(a[i])
    <3>1. \A p \in a[i].parts : p.kind # "big"
      BY <2>6 DEF Wordy, HasResult, ResultsOf, OfKind
    <3>2. e[i].parts = a[i].parts
      BY <2>1, <2>2, <2>3, <3>1
    <3> QED BY <3>2 DEF Content
  <2> QED BY <2>4, <2>5, <2>6
<1>4. \A i \in 1..Len(a) : i > RecentBoundary(a) => e[i] = a[i]
  BY <1>1
<1> HIDE DEF F
<1>5. ASSUME NEW i \in 1..Len(a)
      PROVE  /\ i > RecentBoundary(a) => e[i] = a[i]
             /\ Words(e[i]) = Words(a[i])
             /\ Notes(e[i]) \subseteq Notes(a[i]) \cup Bigs(a[i])
             /\ Wordy(a[i]) => Content(e[i]) = Content(a[i])
  BY <1>3, <1>4
<1> QED BY <1>2, <1>5

(* Which leaves the boundary where it is.                                   *)
LEMMA ElidedBoundary ==
  ASSUME NEW a \in Seq(Messages)
  PROVE  RecentBoundary(ElideToolOutputs(a)) = RecentBoundary(a)
<1> DEFINE e == ElideToolOutputs(a)
<1>1. AllAlike(a, e)
  BY ElidedIsAlike
<1> HIDE DEF e
<1>2. e \in Seq(Messages) /\ Len(e) = Len(a) /\ Len(a) \in Nat /\ \A i \in 1..Len(a) : Alike(a[i], e[i])
  BY <1>1, MessageParts DEF AllAlike
<1>3. Latest(e) = Latest(a) /\ Latest(a) \in 0..Len(a) /\ (Len(a) > 0 => Latest(a) < Len(a))
  BY <1>2, BoundaryIsWhole DEF Latest
<1>4. ASSUME NEW c \in 0..Latest(a) PROVE Whole(e, c) <=> Whole(a, c)
  <2>1. CASE c = 0
    BY <2>1 DEF Whole
  <2>2. CASE c # 0
    <3>1. c \in 1..Len(a) /\ c + 1 \in 1..Len(a)
      BY <1>2, <1>3, <2>2
    <3>2. (HasResult(e[c + 1]) <=> HasResult(a[c + 1])) /\ (HasCall(e[c]) <=> HasCall(a[c]))
      BY <1>2, <3>1 DEF Alike, HasResult, HasCall
    <3> QED BY <3>2 DEF Whole
  <2> QED BY <2>1, <2>2
<1>5. /\ RecentBoundary(a) \in 0..Latest(a) /\ Whole(a, RecentBoundary(a))
      /\ \A c \in 0..Latest(a) : Whole(a, c) => c <= RecentBoundary(a)
  BY <1>2, BoundaryIsWhole
<1>6. /\ RecentBoundary(e) \in 0..Latest(a) /\ Whole(e, RecentBoundary(e))
      /\ \A c \in 0..Latest(a) : Whole(e, c) => c <= RecentBoundary(e)
  BY <1>2, <1>3, BoundaryIsWhole
<1>7. RecentBoundary(a) <= RecentBoundary(e) /\ RecentBoundary(e) <= RecentBoundary(a)
  BY <1>4, <1>5, <1>6
<1> QED BY <1>5, <1>6, <1>7 DEF e

(* A summary has neither words of its own nor references.                   *)
LEMMA SummaryIsSilent ==
  ASSUME NEW a
  PROVE  Words(Summary(a)) = {} /\ Notes(Summary(a)) = {}
BY DEF Summary, Message, Words, Notes, OfKind

(* The lossy pass: the opening message, the summary, and the tail.          *)
LEMMA SummarisedCarries ==
  ASSUME NEW a \in Seq(Messages), Len(a) > 0, ~(RecentBoundary(a) < 3)
  PROVE  LET b == RecentBoundary(a)
             s == SummariseMiddle(a)
         IN  /\ b \in 0..Len(a) /\ s \in Seq(Messages) /\ Len(s) = 2 + Len(a) - b
             /\ s[1] = a[1] /\ Words(s[2]) = {} /\ Notes(s[2]) = {}
             /\ \A k \in 3..Len(s) : b + k - 2 \in 1..Len(a) /\ s[k] = a[b + k - 2]
<1> DEFINE b == RecentBoundary(a)
           s == SummariseMiddle(a)
           middle == SubSeq(a, 2, b)
           tail == SubSeq(a, b + 1, Len(a))
<1>1. b \in Nat /\ b < Len(a) /\ Len(a) \in Nat
  BY BoundaryIsWhole, MessageParts
<1>2. s = <<a[1], Summary(middle)>> \o tail
  BY DEF SummariseMiddle
<1>3. middle \in Seq(Messages) /\ tail \in Seq(Messages) /\ Len(tail) = Len(a) - b
      /\ \A k \in 1..Len(tail) : tail[k] = a[b + k]
  BY <1>1
<1>4. a[1] \in Messages
  BY <1>1, MessageParts
<1> HIDE DEF middle, tail, s, b
<1>5. Summary(middle) \in Messages /\ Words(Summary(middle)) = {} /\ Notes(Summary(middle)) = {}
  BY <1>3, SummaryIsWordy, SummaryIsSilent
<1>6. s \in Seq(Messages) /\ Len(s) = 2 + Len(a) - b
  BY <1>1, <1>2, <1>3, <1>4, <1>5
<1>7. s[1] = a[1] /\ s[2] = Summary(middle) /\ \A k \in 3..Len(s) : s[k] = a[b + k - 2]
  <2> DEFINE summary == Summary(middle)
  <2>1. summary \in Messages
    BY <1>5
  <2>2. s = <<a[1], summary>> \o tail
    BY <1>2
  <2> HIDE DEF summary
  <2>3. s[1] = a[1] /\ s[2] = summary
    BY <1>3, <1>4, <2>1, <2>2
  <2>4. ASSUME NEW k \in 3..Len(s) PROVE s[k] = a[b + k - 2]
    <3>1. k - 2 \in 1..Len(tail) /\ b + k - 2 = b + (k - 2)
      BY <1>1, <1>3, <1>6
    <3>2. s[k] = tail[k - 2]
      BY <1>3, <1>4, <2>1, <2>2, <3>1
    <3> QED BY <1>3, <3>1, <3>2
  <2> QED BY <2>3, <2>4 DEF summary
<1>8. \A k \in 3..Len(s) : b + k - 2 \in 1..Len(a)
  BY <1>1, <1>6
<1> QED BY <1>1, <1>5, <1>6, <1>7, <1>8 DEF b, s

(* So condense carries what is after a boundary, and the outputs before it  *)
(* are in files.                                                            *)
Keeps(a, r, files) ==
  \E b \in 0..Latest(a) : Carries(a, r, b) /\ \A i \in 1..Len(a) : i <= b => Bigs(a[i]) \subseteq files

LEMMA BoundaryFiles ==
  ASSUME NEW a \in Seq(Messages), Len(a) > 0, Over(a)
  PROVE  \A i \in 1..Len(a) : i <= RecentBoundary(a) => Bigs(a[i]) \subseteq Persisted(a)
<1> SUFFICES ASSUME NEW i \in 1..Len(a), i <= RecentBoundary(a), NEW x \in Bigs(a[i])
             PROVE  x \in ToPersist(a)
  BY DEF Persisted
<1>1. i \in 1..ElidedBefore(a)
  BY MessageParts, BoundaryIsWhole DEF ElidedBefore
<1> QED BY <1>1 DEF ToPersist, Bigs

LEMMA CondensedKeeps ==
  ASSUME NEW a \in Seq(Messages), Len(a) > 0, Wordy(a[1]), \A i \in 1..Len(a) : Notes(a[i]) = {}
  PROVE  Keeps(a, Condense(a), Persisted(a))
<1> DEFINE b == RecentBoundary(a)
           e == ElideToolOutputs(a)
           s == SummariseMiddle(e)
<1>1. Len(a) \in Nat /\ b \in 0..Latest(a) /\ Latest(a) \in 0..Len(a) /\ 1 \in 1..Len(a) /\ b < Len(a)
  BY MessageParts, BoundaryIsWhole
<1>2. /\ e \in Seq(Messages) /\ Len(e) = Len(a)
      /\ \A i \in 1..Len(a) : /\ i > b => e[i] = a[i]
                              /\ Words(e[i]) = Words(a[i])
                              /\ Notes(e[i]) \subseteq Notes(a[i]) \cup Bigs(a[i])
                              /\ Wordy(a[i]) => Content(e[i]) = Content(a[i])
  BY ElidedCarries
<1>3. RecentBoundary(e) = b
  BY ElidedBoundary
<1> HIDE DEF e
<1>4. ASSUME NEW i \in 1..Len(a) PROVE Notes(e[i]) \subseteq UNION {Bigs(a[k]) : k \in 1..b}
  <2>1. CASE i > b
    BY <1>2, <2>1
  <2>2. CASE ~(i > b)
    <3>1. i \in 1..b
      BY <1>1, <2>2
    <3> QED BY <1>2, <3>1
  <2> QED BY <2>1, <2>2
<1>5. CASE ~Over(a)
  <2>1. Carries(a, a, 0)
    <3>1. \A i \in 1..Len(a) : i + Len(a) - Len(a) = i
      BY <1>1
    <3> QED BY <1>1, <3>1 DEF Carries
  <2>2. 0 \in 0..Latest(a) /\ \A i \in 1..Len(a) : ~(i <= 0)
    BY <1>1
  <2> QED BY <1>5, <2>1, <2>2 DEF Condense, Keeps
<1>6. Carries(a, e, b)
  <2>1. \A i \in 1..Len(a) : i + Len(e) - Len(a) = i
    BY <1>1, <1>2
  <2>2. Content(e[1]) = Content(a[1])
    BY <1>1, <1>2
  <2>3. \A i \in 1..Len(a) : i > b => i + Len(e) - Len(a) \in 1..Len(e)
                                      /\ Content(e[i + Len(e) - Len(a)]) = Content(a[i])
    BY <1>2, <2>1
  <2>4. \A j \in 1..Len(e) : Words(e[j]) = {} \/ \E i \in 1..Len(a) : Words(e[j]) = Words(a[i])
    BY <1>2
  <2>5. \A j \in 1..Len(e) : Notes(e[j]) \subseteq UNION {Bigs(a[k]) : k \in 1..b}
    BY <1>2, <1>4
  <2> QED BY <1>1, <1>2, <2>2, <2>3, <2>4, <2>5 DEF Carries
<1>7. CASE Over(a) /\ (~Over(e) \/ b < 3)
  <2>1. Condense(a) = e
    BY <1>3, <1>7 DEF Condense, SummariseMiddle, e
  <2> QED BY <1>1, <1>6, <1>7, <2>1, BoundaryFiles DEF Keeps
<1>8. CASE Over(a) /\ Over(e) /\ ~(b < 3)
  <2>1. Condense(a) = s
    BY <1>8 DEF Condense, e
  <2>2. /\ s \in Seq(Messages) /\ Len(s) = 2 + Len(a) - b
        /\ s[1] = e[1] /\ Words(s[2]) = {} /\ Notes(s[2]) = {}
        /\ \A k \in 3..Len(s) : b + k - 2 \in 1..Len(a) /\ s[k] = e[b + k - 2]
    <3>1. Len(e) > 0 /\ ~(RecentBoundary(e) < 3)
      BY <1>1, <1>2, <1>3, <1>8
    <3> QED BY <1>2, <1>3, <3>1, SummarisedCarries
  <2> HIDE DEF s, b
  <2>3. Content(s[1]) = Content(a[1]) /\ Words(s[1]) = Words(a[1])
    BY <1>1, <1>2, <2>2
  <2>4. ASSUME NEW i \in 1..Len(a), i > b
        PROVE  i + Len(s) - Len(a) \in 1..Len(s) /\ Content(s[i + Len(s) - Len(a)]) = Content(a[i])
    <3>1. i + Len(s) - Len(a) = i + 2 - b /\ i + 2 - b \in 3..Len(s) /\ b + (i + 2 - b) - 2 = i
      BY <1>1, <2>2, <2>4
    <3>2. s[i + 2 - b] = a[i]
      BY <1>2, <2>2, <2>4, <3>1
    <3> QED BY <1>1, <2>2, <3>1, <3>2
  <2>5. \A j \in 1..Len(s) : j = 1 \/ j = 2 \/ j \in 3..Len(s)
    BY <1>1, <2>2
  <2>6. ASSUME NEW j \in 1..Len(s)
        PROVE  /\ Words(s[j]) = {} \/ \E i \in 1..Len(a) : Words(s[j]) = Words(a[i])
               /\ Notes(s[j]) \subseteq UNION {Bigs(a[k]) : k \in 1..b}
    <3>1. CASE j = 1
      BY <1>1, <1>4, <2>2, <2>3, <3>1
    <3>2. CASE j = 2
      BY <2>2, <3>2
    <3>3. CASE j \in 3..Len(s)
      <4>1. b + j - 2 \in 1..Len(a) /\ s[j] = e[b + j - 2]
        BY <2>2, <3>3
      <4> QED BY <1>2, <1>4, <4>1
    <3> QED BY <2>5, <3>1, <3>2, <3>3
  <2>7. Carries(a, s, b)
    <3>1. Len(s) > 0
      BY <1>1, <2>2
    <3> QED BY <2>2, <2>3, <2>4, <2>6, <3>1 DEF Carries
  <2> QED BY <1>1, <1>8, <2>1, <2>7, BoundaryFiles DEF Keeps, b
<1> QED BY <1>5, <1>7, <1>8

(* Content is all that matters of it, before and after.                     *)
LEMMA KeepsContent ==
  ASSUME NEW a \in Seq(Messages), Len(a) > 0, NEW f \in Seq(Messages), NEW c, NEW r, NEW files,
         SameContent(a, f), SameContent(c, r), Keeps(f, c, files)
  PROVE  Keeps(a, r, files)
<1>1. PICK b \in 0..Latest(f) : Carries(f, c, b) /\ \A i \in 1..Len(f) : i <= b => Bigs(f[i]) \subseteq files
  BY DEF Keeps
<1>2. /\ Len(f) = Len(a) /\ Len(a) \in Nat /\ Latest(f) = Latest(a) /\ Latest(a) \in 0..Len(a)
      /\ \A i \in 1..Len(a) : Content(f[i]) = Content(a[i])
  BY MessageParts, BoundaryIsWhole DEF SameContent, Latest
<1>3. /\ r \in Seq(Messages) /\ Len(r) = Len(c) /\ \A i \in 1..Len(c) : Content(r[i]) = Content(c[i])
  BY DEF SameContent
<1>4. \A i \in 1..Len(a) : Words(f[i]) = Words(a[i]) /\ Bigs(f[i]) = Bigs(a[i])
  BY <1>2, OfContent
<1>5. \A i \in 1..Len(c) : Words(r[i]) = Words(c[i]) /\ Notes(r[i]) = Notes(c[i])
  BY <1>3, OfContent
<1>6. /\ c \in Seq(Messages) /\ Len(c) \in Nat /\ Len(c) > 0 /\ Content(c[1]) = Content(f[1])
      /\ \A i \in 1..Len(f) : i > b => /\ i + Len(c) - Len(f) \in 1..Len(c)
                                       /\ Content(c[i + Len(c) - Len(f)]) = Content(f[i])
      /\ \A j \in 1..Len(c) : Words(c[j]) = {} \/ \E i \in 1..Len(f) : Words(c[j]) = Words(f[i])
      /\ \A j \in 1..Len(c) : Notes(c[j]) \subseteq UNION {Bigs(f[i]) : i \in 1..b}
  BY <1>1, MessageParts DEF Carries
<1>7. 1..b \subseteq 1..Len(a)
  BY <1>1, <1>2
<1>8. {Bigs(f[i]) : i \in 1..b} = {Bigs(a[i]) : i \in 1..b}
  BY <1>4, <1>7
<1>9. 1 \in 1..Len(a) /\ 1 \in 1..Len(c)
  BY <1>2, <1>6
<1>10. Content(r[1]) = Content(a[1])
  BY <1>2, <1>3, <1>6, <1>9
<1>11. \A i \in 1..Len(a) : i > b => /\ i + Len(r) - Len(a) \in 1..Len(r)
                                    /\ Content(r[i + Len(r) - Len(a)]) = Content(a[i])
  BY <1>2, <1>3, <1>6
<1>12. \A j \in 1..Len(r) : Words(r[j]) = {} \/ \E i \in 1..Len(a) : Words(r[j]) = Words(a[i])
  BY <1>2, <1>3, <1>4, <1>5, <1>6
<1>13. \A j \in 1..Len(r) : Notes(r[j]) \subseteq UNION {Bigs(a[i]) : i \in 1..b}
  BY <1>3, <1>5, <1>6, <1>8
<1>14. Carries(a, r, b)
  BY <1>3, <1>6, <1>10, <1>11, <1>12, <1>13 DEF Carries
<1>15. \A i \in 1..Len(a) : i <= b => Bigs(a[i]) \subseteq files
  BY <1>1, <1>2, <1>4
<1> QED BY <1>1, <1>2, <1>14, <1>15 DEF Keeps

------------------------------------------------------------------------------
(* What prepareStep sends keeps of the SDK's array what it should.          *)
LEMMA PreparedKeeps ==
  ASSUME NEW a \in Seq(Messages), Len(a) > 0, Wordy(a[1]), \A i \in 1..Len(a) : Notes(a[i]) = {}, NEW v
  PROVE  Keeps(a, StripForeignReasoning(Condense(FromModelMessages(a)), v), Persisted(FromModelMessages(a)))
<1> DEFINE f == FromModelMessages(a)
           c == Condense(f)
           r == StripForeignReasoning(c, v)
<1>1. SameContent(a, f) /\ AllAlike(a, f)
  BY FromModelIsSame, FromModelIsAlike
<1> HIDE DEF f
<1>2. /\ f \in Seq(Messages) /\ Len(f) = Len(a) /\ Len(a) \in Nat
      /\ \A i \in 1..Len(a) : Content(f[i]) = Content(a[i]) /\ Alike(a[i], f[i])
  BY <1>1, MessageParts DEF SameContent, AllAlike
<1>3. \A i \in 1..Len(f) : Notes(f[i]) = {}
  <2>1. \A i \in 1..Len(a) : Notes(f[i]) = Notes(a[i])
    BY <1>2, OfContent
  <2> QED BY <1>2, <2>1
<1>4. Wordy(f[1])
  <2>1. 1 \in 1..Len(a)
    BY <1>2
  <2> QED BY <1>2, <2>1, AlikeAreWordy
<1>5. Keeps(f, c, Persisted(f))
  BY <1>2, <1>3, <1>4, CondensedKeeps
<1> HIDE DEF c
<1>6. c \in Seq(Messages)
  BY <1>5 DEF Keeps, Carries
<1>7. SameContent(c, r)
  BY <1>6, StrippedIsSame
<1> HIDE DEF r
<1>8. Keeps(a, r, Persisted(f))
  BY <1>1, <1>2, <1>5, <1>7, KeepsContent
<1> QED BY <1>8 DEF r, c, f

(* Between a turn's requests, what has been sent names files that stay.     *)
LEMMA NotAsked ==
  ASSUME turn'.at # "asked",
         \/ request' = <<>>
         \/ request' = request /\ OutputsSurvive /\ elided \subseteq elided'
  PROVE  EndsAreVerbatim' /\ OutputsSurvive' /\ AttachmentsArrive'
<1>1. EndsAreVerbatim' /\ AttachmentsArrive'
  BY DEF EndsAreVerbatim, AttachmentsArrive
<1>2. CASE request' = <<>>
  <2>1. 1..Len(request') = {}
    BY <1>2
  <2>2. InRequest({"note"})' = {}
    BY <2>1 DEF InRequest
  <2> QED BY <1>1, <2>2 DEF OutputsSurvive
<1>3. CASE request' = request /\ OutputsSurvive /\ elided \subseteq elided'
  <2>1. InRequest({"note"})' = InRequest({"note"})
    BY <1>3 DEF InRequest
  <2>2. InRequest({"note"}) \subseteq elided'
    BY <1>3 DEF OutputsSurvive
  <2> QED BY <1>1, <2>1, <2>2 DEF OutputsSurvive
<1> QED BY <1>2, <1>3

(* What a request of them keeps, put as the properties have it.             *)
LEMMA EndsAreKept ==
  ASSUME NEW a \in Seq(Messages), Len(a) > 0, NEW r, NEW files, Keeps(a, r, files)
  PROVE  /\ Content(r[1]) = Content(a[1])
         /\ \A i \in Recent(a) :
              LET j == i + Len(r) - Len(a)
              IN  j \in 1..Len(r) /\ Content(r[j]) = Content(a[i])
<1>1. PICK b \in 0..Latest(a) : Carries(a, r, b)
  BY DEF Keeps
<1>2. \A i \in Recent(a) : i \in 1..Len(a) /\ i > b
  BY <1>1, MessageParts, BoundaryIsWhole, KeepAssumption DEF Recent, Latest
<1> QED BY <1>1, <1>2 DEF Carries

Bigger(r) == UNION {Bigs(r[j]) : j \in 1..Len(r)}
Noted(r) == UNION {Notes(r[j]) : j \in 1..Len(r)}

LEMMA OutputsAreKept ==
  ASSUME NEW a \in Seq(Messages), Len(a) > 0, NEW r, NEW files, Keeps(a, r, files)
  PROVE  /\ \A i \in 1..Len(a) : Bigs(a[i]) \subseteq Bigger(r) \cup files
         /\ Noted(r) \subseteq files
<1>1. PICK b \in 0..Latest(a) : Carries(a, r, b) /\ \A i \in 1..Len(a) : i <= b => Bigs(a[i]) \subseteq files
  BY DEF Keeps
<1>2. Len(a) \in Nat /\ b \in 0..Len(a)
  BY <1>1, MessageParts, BoundaryIsWhole
<1>3. ASSUME NEW i \in 1..Len(a) PROVE Bigs(a[i]) \subseteq Bigger(r) \cup files
  <2>1. CASE i <= b
    BY <1>1, <2>1
  <2>2. CASE ~(i <= b)
    <3> DEFINE j == i + Len(r) - Len(a)
    <3>1. j \in 1..Len(r) /\ Content(r[j]) = Content(a[i])
      BY <1>1, <1>2, <2>2 DEF Carries
    <3> HIDE DEF j
    <3>2. Bigs(r[j]) = Bigs(a[i])
      BY <3>1, OfContent
    <3> QED BY <3>1, <3>2 DEF Bigger
  <2> QED BY <2>1, <2>2
<1>4. ASSUME NEW j \in 1..Len(r) PROVE Notes(r[j]) \subseteq files
  <2>1. Notes(r[j]) \subseteq UNION {Bigs(a[i]) : i \in 1..b}
    BY <1>1 DEF Carries
  <2>2. \A i \in 1..b : Bigs(a[i]) \subseteq files
    BY <1>1, <1>2
  <2> QED BY <2>1, <2>2
<1> QED BY <1>3, <1>4 DEF Noted

LEMMA AttachmentsAreKept ==
  ASSUME NEW a \in Seq(Messages), NEW r, NEW files, Keeps(a, r, files), NEW q, NEW S,
         \A i \in 1..Len(a) : HasText(a[i], q) => HasMark(a[i], q, S),
         NEW j \in 1..Len(r), HasText(r[j], q)
  PROVE  HasMark(r[j], q, S)
<1>1. Words(r[j]) = {} \/ \E i \in 1..Len(a) : Words(r[j]) = Words(a[i])
  BY DEF Keeps, Carries
<1>2. Words(r[j]) # {}
  BY DEF HasText
<1>3. PICK i \in 1..Len(a) : Words(r[j]) = Words(a[i])
  BY <1>1, <1>2
<1>4. HasText(a[i], q)
  BY <1>3 DEF HasText
<1>5. HasMark(a[i], q, S)
  BY <1>4
<1> QED BY <1>3, <1>5 DEF HasMark

LEMMA PrepareStepLasts ==
  ASSUME IInv, Lasts, PrepareStep
  PROVE  Lasts'
<1> DEFINE files == Persisted(FromModelMessages(array))
<1>1. /\ turn.at = "preparing" /\ turn'.at = "asked" /\ elided' = elided \cup files
      /\ UNCHANGED <<history, vendor, array, loaded, said, calls, question>>
      /\ request' = StripForeignReasoning(Condense(FromModelMessages(array)), turn.vendor)
  BY DEF PrepareStep, IInv, TypeOK
<1>2. array \in Seq(Messages) /\ Len(array) > 0 /\ Wordy(array[1])
  BY <1>1 DEF IInv, TypeOK, ArrayIsPaired
<1>3. \A i \in 1..Len(array) : Notes(array[i]) = {}
  BY DEF Lasts, ArrayIsWhole
<1> DEFINE r == StripForeignReasoning(Condense(FromModelMessages(array)), turn.vendor)
<1>4. Keeps(array, r, files)
  BY <1>2, <1>3, PreparedKeeps
<1> HIDE DEF r, files
<1>5. Keeps(array, request', files)
  BY <1>1, <1>4 DEF r
<1>6. HistoryIsSaid' /\ ArrayIsWhole' /\ Attached(history)' = Attached(history)
  BY <1>1 DEF Lasts, HistoryIsSaid, ArrayIsWhole, Attached
<1>7. AttachedIsLoaded'
  BY <1>1, <1>6 DEF Lasts, AttachedIsLoaded
<1>8. EndsAreVerbatim'
  <2>1. /\ Content(request'[1]) = Content(array[1])
        /\ \A i \in Recent(array) :
             LET j == i + Len(request') - Len(array)
             IN  j \in 1..Len(request') /\ Content(request'[j]) = Content(array[i])
    BY <1>2, <1>5, EndsAreKept
  <2> QED BY <1>1, <2>1 DEF EndsAreVerbatim
<1>9. OutputsSurvive'
  <2>1. /\ \A i \in 1..Len(array) : Bigs(array[i]) \subseteq Bigger(request') \cup files
        /\ Noted(request') \subseteq files
    BY <1>2, <1>5, OutputsAreKept
  <2>2. InRequest({"big"})' = Bigger(request') /\ InRequest({"note"})' = Noted(request')
    BY DEF InRequest, Bigger, Bigs, Noted, Notes
  <2>3. InRequest({"note"})' \subseteq elided'
    BY <1>1, <2>1, <2>2
  <2>4. ASSUME NEW i \in 1..Len(array), NEW p \in OfKind(array[i], {"big"})
        PROVE  p.of \in InRequest({"big"})' \cup elided'
    <3>1. p.of \in Bigs(array[i])
      BY DEF Bigs
    <3> QED BY <1>1, <2>1, <2>2, <3>1
  <2> QED BY <1>1, <2>3, <2>4 DEF OutputsSurvive
<1>10. AttachmentsArrive'
  <2> SUFFICES ASSUME NEW n \in InRequest({"text"})', n \in Attached(history)
               PROVE  n \in InRequest({Mark(n, loaded)})'
    BY <1>1, <1>6 DEF AttachmentsArrive, Mark
  <2>1. PICK j \in 1..Len(request') : HasText(request'[j], n)
    <3>1. PICK j \in 1..Len(request') : \E p \in OfKind(request'[j], {"text"}) : p.of = n
      BY DEF InRequest
    <3> QED BY <3>1 DEF HasText, Words, OfKind
  <2>2. \A i \in 1..Len(array) : HasText(array[i], n) => HasMark(array[i], n, loaded)
    BY <1>1 DEF Lasts, AttachedIsLoaded
  <2>3. HasMark(request'[j], n, loaded)
    BY <1>2, <1>5, <2>1, <2>2, AttachmentsAreKept
  <2>4. PICK p \in request'[j].parts : p.kind = Mark(n, loaded) /\ p.of = n
    BY <2>3 DEF HasMark, Words, OfKind
  <2>5. p.kind = Mark(n, loaded')
    BY <1>1, <2>4
  <2> QED BY <2>4, <2>5 DEF InRequest, OfKind
<1> QED BY <1>6, <1>7, <1>8, <1>9, <1>10 DEF Lasts

(* Reading the attachments of history leaves its words.                     *)
LEMMA LoadedParts ==
  ASSUME NEW h \in Seq(Messages), NEW S, NEW i \in 1..Len(h), \A p \in h[i].parts : p.kind \in {"text", "file"}
  PROVE  LET w == ToModelMessages(h, S)
         IN  /\ \A p \in w[i].parts : \/ p \in h[i].parts /\ p.kind = "text"
                                      \/ p.kind \in {"bytes", "missing"}
             /\ \A p \in h[i].parts : p.kind = "file" =>
                  \E q \in w[i].parts : q.kind = Mark(p.of, S) /\ q.of = p.of
<1> DEFINE F(p) == IF p.kind = "file" /\ p.of \in S THEN [p EXCEPT !.kind = "bytes"] ELSE p
           G(p) == IF p.kind = "file" THEN [p EXCEPT !.kind = "missing"] ELSE p
           b == WithBytes(h, S)
           w == WithNotes(b)
<1>1. b = [k \in 1..Len(h) |-> Message(h[k].role, {F(p) : p \in h[k].parts})]
  BY MessageParts DEF WithBytes, Mapped
<1>2. b \in Seq(Messages) /\ Len(b) = Len(h)
  BY WithBytesIsAlike DEF AllAlike
<1> HIDE DEF b
<1>3. w = [k \in 1..Len(b) |-> Message(b[k].role, {G(p) : p \in b[k].parts})]
  BY <1>2, MessageParts DEF WithNotes, Mapped
<1> HIDE DEF w
<1>4. b[i].parts = {F(p) : p \in h[i].parts} /\ w[i].parts = {G(p) : p \in b[i].parts}
  BY <1>1, <1>2, <1>3 DEF Message
<1>5. h[i].parts \subseteq Parts
  BY MessageParts
<1>6. \A p \in Parts : /\ p.kind = "file" /\ p.of \in S =>
                            F(p).kind = "bytes" /\ F(p).of = p.of /\ G(F(p)) = F(p)
                       /\ p.kind = "file" /\ p.of \notin S =>
                            G(F(p)).kind = "missing" /\ G(F(p)).of = p.of
                       /\ p.kind = "text" => G(F(p)) = p
  BY DEF Parts
<1> HIDE DEF F, G
<1>7. w[i].parts = {G(F(p)) : p \in h[i].parts}
  BY <1>4
<1>8. \A p \in h[i].parts : p.kind \in {"text", "file"}
  OBVIOUS
<1>9. \A p \in w[i].parts : \/ p \in h[i].parts /\ p.kind = "text"
                            \/ p.kind \in {"bytes", "missing"}
  BY <1>5, <1>6, <1>7, <1>8
<1>10. \A p \in h[i].parts : p.kind = "file" =>
          \E q \in w[i].parts : q.kind = Mark(p.of, S) /\ q.of = p.of
  <2> SUFFICES ASSUME NEW p \in h[i].parts, p.kind = "file"
               PROVE  \E q \in w[i].parts : q.kind = Mark(p.of, S) /\ q.of = p.of
    OBVIOUS
  <2>1. G(F(p)) \in w[i].parts
    BY <1>7
  <2>2. G(F(p)).kind = Mark(p.of, S) /\ G(F(p)).of = p.of
    BY <1>5, <1>6 DEF Mark
  <2> QED BY <2>1, <2>2
<1> QED BY <1>9, <1>10 DEF ToModelMessages, w, b

LEMMA SendLasts ==
  ASSUME IInv, Lasts, NEW attached \in BOOLEAN, NEW read \in SUBSET (1..said + 1), Send(attached, read)
  PROVE  Lasts'
<1> DEFINE n == said + 1
           u == UserMessage(n, attached)
           w == ToModelMessages(history', read)
<1>1. /\ history' = Append(history, u) /\ array' = w /\ request' = <<>> /\ turn'.at = "preparing"
      /\ said' = n /\ loaded' = read
  BY DEF Send
<1>2. said \in Nat /\ n \in Nat /\ history \in Seq(Messages)
  BY DEF IInv, TypeOK
<1>3. u \in Messages
  BY <1>2, UserMessageIsWordy
<1>4. /\ u.parts = {Part("text", n, Unknown)} \cup (IF attached THEN {Part("file", n, Unknown)} ELSE {})
      /\ \A p \in u.parts : p.kind \in {"text", "file"} /\ p.of = n
  <2>1. u.parts = {Part("text", n, Unknown)} \cup (IF attached THEN {Part("file", n, Unknown)} ELSE {})
    BY DEF UserMessage, Message
  <2> HIDE DEF u, n
  <2> QED BY <2>1 DEF Part
<1> DEFINE l == Len(history)
<1> HIDE DEF u, w, n
<1>5. /\ history' \in Seq(Messages) /\ Len(history') = l + 1 /\ l \in Nat
      /\ history'[l + 1] = u /\ \A i \in 1..l : history'[i] = history[i]
  BY <1>1, <1>2, <1>3
<1>6. \A i \in 1..l : \A p \in history[i].parts : p.kind \in {"text", "file"} /\ p.of <= said
  BY DEF Lasts, HistoryIsSaid
<1>7. \A i \in 1..l : \A p \in history[i].parts : p.of \in Nat
  <2>1. \A i \in 1..l : history[i].parts \subseteq Parts
    BY <1>2, MessageParts
  <2>2. \A p \in Parts : p.kind \in {"text", "file"} => p.of \in Nat
    BY DEF Parts
  <2> QED BY <1>6, <2>1, <2>2
<1>8. n = said + 1
  BY DEF n
<1>9. \A i \in 1..Len(history') : i \in 1..l \/ i = l + 1
  BY <1>5
<1>10. \A i \in 1..Len(history') : \A p \in history'[i].parts : p.kind \in {"text", "file"} /\ p.of <= n
  <2>1. \A i \in 1..l : \A p \in history[i].parts : p.of <= n
    BY <1>2, <1>6, <1>7, <1>8
  <2>2. \A p \in u.parts : p.of <= n
    BY <1>2, <1>4
  <2> QED BY <1>4, <1>5, <1>6, <1>9, <2>1, <2>2
<1>e. ASSUME NEW i \in 1..Len(history'), NEW k \in 1..Len(history'), NEW p \in history'[i].parts,
             NEW q \in history'[k].parts, p.of = q.of
      PROVE  i = k
  <2>1. \A m \in 1..l : \A z \in history'[m].parts : z.of # n
    BY <1>2, <1>5, <1>6, <1>7, <1>8
  <2>2. \A z \in history'[l + 1].parts : z.of = n
    BY <1>4, <1>5
  <2>3. CASE i \in 1..l /\ k \in 1..l
    BY <1>5, <1>e, <2>3 DEF Lasts, HistoryIsSaid
  <2>4. CASE i = l + 1 /\ k = l + 1
    BY <2>4
  <2>5. ~(i \in 1..l /\ k = l + 1) /\ ~(i = l + 1 /\ k \in 1..l)
    BY <1>e, <2>1, <2>2
  <2> QED BY <1>9, <2>3, <2>4, <2>5
<1>11. HistoryIsSaid'
  BY <1>1, <1>10, <1>e DEF HistoryIsSaid
<1>12. Len(w) = Len(history')
  <2>1. /\ WithBytes(history', read) \in Seq(Messages)
        /\ Len(WithBytes(history', read)) = Len(history')
    BY <1>5, WithBytesIsAlike DEF AllAlike
  <2> QED BY <2>1, WithNotesIsAlike DEF AllAlike, w, ToModelMessages
<1>13. ASSUME NEW i \in 1..Len(history')
       PROVE  /\ \A p \in w[i].parts : \/ p \in history'[i].parts /\ p.kind = "text"
                                       \/ p.kind \in {"bytes", "missing"}
              /\ \A p \in history'[i].parts : p.kind = "file" =>
                   \E q \in w[i].parts : q.kind = Mark(p.of, read) /\ q.of = p.of
  BY <1>5, <1>10, LoadedParts DEF w
<1>14. ArrayIsWhole'
  <2>1. \A i \in 1..Len(w) : Notes(w[i]) = {}
    <3>1. \A i \in 1..Len(w) : \A p \in w[i].parts : p.kind # "note"
      BY <1>12, <1>13
    <3> QED BY <3>1 DEF Notes, OfKind
  <2> QED BY <1>1, <2>1 DEF ArrayIsWhole
<1>15. AttachedIsLoaded'
  <2> SUFFICES ASSUME NEW x \in Attached(history'), NEW i \in 1..Len(w), HasText(w[i], x)
               PROVE  HasMark(w[i], x, read)
    BY <1>1 DEF AttachedIsLoaded
  <2>1. DOMAIN history' = 1..Len(history')
    BY <1>5
  <2>2. PICK k \in 1..Len(history') : \E q \in history'[k].parts : q.kind = "file" /\ q.of = x
    BY <2>1 DEF Attached, OfKind
  <2>3. PICK q \in history'[k].parts : q.kind = "file" /\ q.of = x
    BY <2>2
  <2>4. PICK t \in w[i].parts : t.kind = "text" /\ t.of = x
    BY DEF HasText, Words, OfKind
  <2>5. i \in 1..Len(history') /\ t \in history'[i].parts
    BY <1>12, <1>13, <2>4
  <2>6. i = k
    BY <1>e, <2>3, <2>4, <2>5
  <2>7. \E z \in w[i].parts : z.kind = Mark(x, read) /\ z.of = x
    BY <1>13, <2>3, <2>5, <2>6
  <2> QED BY <2>7 DEF HasMark, Words, OfKind, Mark
<1>16. EndsAreVerbatim' /\ OutputsSurvive' /\ AttachmentsArrive'
  BY <1>1, NotAsked
<1> QED BY <1>11, <1>14, <1>15, <1>16 DEF Lasts

(* A step brings calls and outputs, no words and no references.             *)
LEMMA StepFinishedLasts ==
  ASSUME IInv, Lasts, NEW outputs \in Outputs, NEW thinks \in BOOLEAN, StepFinished(outputs, thinks)
  PROVE  Lasts'
<1> DEFINE R == IF thinks THEN {Part("reasoning", calls, turn.vendor)} ELSE {}
           A == R \cup {Part("call", c, Unknown) : c \in {calls + i : i \in DOMAIN outputs}}
           T == {Part(outputs[i], calls + i, Unknown) : i \in DOMAIN outputs}
           a == Message("assistant", A)
           t == Message("tool", T)
<1>1. /\ array' = array \o <<a, t>> /\ turn'.at = "preparing" /\ turn.at = "asked"
      /\ UNCHANGED <<history, vendor, request, elided, loaded, said, question>>
  BY DEF StepFinished, IInv, TypeOK
<1>2. \A i \in DOMAIN outputs : outputs[i] \in {"small", "big"}
  BY TranscriptAssumption DEF Outputs
<1>3. \A p \in A \cup T : p.kind \in {"reasoning", "call", "small", "big"}
  BY <1>2 DEF Part
<1>4. a.parts = A /\ t.parts = T
  BY DEF Message
<1> HIDE DEF A, T
<1>5. Words(a) = {} /\ Words(t) = {} /\ Notes(a) = {} /\ Notes(t) = {}
  BY <1>3, <1>4 DEF Words, Notes, OfKind
<1> HIDE DEF a, t
<1>6. array \in Seq(Messages) /\ Len(array) \in Nat
  BY DEF IInv, TypeOK
<1>7. \A i \in 1..Len(array') : array'[i] \in {a, t} \/ (i \in 1..Len(array) /\ array'[i] = array[i])
  <2>1. Len(array') = Len(array) + 2
    BY <1>1, <1>6
  <2>2. ASSUME NEW i \in 1..Len(array')
        PROVE  array'[i] \in {a, t} \/ (i \in 1..Len(array) /\ array'[i] = array[i])
    BY <1>1, <1>6, <2>1
  <2> QED BY <2>2
<1>8. ArrayIsWhole'
  <2>1. \A i \in 1..Len(array') : Notes(array'[i]) = {}
    BY <1>5, <1>7 DEF Lasts, ArrayIsWhole
  <2> QED BY <2>1 DEF ArrayIsWhole
<1>9. HistoryIsSaid'
  BY <1>1 DEF Lasts, HistoryIsSaid
<1>10. AttachedIsLoaded'
  <2> SUFFICES ASSUME NEW x \in Attached(history), NEW i \in 1..Len(array'), HasText(array'[i], x)
               PROVE  HasMark(array'[i], x, loaded)
    BY <1>1 DEF AttachedIsLoaded
  <2>1. \A k \in 1..Len(array) : HasText(array[k], x) => HasMark(array[k], x, loaded)
    BY <1>1 DEF Lasts, AttachedIsLoaded
  <2>2. array'[i] \notin {a, t}
    BY <1>5 DEF HasText
  <2> QED BY <1>7, <2>1, <2>2
<1>11. EndsAreVerbatim' /\ OutputsSurvive' /\ AttachmentsArrive'
  BY <1>1, NotAsked DEF Lasts
<1> QED BY <1>8, <1>9, <1>10, <1>11 DEF Lasts

(* A turn that ends leaves nothing to keep.                                 *)
LEMMA TurnEndLasts ==
  ASSUME TurnEnds, HistoryIsSaid' PROVE Lasts'
<1>1. turn'.at = "idle" /\ array' = <<>> /\ request' = <<>>
  BY DEF TurnEnds, Idle
<1>2. ArrayIsWhole'
  <2>1. 1..Len(array') = {}
    BY <1>1
  <2> QED BY <2>1 DEF ArrayIsWhole
<1>3. AttachedIsLoaded'
  BY <1>1 DEF AttachedIsLoaded
<1>4. EndsAreVerbatim' /\ OutputsSurvive' /\ AttachmentsArrive'
  BY <1>1, NotAsked
<1> QED BY <1>2, <1>3, <1>4 DEF Lasts

LEMMA AnswerLasts ==
  ASSUME IInv, Lasts, NEW words \in BOOLEAN, Answer(words)
  PROVE  Lasts'
<1> DEFINE m == Message("assistant", {Part("text", said + 1, Unknown)})
<1>1. /\ TurnEnds /\ said' = said + 1 /\ said \in Nat /\ history \in Seq(Messages)
      /\ history' = history \/ history' = Append(history, m)
  BY DEF Answer, IInv, TypeOK
<1>2. m.parts = {Part("text", said + 1, Unknown)}
  BY DEF Message
<1>3. \A p \in m.parts : p.kind = "text" /\ p.of = said + 1
  BY <1>2 DEF Part
<1> HIDE DEF m
<1>4. ASSUME NEW i \in 1..Len(history')
      PROVE  (i \in 1..Len(history) /\ history'[i] = history[i]) \/ (i = Len(history) + 1 /\ history'[i] = m)
  BY <1>1
<1>5. ASSUME NEW i \in 1..Len(history), NEW p \in history[i].parts PROVE p.of <= said + 1
  <2>1. p.kind \in {"text", "file"} /\ p.of <= said
    BY DEF Lasts, HistoryIsSaid
  <2>2. history[i].parts \subseteq Parts
    BY <1>1, MessageParts
  <2>3. p.of \in Nat
    BY <2>1, <2>2 DEF Parts
  <2> QED BY <1>1, <2>1, <2>3
<1>6. ASSUME NEW i \in 1..Len(history'), NEW p \in history'[i].parts
      PROVE  p.kind \in {"text", "file"} /\ p.of <= said + 1
  <2>1. CASE i \in 1..Len(history) /\ history'[i] = history[i]
    BY <1>5, <1>6, <2>1 DEF Lasts, HistoryIsSaid
  <2>2. CASE history'[i] = m
    BY <1>1, <1>3, <1>6, <2>2
  <2> QED BY <1>4, <2>1, <2>2
<1>8. ASSUME NEW i \in 1..Len(history'), NEW k \in 1..Len(history'), NEW p \in history'[i].parts,
             NEW q \in history'[k].parts, p.of = q.of
      PROVE  i = k
  <2>1. \A z \in 1..Len(history) : \A y \in history[z].parts : y.of # said + 1
    <3> SUFFICES ASSUME NEW z \in 1..Len(history), NEW y \in history[z].parts PROVE y.of # said + 1
      OBVIOUS
    <3>1. y.kind \in {"text", "file"} /\ y.of <= said
      BY DEF Lasts, HistoryIsSaid
    <3>2. history[z].parts \subseteq Parts
      BY <1>1, MessageParts
    <3>3. y.of \in Nat
      BY <3>1, <3>2 DEF Parts
    <3> QED BY <1>1, <3>1, <3>3
  <2>2. CASE i \in 1..Len(history) /\ history'[i] = history[i] /\ k \in 1..Len(history) /\ history'[k] = history[k]
    BY <1>8, <2>2 DEF Lasts, HistoryIsSaid
  <2>3. CASE i = Len(history) + 1 /\ k = Len(history) + 1
    BY <2>3
  <2>4. CASE i \in 1..Len(history) /\ history'[i] = history[i] /\ history'[k] = m
    BY <1>3, <1>8, <2>1, <2>4
  <2>5. CASE history'[i] = m /\ k \in 1..Len(history) /\ history'[k] = history[k]
    BY <1>3, <1>8, <2>1, <2>5
  <2> QED BY <1>4, <2>2, <2>3, <2>4, <2>5
<1>7. HistoryIsSaid'
  BY <1>1, <1>6, <1>8 DEF HistoryIsSaid
<1> QED BY <1>1, <1>7, TurnEndLasts

LEMMA NextLasts == IInv /\ Lasts /\ [Next]_vars => Lasts'
<1> SUFFICES ASSUME IInv, Lasts, [Next]_vars PROVE Lasts'
  OBVIOUS
<1>1. ASSUME UNCHANGED <<history, turn, array, request, elided, loaded, said, question>> PROVE Lasts'
  <2>1. HistoryIsSaid' /\ ArrayIsWhole' /\ Attached(history)' = Attached(history)
    BY <1>1 DEF Lasts, HistoryIsSaid, ArrayIsWhole, Attached
  <2>2. AttachedIsLoaded'
    BY <1>1, <2>1 DEF Lasts, AttachedIsLoaded
  <2>3. EndsAreVerbatim'
    BY <1>1 DEF Lasts, EndsAreVerbatim
  <2>4. \A S : InRequest(S)' = InRequest(S)
    BY <1>1 DEF InRequest
  <2>5. OutputsSurvive'
    BY <1>1, <2>4 DEF Lasts, OutputsSurvive
  <2>6. AttachmentsArrive'
    BY <1>1, <2>4 DEF Lasts, AttachmentsArrive
  <2> QED BY <2>1, <2>2, <2>3, <2>5, <2>6 DEF Lasts
<1>3. ASSUME NEW v \in Vendors, SwitchModel(v) PROVE Lasts'
  BY <1>1, <1>3 DEF SwitchModel
<1>4. CASE PersistFails \/ Fail
  <2>1. TurnEnds /\ history' = history /\ said' = said
    BY <1>4 DEF PersistFails, Fail
  <2>2. HistoryIsSaid'
    BY <2>1 DEF Lasts, HistoryIsSaid
  <2> QED BY <2>1, <2>2, TurnEndLasts
<1>5. CASE UNCHANGED vars
  BY <1>1, <1>5 DEF vars
<1> QED BY <1>3, <1>4, <1>5, SendLasts, PrepareStepLasts, StepFinishedLasts, AnswerLasts DEF Next

LEMMA LastsHolds == Spec => []Lasts
<1>1. Init => Lasts
  <2> SUFFICES ASSUME Init PROVE Lasts
    OBVIOUS
  <2>1. /\ 1..Len(history) = {} /\ 1..Len(array) = {} /\ 1..Len(request) = {} /\ turn.at = "idle"
    BY DEF Init, Idle
  <2>2. InRequest({"note"}) = {}
    BY <2>1 DEF InRequest
  <2> QED BY <2>1, <2>2 DEF Lasts, HistoryIsSaid, ArrayIsWhole, AttachedIsLoaded, EndsAreVerbatim,
                            OutputsSurvive, AttachmentsArrive
<1> QED BY <1>1, NextLasts, IInvHolds, PTL DEF Spec

(* condenser.ts, condense: whatever is elided and summarised, the model has *)
(* the turn's opening message and the last KeepRecent messages as they are. *)
THEOREM EndsStayVerbatim == Spec => []EndsAreVerbatim
<1>1. Lasts => EndsAreVerbatim
  BY DEF Lasts
<1> QED BY <1>1, LastsHolds, PTL

(* elideToolOutputs and persistToolOutput: a large output is in the request *)
(* or in its file, and what a request refers to has been written.           *)
THEOREM OutputsAreSomewhere == Spec => []OutputsSurvive
<1>1. Lasts => OutputsSurvive
  BY DEF Lasts
<1> QED BY <1>1, LastsHolds, PTL

(* adapter.ts, resolveAttachments and fromModelMessages: a message's words   *)
(* never reach the model without the file they came with, or the note that   *)
(* it could not be read.                                                     *)
THEOREM AttachmentsAlwaysArrive == Spec => []AttachmentsArrive
<1>1. Lasts => AttachmentsArrive
  BY DEF Lasts
<1> QED BY <1>1, LastsHolds, PTL
==============================================================================
