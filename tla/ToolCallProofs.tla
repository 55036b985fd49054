--------------------------- MODULE ToolCallProofs ---------------------------
(***************************************************************************)
(* Proofs about the tool calls of a Run (ToolCalls) and the branches that    *)
(* one of them starts (Subagents): for any tools and sequences, any digests,  *)
(* any number of attempts and any limits; and about what the agent of a Run is *)
(* given to call with (RunContext), for any connections and any definitions     *)
(* that fit together.                                                        *)
(*                                                                         *)
(* That a use reaches its provider once is not what any one place in the      *)
(* gateway decides. The invariant follows the right to call a use: it is made *)
(* when the row is written, lies in one lease of one worker (FreshUses),      *)
(* becomes a claimed call in flight, and is spent when the provider is        *)
(* called; wherever it is, it is nowhere else (RightsKept). The same rights   *)
(* are what a worker has paid its steps for (StepsKept).                     *)
(***************************************************************************)
EXTENDS Subagents, RunContext, FiniteSetTheorems, SequenceTheorems, WellFoundedInduction, TLAPS

-----------------------------------------------------------------------------
(* The tool gateway (ToolCalls): leases.                                   *)

LeaseRows == [use : ToolUses, isNew : BOOLEAN, result : Nat]
FlightRows ==
  [attempt : ToolAttempts, use : ToolUses,
   at : {"claimed", "replay", "executing", "stepping", "waiting", "done", "broken"},
   result : Nat, parent : ToolUses \cup {NoUse}, position : Nat]

\* The uses that a worker may still call for the first time, and that none of them
\* waits twice.
FreshUses(s) == {u \in ToolUses : \E i \in DOMAIN s : FreshLease(s[i]) /\ s[i].use = u}
Uniquely(s) == \A i, j \in DOMAIN s :
                 FreshLease(s[i]) /\ FreshLease(s[j]) /\ s[i].use = s[j].use => i = j

\* No leases, nothing to call.
LEMMA NothingFresh == FreshUses(<<>>) = {} /\ Uniquely(<<>>)
  BY DEF FreshUses, Uniquely

\* What is left of a sequence without one of its places.
LEMMA WithoutPlace ==
  ASSUME NEW S, NEW s \in Seq(S), NEW o \in 1..Len(s)
  PROVE  /\ RemoveAt(s, o) \in Seq(S)
         /\ Len(RemoveAt(s, o)) = Len(s) - 1
         /\ \A j \in 1..(Len(s) - 1) : RemoveAt(s, o)[j] = s[IF j < o THEN j ELSE j + 1]
  <1>. DEFINE before == SubSeq(s, 1, o - 1)
              behind == SubSeq(s, o + 1, Len(s))
  <1>1. Len(s) \in Nat /\ \A i \in 1..Len(s) : s[i] \in S
    BY LenProperties, ElementOfSeq
  <1>2. /\ before \in Seq(S) /\ Len(before) = o - 1
        /\ \A i \in 1..(o - 1) : before[i] = s[i]
    <2>1. \A i \in 1..(o - 1) : s[i] \in S
      BY <1>1
    <2>. QED
      BY <1>1, <2>1, SubSeqProperties
  <1>3. /\ behind \in Seq(S) /\ Len(behind) = Len(s) - o
        /\ \A i \in 1..(Len(s) - o) : behind[i] = s[o + i]
    <2>1. \A i \in (o + 1)..Len(s) : s[i] \in S
      BY <1>1
    <2>2. /\ behind \in Seq(S)
          /\ Len(behind) = IF o + 1 <= Len(s) THEN Len(s) - (o + 1) + 1 ELSE 0
          /\ \A i \in 1..(Len(s) - (o + 1) + 1) : behind[i] = s[(o + 1) + i - 1]
      BY <1>1, <2>1, SubSeqProperties
    <2>. QED
      BY <1>1, <2>2
  <1>. HIDE DEF before, behind
  <1>4. /\ before \o behind \in Seq(S)
        /\ Len(before \o behind) = Len(before) + Len(behind)
        /\ \A i \in 1..(Len(before) + Len(behind)) :
             (before \o behind)[i] = IF i <= Len(before) THEN before[i] ELSE behind[i - Len(before)]
    BY <1>2, <1>3, ConcatProperties
  <1>5. RemoveAt(s, o) = before \o behind
    BY DEF RemoveAt, before, behind
  <1>6. ASSUME NEW j \in 1..(Len(s) - 1)
        PROVE  (before \o behind)[j] = s[IF j < o THEN j ELSE j + 1]
    BY <1>1, <1>2, <1>3, <1>4
  <1>7. Len(before \o behind) = Len(s) - 1
    BY <1>1, <1>2, <1>3, <1>4
  <1>. QED
    BY <1>4, <1>5, <1>6, <1>7

\* A lease that is taken leaves the others as they were.
LEMMA DropFresh ==
  ASSUME NEW s \in Seq(LeaseRows), NEW o \in 1..Len(s), Uniquely(s)
  PROVE  /\ RemoveAt(s, o) \in Seq(LeaseRows)
         /\ Uniquely(RemoveAt(s, o))
         /\ FreshUses(RemoveAt(s, o)) \subseteq FreshUses(s)
         /\ FreshLease(s[o]) => s[o].use \in FreshUses(s) \ FreshUses(RemoveAt(s, o))
  <1>. DEFINE t == RemoveAt(s, o)
              old(j) == IF j < o THEN j ELSE j + 1
  <1>1. /\ t \in Seq(LeaseRows) /\ DOMAIN t = 1..(Len(s) - 1) /\ DOMAIN s = 1..Len(s)
        /\ \A j \in DOMAIN t : t[j] = s[old(j)]
    BY WithoutPlace, LenProperties
  <1>2. /\ Len(s) \in Nat
        /\ \A j \in DOMAIN t : old(j) \in DOMAIN s /\ old(j) # o
        /\ \A i, j \in DOMAIN t : old(i) = old(j) => i = j
    BY <1>1, LenProperties
  <1>3. s[o].use \in ToolUses
    <2>1. s[o] \in LeaseRows
      BY ElementOfSeq
    <2>. QED
      BY <2>1 DEF LeaseRows
  <1>. HIDE DEF t, old
  <1>4. Uniquely(t)
    BY <1>1, <1>2 DEF Uniquely
  <1>5. FreshUses(t) \subseteq FreshUses(s)
    BY <1>1, <1>2 DEF FreshUses
  <1>6. ASSUME FreshLease(s[o])
        PROVE  s[o].use \in FreshUses(s) \ FreshUses(t)
    BY <1>1, <1>2, <1>3, <1>6 DEF FreshUses, Uniquely
  <1>. QED
    BY <1>1, <1>4, <1>5, <1>6 DEF t

\* A lease for a use that is registered for the first time is fresh; any other is not.
LEMMA AppendLease ==
  ASSUME NEW s \in Seq(LeaseRows), NEW l \in LeaseRows, Uniquely(s),
         FreshLease(l) => l.use \notin FreshUses(s)
  PROVE  /\ Append(s, l) \in Seq(LeaseRows)
         /\ Uniquely(Append(s, l))
         /\ FreshUses(Append(s, l)) = FreshUses(s) \cup (IF FreshLease(l) THEN {l.use} ELSE {})
  <1>. DEFINE t == Append(s, l)
              n == Len(s)
  <1>1. /\ t \in Seq(LeaseRows) /\ n \in Nat
        /\ DOMAIN t = 1..(n + 1) /\ DOMAIN s = 1..n
        /\ \A i \in 1..n : t[i] = s[i]
        /\ t[n + 1] = l
    BY AppendProperties, LenProperties
  <1>2. l.use \in ToolUses /\ \A i \in 1..n : s[i].use \in ToolUses
    <2>1. \A i \in 1..n : s[i] \in LeaseRows
      BY ElementOfSeq
    <2>. QED
      BY <2>1 DEF LeaseRows
  <1>. HIDE DEF t, n
  <1>3. Uniquely(t)
    <2>. SUFFICES ASSUME NEW i \in DOMAIN t, NEW j \in DOMAIN t,
                         FreshLease(t[i]), FreshLease(t[j]), t[i].use = t[j].use, i # j
                  PROVE  FALSE
      BY DEF Uniquely
    <2>1. i \in 1..n \/ j \in 1..n
      BY <1>1
    <2>2. CASE i \in 1..n /\ j \in 1..n
      BY <1>1, <2>2 DEF Uniquely
    <2>3. CASE i \in 1..n /\ j = n + 1
      BY <1>1, <1>2, <2>3 DEF FreshUses
    <2>4. CASE j \in 1..n /\ i = n + 1
      BY <1>1, <1>2, <2>4 DEF FreshUses
    <2>. QED
      BY <1>1, <2>1, <2>2, <2>3, <2>4
  <1>4. ASSUME NEW u
        PROVE  u \in FreshUses(t) <=> u \in FreshUses(s) \/ (FreshLease(l) /\ u = l.use)
    BY <1>1, <1>2 DEF FreshUses
  <1>5. FreshUses(t) = FreshUses(s) \cup (IF FreshLease(l) THEN {l.use} ELSE {})
    BY <1>4
  <1>. QED
    BY <1>1, <1>3, <1>5 DEF t
-----------------------------------------------------------------------------
(* The tool gateway: the invariant. The right to call a use for the first time *)
(* is a fresh lease, then a claimed call in flight, then spent.                *)

Fresh(a) == FreshUses(leases[a])
Unclaimed(u) ==
  /\ \A a \in ToolAttempts : u \notin Fresh(a)
  /\ \A f \in flight : f.at = "claimed" => f.use # u

GatewayTyped ==
  /\ ToolTypeOK
  /\ leases \in [ToolAttempts -> Seq(LeaseRows)]
  /\ dispatched \in [ToolAttempts -> SUBSET ToolUses]
  /\ flight \subseteq FlightRows
  /\ executed \in [ToolUses -> Nat]
  /\ told \subseteq ToolUses \X Nat

\* A use is registered once, and its right is in one place only.
RightsKept ==
  /\ \A a \in ToolAttempts : Uniquely(leases[a])
  /\ \A a, b \in ToolAttempts : a # b => Fresh(a) \cap Fresh(b) = {}
  /\ \A f \in flight : f.at = "claimed" => \A a \in ToolAttempts : f.use \notin Fresh(a)
  /\ \A f, g \in flight : f.at = "claimed" /\ g.at = "claimed" /\ f.use = g.use => f = g
  /\ \A u \in ToolUses :
       /\ executed[u] <= 1
       /\ call[u].status = "none" => executed[u] = 0
       /\ call[u].status = "none" \/ executed[u] = 1 => Unclaimed(u)

\* What a worker called or may still call, it has paid for; before it claims the Run
\* it has nothing.
StepsKept ==
  /\ \A a \in ToolAttempts : IsFiniteSet(dispatched[a] \cup Fresh(a))
  /\ \A a \in ToolAttempts : Cardinality(dispatched[a] \cup Fresh(a)) <= holder[a].used
  /\ \A a \in ToolAttempts : holder[a].state = "none" =>
       leases[a] = <<>> /\ dispatched[a] = {} /\ holder[a].used = 0
  /\ \A f \in flight : holder[f.attempt].state # "none"

GatewayKept == GatewayTyped /\ RightsKept /\ StepsKept /\ AnswerIsRecorded

\* Three ways in which a step leaves the rest alone: no call in flight becomes claimed,
\* no row comes back or loses its result, and no lease becomes fresh.
FlightsGoOn ==
  /\ flight' \subseteq FlightRows
  /\ \A g \in flight' : g.at = "claimed" => g \in flight
  /\ \A g \in flight' : holder[g.attempt].state # "none" \/ \E h \in flight : h.attempt = g.attempt
CallsSettle ==
  \A u \in ToolUses :
    /\ call'[u].status = "none" => call[u].status = "none"
    /\ call[u].status = "SUCCEEDED" => call'[u] = call[u]
LeasesGo ==
  \A a \in ToolAttempts :
    Uniquely(leases'[a]) /\ FreshUses(leases'[a]) \subseteq FreshUses(leases[a])

\* Without a new claimed call or a fresh lease every right stays where it is.
LEMMA RightsStay ==
  ASSUME GatewayTyped, RightsKept, FlightsGoOn, CallsSettle, LeasesGo, executed' = executed
  PROVE  RightsKept'
  <1>1. \A u \in ToolUses : Unclaimed(u) => Unclaimed(u)'
    BY DEF Unclaimed, Fresh, FlightsGoOn, LeasesGo
  <1>2. /\ \A a \in ToolAttempts : Uniquely(leases'[a])
        /\ \A a, b \in ToolAttempts : a # b => Fresh(a)' \cap Fresh(b)' = {}
    BY DEF RightsKept, Fresh, LeasesGo
  <1>3. \A f \in flight' : f.at = "claimed" => \A a \in ToolAttempts : f.use \notin Fresh(a)'
    BY DEF RightsKept, Fresh, LeasesGo, FlightsGoOn
  <1>4. \A f, g \in flight' : f.at = "claimed" /\ g.at = "claimed" /\ f.use = g.use => f = g
    BY DEF RightsKept, FlightsGoOn
  <1>5. \A u \in ToolUses :
          /\ executed'[u] <= 1
          /\ call'[u].status = "none" => executed'[u] = 0
          /\ call'[u].status = "none" \/ executed'[u] = 1 => Unclaimed(u)'
    BY <1>1 DEF RightsKept, CallsSettle
  <1>. QED
    BY <1>2, <1>3, <1>4, <1>5 DEF RightsKept

\* What the model was told stays recorded, and so is what it is told.
AnswersRecorded ==
  \A reply \in told' :
    \/ reply \in told
    \/ call'[reply[1]].status = "SUCCEEDED" /\ call'[reply[1]].result = reply[2]

\* An answer that is recorded when it is told stays recorded.
LEMMA AnswersStay ==
  ASSUME GatewayTyped, AnswerIsRecorded, CallsSettle, AnswersRecorded
  PROVE  AnswerIsRecorded'
  <1>1. \A reply \in told : reply[1] \in ToolUses
    BY DEF GatewayTyped
  <1>. QED
    BY <1>1 DEF AnswerIsRecorded, CallsSettle, AnswersRecorded

\* A worker pays one step for each use that it may call.
Paid(a) ==
  \/ /\ dispatched'[a] \cup FreshUses(leases'[a]) \subseteq dispatched[a] \cup FreshUses(leases[a])
     /\ holder[a].used <= holder'[a].used
  \/ \E u \in ToolUses :
       /\ dispatched'[a] \cup FreshUses(leases'[a])
            \subseteq (dispatched[a] \cup FreshUses(leases[a])) \cup {u}
       /\ holder[a].used + 1 <= holder'[a].used
StartsEmpty(a) ==
  holder'[a].state = "none" =>
    /\ holder[a].state = "none" /\ holder'[a].used = holder[a].used
    /\ leases'[a] = leases[a] /\ dispatched'[a] = dispatched[a]

\* Whoever pays for each use stays within what he paid.
LEMMA StepsArePaid ==
  ASSUME GatewayTyped, GatewayTyped', StepsKept,
         \A a \in ToolAttempts : Paid(a) /\ StartsEmpty(a),
         \A f \in flight' : holder'[f.attempt].state # "none"
  PROVE  StepsKept'
  <1>1. ASSUME NEW a \in ToolAttempts
        PROVE  /\ IsFiniteSet(dispatched'[a] \cup FreshUses(leases'[a]))
               /\ Cardinality(dispatched'[a] \cup FreshUses(leases'[a])) <= holder'[a].used
    <2>. DEFINE old == dispatched[a] \cup FreshUses(leases[a])
                new == dispatched'[a] \cup FreshUses(leases'[a])
                paid == holder[a].used
                pays == holder'[a].used
    <2>1. IsFiniteSet(old) /\ Cardinality(old) <= paid
      BY DEF StepsKept, Fresh
    <2>2. paid \in Nat /\ pays \in Nat
      BY DEF GatewayTyped, ToolTypeOK
    <2>3. \/ new \subseteq old /\ paid <= pays
          \/ \E u : new \subseteq old \cup {u} /\ paid + 1 <= pays
      BY DEF Paid
    <2>. HIDE DEF old, new, paid, pays
    <2>4. CASE new \subseteq old /\ paid <= pays
      <3>1. IsFiniteSet(new) /\ Cardinality(new) <= Cardinality(old)
        BY <2>1, <2>4, FS_Subset
      <3>2. Cardinality(new) \in Nat /\ Cardinality(old) \in Nat
        BY <2>1, <3>1, FS_CardinalityType
      <3>3. Cardinality(new) <= pays
        BY <2>1, <2>2, <2>4, <3>1, <3>2
      <3>. QED
        BY <3>1, <3>3 DEF new, pays
    <2>5. CASE \E u : new \subseteq old \cup {u} /\ paid + 1 <= pays
      <3>1. PICK u : new \subseteq old \cup {u} /\ paid + 1 <= pays
        BY <2>5
      <3>2. IsFiniteSet(old \cup {u}) /\ Cardinality(old \cup {u}) <= Cardinality(old) + 1
        <4>1. IsFiniteSet(old \cup {u})
          BY <2>1, FS_AddElement
        <4>2. Cardinality(old \cup {u}) = IF u \in old THEN Cardinality(old) ELSE Cardinality(old) + 1
          BY <2>1, FS_AddElement
        <4>3. Cardinality(old) \in Nat
          BY <2>1, FS_CardinalityType
        <4>. QED
          BY <4>1, <4>2, <4>3
      <3>3. IsFiniteSet(new) /\ Cardinality(new) <= Cardinality(old \cup {u})
        BY <3>1, <3>2, FS_Subset
      <3>4. /\ Cardinality(new) \in Nat /\ Cardinality(old) \in Nat
            /\ Cardinality(old \cup {u}) \in Nat
        BY <2>1, <3>2, <3>3, FS_CardinalityType
      <3>5. Cardinality(new) <= pays
        BY <2>1, <2>2, <3>1, <3>2, <3>3, <3>4
      <3>. QED
        BY <3>3, <3>5 DEF new, pays
    <2>. QED
      BY <2>3, <2>4, <2>5
  <1>2. \A a \in ToolAttempts : holder'[a].state = "none" =>
          leases'[a] = <<>> /\ dispatched'[a] = {} /\ holder'[a].used = 0
    BY DEF StepsKept, StartsEmpty
  <1>. QED
    BY <1>1, <1>2 DEF StepsKept, Fresh

-----------------------------------------------------------------------------
(* The tool gateway: what the steps are made of.                             *)

CallRows == [status : {"none", "RUNNING", "SUCCEEDED", "FAILED", "DENIED"},
             attempt : Nat, session : Nat, result : Nat]
HolderRows == [state : {"none", "live", "stale", "dead"}, session : Nat, used : 0..MaxTurns]

\* The types of the rows.
LEMMA GatewayRows ==
  ASSUME GatewayTyped
  PROVE  /\ call \in [ToolUses -> CallRows] /\ holder \in [ToolAttempts -> HolderRows]
         /\ MaxTurns \in Nat /\ MaxToolAttempts \in Nat
  BY ToolAssumption DEF GatewayTyped, ToolTypeOK, CallRows, HolderRows

\* _return: the call that ends and the sequence that waited for it.
LEMMA ReturnGoesOn ==
  ASSUME GatewayTyped, NEW f \in flight, NEW goesOn \in BOOLEAN, Return(f, goesOn)
  PROVE  FlightsGoOn
  <1>1. Parents(f) \subseteq flight /\ flight \subseteq FlightRows
    BY DEF Parents, GatewayTyped
  <1>. DEFINE row(g) == [g EXCEPT !.at = IF goesOn THEN "executing" ELSE "done", !.position = g.position + 1]
  <1>2. ASSUME NEW g \in Parents(f)
        PROVE  row(g) \in FlightRows /\ row(g).at # "claimed" /\ row(g).attempt = g.attempt
    <2>. DEFINE at == IF goesOn THEN "executing" ELSE "done"
                n == g.position + 1
    <2>1. at \in {"executing", "done"}
      OBVIOUS
    <2>2. g \in FlightRows
      BY <1>1, <1>2
    <2>3. n \in Nat
      BY <2>2 DEF FlightRows
    <2>4. row(g) = [g EXCEPT !.at = at, !.position = n]
      OBVIOUS
    <2>. HIDE DEF row, at, n
    <2>. QED
      BY <2>1, <2>2, <2>3, <2>4 DEF FlightRows
  <1>3. flight' = (flight \ (Parents(f) \cup {f})) \cup {row(g) : g \in Parents(f)}
    BY DEF Return
  <1>. HIDE DEF row
  <1>. QED
    BY <1>1, <1>2, <1>3 DEF FlightsGoOn

\* A call in flight moves on, but never back to where it may be dispatched.
LEMMA AdvanceGoesOn ==
  ASSUME GatewayTyped, NEW f \in flight,
         NEW at \in {"executing", "stepping", "waiting", "done", "broken"}, AdvanceTo(f, at)
  PROVE  FlightsGoOn
  <1>1. flight \subseteq FlightRows
    BY DEF GatewayTyped
  <1>. DEFINE row == [f EXCEPT !.at = at]
  <1>2. row \in FlightRows /\ row.at # "claimed" /\ row.attempt = f.attempt
    BY <1>1 DEF FlightRows
  <1>3. flight' = (flight \ {f}) \cup {row}
    BY DEF AdvanceTo
  <1>. HIDE DEF row
  <1>. QED
    BY <1>1, <1>2, <1>3 DEF FlightsGoOn

\* Calls in flight that stay where they are.
LEMMA FlightsStay ==
  ASSUME GatewayTyped, flight' \subseteq flight
  PROVE  FlightsGoOn
  BY DEF FlightsGoOn, GatewayTyped

\* The worker of a call in flight has claimed the Run.
LEMMA FlightsHaveWorkers ==
  ASSUME GatewayTyped, StepsKept, FlightsGoOn,
         \A a \in ToolAttempts : holder[a].state # "none" => holder'[a].state # "none"
  PROVE  \A f \in flight' : holder'[f.attempt].state # "none"
  <1>1. \A f \in flight' : f.attempt \in ToolAttempts
    BY DEF FlightsGoOn, FlightRows
  <1>2. \A f \in flight' : holder[f.attempt].state # "none"
    BY DEF StepsKept, FlightsGoOn
  <1>. QED
    BY <1>1, <1>2

\* Consume: one step, or none when none is left.
LEMMA ConsumeRows ==
  ASSUME GatewayTyped, NEW a \in ToolAttempts, Consume(a)
  PROVE  /\ holder' \in [ToolAttempts -> HolderRows]
         /\ \A b \in ToolAttempts : holder'[b].state = holder[b].state /\ holder[b].used <= holder'[b].used
         /\ \A b \in ToolAttempts : b # a => holder'[b] = holder[b]
         /\ StepLeft(a) => holder'[a].used = holder[a].used + 1
  <1>1. holder \in [ToolAttempts -> HolderRows] /\ MaxTurns \in Nat
    BY GatewayRows
  <1>. DEFINE n == holder[a].used
              m == IF n < MaxTurns THEN n + 1 ELSE n
  <1>2. n \in 0..MaxTurns /\ m \in 0..MaxTurns /\ n <= m
    BY <1>1 DEF HolderRows
  <1>3. holder' = [holder EXCEPT ![a].used = m]
    BY DEF Consume
  <1>4. StepLeft(a) => m = n + 1
    BY DEF StepLeft
  <1>. HIDE DEF m
  <1>5. holder' \in [ToolAttempts -> HolderRows]
    BY <1>1, <1>2, <1>3 DEF HolderRows
  <1>6. /\ holder'[a].used = m /\ holder'[a].state = holder[a].state
        /\ \A b \in ToolAttempts : b # a => holder'[b] = holder[b]
    BY <1>1, <1>3 DEF HolderRows
  <1>7. \A b \in ToolAttempts : holder[b].used \in Nat
    BY <1>1 DEF HolderRows
  <1>. QED
    BY <1>2, <1>4, <1>5, <1>6, <1>7

\* The lease that _claim takes is one of those that wait.
LEMMA OldestWaits ==
  ASSUME GatewayTyped, NEW a \in ToolAttempts, NEW d, Waits(a, d) # {}
  PROVE  Oldest(a, d) \in Waits(a, d) /\ Oldest(a, d) \in 1..Len(leases[a])
  <1>1. Waits(a, d) \subseteq 1..Len(leases[a]) /\ Len(leases[a]) \in Nat
    BY LenProperties DEF Waits, GatewayTyped
  <1>. DEFINE S == Waits(a, d)
  <1>2. S \subseteq Nat /\ S # {}
    BY <1>1
  <1>. HIDE DEF S
  <1>3. PICK x \in S : \A y \in S : <<y, x>> \notin OpToRel(<, Nat)
    BY <1>2, NatLessThanWellFounded, WFMin
  <1>4. \A y \in S : ~(y < x)
    BY <1>2, <1>3 DEF OpToRel
  <1>5. \E i \in S : \A j \in S : i <= j
    BY <1>2, <1>4
  <1>6. Oldest(a, d) \in Waits(a, d)
    BY <1>5 DEF S, Oldest
  <1>. QED
    BY <1>1, <1>6

\* DropLease: what is left.
LEMMA DropRows ==
  ASSUME GatewayTyped, RightsKept, NEW a \in ToolAttempts, NEW d, Waits(a, d) # {}, DropLease(a, d)
  PROVE  /\ leases' \in [ToolAttempts -> Seq(LeaseRows)] /\ LeasesGo
         /\ \A b \in ToolAttempts : b # a => leases'[b] = leases[b]
         /\ NextLease(a, d) \in LeaseRows
         /\ FreshLease(NextLease(a, d)) =>
              NextLease(a, d).use \in Fresh(a) \ FreshUses(leases'[a])
  <1>. DEFINE o == Oldest(a, d)
              s == leases[a]
              rest == RemoveAt(s, o)
  <1>1. s \in Seq(LeaseRows) /\ o \in 1..Len(s) /\ Uniquely(s)
    BY OldestWaits DEF GatewayTyped, RightsKept
  <1>2. NextLease(a, d) = s[o]
    BY DEF NextLease
  <1>3. leases' = [leases EXCEPT ![a] = rest]
    BY DEF DropLease
  <1>. HIDE DEF o, rest, s
  <1>4. s[o] \in LeaseRows
    BY <1>1, ElementOfSeq
  <1>5. /\ rest \in Seq(LeaseRows)
        /\ Uniquely(rest)
        /\ FreshUses(rest) \subseteq FreshUses(s)
        /\ FreshLease(s[o]) => s[o].use \in FreshUses(s) \ FreshUses(rest)
    BY <1>1, DropFresh DEF rest
  <1>6. /\ leases' \in [ToolAttempts -> Seq(LeaseRows)] /\ leases'[a] = rest
        /\ \A b \in ToolAttempts : b # a => leases'[b] = leases[b]
    BY <1>3, <1>5 DEF GatewayTyped
  <1>7. LeasesGo
    BY <1>5, <1>6 DEF LeasesGo, RightsKept, s
  <1>. QED
    BY <1>2, <1>4, <1>5, <1>6, <1>7 DEF s, Fresh

-----------------------------------------------------------------------------
(* The tool gateway: the steps.                                              *)

\* A step that makes no right, and pays for what it makes.
LEMMA GatewayStays ==
  ASSUME GatewayKept, GatewayTyped', FlightsGoOn, CallsSettle, LeasesGo,
         AnswersRecorded, dispatched' = dispatched, executed' = executed,
         \A a \in ToolAttempts :
           /\ holder[a].state # "none" => holder'[a].state # "none"
           /\ holder'[a].state = "none" => holder'[a] = holder[a] /\ leases'[a] = leases[a]
           /\ holder[a].used <= holder'[a].used
  PROVE  GatewayKept'
  <1>1. RightsKept'
    BY RightsStay DEF GatewayKept
  <1>2. AnswerIsRecorded'
    BY AnswersStay DEF GatewayKept
  <1>3. \A f \in flight' : holder'[f.attempt].state # "none"
    BY FlightsHaveWorkers DEF GatewayKept
  <1>4. \A a \in ToolAttempts : Paid(a) /\ StartsEmpty(a)
    BY DEF Paid, StartsEmpty, LeasesGo
  <1>5. StepsKept'
    BY <1>3, <1>4, StepsArePaid DEF GatewayKept
  <1>. QED
    BY <1>1, <1>2, <1>5 DEF GatewayKept

\* start_authorized writes the row of a use that has none, and leaves any other.
LEMMA RegisterRows ==
  ASSUME GatewayKept, NEW a \in ToolAttempts, NEW u \in ToolUses, Register(a, u)
  PROVE  /\ call' \in [ToolUses -> CallRows] /\ CallsSettle
         /\ leases' \in [ToolAttempts -> Seq(LeaseRows)]
         /\ \A b \in ToolAttempts : Uniquely(leases'[b])
         /\ \A b \in ToolAttempts : b # a => leases'[b] = leases[b]
         /\ Known(a, u) => LeasesGo
         /\ ~Known(a, u) => /\ FreshUses(leases'[a]) = FreshUses(leases[a]) \cup {u}
                            /\ Unclaimed(u) /\ executed[u] = 0
                            /\ call'[u].status = "RUNNING"
                            /\ \A v \in ToolUses : v # u => call'[v] = call[v]
  <1>1. /\ call \in [ToolUses -> CallRows] /\ holder \in [ToolAttempts -> HolderRows]
        /\ leases \in [ToolAttempts -> Seq(LeaseRows)]
    BY GatewayRows DEF GatewayKept, GatewayTyped
  <1>2. a \in Nat
    BY GatewayRows DEF ToolAttempts, GatewayKept
  <1>. DEFINE row == [NoCall EXCEPT !.status = "RUNNING", !.attempt = a, !.session = holder[a].session]
              result == IF Known(a, u) THEN call[u].result ELSE 0
              lease == [use |-> u, isNew |-> ~Known(a, u), result |-> result]
  <1>3. row \in CallRows /\ row.status = "RUNNING"
    BY <1>1, <1>2 DEF NoCall, CallRows, HolderRows
  <1>4. /\ result \in Nat /\ Known(a, u) \in BOOLEAN
        /\ ~Known(a, u) => result = 0
    BY <1>1 DEF CallRows, Known
  <1>5. call' = IF Known(a, u) THEN call ELSE [call EXCEPT ![u] = row]
    BY DEF Register
  <1>6. leases' = [leases EXCEPT ![a] = Append(@, lease)]
    BY DEF Register
  <1>. HIDE DEF row, result
  <1>7. lease \in LeaseRows /\ lease.use = u /\ (FreshLease(lease) <=> ~Known(a, u))
    BY <1>4 DEF LeaseRows, FreshLease
  <1>8. ~Known(a, u) => Unclaimed(u) /\ executed[u] = 0
    BY DEF Known, GatewayKept, RightsKept
  <1>9. ~Known(a, u) => u \notin FreshUses(leases[a])
    BY <1>8 DEF Unclaimed, Fresh
  <1>. HIDE DEF lease
  <1>10. leases[a] \in Seq(LeaseRows) /\ Uniquely(leases[a])
    BY <1>1 DEF GatewayKept, RightsKept
  <1>11. /\ Append(leases[a], lease) \in Seq(LeaseRows)
         /\ Uniquely(Append(leases[a], lease))
         /\ FreshUses(Append(leases[a], lease))
              = FreshUses(leases[a]) \cup (IF FreshLease(lease) THEN {lease.use} ELSE {})
    BY <1>7, <1>9, <1>10, AppendLease
  <1>12. /\ leases' \in [ToolAttempts -> Seq(LeaseRows)]
         /\ leases'[a] = Append(leases[a], lease)
         /\ \A b \in ToolAttempts : b # a => leases'[b] = leases[b]
    BY <1>1, <1>6, <1>11
  <1>13. call' \in [ToolUses -> CallRows] /\ CallsSettle
    <2>1. CASE Known(a, u)
      BY <1>1, <1>5, <2>1 DEF CallsSettle
    <2>2. CASE ~Known(a, u)
      BY <1>1, <1>3, <1>5, <2>2 DEF CallsSettle, Known
    <2>. QED
      BY <2>1, <2>2
  <1>14. \A b \in ToolAttempts : Uniquely(leases'[b])
    BY <1>11, <1>12 DEF GatewayKept, RightsKept
  <1>15. Known(a, u) => LeasesGo
    BY <1>7, <1>11, <1>12, <1>14 DEF LeasesGo
  <1>16. ~Known(a, u) => /\ FreshUses(leases'[a]) = FreshUses(leases[a]) \cup {u}
                         /\ call'[u].status = "RUNNING"
                         /\ \A v \in ToolUses : v # u => call'[v] = call[v]
    BY <1>1, <1>3, <1>5, <1>7, <1>11, <1>12
  <1>. QED
    BY <1>8, <1>12, <1>13, <1>14, <1>15, <1>16

\* A use that is registered gives its worker the only right to call it.
LEMMA RegisterKeeps ==
  ASSUME GatewayKept, NEW a \in ToolAttempts, NEW u \in ToolUses, holder[a].state # "none",
         Register(a, u), StepLeft(a), Consume(a), FlightsGoOn,
         dispatched' = dispatched, executed' = executed, told' = told
  PROVE  GatewayKept'
  <1>1. /\ holder' \in [ToolAttempts -> HolderRows]
        /\ \A b \in ToolAttempts : holder'[b].state = holder[b].state /\ holder[b].used <= holder'[b].used
        /\ \A b \in ToolAttempts : b # a => holder'[b] = holder[b]
        /\ holder'[a].used = holder[a].used + 1
    BY ConsumeRows DEF GatewayKept
  <1>2. GatewayTyped'
    BY <1>1, RegisterRows DEF GatewayKept, GatewayTyped, ToolTypeOK, FlightsGoOn, CallRows, HolderRows
  <1>3. CASE Known(a, u)
    <2>1. CallsSettle /\ LeasesGo
      BY <1>3, RegisterRows
    <2>2. \A b \in ToolAttempts : b # a => leases'[b] = leases[b]
      BY RegisterRows
    <2>. QED
      BY <1>1, <1>2, <2>1, <2>2, GatewayStays DEF AnswersRecorded
  <1>4. CASE ~Known(a, u)
    <2>1. /\ CallsSettle
          /\ \A b \in ToolAttempts : Uniquely(leases'[b])
          /\ \A b \in ToolAttempts : b # a => leases'[b] = leases[b]
          /\ FreshUses(leases'[a]) = FreshUses(leases[a]) \cup {u}
          /\ Unclaimed(u) /\ executed[u] = 0
          /\ call'[u].status = "RUNNING"
          /\ \A v \in ToolUses : v # u => call'[v] = call[v]
      BY <1>4, RegisterRows
    <2>2. AnswerIsRecorded'
      BY <2>1, AnswersStay DEF GatewayKept, AnswersRecorded
    <2>3. ASSUME NEW b \in ToolAttempts
          PROVE  Paid(b)
      <3>1. CASE b = a
        <4>1. dispatched'[b] \cup FreshUses(leases'[b])
                \subseteq (dispatched[b] \cup FreshUses(leases[b])) \cup {u}
          BY <2>1, <3>1
        <4>2. holder[b].used + 1 <= holder'[b].used
          <5>1. holder[a].used + 1 <= holder'[a].used
            <6>1. holder[a].used \in Nat
              BY GatewayRows DEF GatewayKept, HolderRows
            <6>. QED
              BY <1>1, <6>1
          <5>. QED
            BY <3>1, <5>1
        <4>. QED
          BY <4>1, <4>2 DEF Paid
      <3>2. CASE b # a
        BY <1>1, <2>1, <3>2 DEF Paid
      <3>. QED
        BY <3>1, <3>2
    <2>4. \A b \in ToolAttempts : StartsEmpty(b)
      BY <1>1, <2>1 DEF StartsEmpty
    <2>5. \A f \in flight' : holder'[f.attempt].state # "none"
      BY <1>1, FlightsHaveWorkers DEF GatewayKept
    <2>6. StepsKept'
      BY <1>2, <2>3, <2>4, <2>5, StepsArePaid DEF GatewayKept
    <2>7. \A b \in ToolAttempts : FreshUses(leases'[b]) \subseteq FreshUses(leases[b]) \cup {u}
      BY <2>1
    <2>8. \A b, c \in ToolAttempts : b # c => Fresh(b)' \cap Fresh(c)' = {}
      <3>. SUFFICES ASSUME NEW b \in ToolAttempts, NEW c \in ToolAttempts, b # c,
                           NEW v, v \in FreshUses(leases'[b]), v \in FreshUses(leases'[c])
                    PROVE  FALSE
        BY DEF Fresh
      <3>1. CASE v = u
        <4>1. PICK d \in {b, c} : d # a
          OBVIOUS
        <4>2. u \in FreshUses(leases[d])
          BY <2>1, <3>1, <4>1
        <4>. QED
          BY <2>1, <4>2 DEF Unclaimed, Fresh
      <3>2. CASE v # u
        <4>1. v \in FreshUses(leases[b]) /\ v \in FreshUses(leases[c])
          BY <2>7, <3>2
        <4>. QED
          BY <4>1 DEF GatewayKept, RightsKept, Fresh
      <3>. QED
        BY <3>1, <3>2
    <2>9. \A f \in flight' : f.at = "claimed" => \A b \in ToolAttempts : f.use \notin Fresh(b)'
      BY <2>1, <2>7 DEF GatewayKept, RightsKept, Unclaimed, Fresh, FlightsGoOn
    <2>10. \A f, g \in flight' : f.at = "claimed" /\ g.at = "claimed" /\ f.use = g.use => f = g
      BY DEF GatewayKept, RightsKept, FlightsGoOn
    <2>11. ASSUME NEW v \in ToolUses
           PROVE  /\ executed'[v] <= 1
                  /\ call'[v].status = "none" => executed'[v] = 0
                  /\ call'[v].status = "none" \/ executed'[v] = 1 => Unclaimed(v)'
      <3>1. CASE v = u
        BY <2>1, <3>1
      <3>2. CASE v # u
        <4>1. Unclaimed(v) => Unclaimed(v)'
          BY <2>7, <3>2 DEF Unclaimed, Fresh, FlightsGoOn
        <4>. QED
          BY <2>1, <3>2, <4>1 DEF GatewayKept, RightsKept
      <3>. QED
        BY <3>1, <3>2
    <2>12. RightsKept'
      BY <2>1, <2>8, <2>9, <2>10, <2>11 DEF RightsKept
    <2>. QED
      BY <1>2, <2>2, <2>6, <2>12 DEF GatewayKept
  <1>. QED
    BY <1>3, <1>4

\* record_denied writes a row that can never be called.
LEMMA DenyRows ==
  ASSUME GatewayKept, NEW a \in ToolAttempts, NEW u \in ToolUses, Deny(a, u)
  PROVE  call' \in [ToolUses -> CallRows] /\ CallsSettle /\ leases' = leases /\ LeasesGo
  <1>1. call \in [ToolUses -> CallRows] /\ holder \in [ToolAttempts -> HolderRows] /\ a \in Nat
    BY GatewayRows DEF GatewayKept, ToolAttempts
  <1>. DEFINE row == [NoCall EXCEPT !.status = "DENIED", !.attempt = a, !.session = holder[a].session]
  <1>2. row \in CallRows /\ row.status = "DENIED"
    BY <1>1 DEF NoCall, CallRows, HolderRows
  <1>3. call' = (IF Gate(a) /\ ~Known(a, u) THEN [call EXCEPT ![u] = row] ELSE call) /\ leases' = leases
    BY DEF Deny
  <1>. HIDE DEF row
  <1>4. call' \in [ToolUses -> CallRows] /\ CallsSettle
    BY <1>1, <1>2, <1>3 DEF CallsSettle, Known
  <1>. QED
    BY <1>3, <1>4 DEF LeasesGo, GatewayKept, RightsKept

\* claim for a Run, and what its worker starts with.
LEMMA ClaimRunForToolsKeeps ==
  ASSUME GatewayKept, NEW a \in ToolAttempts, NEW resume \in BOOLEAN, ClaimRunForTools(a, resume)
  PROVE  GatewayKept'
  <1>1. /\ holder \in [ToolAttempts -> HolderRows] /\ MaxTurns \in Nat /\ MaxToolAttempts \in Nat
        /\ a \in Nat
    BY GatewayRows DEF GatewayKept, ToolAttempts
  <1>. DEFINE kept == IF resume THEN holder[a - 1].session ELSE a
              row == [NoHolder EXCEPT !.state = "live", !.session = kept]
  <1>2. kept \in Nat
    <2>1. CASE resume
      <3>1. a - 1 \in ToolAttempts
        BY <1>1, <2>1 DEF ClaimRunForTools, ToolAttempts
      <3>. QED
        BY <1>1, <2>1, <3>1 DEF HolderRows
    <2>2. CASE ~resume
      BY <1>1, <2>2
    <2>. QED
      BY <2>1, <2>2
  <1>3. holder' = [holder EXCEPT ![a] = row]
    BY DEF ClaimRunForTools
  <1>. HIDE DEF kept
  <1>4. row \in HolderRows /\ row.state = "live" /\ row.used = 0
    <2>1. NoHolder \in HolderRows /\ NoHolder.used = 0
      BY <1>1 DEF NoHolder, HolderRows
    <2>. QED
      BY <1>2, <2>1 DEF HolderRows
  <1>. HIDE DEF row
  <1>5. /\ holder' \in [ToolAttempts -> HolderRows] /\ holder'[a] = row
        /\ \A b \in ToolAttempts : b # a => holder'[b] = holder[b]
    BY <1>1, <1>3, <1>4
  <1>6. holder[a].used = 0
    BY DEF GatewayKept, StepsKept, ClaimRunForTools
  <1>7. /\ call' = call /\ leases' = leases /\ dispatched' = dispatched
        /\ flight' = flight /\ executed' = executed /\ told' = told
    BY DEF ClaimRunForTools
  <1>8. GatewayTyped'
    BY <1>5, <1>7 DEF GatewayKept, GatewayTyped, ToolTypeOK, HolderRows
  <1>9. FlightsGoOn /\ CallsSettle /\ LeasesGo /\ AnswersRecorded
    BY <1>7, FlightsStay DEF GatewayKept, RightsKept, CallsSettle, LeasesGo, AnswersRecorded
  <1>10. \A b \in ToolAttempts : holder[b].used \in Nat
    BY <1>1 DEF HolderRows
  <1>11. \A b \in ToolAttempts :
           /\ holder[b].state # "none" => holder'[b].state # "none"
           /\ holder'[b].state = "none" => holder'[b] = holder[b] /\ leases'[b] = leases[b]
           /\ holder[b].used <= holder'[b].used
    BY <1>4, <1>5, <1>6, <1>7, <1>10
  <1>. QED
    BY <1>7, <1>8, <1>9, <1>11, GatewayStays

\* A claim that is lost.
LEMMA LoseClaimKeeps ==
  ASSUME GatewayKept, NEW a \in ToolAttempts, LoseClaim(a)
  PROVE  GatewayKept'
  <1>1. holder \in [ToolAttempts -> HolderRows] /\ MaxTurns \in Nat
    BY GatewayRows DEF GatewayKept
  <1>2. holder' = [holder EXCEPT ![a].state = "stale"]
    BY DEF LoseClaim
  <1>3. /\ holder' \in [ToolAttempts -> HolderRows]
        /\ holder'[a].state = "stale" /\ holder'[a].used = holder[a].used
        /\ \A b \in ToolAttempts : b # a => holder'[b] = holder[b]
    BY <1>1, <1>2 DEF HolderRows
  <1>4. /\ call' = call /\ leases' = leases /\ dispatched' = dispatched
        /\ flight' = flight /\ executed' = executed /\ told' = told
    BY DEF LoseClaim
  <1>5. GatewayTyped'
    BY <1>3, <1>4 DEF GatewayKept, GatewayTyped, ToolTypeOK, HolderRows
  <1>6. FlightsGoOn /\ CallsSettle /\ LeasesGo /\ AnswersRecorded
    BY <1>4, FlightsStay DEF GatewayKept, RightsKept, CallsSettle, LeasesGo, AnswersRecorded
  <1>7. \A b \in ToolAttempts : holder[b].used \in Nat
    BY <1>1 DEF HolderRows
  <1>8. \A b \in ToolAttempts :
          /\ holder[b].state # "none" => holder'[b].state # "none"
          /\ holder'[b].state = "none" => holder'[b] = holder[b] /\ leases'[b] = leases[b]
          /\ holder[b].used <= holder'[b].used
    BY <1>3, <1>4, <1>7
  <1>. QED
    BY <1>4, <1>5, <1>6, <1>8, GatewayStays

\* A worker that dies takes its leases and its calls in flight with it.
LEMMA EngineDiesKeeps ==
  ASSUME GatewayKept, NEW a \in ToolAttempts, EngineDies(a)
  PROVE  GatewayKept'
  <1>1. holder \in [ToolAttempts -> HolderRows] /\ MaxTurns \in Nat
    BY GatewayRows DEF GatewayKept
  <1>2. /\ leases \in [ToolAttempts -> Seq(LeaseRows)]
        /\ dispatched \in [ToolAttempts -> SUBSET ToolUses]
    BY DEF GatewayKept, GatewayTyped
  <1>3. /\ holder' = [holder EXCEPT ![a].state = "dead"]
        /\ leases' = [leases EXCEPT ![a] = <<>>]
        /\ dispatched' = [dispatched EXCEPT ![a] = {}]
        /\ flight' \subseteq flight /\ \A f \in flight' : f.attempt # a
        /\ call' = call /\ executed' = executed /\ told' = told
    BY DEF EngineDies
  <1>4. /\ holder' \in [ToolAttempts -> HolderRows]
        /\ holder'[a].state = "dead" /\ holder'[a].used = holder[a].used
        /\ \A b \in ToolAttempts : b # a => holder'[b] = holder[b]
    BY <1>1, <1>3 DEF HolderRows
  <1>5. /\ leases' \in [ToolAttempts -> Seq(LeaseRows)] /\ leases'[a] = <<>>
        /\ \A b \in ToolAttempts : b # a => leases'[b] = leases[b]
    BY <1>2, <1>3, EmptySeq
  <1>6. /\ dispatched' \in [ToolAttempts -> SUBSET ToolUses] /\ dispatched'[a] = {}
        /\ \A b \in ToolAttempts : b # a => dispatched'[b] = dispatched[b]
    BY <1>2, <1>3
  <1>7. FlightsGoOn /\ CallsSettle /\ AnswersRecorded
    BY <1>3, FlightsStay DEF GatewayKept, CallsSettle, AnswersRecorded
  <1>8. LeasesGo
    BY <1>5, NothingFresh DEF LeasesGo, GatewayKept, RightsKept
  <1>9. GatewayTyped'
    BY <1>3, <1>4, <1>5, <1>6 DEF GatewayKept, GatewayTyped, ToolTypeOK, HolderRows
  <1>10. RightsKept' /\ AnswerIsRecorded'
    BY <1>3, <1>7, <1>8, RightsStay, AnswersStay DEF GatewayKept
  <1>11. \A b \in ToolAttempts : holder[b].used \in Nat
    BY <1>1 DEF HolderRows
  <1>12. \A b \in ToolAttempts : Paid(b) /\ StartsEmpty(b)
    <2>1. \A b \in ToolAttempts : holder[b].used <= holder'[b].used
      BY <1>4, <1>11
    <2>2. \A b \in ToolAttempts : dispatched'[b] \subseteq dispatched[b]
      BY <1>6
    <2>3. \A b \in ToolAttempts : Paid(b)
      BY <1>8, <2>1, <2>2 DEF Paid, LeasesGo
    <2>4. \A b \in ToolAttempts : StartsEmpty(b)
      BY <1>4, <1>5, <1>6 DEF StartsEmpty
    <2>. QED
      BY <2>3, <2>4
  <1>13. \A f \in flight' : holder'[f.attempt].state # "none"
    <2>1. \A b \in ToolAttempts : holder[b].state # "none" => holder'[b].state # "none"
      BY <1>4
    <2>. QED
      BY <1>7, <2>1, FlightsHaveWorkers DEF GatewayKept
  <1>. QED
    BY <1>9, <1>10, <1>12, <1>13, StepsArePaid DEF GatewayKept

\* A step that is spent on a use that is not registered.
LEMMA RefusalKeeps ==
  ASSUME GatewayKept, NEW a \in ToolAttempts, holder[a].state # "none",
         call' \in [ToolUses -> CallRows], CallsSettle, leases' = leases, FlightsGoOn,
         Consume(a) \/ holder' = holder,
         dispatched' = dispatched, executed' = executed, told' = told
  PROVE  GatewayKept'
  <1>1. holder \in [ToolAttempts -> HolderRows] /\ MaxTurns \in Nat
    BY GatewayRows DEF GatewayKept
  <1>2. \A b \in ToolAttempts : holder[b].used \in Nat
    BY <1>1 DEF HolderRows
  <1>3. /\ holder' \in [ToolAttempts -> HolderRows]
        /\ \A b \in ToolAttempts : holder'[b].state = holder[b].state /\ holder[b].used <= holder'[b].used
        /\ \A b \in ToolAttempts : b # a => holder'[b] = holder[b]
    <2>1. CASE Consume(a)
      BY <2>1, ConsumeRows DEF GatewayKept
    <2>2. CASE holder' = holder
      BY <1>1, <1>2, <2>2
    <2>. QED
      BY <2>1, <2>2
  <1>4. GatewayTyped'
    BY <1>3 DEF GatewayKept, GatewayTyped, ToolTypeOK, FlightsGoOn, CallRows, HolderRows
  <1>5. LeasesGo /\ AnswersRecorded
    BY DEF LeasesGo, AnswersRecorded, GatewayKept, RightsKept
  <1>6. \A b \in ToolAttempts :
          /\ holder[b].state # "none" => holder'[b].state # "none"
          /\ holder'[b].state = "none" => holder'[b] = holder[b] /\ leases'[b] = leases[b]
          /\ holder[b].used <= holder'[b].used
    BY <1>3
  <1>. QED
    BY <1>4, <1>5, <1>6, GatewayStays

\* enforce_tool_boundary: the step, and the right to call the use or its refusal.
LEMMA PreToolUseKeeps ==
  ASSUME GatewayKept, NEW a \in ToolAttempts, NEW u \in ToolUses, PreToolUse(a, u)
  PROVE  GatewayKept'
  <1>1. /\ holder[a].state # "none" /\ Consume(a)
        /\ dispatched' = dispatched /\ flight' = flight /\ executed' = executed /\ told' = told
    BY DEF PreToolUse, Working
  <1>2. FlightsGoOn
    BY <1>1, FlightsStay DEF GatewayKept
  <1>3. CASE Deny(a, u)
    BY <1>1, <1>2, <1>3, DenyRows, RefusalKeeps
  <1>4. CASE StepLeft(a) /\ Register(a, u)
    BY <1>1, <1>2, <1>4, RegisterKeeps
  <1>5. CASE UNCHANGED <<call, leases>>
    <2>1. call' \in [ToolUses -> CallRows] /\ CallsSettle /\ leases' = leases
      BY <1>5, GatewayRows DEF GatewayKept, CallsSettle
    <2>. QED
      BY <1>1, <1>2, <2>1, RefusalKeeps
  <1>. QED
    BY <1>3, <1>4, <1>5 DEF PreToolUse

\* A lease that is used up for nothing.
LEMMA RejectLeaseKeeps ==
  ASSUME GatewayKept, NEW a \in ToolAttempts, NEW d, holder[a].state # "none",
         Waits(a, d) # {}, DropLease(a, d), FlightsGoOn,
         dispatched' = dispatched, call' = call, holder' = holder, executed' = executed, told' = told
  PROVE  GatewayKept'
  <1>1. /\ leases' \in [ToolAttempts -> Seq(LeaseRows)] /\ LeasesGo
        /\ \A b \in ToolAttempts : b # a => leases'[b] = leases[b]
    BY DropRows DEF GatewayKept
  <1>2. holder \in [ToolAttempts -> HolderRows] /\ MaxTurns \in Nat
    BY GatewayRows DEF GatewayKept
  <1>3. \A b \in ToolAttempts : holder[b].used \in Nat
    BY <1>2 DEF HolderRows
  <1>4. GatewayTyped'
    BY <1>1 DEF GatewayKept, GatewayTyped, ToolTypeOK, FlightsGoOn
  <1>5. CallsSettle /\ AnswersRecorded
    BY DEF CallsSettle, AnswersRecorded
  <1>6. \A b \in ToolAttempts :
          /\ holder[b].state # "none" => holder'[b].state # "none"
          /\ holder'[b].state = "none" => holder'[b] = holder[b] /\ leases'[b] = leases[b]
          /\ holder[b].used <= holder'[b].used
    BY <1>1, <1>3
  <1>. QED
    BY <1>1, <1>4, <1>5, <1>6, GatewayStays

\* The first half of _invoke: the right to call a use moves from its lease to a call in flight.
LEMMA TakeLeaseKeeps ==
  ASSUME GatewayKept, NEW a \in ToolAttempts, NEW d, NEW parent \in ToolUses \cup {NoUse}, NEW others,
         holder[a].state # "none", TakeLease(a, d, parent, others), others \subseteq FlightRows,
         \A g \in others : /\ g.at = "claimed" => g \in flight
                           /\ \E h \in flight : h.attempt = g.attempt,
         call' = call, holder' = holder, executed' = executed, told' = told
  PROVE  GatewayKept'
  <1>. DEFINE lease == NextLease(a, d)
              new == Flight(a, lease, parent)
              u == lease.use
  <1>1. /\ leases' \in [ToolAttempts -> Seq(LeaseRows)] /\ LeasesGo
        /\ \A b \in ToolAttempts : b # a => leases'[b] = leases[b]
        /\ lease \in LeaseRows
        /\ FreshLease(lease) => lease.use \in Fresh(a) \ FreshUses(leases'[a])
    BY DropRows DEF GatewayKept, TakeLease
  <1>2. /\ Usable(a, lease) /\ flight' = others \cup {new}
        /\ dispatched' = IF lease.result # 0 THEN dispatched
                         ELSE [dispatched EXCEPT ![a] = @ \cup {u}]
    BY DEF TakeLease
  <1>3. /\ new \in FlightRows /\ new.attempt = a /\ new.use = u
        /\ new.at = IF lease.result # 0 THEN "replay" ELSE "claimed"
    <2>1. lease.use \in ToolUses /\ lease.result \in Nat
      BY <1>1 DEF LeaseRows
    <2>. HIDE DEF lease
    <2>. QED
      BY <2>1 DEF Flight, FlightRows
  <1>4. u \in ToolUses
    BY <1>1 DEF LeaseRows
  <1>5. CallsSettle /\ AnswersRecorded
    BY DEF CallsSettle, AnswersRecorded
  <1>6. holder \in [ToolAttempts -> HolderRows] /\ MaxTurns \in Nat
    BY GatewayRows DEF GatewayKept
  <1>7. \A b \in ToolAttempts : holder[b].used \in Nat
    BY <1>6 DEF HolderRows
  <1>8. lease.result = 0 => FreshLease(lease)
    BY <1>2 DEF Usable
  <1>. HIDE DEF new, u, lease
  <1>9. CASE lease.result # 0
    <2>1. FlightsGoOn
      BY <1>2, <1>3, <1>9 DEF FlightsGoOn
    <2>2. dispatched' = dispatched
      BY <1>2, <1>9
    <2>3. GatewayTyped'
      BY <1>1, <2>1, <2>2 DEF GatewayKept, GatewayTyped, ToolTypeOK, FlightsGoOn
    <2>4. \A b \in ToolAttempts :
            /\ holder[b].state # "none" => holder'[b].state # "none"
            /\ holder'[b].state = "none" => holder'[b] = holder[b] /\ leases'[b] = leases[b]
            /\ holder[b].used <= holder'[b].used
      BY <1>1, <1>7
    <2>. QED
      BY <1>1, <1>5, <2>1, <2>2, <2>3, <2>4, GatewayStays
  <1>10. CASE lease.result = 0
    <2>1. u \in FreshUses(leases[a]) /\ u \notin FreshUses(leases'[a])
      BY <1>1, <1>8, <1>10 DEF Fresh, u
    <2>2. \A b \in ToolAttempts : FreshUses(leases'[b]) \subseteq FreshUses(leases[b])
      BY <1>1 DEF LeasesGo
    <2>3. \A b \in ToolAttempts : u \notin FreshUses(leases'[b])
      BY <2>1, <2>2 DEF GatewayKept, RightsKept, Fresh
    <2>4. /\ dispatched' \in [ToolAttempts -> SUBSET ToolUses]
          /\ dispatched'[a] = dispatched[a] \cup {u}
          /\ \A b \in ToolAttempts : b # a => dispatched'[b] = dispatched[b]
      BY <1>2, <1>4, <1>10 DEF GatewayKept, GatewayTyped
    <2>5. flight' \subseteq FlightRows
      BY <1>2, <1>3
    <2>6. GatewayTyped'
      BY <1>1, <2>4, <2>5 DEF GatewayKept, GatewayTyped, ToolTypeOK
    <2>7. \A g \in flight' : g.at = "claimed" => g = new \/ g \in flight
      BY <1>2
    <2>8. \A g \in flight : g.at = "claimed" => g.use # u
      BY <2>1 DEF GatewayKept, RightsKept, Fresh
    <2>9. ASSUME NEW v \in ToolUses, Unclaimed(v)
          PROVE  Unclaimed(v)'
      <3>1. v # u
        BY <2>1, <2>9 DEF Unclaimed, Fresh
      <3>. QED
        BY <1>3, <2>2, <2>7, <2>9, <3>1 DEF Unclaimed, Fresh
    <2>10. RightsKept'
      <3>1. /\ \A b \in ToolAttempts : Uniquely(leases'[b])
            /\ \A b, c \in ToolAttempts : b # c => Fresh(b)' \cap Fresh(c)' = {}
        BY <1>1, <2>2 DEF GatewayKept, RightsKept, LeasesGo, Fresh
      <3>2. \A f \in flight' : f.at = "claimed" => \A b \in ToolAttempts : f.use \notin Fresh(b)'
        BY <1>3, <2>2, <2>3, <2>7 DEF GatewayKept, RightsKept, Fresh
      <3>3. \A f, g \in flight' : f.at = "claimed" /\ g.at = "claimed" /\ f.use = g.use => f = g
        BY <1>3, <2>7, <2>8 DEF GatewayKept, RightsKept
      <3>4. \A v \in ToolUses :
              /\ executed'[v] <= 1
              /\ call'[v].status = "none" => executed'[v] = 0
              /\ call'[v].status = "none" \/ executed'[v] = 1 => Unclaimed(v)'
        BY <2>9 DEF GatewayKept, RightsKept
      <3>. QED
        BY <3>1, <3>2, <3>3, <3>4 DEF RightsKept
    <2>11. AnswerIsRecorded'
      BY <1>5, AnswersStay DEF GatewayKept
    <2>12. \A b \in ToolAttempts : Paid(b)
      <3>1. \A b \in ToolAttempts : dispatched'[b] \cup FreshUses(leases'[b])
                                      \subseteq dispatched[b] \cup FreshUses(leases[b])
        BY <2>1, <2>2, <2>4
      <3>2. \A b \in ToolAttempts : holder[b].used <= holder'[b].used
        BY <1>7
      <3>. QED
        BY <3>1, <3>2 DEF Paid
    <2>13. \A b \in ToolAttempts : StartsEmpty(b)
      BY <1>1, <2>4 DEF StartsEmpty
    <2>14. \A g \in flight' : holder'[g.attempt].state # "none"
      BY <1>2, <1>3 DEF GatewayKept, StepsKept
    <2>15. StepsKept'
      BY <2>6, <2>12, <2>13, <2>14, StepsArePaid DEF GatewayKept
    <2>. QED
      BY <2>6, <2>10, <2>11, <2>15 DEF GatewayKept
  <1>. QED
    BY <1>9, <1>10

\* invoke_mcp.
LEMMA InvokeToolKeeps ==
  ASSUME GatewayKept, NEW a \in ToolAttempts, NEW d, InvokeTool(a, d)
  PROVE  GatewayKept'
  <1>1. /\ holder[a].state # "none"
        /\ call' = call /\ holder' = holder /\ executed' = executed /\ told' = told
    BY DEF InvokeTool, Working
  <1>2. CASE TakeLease(a, d, NoUse, flight)
    BY <1>1, <1>2, TakeLeaseKeeps DEF GatewayKept, GatewayTyped
  <1>3. CASE RejectLease(a, d) /\ flight' = flight
    <2>1. FlightsGoOn
      BY <1>3, FlightsStay DEF GatewayKept
    <2>. QED
      BY <1>1, <1>3, <2>1, RejectLeaseKeeps DEF RejectLease
  <1>. QED
    BY <1>2, <1>3 DEF InvokeTool

\* A call that moves on, or ends with what its row says.
LEMMA CallGoesOn ==
  ASSUME GatewayKept, FlightsGoOn, call' \in [ToolUses -> CallRows], CallsSettle,
         told' \subseteq ToolUses \X Nat, AnswersRecorded,
         UNCHANGED <<holder, leases, dispatched, executed>>
  PROVE  GatewayKept'
  <1>1. holder \in [ToolAttempts -> HolderRows] /\ MaxTurns \in Nat
    BY GatewayRows DEF GatewayKept
  <1>2. \A b \in ToolAttempts : holder[b].used \in Nat
    BY <1>1 DEF HolderRows
  <1>3. GatewayTyped'
    BY DEF GatewayKept, GatewayTyped, ToolTypeOK, FlightsGoOn, CallRows
  <1>4. LeasesGo
    BY DEF LeasesGo, GatewayKept, RightsKept
  <1>5. \A b \in ToolAttempts :
          /\ holder[b].state # "none" => holder'[b].state # "none"
          /\ holder'[b].state = "none" => holder'[b] = holder[b] /\ leases'[b] = leases[b]
          /\ holder[b].used <= holder'[b].used
    BY <1>2
  <1>. QED
    BY <1>3, <1>4, <1>5, GatewayStays

\* The provider is called: the right that the use had is spent.
LEMMA CallsProvider ==
  ASSUME GatewayKept, NEW f \in flight, f.at = "claimed", Dispatchable(f),
         executed' = [executed EXCEPT ![f.use] = @ + 1],
         flight' = (flight \ {f}) \cup {[f EXCEPT !.at = "executing", !.result = executed[f.use] + 1]},
         UNCHANGED <<call, holder, leases, dispatched, told>>
  PROVE  GatewayKept'
  <1>. DEFINE u == f.use
              n == executed[u] + 1
              new == [f EXCEPT !.at = "executing", !.result = n]
  <1>1. f \in FlightRows /\ executed \in [ToolUses -> Nat]
    BY DEF GatewayKept, GatewayTyped
  <1>2. u \in ToolUses /\ executed[u] \in Nat /\ n \in Nat
    BY <1>1 DEF FlightRows
  <1>3. ~Unclaimed(u)
    BY DEF Unclaimed
  <1>4. /\ executed[u] <= 1 /\ executed[u] # 1
    BY <1>2, <1>3 DEF GatewayKept, RightsKept
  <1>5. executed[u] = 0
    BY <1>2, <1>4
  <1>. HIDE DEF n
  <1>6. new \in FlightRows /\ new.at = "executing" /\ new.attempt = f.attempt
    BY <1>1, <1>2 DEF FlightRows
  <1>7. flight' = (flight \ {f}) \cup {new}
    BY DEF n
  <1>. HIDE DEF new
  <1>8. FlightsGoOn
    BY <1>6, <1>7 DEF FlightsGoOn, GatewayKept, GatewayTyped
  <1>9. /\ executed' \in [ToolUses -> Nat] /\ executed'[u] = 1
        /\ \A v \in ToolUses : v # u => executed'[v] = executed[v]
    BY <1>1, <1>2, <1>5 DEF n
  <1>10. call[u].status # "none"
    BY DEF Dispatchable
  <1>11. \A v \in ToolUses : Unclaimed(v) => Unclaimed(v)'
    BY <1>8 DEF Unclaimed, Fresh, FlightsGoOn
  <1>12. Unclaimed(u)'
    <2>1. \A a \in ToolAttempts : u \notin Fresh(a)'
      BY DEF GatewayKept, RightsKept, Fresh
    <2>2. \A g \in flight' : g.at = "claimed" => g \in flight /\ g # f
      BY <1>6, <1>7
    <2>3. \A g \in flight' : g.at = "claimed" => g.use # u
      BY <2>2 DEF GatewayKept, RightsKept
    <2>. QED
      BY <2>1, <2>3 DEF Unclaimed
  <1>. HIDE DEF u
  <1>13. RightsKept'
    <2>1. /\ \A a \in ToolAttempts : Uniquely(leases'[a])
          /\ \A a, b \in ToolAttempts : a # b => Fresh(a)' \cap Fresh(b)' = {}
      BY DEF GatewayKept, RightsKept, Fresh
    <2>2. \A g \in flight' : g.at = "claimed" => \A a \in ToolAttempts : g.use \notin Fresh(a)'
      BY <1>8 DEF GatewayKept, RightsKept, Fresh, FlightsGoOn
    <2>3. \A g, h \in flight' : g.at = "claimed" /\ h.at = "claimed" /\ g.use = h.use => g = h
      BY <1>8 DEF GatewayKept, RightsKept, FlightsGoOn
    <2>4. ASSUME NEW v \in ToolUses
          PROVE  /\ executed'[v] <= 1
                 /\ call'[v].status = "none" => executed'[v] = 0
                 /\ call'[v].status = "none" \/ executed'[v] = 1 => Unclaimed(v)'
      <3>1. CASE v = u
        BY <1>9, <1>10, <1>12, <3>1
      <3>2. CASE v # u
        BY <1>9, <1>11, <3>2 DEF GatewayKept, RightsKept
      <3>. QED
        BY <3>1, <3>2
    <2>. QED
      BY <2>1, <2>2, <2>3, <2>4 DEF RightsKept
  <1>14. GatewayTyped'
    BY <1>8, <1>9 DEF GatewayKept, GatewayTyped, ToolTypeOK, FlightsGoOn
  <1>15. AnswerIsRecorded'
    BY AnswersStay DEF GatewayKept, CallsSettle, AnswersRecorded
  <1>16. StepsKept'
    <2>1. \A a \in ToolAttempts : Fresh(a)' = Fresh(a)
      BY DEF Fresh
    <2>2. \A g \in flight' : holder'[g.attempt].state # "none"
      BY <1>6, <1>7 DEF GatewayKept, StepsKept
    <2>. QED
      BY <2>1, <2>2 DEF GatewayKept, StepsKept
  <1>. QED
    BY <1>13, <1>14, <1>15, <1>16 DEF GatewayKept

\* verify_dispatch.
LEMMA VerifyDispatchKeeps ==
  ASSUME GatewayKept, NEW f \in flight, VerifyDispatch(f)
  PROVE  GatewayKept'
  <1>1. f \in FlightRows /\ UNCHANGED <<call, holder, leases, dispatched>>
    BY DEF GatewayKept, GatewayTyped, VerifyDispatch
  <1>2. f.use \in ToolUses /\ f.result \in Nat /\ told \subseteq ToolUses \X Nat
    BY <1>1 DEF FlightRows, GatewayKept, GatewayTyped
  <1>3. call' \in [ToolUses -> CallRows] /\ CallsSettle
    BY <1>1, GatewayRows DEF GatewayKept, CallsSettle
  <1>4. CASE /\ f.at = "claimed" /\ Dispatchable(f)
             /\ executed' = [executed EXCEPT ![f.use] = @ + 1]
             /\ flight' = (flight \ {f}) \cup {[f EXCEPT !.at = "executing", !.result = executed[f.use] + 1]}
             /\ UNCHANGED told
    BY <1>1, <1>4, CallsProvider
  <1>5. CASE /\ f.at = "replay" /\ Dispatchable(f)
             /\ told' = told \cup {<<f.use, f.result>>}
             /\ \E goesOn \in BOOLEAN : Return(f, goesOn)
             /\ UNCHANGED executed
    <2>1. FlightsGoOn
      BY <1>5, ReturnGoesOn DEF GatewayKept
    <2>2. told' \subseteq ToolUses \X Nat
      BY <1>2, <1>5
    <2>3. call[f.use].status = "SUCCEEDED" /\ call[f.use].result = f.result
      BY <1>5 DEF Dispatchable
    <2>4. AnswersRecorded
      BY <1>1, <1>5, <2>3 DEF AnswersRecorded
    <2>. QED
      BY <1>1, <1>3, <1>5, <2>1, <2>2, <2>4, CallGoesOn
  <1>6. CASE ~Dispatchable(f) /\ Return(f, FALSE) /\ UNCHANGED <<executed, told>>
    <2>1. FlightsGoOn
      BY <1>6, ReturnGoesOn DEF GatewayKept
    <2>2. AnswersRecorded
      BY <1>6 DEF AnswersRecorded
    <2>. QED
      BY <1>1, <1>2, <1>3, <1>6, <2>1, <2>2, CallGoesOn
  <1>. QED
    BY <1>4, <1>5, <1>6 DEF VerifyDispatch

\* A call in flight that only moves on.
LEMMA AdvanceKeeps ==
  ASSUME GatewayKept, NEW f \in flight,
         NEW at \in {"executing", "stepping", "waiting", "done", "broken"}, AdvanceTo(f, at),
         UNCHANGED <<call, holder, leases, dispatched, executed, told>>
  PROVE  GatewayKept'
  <1>1. FlightsGoOn
    BY AdvanceGoesOn DEF GatewayKept
  <1>2. call' \in [ToolUses -> CallRows] /\ CallsSettle
    BY GatewayRows DEF GatewayKept, CallsSettle
  <1>3. told' \subseteq ToolUses \X Nat /\ AnswersRecorded
    BY DEF GatewayKept, GatewayTyped, AnswersRecorded
  <1>. QED
    BY <1>1, <1>2, <1>3, CallGoesOn

\* invoke_sequence_step, up to its call.
LEMMA SequenceStepKeeps ==
  ASSUME GatewayKept, NEW f \in flight, SequenceStep(f)
  PROVE  GatewayKept'
  <1>. DEFINE a == f.attempt
              c == StepOf(f)
  <1>1. f \in FlightRows /\ dispatched' = dispatched /\ executed' = executed /\ told' = told
    BY DEF GatewayKept, GatewayTyped, SequenceStep
  <1>2. a \in ToolAttempts /\ f.use \in ToolUses /\ f.position \in Nat
    BY <1>1 DEF FlightRows
  <1>3. holder[a].state # "none"
    BY DEF GatewayKept, StepsKept
  <1>4. c \in ToolUses
    <2>. DEFINE s == StepsOf[f.use]
                i == f.position + 1
    <2>1. s \in Seq(ToolUses)
      BY <1>2, ToolAssumption
    <2>2. f.position < Len(s) /\ Len(s) \in Nat
      BY <2>1, LenProperties DEF SequenceStep
    <2>3. i \in 1..Len(s)
      BY <1>2, <2>2
    <2>4. c = s[i]
      BY DEF StepOf
    <2>. HIDE DEF s, i, c
    <2>. QED
      BY <2>1, <2>3, <2>4, ElementOfSeq
  <1>5. \/ /\ StepLeft(a) /\ Consume(a) /\ Register(a, c) /\ AdvanceTo(f, "stepping")
        \/ Consume(a) /\ AdvanceTo(f, "broken") /\ UNCHANGED <<call, leases>>
        \/ Deny(a, c) /\ AdvanceTo(f, "done") /\ UNCHANGED holder
        \/ AdvanceTo(f, "broken") /\ UNCHANGED <<call, holder, leases>>
    BY DEF SequenceStep, ConsumeStep
  <1>. HIDE DEF a, c
  <1>6. FlightsGoOn
    BY <1>5, AdvanceGoesOn DEF GatewayKept
  <1>7. call \in [ToolUses -> CallRows]
    BY GatewayRows DEF GatewayKept
  <1>8. CASE StepLeft(a) /\ Consume(a) /\ Register(a, c)
    BY <1>1, <1>2, <1>3, <1>4, <1>6, <1>8, RegisterKeeps
  <1>9. CASE (Consume(a) \/ UNCHANGED holder) /\ UNCHANGED <<call, leases>>
    <2>1. CallsSettle /\ call' \in [ToolUses -> CallRows]
      BY <1>7, <1>9 DEF CallsSettle
    <2>. QED
      BY <1>1, <1>2, <1>3, <1>6, <1>9, <2>1, RefusalKeeps
  <1>10. CASE Deny(a, c) /\ UNCHANGED holder
    BY <1>1, <1>2, <1>3, <1>4, <1>6, <1>10, DenyRows, RefusalKeeps
  <1>. QED
    BY <1>5, <1>8, <1>9, <1>10

\* The call of a step, whose sequence waits for it.
LEMMA InvokeStepKeeps ==
  ASSUME GatewayKept, NEW f \in flight, InvokeStep(f)
  PROVE  GatewayKept'
  <1>. DEFINE a == f.attempt
              d == DigestOf[StepOf(f)]
              waiting == [f EXCEPT !.at = "waiting"]
              others == (flight \ {f}) \cup {waiting}
  <1>1. f \in FlightRows /\ flight \subseteq FlightRows
        /\ call' = call /\ holder' = holder /\ executed' = executed /\ told' = told
    BY DEF GatewayKept, GatewayTyped, InvokeStep
  <1>2. a \in ToolAttempts /\ f.use \in ToolUses /\ holder[a].state # "none"
    BY <1>1 DEF FlightRows, GatewayKept, StepsKept
  <1>3. waiting \in FlightRows /\ waiting.at = "waiting" /\ waiting.attempt = f.attempt
    BY <1>1 DEF FlightRows
  <1>4. \/ TakeLease(a, d, f.use, others)
        \/ RejectLease(a, d) /\ AdvanceTo(f, "done")
        \/ AdvanceTo(f, "done") /\ UNCHANGED <<leases, dispatched>>
    BY DEF InvokeStep
  <1>. HIDE DEF a, d, waiting
  <1>5. CASE TakeLease(a, d, f.use, others)
    <2>1. /\ others \subseteq FlightRows
          /\ \A g \in others : /\ g.at = "claimed" => g \in flight
                               /\ \E h \in flight : h.attempt = g.attempt
      BY <1>1, <1>3
    <2>. HIDE DEF others
    <2>. QED
      BY <1>1, <1>2, <1>5, <2>1, TakeLeaseKeeps
  <1>6. CASE RejectLease(a, d) /\ AdvanceTo(f, "done")
    <2>1. FlightsGoOn
      BY <1>6, AdvanceGoesOn DEF GatewayKept
    <2>. QED
      BY <1>1, <1>2, <1>6, <2>1, RejectLeaseKeeps DEF RejectLease
  <1>7. CASE AdvanceTo(f, "done") /\ UNCHANGED <<leases, dispatched>>
    BY <1>1, <1>7, AdvanceKeeps
  <1>. QED
    BY <1>4, <1>5, <1>6, <1>7

\* complete: the row gets its result before the model is told.
LEMMA CompleteCallKeeps ==
  ASSUME GatewayKept, NEW f \in flight, CompleteCall(f)
  PROVE  GatewayKept'
  <1>1. f \in FlightRows /\ told \subseteq ToolUses \X Nat
    BY DEF GatewayKept, GatewayTyped
  <1>2. f.use \in ToolUses /\ f.result \in Nat
    BY <1>1 DEF FlightRows
  <1>3. call \in [ToolUses -> CallRows]
    BY GatewayRows DEF GatewayKept
  <1>4. UNCHANGED <<holder, leases, dispatched, executed>>
    BY DEF CompleteCall
  <1>5. FlightsGoOn
    BY ReturnGoesOn DEF CompleteCall, NotConfirmed, GatewayKept
  <1>6. CASE /\ Recordable(f) /\ call' = Recorded(f)
             /\ told' = told \/ told' = told \cup {<<f.use, f.result>>}
    <2>1. call' = [call EXCEPT ![f.use].status = "SUCCEEDED", ![f.use].result = f.result]
      BY <1>6 DEF Recorded
    <2>2. call[f.use].status = "RUNNING"
      BY <1>6 DEF Recordable
    <2>3. /\ call' \in [ToolUses -> CallRows]
          /\ call'[f.use].status = "SUCCEEDED" /\ call'[f.use].result = f.result
          /\ \A u \in ToolUses : u # f.use => call'[u] = call[u]
      BY <1>2, <1>3, <2>1 DEF CallRows
    <2>4. CallsSettle
      BY <2>2, <2>3 DEF CallsSettle
    <2>5. told' \subseteq ToolUses \X Nat
      BY <1>1, <1>2, <1>6
    <2>6. AnswersRecorded
      BY <1>6, <2>3 DEF AnswersRecorded
    <2>. QED
      BY <1>4, <1>5, <2>3, <2>4, <2>5, <2>6, CallGoesOn
  <1>7. CASE UNCHANGED <<call, told>>
    <2>1. CallsSettle /\ AnswersRecorded
      BY <1>7 DEF CallsSettle, AnswersRecorded
    <2>. QED
      BY <1>1, <1>3, <1>4, <1>5, <1>7, <2>1, CallGoesOn
  <1>. QED
    BY <1>6, <1>7 DEF CompleteCall, NotConfirmed

\* fail.
LEMMA FailCallKeeps ==
  ASSUME GatewayKept, NEW f \in flight, FailCall(f)
  PROVE  GatewayKept'
  <1>1. f \in FlightRows /\ told \subseteq ToolUses \X Nat
    BY DEF GatewayKept, GatewayTyped
  <1>2. f.use \in ToolUses /\ call \in [ToolUses -> CallRows]
    BY <1>1, GatewayRows DEF FlightRows, GatewayKept
  <1>3. told' = told /\ UNCHANGED <<holder, leases, dispatched, executed>>
    BY DEF FailCall
  <1>4. FlightsGoOn
    BY ReturnGoesOn DEF FailCall, GatewayKept
  <1>5. \/ call' = call
        \/ call[f.use].status = "RUNNING" /\ call' = [call EXCEPT ![f.use].status = "FAILED"]
    BY DEF FailCall
  <1>6. call' \in [ToolUses -> CallRows] /\ CallsSettle
    BY <1>2, <1>5 DEF CallRows, CallsSettle
  <1>7. AnswersRecorded
    BY <1>3 DEF AnswersRecorded
  <1>. QED
    BY <1>1, <1>3, <1>4, <1>6, <1>7, CallGoesOn

\* Every step of the gateway.
LEMMA GatewayNextKeeps ==
  ASSUME GatewayKept, [ToolNext]_toolVars
  PROVE  GatewayKept'
  <1>1. CASE UNCHANGED toolVars
    <2>1. FlightsGoOn /\ CallsSettle /\ AnswersRecorded
      BY <1>1, FlightsStay DEF toolVars, GatewayKept, CallsSettle, AnswersRecorded
    <2>2. call' \in [ToolUses -> CallRows] /\ told' \subseteq ToolUses \X Nat
      BY <1>1, GatewayRows DEF toolVars, GatewayKept, GatewayTyped
    <2>. QED
      BY <1>1, <2>1, <2>2, CallGoesOn DEF toolVars
  <1>2. ASSUME NEW a \in ToolAttempts, NEW resume \in BOOLEAN, ClaimRunForTools(a, resume)
        PROVE  GatewayKept'
    BY <1>2, ClaimRunForToolsKeeps
  <1>3. ASSUME NEW a \in ToolAttempts, LoseClaim(a) \/ EngineDies(a)
        PROVE  GatewayKept'
    BY <1>3, LoseClaimKeeps, EngineDiesKeeps
  <1>4. ASSUME NEW a \in ToolAttempts, NEW u \in TopUses, PreToolUse(a, u)
        PROVE  GatewayKept'
    BY <1>4, PreToolUseKeeps DEF TopUses
  <1>5. ASSUME NEW a \in ToolAttempts, NEW d \in Range(DigestOf), InvokeTool(a, d)
        PROVE  GatewayKept'
    BY <1>5, InvokeToolKeeps
  <1>6. ASSUME NEW f \in flight, VerifyDispatch(f)
        PROVE  GatewayKept'
    BY <1>6, VerifyDispatchKeeps
  <1>7. ASSUME NEW f \in flight, NEW ok \in BOOLEAN, ProviderReturns(f, ok)
        PROVE  GatewayKept'
    BY <1>7, AdvanceKeeps DEF ProviderReturns
  <1>8. ASSUME NEW f \in flight, SequenceStep(f) \/ InvokeStep(f)
        PROVE  GatewayKept'
    BY <1>8, SequenceStepKeeps, InvokeStepKeeps
  <1>9. ASSUME NEW f \in flight, SequenceEnds(f)
        PROVE  GatewayKept'
    BY <1>9, AdvanceKeeps DEF SequenceEnds
  <1>10. ASSUME NEW f \in flight, CompleteCall(f) \/ FailCall(f)
         PROVE  GatewayKept'
    BY <1>10, CompleteCallKeeps, FailCallKeeps
  <1>. QED
    BY <1>1, <1>2, <1>3, <1>4, <1>5, <1>6, <1>7, <1>8, <1>9, <1>10 DEF ToolNext

\* No call, no worker.
LEMMA GatewayInitial == ToolInit => GatewayKept
  <1>. SUFFICES ASSUME ToolInit PROVE GatewayKept
    OBVIOUS
  <1>1. MaxTurns \in Nat /\ 0 \in 0..MaxTurns
    BY ToolAssumption
  <1>2. NoCall \in CallRows /\ NoHolder \in HolderRows
    BY <1>1 DEF NoCall, NoHolder, CallRows, HolderRows
  <1>3. <<>> \in Seq(LeaseRows)
    BY EmptySeq
  <1>4. GatewayTyped
    <2>1. call \in [ToolUses -> CallRows] /\ holder \in [ToolAttempts -> HolderRows]
      BY <1>2 DEF ToolInit
    <2>2. /\ leases \in [ToolAttempts -> Seq(LeaseRows)]
          /\ dispatched \in [ToolAttempts -> SUBSET ToolUses]
          /\ flight \subseteq FlightRows /\ told \subseteq ToolUses \X Nat
          /\ executed \in [ToolUses -> Nat]
      BY <1>3 DEF ToolInit
    <2>. QED
      BY <2>1, <2>2 DEF GatewayTyped, ToolTypeOK, CallRows, HolderRows
  <1>5. \A a \in ToolAttempts :
          leases[a] = <<>> /\ dispatched[a] = {} /\ holder[a].used = 0 /\ holder[a].state = "none"
    BY DEF ToolInit, NoHolder
  <1>6. \A a \in ToolAttempts : Fresh(a) = {} /\ Uniquely(leases[a])
    BY <1>5, NothingFresh DEF Fresh
  <1>7. RightsKept
    BY <1>6 DEF RightsKept, Unclaimed, ToolInit
  <1>8. IsFiniteSet({}) /\ Cardinality({}) = 0
    BY FS_EmptySet
  <1>9. \A a \in ToolAttempts : dispatched[a] \cup Fresh(a) = {}
    BY <1>5, <1>6
  <1>10. StepsKept
    <2>1. ASSUME NEW a \in ToolAttempts
          PROVE  /\ IsFiniteSet(dispatched[a] \cup Fresh(a))
                 /\ Cardinality(dispatched[a] \cup Fresh(a)) <= holder[a].used
      <3>1. /\ IsFiniteSet(dispatched[a] \cup Fresh(a))
            /\ Cardinality(dispatched[a] \cup Fresh(a)) = 0
        BY <1>8, <1>9
      <3>. QED
        BY <1>5, <3>1
    <2>2. flight = {}
      BY DEF ToolInit
    <2>. QED
      BY <1>5, <2>1, <2>2 DEF StepsKept
  <1>. QED
    BY <1>4, <1>7, <1>10 DEF GatewayKept, AnswerIsRecorded, ToolInit

\* GatewayKept holds forever: whatever is presented again, by the same engine, by a stale
\* one or by the attempt that resumes its session, the right to call a use exists once.
THEOREM GatewayInductive == ToolSpec => []GatewayKept
  <1>1. GatewayKept /\ [ToolNext]_toolVars => GatewayKept'
    BY GatewayNextKeeps
  <1>. QED
    BY <1>1, GatewayInitial, PTL DEF ToolSpec

\* The provider is called once for each use, the model is told what is recorded, and the
\* calls of a worker stay within its limit.
LEMMA GatewaySound ==
  ASSUME GatewayKept
  PROVE  DispatchedOnce /\ AnswerIsRecorded /\ StepsBounded
  <1>1. DispatchedOnce
    BY DEF GatewayKept, RightsKept, DispatchedOnce
  <1>2. ASSUME NEW a \in ToolAttempts
        PROVE  Cardinality(dispatched[a]) <= MaxTurns
    <2>. DEFINE all == dispatched[a] \cup Fresh(a)
                own == dispatched[a]
                paid == holder[a].used
    <2>1. IsFiniteSet(all) /\ Cardinality(all) <= paid
      BY DEF GatewayKept, StepsKept
    <2>2. paid \in 0..MaxTurns /\ MaxTurns \in Nat
      BY GatewayRows DEF GatewayKept, HolderRows
    <2>3. own \subseteq all
      OBVIOUS
    <2>. HIDE DEF all, own, paid
    <2>4. IsFiniteSet(own) /\ Cardinality(own) <= Cardinality(all)
      BY <2>1, <2>3, FS_Subset
    <2>5. Cardinality(own) \in Nat /\ Cardinality(all) \in Nat
      BY <2>1, <2>4, FS_CardinalityType
    <2>6. Cardinality(own) <= MaxTurns
      BY <2>1, <2>2, <2>4, <2>5
    <2>. QED
      BY <2>6 DEF own
  <1>. QED
    BY <1>1, <1>2 DEF GatewayKept, StepsBounded

-----------------------------------------------------------------------------
(* Branches of one call (Subagents): what is reported of a branch is decided   *)
(* when its stream is closed, and nothing of it changes after that.            *)

Verdicts == {"none", "COMPLETED", "FAILED", "TIMED_OUT"}
Findings == Branches \X Nat
StreamRows == [events : Nat, success : BOOLEAN, cites : SUBSET Findings, open : BOOLEAN, bad : BOOLEAN]

BranchesTyped ==
  /\ Started \subseteq Branches
  /\ stream \in [Branches -> StreamRows \cup {NoStream}]
  /\ \A b \in Started : stream[b] \in StreamRows
  /\ used \in [Branches -> Nat]
  /\ verdict \in [Branches -> Verdicts]
  /\ findings \subseteq Findings

\* A branch is judged with its stream closed, and what a completed one cites is its own.
JudgedWhenClosed ==
  /\ dispatch = "idle" => Started = {} /\ \A b \in Branches : verdict[b] = "none"
  /\ \A b \in Started : verdict[b] # "none" => ~stream[b].open
  /\ \A b \in Started : verdict[b] = "COMPLETED" => stream[b].cites \subseteq OwnEvidence(b)

\* The call is left when every branch is.
LeftWhenClosed ==
  /\ dispatch \in {"answered", "failed"} => AllJudged
  /\ dispatch = "cancelled" => \A b \in Started : ~stream[b].open
  /\ dispatch = "answered" => sessions = {<<b, SessionStatus(verdict[b])>> : b \in Started}

BranchesKept == BranchesTyped /\ JudgedWhenClosed /\ LeftWhenClosed

\* No branch before the call.
LEMMA BranchesInitial == DispatchInit => BranchesKept
  BY DEF DispatchInit, BranchesKept, BranchesTyped, JudgedWhenClosed, LeftWhenClosed, Started, Verdicts

\* execute.
LEMMA DispatchKeeps ==
  ASSUME BranchesKept, NEW requests \in Requests, Dispatch(requests)
  PROVE  BranchesKept'
  <1>1. DOMAIN requests \subseteq Branches
    BY DEF Requests
  <1>2. /\ dispatch = "idle" /\ UNCHANGED <<used, verdict, sessions, findings>>
        /\ \/ /\ dispatch' = "running"
              /\ branchTools' = [b \in DOMAIN requests |-> Granted(requests[b])]
              /\ stream' = [b \in Branches |-> IF b \in DOMAIN requests THEN Silent ELSE NoStream]
           \/ dispatch' = "refused" /\ UNCHANGED <<branchTools, stream>>
    BY DEF Dispatch
  <1>3. Silent \in StreamRows
    BY DEF Silent, StreamRows
  <1>4. CASE dispatch' = "refused" /\ UNCHANGED <<branchTools, stream>>
    BY <1>2, <1>4
       DEF BranchesKept, BranchesTyped, JudgedWhenClosed, LeftWhenClosed, Started, OwnEvidence
  <1>5. CASE /\ dispatch' = "running"
             /\ branchTools' = [b \in DOMAIN requests |-> Granted(requests[b])]
             /\ stream' = [b \in Branches |-> IF b \in DOMAIN requests THEN Silent ELSE NoStream]
    <2>1. Started' = DOMAIN requests
      BY <1>5 DEF Started
    <2>2. BranchesTyped'
      BY <1>1, <1>2, <1>3, <1>5, <2>1 DEF BranchesKept, BranchesTyped
    <2>3. \A b \in Branches : verdict'[b] = "none"
      BY <1>2 DEF BranchesKept, JudgedWhenClosed
    <2>4. JudgedWhenClosed' /\ LeftWhenClosed'
      BY <1>1, <1>5, <2>1, <2>3 DEF JudgedWhenClosed, LeftWhenClosed
    <2>. QED
      BY <2>2, <2>4 DEF BranchesKept
  <1>. QED
    BY <1>2, <1>4, <1>5

\* The stream of one branch that is not judged moves on; the call stays where it is.
LEMMA StreamMoves ==
  ASSUME BranchesKept, NEW b \in Started, NEW row \in StreamRows,
         stream' = [stream EXCEPT ![b] = row],
         dispatch \in {"running", "cancelling"}, verdict[b] = "none",
         findings \subseteq findings', findings' \subseteq Findings, used' \in [Branches -> Nat],
         UNCHANGED <<dispatch, branchTools, verdict, sessions>>
  PROVE  BranchesKept'
  <1>1. Started' = Started /\ Started \subseteq Branches
    BY DEF Started, BranchesKept, BranchesTyped
  <1>2. /\ stream' \in [Branches -> StreamRows \cup {NoStream}] /\ stream'[b] = row
        /\ \A c \in Started : c # b => stream'[c] = stream[c]
    BY <1>1 DEF BranchesKept, BranchesTyped
  <1>3. BranchesTyped'
    BY <1>1, <1>2 DEF BranchesKept, BranchesTyped
  <1>4. \A c \in Started : OwnEvidence(c) \subseteq OwnEvidence(c)'
    BY DEF OwnEvidence
  <1>5. JudgedWhenClosed'
    BY <1>1, <1>2, <1>4 DEF BranchesKept, JudgedWhenClosed
  <1>6. LeftWhenClosed'
    BY DEF LeftWhenClosed
  <1>. QED
    BY <1>3, <1>5, <1>6 DEF BranchesKept

\* What the engine of a branch does.
LEMMA BranchKeeps ==
  ASSUME BranchesKept, NEW b \in Branches,
         \/ BranchReads(b) \/ BranchEdits(b) \/ EmitsBadly(b) \/ EndStream(b) \/ CloseBranch(b)
         \/ \E cites \in {{}} \cup {{f} : f \in findings} : BranchReports(b, cites)
  PROVE  BranchesKept'
  <1>1. /\ Started \subseteq Branches /\ \A c \in Started : stream[c] \in StreamRows
        /\ stream \in [Branches -> StreamRows \cup {NoStream}]
        /\ used \in [Branches -> Nat] /\ findings \subseteq Findings
    BY DEF BranchesKept, BranchesTyped
  <1>2. ASSUME StreamOpen(b)
        PROVE  /\ b \in Started /\ stream[b] \in StreamRows /\ verdict[b] = "none"
               /\ dispatch = "running"
    BY <1>1, <1>2 DEF StreamOpen, Running
  <1>3. CASE BranchReads(b) \/ BranchEdits(b)
    <2>. DEFINE n == stream[b].events + 1
                row == [stream[b] EXCEPT !.events = n]
                m == used[b] + 1
    <2>1. StreamOpen(b)
      BY <1>3 DEF BranchReads, BranchEdits
    <2>2. row \in StreamRows
      <3>1. n \in Nat
        BY <1>2, <2>1 DEF StreamRows
      <3>. HIDE DEF n
      <3>. QED
        BY <1>2, <2>1, <3>1 DEF StreamRows
    <2>3. stream' = [stream EXCEPT ![b] = row]
      BY <1>3 DEF BranchReads, BranchEdits
    <2>4. m \in Nat /\ used' = [used EXCEPT ![b] = m]
      BY <1>1, <1>3 DEF BranchReads, BranchEdits
    <2>5. findings' = findings \/ findings' = findings \cup {<<b, m>>}
      BY <1>3 DEF BranchReads, BranchEdits
    <2>6. UNCHANGED <<dispatch, branchTools, verdict, sessions>>
      BY <1>3 DEF BranchReads, BranchEdits
    <2>. HIDE DEF row, m
    <2>7. findings \subseteq findings' /\ findings' \subseteq Findings /\ used' \in [Branches -> Nat]
      BY <1>1, <2>4, <2>5 DEF Findings
    <2>. QED
      BY <1>2, <2>1, <2>2, <2>3, <2>6, <2>7, StreamMoves
  <1>4. CASE \E cites \in {{}} \cup {{f} : f \in findings} : BranchReports(b, cites)
    <2>1. PICK cites \in {{}} \cup {{f} : f \in findings} : BranchReports(b, cites)
      BY <1>4
    <2>. DEFINE n == stream[b].events + 1
                row == [stream[b] EXCEPT !.success = TRUE, !.cites = cites, !.events = n]
    <2>2. StreamOpen(b) /\ UNCHANGED <<dispatch, branchTools, verdict, sessions, findings, used>>
      BY <2>1 DEF BranchReports
    <2>3. row \in StreamRows
      <3>1. n \in Nat
        BY <1>2, <2>2 DEF StreamRows
      <3>2. cites \in SUBSET Findings
        BY <1>1
      <3>. HIDE DEF n
      <3>. QED
        BY <1>2, <2>2, <3>1, <3>2 DEF StreamRows
    <2>4. stream' = [stream EXCEPT ![b] = row]
      BY <2>1 DEF BranchReports
    <2>. HIDE DEF row
    <2>. QED
      BY <1>1, <1>2, <2>2, <2>3, <2>4, StreamMoves
  <1>5. CASE EmitsBadly(b)
    <2>. DEFINE row == [stream[b] EXCEPT !.bad = TRUE, !.open = FALSE]
    <2>1. StreamOpen(b) /\ UNCHANGED <<dispatch, branchTools, verdict, sessions, findings, used>>
      BY <1>5 DEF EmitsBadly
    <2>2. row \in StreamRows
      BY <1>2, <2>1 DEF StreamRows
    <2>3. stream' = [stream EXCEPT ![b] = row]
      BY <1>5 DEF EmitsBadly
    <2>. HIDE DEF row
    <2>. QED
      BY <1>1, <1>2, <2>1, <2>2, <2>3, StreamMoves
  <1>6. CASE EndStream(b)
    <2>. DEFINE row == [stream[b] EXCEPT !.open = FALSE]
    <2>1. StreamOpen(b) /\ UNCHANGED <<dispatch, branchTools, verdict, sessions, findings, used>>
      BY <1>6 DEF EndStream
    <2>2. row \in StreamRows
      BY <1>2, <2>1 DEF StreamRows
    <2>3. stream' = [stream EXCEPT ![b] = row]
      BY <1>6 DEF EndStream
    <2>. HIDE DEF row
    <2>. QED
      BY <1>1, <1>2, <2>1, <2>2, <2>3, StreamMoves
  <1>7. CASE CloseBranch(b)
    <2>. DEFINE row == [stream[b] EXCEPT !.open = FALSE]
    <2>1. /\ dispatch = "cancelling" /\ b \in Started /\ stream[b].open
          /\ UNCHANGED <<dispatch, branchTools, verdict, sessions, findings, used>>
      BY <1>7 DEF CloseBranch
    <2>2. verdict[b] = "none"
      BY <2>1 DEF BranchesKept, JudgedWhenClosed
    <2>3. row \in StreamRows
      BY <1>1, <2>1 DEF StreamRows
    <2>4. stream' = [stream EXCEPT ![b] = row]
      BY <1>7 DEF CloseBranch
    <2>. HIDE DEF row
    <2>. QED
      BY <1>1, <2>1, <2>2, <2>3, <2>4, StreamMoves
  <1>. QED
    BY <1>3, <1>4, <1>5, <1>6, <1>7

\* The verdict on a branch.
LEMMA JudgeKeeps ==
  ASSUME BranchesKept, NEW b \in Branches, Judge(b) \/ TimeOut(b)
  PROVE  BranchesKept'
  <1>1. /\ Running(b) /\ UNCHANGED <<dispatch, branchTools, used, sessions, findings>>
    BY DEF Judge, TimeOut
  <1>2. /\ dispatch = "running" /\ b \in Started /\ Started' = Started
        /\ \A c \in Started : OwnEvidence(c)' = OwnEvidence(c)
    BY <1>1 DEF Running, Started, OwnEvidence
  <1>3. /\ Started \subseteq Branches /\ \A c \in Started : stream[c] \in StreamRows
        /\ stream \in [Branches -> StreamRows \cup {NoStream}]
        /\ used \in [Branches -> Nat] /\ findings \subseteq Findings
        /\ verdict \in [Branches -> Verdicts]
    BY DEF BranchesKept, BranchesTyped
  <1>4. \E v \in Verdicts : \E row \in StreamRows :
          /\ verdict' = [verdict EXCEPT ![b] = v] /\ stream' = [stream EXCEPT ![b] = row]
          /\ ~row.open
          /\ v = "COMPLETED" => row.cites \subseteq OwnEvidence(b)
    <2>1. CASE Judge(b)
      <3>. DEFINE v == IF /\ stream[b].success /\ ~stream[b].bad
                          /\ stream[b].cites \subseteq OwnEvidence(b)
                         THEN "COMPLETED" ELSE "FAILED"
                  row == stream[b]
      <3>1. v \in Verdicts /\ (v = "COMPLETED" => row.cites \subseteq OwnEvidence(b))
        BY DEF Verdicts
      <3>2. verdict' = [verdict EXCEPT ![b] = v] /\ ~row.open /\ stream' = stream
        BY <2>1 DEF Judge
      <3>3. row \in StreamRows
        BY <1>2, <1>3
      <3>. HIDE DEF v
      <3>4. stream' = [stream EXCEPT ![b] = row]
        BY <1>3, <3>2
      <3>. HIDE DEF row
      <3>. QED
        BY <3>1, <3>2, <3>3, <3>4
    <2>2. CASE TimeOut(b)
      <3>. DEFINE row == [stream[b] EXCEPT !.open = FALSE]
      <3>1. row \in StreamRows /\ ~row.open
        BY <1>2, <1>3 DEF StreamRows
      <3>2. /\ verdict' = [verdict EXCEPT ![b] = "TIMED_OUT"]
            /\ stream' = [stream EXCEPT ![b] = row]
        BY <2>2 DEF TimeOut
      <3>. HIDE DEF row
      <3>3. "TIMED_OUT" \in Verdicts /\ "TIMED_OUT" # "COMPLETED"
        BY DEF Verdicts
      <3>. QED
        BY <3>1, <3>2, <3>3
    <2>. QED
      BY <2>1, <2>2
  <1>5. PICK v \in Verdicts, row \in StreamRows :
          /\ verdict' = [verdict EXCEPT ![b] = v] /\ stream' = [stream EXCEPT ![b] = row]
          /\ ~row.open
          /\ v = "COMPLETED" => row.cites \subseteq OwnEvidence(b)
    BY <1>4
  <1>6. /\ verdict' \in [Branches -> Verdicts] /\ verdict'[b] = v
        /\ \A c \in Started : c # b => verdict'[c] = verdict[c]
        /\ stream' \in [Branches -> StreamRows \cup {NoStream}] /\ stream'[b] = row
        /\ \A c \in Started : c # b => stream'[c] = stream[c]
    BY <1>3, <1>5
  <1>7. BranchesTyped'
    BY <1>1, <1>2, <1>3, <1>6 DEF BranchesTyped
  <1>8. JudgedWhenClosed'
    BY <1>1, <1>2, <1>5, <1>6 DEF BranchesKept, JudgedWhenClosed
  <1>9. LeftWhenClosed'
    BY <1>1, <1>2 DEF LeftWhenClosed
  <1>. QED
    BY <1>7, <1>8, <1>9 DEF BranchesKept

\* The end of the call.
LEMMA LeaveKeeps ==
  ASSUME BranchesKept,
         \/ CancelParent \/ LeaveCancelled
         \/ \E committed, answered \in BOOLEAN : Record(committed, answered)
  PROVE  BranchesKept'
  <1>1. UNCHANGED <<branchTools, stream, used, verdict, findings>> /\ dispatch' # "idle"
    BY DEF CancelParent, LeaveCancelled, Record
  <1>2. Started' = Started
    BY <1>1 DEF Started
  <1>3. BranchesTyped' /\ JudgedWhenClosed'
    BY <1>1, <1>2 DEF BranchesKept, BranchesTyped, JudgedWhenClosed, OwnEvidence
  <1>4. CASE CancelParent
    BY <1>3, <1>4 DEF CancelParent, BranchesKept, LeftWhenClosed
  <1>5. CASE LeaveCancelled
    BY <1>1, <1>2, <1>3, <1>5 DEF LeaveCancelled, BranchesKept, LeftWhenClosed
  <1>6. ASSUME NEW committed \in BOOLEAN, NEW answered \in BOOLEAN, Record(committed, answered)
        PROVE  LeftWhenClosed'
    <2>1. AllJudged /\ AllJudged'
      BY <1>1, <1>2, <1>6 DEF Record, AllJudged
    <2>2. dispatch' \in {"answered", "failed"} /\ (dispatch' = "answered" => committed)
      BY <1>6 DEF Record
    <2>3. committed => sessions' = {<<b, SessionStatus(verdict[b])>> : b \in {c \in Started : verdict[c] # "none"}}
      BY <1>6 DEF Record
    <2>4. {c \in Started : verdict[c] # "none"} = Started
      BY <2>1 DEF AllJudged
    <2>5. dispatch' = "answered" => sessions' = {<<b, SessionStatus(verdict'[b])>> : b \in Started'}
      BY <1>1, <1>2, <2>2, <2>3, <2>4 DEF SessionStatus
    <2>. QED
      BY <2>1, <2>2, <2>5 DEF LeftWhenClosed, SessionStatus
  <1>. QED
    BY <1>3, <1>4, <1>5, <1>6 DEF BranchesKept

\* BranchesKept holds forever: a branch that is judged changes no more, and a call that is
\* left leaves none open.
THEOREM BranchesInductive == DispatchSpec => []BranchesKept
  <1>1. BranchesKept /\ [DispatchNext]_dispatchVars => BranchesKept'
    <2>. SUFFICES ASSUME BranchesKept, [DispatchNext]_dispatchVars
                  PROVE  BranchesKept'
      OBVIOUS
    <2>1. CASE UNCHANGED dispatchVars
      BY <2>1 DEF dispatchVars, BranchesKept, BranchesTyped, JudgedWhenClosed, LeftWhenClosed,
                  Started, OwnEvidence, AllJudged, SessionStatus
    <2>2. ASSUME NEW requests \in Requests, Dispatch(requests)
          PROVE  BranchesKept'
      BY <2>2, DispatchKeeps
    <2>3. ASSUME NEW b \in Branches,
                 \/ BranchReads(b) \/ BranchEdits(b) \/ EmitsBadly(b) \/ EndStream(b) \/ CloseBranch(b)
                 \/ \E cites \in {{}} \cup {{f} : f \in findings} : BranchReports(b, cites)
          PROVE  BranchesKept'
      BY <2>3, BranchKeeps
    <2>4. ASSUME NEW b \in Branches, Judge(b) \/ TimeOut(b)
          PROVE  BranchesKept'
      BY <2>4, JudgeKeeps
    <2>5. CASE \/ CancelParent \/ LeaveCancelled
               \/ \E committed, answered \in BOOLEAN : Record(committed, answered)
      BY <2>5, LeaveKeeps
    <2>. QED
      BY <2>1, <2>2, <2>3, <2>4, <2>5 DEF DispatchNext
  <1>. QED
    BY <1>1, BranchesInitial, PTL DEF DispatchSpec

\* DispatchIsWhole: a call is left with every stream closed, and answered with a recorded
\* session for each branch and with results that rest on what the branch itself found.
THEOREM DispatchStaysWhole == DispatchSpec => []DispatchIsWhole
  <1>1. BranchesKept => DispatchIsWhole
    BY DEF BranchesKept, JudgedWhenClosed, LeftWhenClosed, DispatchIsWhole, AllJudged, OwnEvidence
  <1>. QED
    BY <1>1, BranchesInductive, PTL

\* CallsAreSound: for any tools, sequences, attempts and limits, a use reaches its provider
\* once, the model works with what is recorded, and neither the steps of a call nor its
\* branches go beyond what it was given.
THEOREM CallsStaySound == ToolSpec /\ DispatchSpec => []CallsAreSound
  <1>1. GatewayKept => DispatchedOnce /\ AnswerIsRecorded /\ StepsBounded
    BY GatewaySound
  <1>2. DispatchedOnce /\ AnswerIsRecorded /\ StepsBounded /\ DispatchIsWhole => CallsAreSound
    BY DEF CallsAreSound
  <1>. QED
    BY <1>1, <1>2, GatewayInductive, DispatchStaysWhole, PTL

-----------------------------------------------------------------------------
(* What a Run may use (RunContext).                                             *)

Providers == {"git", "svn", "postgres", "mcp", "http"}

\* What a slot is bound to, under the switches and the library of the time.
SourceFits(d, on, library, s, source) ==
  \/ source = NoSource /\ ~RequiredSlot(d, s)
  \/ /\ source.kind = "library" /\ source.cap = "document.write" /\ source.target = library
     /\ d.direct \/ s.caps = {"document.write"}
     /\ "documents" \in on
  \/ /\ source.kind = "documents" /\ source.cap \in DocumentCapabilities /\ source.library = library
     /\ d.direct \/ source.cap \in s.caps
  \/ /\ source.kind = "connection"
     /\ source.provider \in Providers /\ source.caps \subseteq ProviderCapabilities(source.provider)
     /\ d.direct => source.cap \in source.caps /\ ~IsWrite(source.cap) /\ CapabilityEnabled(on, source.cap)
     /\ ~d.direct /\ SlotReads(s) # {} => source.cap \in SlotReads(s) \cap source.caps

\* What create_task_run has established of the Run it saves.
RunAdmitted(run) ==
  LET d == run.definition
      on == run.deployed[1]
  IN  /\ d \in Definitions
      /\ DOMAIN run.selected = {s.key : s \in d.slots}
      /\ \A s \in d.slots : SourceFits(d, on, run.deployed[2], s, run.selected[s.key])
      /\ run.allowed = AllowedOf(on, d, run.selected)
      /\ run.operations = IF d.direct THEN ResourceOperations(run.selected, GrantOf(on, d, run.selected))
                                      ELSE {}
      /\ DefinitionEnabled(on, d)
      /\ \A cap \in Declared(d) : CapabilityEnabled(on, cap)

\* The tools of a Run when every switch is on: those of any attempt that is not refused.
DeclaredAt(run) ==
  {BoundTool(p[1].cap, run.selected[p[2].key], p[2].key) :
     p \in {q \in DeclaredTools(run.definition, run) \X BoundSlots(run) :
              /\ q[2] \in SlotsWith(run, q[1].cap)
              /\ Resolves(Switches, q[1].cap, run.selected[q[2].key].provider, run.definition.profile)}}
FreeAt(run, resolved) ==
  {FreeTool(t.cap) :
     t \in {x \in DeclaredTools(run.definition, run) :
              /\ SlotsWith(run, x.cap) = {} /\ x.cap \notin resolved
              /\ x.cap \in run.allowed \ EffectCapabilities
              /\ x.cap \in DocumentCapabilities \/ ResolvesUnbound(Switches, x.cap, run.definition.profile)}}
ToolsAt(run) ==
  LET bound == SourceTools(run) \cup CheckoutTools(run) \cup DeclaredAt(run)
      declared == bound \cup FreeAt(run, Capabilities(bound))
  IN  declared \cup {FreeTool(cap) : cap \in (Platform \cap run.allowed) \ Capabilities(declared)}
BriefAt(run) == {<<t.key, t.cap>> : t \in ToolsAt(run)} \cup BriefResources(run)

\* What a slot and its source bring.
BroughtBy(run, s) ==
  SlotCaps(run.definition, s, run.selected[s.key]) \cup ResourceCapabilities(run.selected[s.key])
\* The tools an agent is given.
ToolsKept(run, tools) ==
  /\ GatewayBuilds(run, tools)
  /\ Capabilities(tools) \cap EffectCapabilities = {}
  /\ \A t \in tools : t.conn # "none" =>
       \E s \in BoundSlots(run) :
         /\ s.key = t.key /\ run.selected[s.key].conn = t.conn /\ t.cap \in BroughtBy(run, s)
         /\ t.cap = "repository.workspace" => run.selected[s.key].provider = "git"
  /\ \A s \in BoundSlots(run) : \E t \in tools : t.key = s.key
Given == context.status \in {"ready", "started"}
\* A connection has moved on from what the Run froze, or is as it was.
SourcesRemembered(run) ==
  \A s \in run.definition.slots :
    LET source == run.selected[s.key]
        row == connection[source.conn]
    IN  source.kind = "connection" =>
          /\ source.conn \in Connections /\ source.revision \in Nat /\ source.revision <= row.revision
          /\ source.revision = row.revision => source.caps = row.caps
ContextKept ==
  /\ connection \in [Connections -> [status : {"ACTIVE", "DISABLED"}, revision : Nat,
                                     caps : SUBSET AllCapabilities]]
  /\ \A c \in Connections : connection[c].caps \subseteq Offers[c]
  /\ context = [status |-> context.status, tools |-> context.tools]
  /\ frozenRun = NoRunYet => frozenBrief = {} /\ context = NotBuilt /\ reached = {}
  /\ frozenRun # NoRunYet => RunAdmitted(frozenRun) /\ frozenBrief \in {{}, BriefAt(frozenRun)}
  /\ frozenRun # NoRunYet => SourcesRemembered(frozenRun)
  /\ Given => frozenRun # NoRunYet /\ ToolsKept(frozenRun, context.tools) /\ Startable(frozenRun)
  /\ context.status = "refused" => frozenRun.deployed # <<features, target>> \/ ~Startable(frozenRun)
  /\ CallsUseFrozenRevision

\* FirstOf gives a member of any set that holds a capability.
LEMMA FirstIsMember ==
  ASSUME NEW S, S \cap AllCapabilities # {}
  PROVE  FirstOf(S) \in S \cap AllCapabilities
  <1>. DEFINE n == DOMAIN CapabilityOrder
              T == {i \in n : CapabilityOrder[i] \in S}
  <1>1. n = 1..22
    BY DEF CapabilityOrder
  <1>2. T \subseteq Nat /\ T # {}
    BY <1>1 DEF AllCapabilities
  <1>3. PICK i \in T : \A j \in T : <<j, i>> \notin OpToRel(<, Nat)
    BY <1>2, NatLessThanWellFounded, WFMin
  <1>4. \A j \in T : ~(j < i)
    BY <1>2, <1>3 DEF OpToRel
  <1>5. /\ i \in n /\ CapabilityOrder[i] \in S
        /\ \A j \in 1..(i - 1) : CapabilityOrder[j] \notin S
    BY <1>1, <1>2, <1>4
  <1>. HIDE DEF n, T
  <1>6. FirstOf(S) \in S
    BY <1>5 DEF FirstOf, n
  <1>7. \E k \in n : FirstOf(S) = CapabilityOrder[k]
    BY <1>5 DEF FirstOf, n
  <1>. QED
    BY <1>6, <1>7 DEF AllCapabilities, n

\* Capabilities of a connection have an order.
LEMMA ConnectionsInOrder ==
  ASSUME NEW provider \in Providers
  PROVE  ProviderCapabilities(provider) \subseteq AllCapabilities
  <1>1. /\ \A i \in 1..22 : CapabilityOrder[i] \in AllCapabilities
        /\ CapabilityOrder[3] = "database.execute" /\ CapabilityOrder[4] = "database.query"
        /\ CapabilityOrder[10] = "http.read" /\ CapabilityOrder[11] = "http.write"
        /\ CapabilityOrder[13] = "mcp.call" /\ CapabilityOrder[14] = "mcp.query"
        /\ CapabilityOrder[15] = "mcp.tools" /\ CapabilityOrder[16] = "repository.read"
        /\ CapabilityOrder[18] = "repository.write"
    BY DEF AllCapabilities, CapabilityOrder
  <1>2. {"database.execute", "database.query", "http.read", "http.write", "mcp.call", "mcp.query",
         "mcp.tools", "repository.read", "repository.write"} \subseteq AllCapabilities
    BY <1>1
  <1>. QED
    BY <1>2 DEF ProviderCapabilities, Providers

\* "none" has no place in the order.
LEMMA NoneNotInOrder == "none" \notin AllCapabilities
  <1>1. DOMAIN CapabilityOrder = 1..22
    BY DEF CapabilityOrder
  <1>2. \A i \in 1..22 : CapabilityOrder[i] # "none"
    BY DEF CapabilityOrder
  <1>. QED
    BY <1>1, <1>2 DEF AllCapabilities

\* What a connection may be read with is served by its provider, for every profile.
LEMMA ReadsServed ==
  ASSUME NEW provider \in Providers, NEW cap \in ProviderCapabilities(provider), ~IsWrite(cap), NEW on
  PROVE  /\ provider \in Installed(on, cap) /\ ~NeedsAutonomy(cap)
         /\ cap \notin EffectCapabilities \cup DocumentCapabilities
         /\ CapabilityEnabled(on, cap) <=> (provider = "mcp" => "mcp" \in on)
  BY DEF Providers, ProviderCapabilities, IsWrite, Installed, NeedsAutonomy, EffectCapabilities,
       DocumentCapabilities, CapabilityEnabled

\* What a provider of connections serves is neither a write nor a document.
LEMMA ServedAreReads ==
  ASSUME NEW provider \in Providers, NEW on, NEW cap, provider \in Installed(on, cap)
  PROVE  ~IsWrite(cap) /\ cap \notin DocumentCapabilities
  BY DEF Providers, IsWrite, Installed, DocumentCapabilities

\* Only a Git connection serves a checkout.
LEMMA CheckoutsAreGit ==
  ASSUME NEW on, NEW provider, provider \in Installed(on, "repository.workspace")
  PROVE  provider = "git"
  BY DEF Installed, DocumentCapabilities

\* The switches decide whether a capability is enabled, and nothing else of who serves it.
LEMMA ServedAlike ==
  ASSUME NEW on, NEW cap, CapabilityEnabled(on, cap)
  PROVE  Installed(on, cap) = Installed(Switches, cap)
  BY DEF CapabilityEnabled, Installed, Switches, DocumentCapabilities

-----------------------------------------------------------------------------
(* What create_task_run freezes.                                             *)

\* A connection that can be selected is frozen with a capability it is read with.
LEMMA ConnectionFits ==
  ASSUME ContextKept, NEW d \in Definitions, NEW s \in d.slots,
         NEW c \in Connections, c \notin {"none", "library"} \cup Selections, Selectable(d, s, c),
         d.direct => \E cap \in ResourceCapabilities(SourceOf(d, s, c)) :
                       ~IsWrite(cap) /\ ProviderEnabled(features, cap, ProviderOf[c]),
         \A cap \in Declared(d) : CapabilityEnabled(features, cap)
  PROVE  SourceFits(d, features, target, s, SourceOf(d, s, c))
  <1>. DEFINE row == connection[c]
              source == SourceOf(d, s, c)
              p == ProviderOf[c]
              saw == Observes(d, s, row)
  <1>1. /\ p \in Providers /\ row.caps \subseteq ProviderCapabilities(p)
    BY ContextAssumption DEF ContextKept, Providers
  <1>2. saw \in row.caps \cup {"none"}
    BY DEF Selectable
  <1>3. /\ source.kind = "connection" /\ source.provider = p /\ source.caps = row.caps
        /\ source.cap = IF saw # "none" THEN saw ELSE BindingCapability(d, s, row)
    BY DEF SourceOf
  <1>4. row.caps \subseteq AllCapabilities /\ "none" \notin row.caps
    BY <1>1, ConnectionsInOrder, NoneNotInOrder
  <1>5. CASE d.direct
    <2>. DEFINE reads == {cap \in row.caps : ~IsWrite(cap)}
    <2>1. PICK cap \in ResourceCapabilities(source) : ~IsWrite(cap) /\ ProviderEnabled(features, cap, p)
      BY <1>5
    <2>2. cap \in row.caps \/ (p = "git" /\ cap = "repository.workspace" /\ "repository.read" \in row.caps)
      BY <1>3, <2>1 DEF ResourceCapabilities
    <2>3. reads # {}
      BY <2>1, <2>2 DEF IsWrite
    <2>4. FirstOf(reads) \in reads
      BY <1>4, <2>3, FirstIsMember
    <2>5. saw = IF "mcp.tools" \in reads THEN "mcp.tools" ELSE FirstOf(reads)
      BY <1>5, <2>3 DEF Observes
    <2>6. saw \in reads
      BY <2>4, <2>5
    <2>7. p = "mcp" => "mcp" \in features
      BY <1>1, <2>1, <2>2, ReadsServed DEF ProviderEnabled
    <2>8. CapabilityEnabled(features, saw)
      BY <1>1, <2>6, <2>7, ReadsServed
    <2>. QED
      BY <1>1, <1>2, <1>3, <1>4, <1>5, <2>6, <2>8 DEF SourceFits
  <1>6. CASE ~d.direct /\ SlotReads(s) # {}
    <2>1. SlotReads(s) \cap AllCapabilities = SlotReads(s)
      BY ContextAssumption DEF SlotReads
    <2>2. FirstOf(SlotReads(s)) \in SlotReads(s) \cap AllCapabilities
      BY <1>6, <2>1, FirstIsMember
    <2>3. saw = FirstOf(SlotReads(s))
      BY <1>6 DEF Observes
    <2>4. saw \in SlotReads(s) \cap row.caps /\ saw # "none"
      BY <1>2, <2>2, <2>3, NoneNotInOrder
    <2>. QED
      BY <1>1, <1>3, <1>6, <2>4 DEF SourceFits
  <1>7. CASE ~d.direct /\ SlotReads(s) = {}
    BY <1>1, <1>3, <1>7 DEF SourceFits
  <1>. QED
    BY <1>5, <1>6, <1>7

\* Whatever the user chooses for a slot.
LEMMA ChosenFits ==
  ASSUME ContextKept, NEW d \in Definitions, NEW s \in d.slots,
         NEW choice \in {"none", "library"} \cup Selections \cup Connections, Selectable(d, s, choice),
         SourceOf(d, s, choice).kind = "connection" /\ d.direct
           => \E cap \in ResourceCapabilities(SourceOf(d, s, choice)) :
                ~IsWrite(cap) /\ ProviderEnabled(features, cap, SourceOf(d, s, choice).provider),
         SourceOf(d, s, choice).kind = "library" => "documents" \in features,
         \A cap \in Declared(d) : CapabilityEnabled(features, cap)
  PROVE  SourceFits(d, features, target, s, SourceOf(d, s, choice))
  <1>. DEFINE source == SourceOf(d, s, choice)
  <1>0. "none" \notin Selections /\ "library" \notin Selections
    BY ContextAssumption
  <1>1. CASE choice = "none"
    <2>1. source = NoSource /\ ~RequiredSlot(d, s)
      BY <1>0, <1>1 DEF Selectable, SourceOf
    <2>. QED
      BY <2>1 DEF SourceFits
  <1>2. CASE choice = "library"
    <2>1. source = [kind |-> "library", cap |-> "document.write", target |-> target]
      BY <1>0, <1>2 DEF SourceOf
    <2>2. d.direct \/ s.caps = {"document.write"}
      BY <1>0, <1>2 DEF Selectable
    <2>. QED
      BY <1>2, <2>1, <2>2 DEF SourceFits
  <1>3. CASE choice \in Selections
    <2>1. choice # "none" /\ choice # "library"
      BY <1>3, ContextAssumption
    <2>2. source = [kind |-> "documents", cap |-> IF d.direct THEN "document.read" ELSE s.lead,
                    docs |-> Holds[choice], library |-> target,
                    deferred |-> d.direct \/ (IF d.direct THEN "document.read" ELSE s.lead) # "document.read"]
      BY <1>3, <2>1 DEF SourceOf
    <2>3. d.direct \/ s.caps \cap DocumentCapabilities # {}
      BY <1>3, <2>1 DEF Selectable
    <2>4. ~d.direct => s.lead \in s.caps \cap DocumentCapabilities
      BY <2>3, ContextAssumption
    <2>. QED
      BY <2>2, <2>4 DEF SourceFits, DocumentCapabilities
  <1>4. CASE choice \notin {"none", "library"} \cup Selections
    <2>1. choice \in Connections
      BY <1>4
    <2>2. source.kind = "connection" /\ source.provider = ProviderOf[choice]
      BY <1>4 DEF SourceOf
    <2>. QED
      BY <1>4, <2>1, <2>2, ConnectionFits
  <1>. QED
    BY <1>1, <1>2, <1>3, <1>4

\* A Run that is saved has been admitted.
LEMMA CreatedIsAdmitted ==
  ASSUME ContextKept, NEW d \in Definitions,
         NEW choose \in [{s.key : s \in d.slots} -> {"none", "library"} \cup Selections \cup Connections],
         CreateContextRun(d, choose)
  PROVE  RunAdmitted(frozenRun') /\ SourcesRemembered(frozenRun')
  <1>. DEFINE keys == {s.key : s \in d.slots}
              chosen == [key \in keys |->
                           LET s == CHOOSE x \in d.slots : x.key = key IN SourceOf(d, s, choose[key])]
              run == [definition |-> d, selected |-> chosen,
                      allowed |-> AllowedOf(features, d, chosen),
                      operations |-> IF d.direct
                                     THEN ResourceOperations(chosen, GrantOf(features, d, chosen))
                                     ELSE {},
                      deployed |-> <<features, target>>]
  <1>1. /\ \A s \in d.slots : Selectable(d, s, choose[s.key])
        /\ Admissible(features, d, chosen) /\ frozenRun' = run
    BY DEF CreateContextRun
  <1>2. \A s, t \in d.slots : s.key = t.key => s = t
    BY ContextAssumption
  <1>3. \A s \in d.slots : s.key \in keys /\ chosen[s.key] = SourceOf(d, s, choose[s.key])
    <2>. SUFFICES ASSUME NEW s \in d.slots
                  PROVE  s.key \in keys /\ chosen[s.key] = SourceOf(d, s, choose[s.key])
      OBVIOUS
    <2>1. (CHOOSE x \in d.slots : x.key = s.key) = s
      BY <1>2
    <2>2. s.key \in keys
      OBVIOUS
    <2>3. chosen[s.key] = SourceOf(d, CHOOSE x \in d.slots : x.key = s.key, choose[s.key])
      BY <2>2
    <2>. QED
      BY <2>1, <2>2, <2>3
  <1>4. DOMAIN chosen = keys
    OBVIOUS
  <1>5. \A cap \in Declared(d) : CapabilityEnabled(features, cap)
    BY <1>1 DEF Admissible
  <1>. HIDE DEF chosen
  <1>6. ASSUME NEW s \in d.slots
        PROVE  SourceFits(d, features, target, s, chosen[s.key])
    <2>1. choose[s.key] \in {"none", "library"} \cup Selections \cup Connections
      BY <1>3
    <2>2. chosen[s.key].kind = "connection" /\ d.direct
            => \E cap \in ResourceCapabilities(chosen[s.key]) :
                 ~IsWrite(cap) /\ ProviderEnabled(features, cap, chosen[s.key].provider)
      BY <1>1, <1>3, <1>4 DEF Admissible
    <2>3. chosen[s.key].kind = "library" => "documents" \in features
      BY <1>1, <1>3, <1>4 DEF Admissible
    <2>. QED
      BY <1>1, <1>3, <1>5, <2>1, <2>2, <2>3, ChosenFits
  <1>7. DefinitionEnabled(features, d)
    BY <1>1 DEF Admissible
  <1>8. ASSUME NEW s \in d.slots, chosen[s.key].kind = "connection"
        PROVE  LET source == chosen[s.key] IN
               /\ source.conn \in Connections /\ source.revision = connection[source.conn].revision
               /\ source.caps = connection[source.conn].caps
    <2>1. choose[s.key] \in {"none", "library"} \cup Selections \cup Connections
      BY <1>3
    <2>2. "none" \notin Selections /\ "library" \notin Selections
      BY ContextAssumption
    <2>. DEFINE choice == choose[s.key]
                source == SourceOf(d, s, choice)
    <2>3. chosen[s.key] = source
      BY <1>3
    <2>. HIDE DEF choice
    <2>4. choice # "none" /\ choice # "library" /\ choice \notin Selections
      BY <1>8, <2>2, <2>3 DEF SourceOf, NoSource
    <2>5. choice \in Connections
      BY <2>1, <2>4 DEF choice
    <2>6. source.conn = choice /\ source.revision = connection[choice].revision
          /\ source.caps = connection[choice].caps
      BY <2>4 DEF SourceOf
    <2>. QED
      BY <2>3, <2>5, <2>6
  <1>9. SourcesRemembered(run)
    BY <1>8 DEF SourcesRemembered, ContextKept
  <1>. QED
    BY <1>1, <1>4, <1>5, <1>6, <1>7, <1>9 DEF RunAdmitted

-----------------------------------------------------------------------------
(* What an admitted Run is allowed.                                          *)

\* Every permission is of a capability that is enabled, and none is an effect of a direct Run.
LEMMA AllowedEnabled ==
  ASSUME NEW run, RunAdmitted(run)
  PROVE  /\ \A cap \in run.allowed : CapabilityEnabled(run.deployed[1], cap)
         /\ run.definition.direct => run.allowed \cap EffectCapabilities = {}
  <1>. DEFINE d == run.definition
              on == run.deployed[1]
  <1>1. run.allowed = AllowedOf(on, d, run.selected)
    BY DEF RunAdmitted
  <1>2. \A cap \in {"interaction.request", "repository.workspace", "artifact.append", "tool.sequence",
                    "document.files", "change.propose"} \cup DocumentCapabilities :
          CapabilityEnabled(on, cap) /\ cap \notin EffectCapabilities
    BY DEF CapabilityEnabled, DocumentCapabilities, EffectCapabilities
  <1>3. \A cap \in GrantOf(on, d, run.selected) : CapabilityEnabled(on, cap)
    BY DEF GrantOf
  <1>4. "deferred" \in on => CapabilityEnabled(on, "subagent.dispatch")
    BY DEF CapabilityEnabled
  <1>. QED
    BY <1>1, <1>2, <1>3, <1>4 DEF AllowedOf

\* A described Run is allowed what it declares and the documents.
LEMMA DeclaredAllowed ==
  ASSUME NEW run, RunAdmitted(run), ~run.definition.direct
  PROVE  /\ Declared(run.definition) \cup DocumentCapabilities \subseteq run.allowed
         /\ run.definition.intents # {} => "change.propose" \in run.allowed
  BY DEF RunAdmitted, AllowedOf

\* A guided Run that can start is allowed no platform tool that needs autonomy.
LEMMA GuidedAllowed ==
  ASSUME NEW run, RunAdmitted(run), Startable(run), run.definition.profile = "GUIDED"
  PROVE  run.allowed \cap {"artifact.append", "document.files", "tool.sequence"} = {}
  <1>. DEFINE d == run.definition
              on == run.deployed[1]
              careful == {"artifact.append", "document.files", "tool.sequence"}
  <1>1. run.allowed = AllowedOf(on, d, run.selected) /\ Declared(d) \cap careful = {}
    BY DEF RunAdmitted, Startable
  <1>2. ~d.direct
    BY <1>1 DEF Declared, DefaultTools
  <1>3. run.allowed \subseteq DocumentCapabilities \cup Declared(d)
                          \cup {"interaction.request", "subagent.dispatch", "change.propose"}
    BY <1>1, <1>2 DEF AllowedOf
  <1>. QED
    BY <1>1, <1>3 DEF DocumentCapabilities

\* What a direct Run reads with is granted; with a library it may propose changes.
LEMMA DirectAllowed ==
  ASSUME NEW run, RunAdmitted(run), run.definition.direct, NEW s \in run.definition.slots,
         run.selected[s.key] # NoSource
  PROVE  /\ DocumentCapabilities \subseteq run.allowed
         /\ run.selected[s.key].kind = "connection" => run.selected[s.key].cap \in run.allowed
         /\ run.selected[s.key].kind = "library" => "change.propose" \in run.allowed
  <1>. DEFINE d == run.definition
              on == run.deployed[1]
              source == run.selected[s.key]
              grant == GrantOf(on, d, run.selected)
              ops == ResourceOperations(run.selected, grant)
  <1>1. /\ run.allowed = AllowedOf(on, d, run.selected) /\ s.key \in DOMAIN run.selected
        /\ SourceFits(d, on, run.deployed[2], s, source)
    BY DEF RunAdmitted
  <1>2. \A cap \in ResourceCapabilities(source) : CapabilityEnabled(on, cap) => cap \in grant
    BY <1>1 DEF GrantOf
  <1>3. (grant \ EffectCapabilities) \subseteq run.allowed
    BY <1>1 DEF AllowedOf
  <1>4. DocumentCapabilities \subseteq run.allowed
    <2>1. DocumentCapabilities \subseteq grant
      BY DEF GrantOf, Declared, DefaultTools, CapabilityEnabled, DocumentCapabilities
    <2>. QED
      BY <1>3, <2>1 DEF DocumentCapabilities, EffectCapabilities
  <1>5. CASE source.kind = "connection"
    <2>1. /\ source.cap \in source.caps /\ ~IsWrite(source.cap) /\ CapabilityEnabled(on, source.cap)
      BY <1>1, <1>5 DEF SourceFits, NoSource
    <2>2. source.cap \in ResourceCapabilities(source) /\ source.cap \notin EffectCapabilities
      BY <1>5, <2>1 DEF ResourceCapabilities, IsWrite, EffectCapabilities
    <2>. QED
      BY <1>2, <1>3, <1>4, <1>5, <2>1, <2>2
  <1>6. CASE source.kind = "library"
    <2>1. "documents" \in on
      BY <1>1, <1>6 DEF SourceFits, NoSource
    <2>2. "document.write" \in grant /\ "document.write" \in ResourceCapabilities(source)
      BY <1>2, <1>6, <2>1 DEF ResourceCapabilities, CapabilityEnabled
    <2>. DEFINE op == <<s.key, "document.write">>
    <2>3. op \in (DOMAIN run.selected) \X (EffectCapabilities \cap grant)
      BY <1>1, <2>2 DEF EffectCapabilities
    <2>4. op \in ops
      BY <2>2, <2>3 DEF ResourceOperations
    <2>5. ops # {}
      BY <2>4
    <2>. HIDE DEF ops
    <2>6. "change.propose" \in AllowedOf(on, d, run.selected)
      BY <2>5 DEF AllowedOf, ops
    <2>. QED
      BY <1>1, <1>4, <1>6, <2>6
  <1>7. CASE source.kind \notin {"connection", "library"}
    BY <1>4, <1>7
  <1>. QED
    BY <1>5, <1>6, <1>7

\* The operations of a direct Run are found again from what it was allowed.
LEMMA OperationsFoundAgain ==
  ASSUME NEW run, RunAdmitted(run), run.definition.direct
  PROVE  run.operations = ResourceOperations(run.selected, run.allowed \cup {op[2] : op \in run.operations})
  <1>. DEFINE d == run.definition
              grant == GrantOf(run.deployed[1], d, run.selected)
              named == {op[2] : op \in run.operations}
              again == run.allowed \cup named
              keys == DOMAIN run.selected
              Brings(op) == run.selected[op[1]] # NoSource /\ op[2] \in ResourceCapabilities(run.selected[op[1]])
  <1>1. run.operations = {op \in keys \X (EffectCapabilities \cap grant) : Brings(op)}
    BY DEF RunAdmitted, ResourceOperations
  <1>2. run.allowed \cap EffectCapabilities = {}
    BY AllowedEnabled
  <1>3. EffectCapabilities \cap again = named /\ named \subseteq EffectCapabilities \cap grant
    BY <1>1, <1>2
  <1>4. \A op \in keys \X (EffectCapabilities \cap grant) : Brings(op) => op[2] \in named
    BY <1>1
  <1>. HIDE DEF Brings, named, keys
  <1>5. {op \in keys \X (EffectCapabilities \cap grant) : Brings(op)} = {op \in keys \X named : Brings(op)}
    BY <1>3, <1>4
  <1>6. ResourceOperations(run.selected, again) = {op \in keys \X named : Brings(op)}
    BY <1>3 DEF ResourceOperations, Brings, keys
  <1>. QED
    BY <1>1, <1>5, <1>6 DEF named

-----------------------------------------------------------------------------
(* An attempt under the switches and the library of the creation.             *)

\* A source that fits is still served.
LEMMA SourcesServed ==
  ASSUME NEW run, RunAdmitted(run), Startable(run), run.deployed = <<features, target>>,
         NEW s \in SelectedSlots(run)
  PROVE  SourceValid(run.definition, s, run.selected[s.key]) /\ SourceServed(run, s, run.selected[s.key])
  <1>. DEFINE d == run.definition
              source == run.selected[s.key]
  <1>1. /\ s \in d.slots /\ source # NoSource
        /\ SourceFits(d, features, target, s, source)
    BY DEF SelectedSlots, RunAdmitted
  <1>2. CASE source.kind = "library"
    <2>1. source.cap = "document.write" /\ source.target = target /\ (d.direct \/ s.caps = {"document.write"})
      BY <1>1, <1>2 DEF SourceFits
    <2>2. "change.propose" \in run.allowed
      <3>1. CASE d.direct
        BY <1>1, <1>2, <3>1, DirectAllowed
      <3>2. CASE ~d.direct
        BY <1>2, <3>2, DeclaredAllowed DEF Startable
      <3>. QED
        BY <3>1, <3>2
    <2>. QED
      BY <1>2, <2>1, <2>2 DEF SourceValid, SourceServed, SlotCaps, ResourceCapabilities
  <1>3. CASE source.kind = "documents"
    <2>1. /\ source.cap \in DocumentCapabilities /\ source.library = target
          /\ d.direct \/ source.cap \in s.caps
      BY <1>1, <1>3 DEF SourceFits
    <2>2. source.cap \in run.allowed
      BY <1>1, <2>1, DirectAllowed, DeclaredAllowed
    <2>. QED
      BY <1>3, <2>1, <2>2
      DEF SourceValid, SourceServed, SlotCaps, ResourceCapabilities, Resolves, Installed, NeedsAutonomy,
        DocumentCapabilities, EffectCapabilities
  <1>4. CASE source.kind = "connection"
    <2>0. ~d.direct => SlotReads(s) # {}
      BY <1>4 DEF Startable, BoundSlots
    <2>1. /\ source.provider \in Providers /\ source.caps \subseteq ProviderCapabilities(source.provider)
          /\ source.cap \in source.caps /\ ~IsWrite(source.cap)
          /\ ~d.direct => source.cap \in SlotReads(s)
      BY <1>1, <1>4, <2>0 DEF SourceFits, SlotReads
    <2>2. source.cap \in run.allowed
      <3>1. CASE d.direct
        BY <1>1, <1>4, <3>1, DirectAllowed
      <3>2. CASE ~d.direct
        <4>1. source.cap \in Declared(d)
          BY <1>1, <2>1, <3>2 DEF Declared
        <4>. QED
          BY <3>2, <4>1, DeclaredAllowed
      <3>. QED
        BY <3>1, <3>2
    <2>3. /\ source.provider \in Installed(features, source.cap) /\ ~NeedsAutonomy(source.cap)
          /\ source.cap \notin EffectCapabilities
      BY <2>1, ReadsServed
    <2>4. SourceServed(run, s, source)
      BY <1>4, <2>2, <2>3 DEF SourceServed, Resolves
    <2>5. source.cap \in SlotCaps(d, s, source)
      BY <1>4, <2>1 DEF SlotCaps, ResourceCapabilities, SlotReads
    <2>. QED
      BY <1>4, <2>4, <2>5 DEF SourceValid
  <1>. QED
    BY <1>1, <1>2, <1>3, <1>4 DEF SourceFits

\* The slots that declare a capability are those whose tools are taken.
LEMMA DeclaringSlots ==
  ASSUME NEW run, ~run.definition.direct, NEW cap \in run.allowed, cap \notin EffectCapabilities
  PROVE  SlotsWith(run, cap) = {s \in BoundSlots(run) : cap \in s.caps}
  BY DEF SlotsWith, SlotCaps

\* What a definition requires of a tool is there.
LEMMA RequiredToolsServed ==
  ASSUME NEW run, RunAdmitted(run), Startable(run), run.deployed = <<features, target>>,
         NEW t \in DeclaredTools(run.definition, run), t.required
  PROVE  /\ t.cap \in run.allowed
         /\ \A s \in SlotsWith(run, t.cap) :
              Resolves(features, t.cap, run.selected[s.key].provider, run.definition.profile)
         /\ SlotsWith(run, t.cap) = {} =>
              \/ t.cap \in EffectCapabilities \cup DocumentCapabilities
              \/ t.cap \in Capabilities(SourceTools(run) \cup CheckoutTools(run))
              \/ ResolvesUnbound(features, t.cap, run.definition.profile)
  <1>. DEFINE d == run.definition
  <1>1. ~d.direct /\ t \in d.tools
    BY DEF DeclaredTools
  <1>2. t.cap \in Declared(d)
    BY <1>1 DEF Declared
  <1>3. t.cap \in run.allowed
    BY <1>1, <1>2, DeclaredAllowed
  <1>4. run.deployed[1] = features
    OBVIOUS
  <1>5. CapabilityEnabled(features, t.cap)
    BY <1>2, <1>4 DEF RunAdmitted
  <1>6. Installed(features, t.cap) = Installed(Switches, t.cap)
    BY <1>5, ServedAlike
  <1>7. ServesTool(run, t)
    BY <1>1 DEF Startable
  <1>8. CASE t.cap \in EffectCapabilities
    BY <1>3, <1>8 DEF SlotsWith
  <1>9. CASE t.cap \notin EffectCapabilities
    <2>1. SlotsWith(run, t.cap) = {s \in BoundSlots(run) : t.cap \in s.caps}
      BY <1>1, <1>3, <1>9, DeclaringSlots
    <2>2. \A s \in SlotsWith(run, t.cap) :
            Resolves(Switches, t.cap, run.selected[s.key].provider, run.definition.profile)
      BY <1>7, <1>9, <2>1 DEF ServesTool
    <2>3. SlotsWith(run, t.cap) = {} =>
            \/ t.cap \in DocumentCapabilities \cup Capabilities(SourceTools(run) \cup CheckoutTools(run))
            \/ Unbound(t.cap) /\ (NeedsAutonomy(t.cap) => run.definition.profile # "GUIDED")
      BY <1>7, <1>9, <2>1 DEF ServesTool
    <2>4. Unbound(t.cap) => Installed(Switches, t.cap) # {}
      BY DEF Unbound, Installed, Switches, DocumentCapabilities
    <2>. QED
      BY <1>3, <1>6, <2>2, <2>3, <2>4 DEF Resolves, ResolvesUnbound
  <1>. QED
    BY <1>8, <1>9

\* The deployment that accepted the Run resolves its tools.
LEMMA AdmittedIsServed ==
  ASSUME NEW run, RunAdmitted(run), Startable(run), run.deployed = <<features, target>>
  PROVE  ~SnapshotRefused(run) /\ ~Unresolvable(run)
  <1>. DEFINE d == run.definition
  <1>1. run.deployed[1] = features /\ run.deployed[2] = target
    OBVIOUS
  <1>2. ~SnapshotRefused(run)
    <2>1. \A cap \in run.allowed : CapabilityEnabled(features, cap)
      BY <1>1, AllowedEnabled
    <2>2. DefinitionEnabled(features, d)
      BY <1>1 DEF RunAdmitted
    <2>3. d.direct => run.operations
                        = ResourceOperations(run.selected, run.allowed \cup {op[2] : op \in run.operations})
      BY OperationsFoundAgain
    <2>4. PrerequisitesMet(run)
      BY DEF Startable
    <2>. QED
      BY <2>1, <2>2, <2>3, <2>4 DEF SnapshotRefused
  <1>3. ~Unresolvable(run)
    <2>1. \A s \in d.slots : run.selected[s.key] = NoSource => ~RequiredSlot(d, s)
      BY DEF RunAdmitted, SourceFits, NoSource
    <2>2. \A s \in SelectedSlots(run) :
            SourceValid(d, s, run.selected[s.key]) /\ SourceServed(run, s, run.selected[s.key])
      BY SourcesServed
    <2>3. \A tool \in CheckoutTools(run) : Resolves(features, tool.cap, "git", d.profile)
      <3>1. ASSUME NEW tool \in CheckoutTools(run)
            PROVE  tool.cap = "repository.workspace"
        BY DEF CheckoutTools, BoundTool
      <3>2. CheckoutTools(run) # {} => d.profile # "GUIDED"
        BY DEF Startable
      <3>3. "git" \in Installed(features, "repository.workspace")
        BY DEF Installed, DocumentCapabilities
      <3>. QED
        BY <3>1, <3>2, <3>3 DEF Resolves
    <2>4. \A t \in DeclaredTools(d, run) : t.required =>
            /\ t.cap \in run.allowed
            /\ \A r \in SlotsWith(run, t.cap) :
                 Resolves(features, t.cap, run.selected[r.key].provider, d.profile)
            /\ SlotsWith(run, t.cap) = {} =>
                 \/ t.cap \in EffectCapabilities \cup DocumentCapabilities
                 \/ t.cap \in Capabilities(SourceTools(run) \cup CheckoutTools(run))
                 \/ ResolvesUnbound(features, t.cap, d.profile)
      BY RequiredToolsServed
    <2>5. \A cap \in (Platform \ DocumentCapabilities) \cap run.allowed :
            ResolvesUnbound(features, cap, d.profile)
      <3>. SUFFICES ASSUME NEW cap \in (Platform \ DocumentCapabilities) \cap run.allowed
                    PROVE  ResolvesUnbound(features, cap, d.profile)
        OBVIOUS
      <3>1. cap \in {"interaction.request", "change.propose", "tool.sequence", "artifact.append",
                     "document.files"}
        BY DEF Platform
      <3>2. Unbound(cap) /\ Installed(features, cap) # {}
        BY <3>1 DEF Unbound, Installed, DocumentCapabilities
      <3>3. NeedsAutonomy(cap) => d.profile # "GUIDED"
        BY <3>1, GuidedAllowed DEF NeedsAutonomy
      <3>. QED
        BY <3>2, <3>3 DEF ResolvesUnbound
    <2>. QED
      BY <2>1, <2>2, <2>3, <2>4, <2>5 DEF Unresolvable
  <1>. QED
    BY <1>2, <1>3

-----------------------------------------------------------------------------
(* The tools of an attempt.                                                  *)

\* Whatever the deployment, an attempt that is not refused has the same tools.
LEMMA ToolsAlike ==
  ASSUME NEW run, ~SnapshotRefused(run)
  PROVE  ResolvedTools(run) = ToolsAt(run) /\ BriefOf(run) = BriefAt(run)
  <1>1. \A cap \in run.allowed : Installed(features, cap) = Installed(Switches, cap)
    BY ServedAlike DEF SnapshotRefused
  <1>2. BoundDeclared(run) = DeclaredAt(run)
    <2>. DEFINE all == DeclaredTools(run.definition, run) \X BoundSlots(run)
    <2>1. \A q \in all : q[2] \in SlotsWith(run, q[1].cap) => q[1].cap \in run.allowed
      BY DEF SlotsWith
    <2>2. \A q \in all : q[2] \in SlotsWith(run, q[1].cap) =>
            (Resolves(features, q[1].cap, run.selected[q[2].key].provider, run.definition.profile)
               <=> Resolves(Switches, q[1].cap, run.selected[q[2].key].provider, run.definition.profile))
      BY <1>1, <2>1 DEF Resolves
    <2>. HIDE DEF all
    <2>3. {q \in all : /\ q[2] \in SlotsWith(run, q[1].cap)
                       /\ Resolves(features, q[1].cap, run.selected[q[2].key].provider,
                                   run.definition.profile)}
            = {q \in all : /\ q[2] \in SlotsWith(run, q[1].cap)
                           /\ Resolves(Switches, q[1].cap, run.selected[q[2].key].provider,
                                       run.definition.profile)}
      BY <2>2
    <2>. QED
      BY <2>3 DEF BoundDeclared, DeclaredAt, all
  <1>3. \A resolved : FreeDeclared(run, resolved) = FreeAt(run, resolved)
    <2>1. \A cap \in run.allowed : ResolvesUnbound(features, cap, run.definition.profile)
                                     <=> ResolvesUnbound(Switches, cap, run.definition.profile)
      BY <1>1 DEF ResolvesUnbound
    <2>. QED
      BY <2>1 DEF FreeDeclared, FreeAt
  <1>4. ResolvedTools(run) = ToolsAt(run)
    BY <1>2, <1>3 DEF ResolvedTools, ToolsAt
  <1>. QED
    BY <1>4 DEF BriefOf, BriefAt

\* A tool for a connection, and one that needs none.
BoundFor(run, t) ==
  \E s \in BoundSlots(run) :
    /\ t = BoundTool(t.cap, run.selected[s.key], s.key)
    /\ t.cap \in BroughtBy(run, s) \cap run.allowed
    /\ t.cap \notin EffectCapabilities \cup DocumentCapabilities
    /\ NeedsAutonomy(t.cap) => run.definition.profile # "GUIDED"
    /\ t.cap = "repository.workspace" => run.selected[s.key].provider = "git"
FreeFor(run, t) ==
  /\ t = FreeTool(t.cap) /\ t.cap \in run.allowed \ EffectCapabilities
  /\ NeedsAutonomy(t.cap) => run.definition.profile # "GUIDED"

\* What is known of the source of a slot for a connection.
LEMMA BoundSource ==
  ASSUME NEW run, RunAdmitted(run), NEW s \in BoundSlots(run)
  PROVE  LET source == run.selected[s.key] IN
         /\ s \in run.definition.slots /\ s \in SelectedSlots(run) /\ source.kind = "connection"
         /\ source.provider \in Providers /\ source.caps \subseteq ResourceCapabilities(source)
  <1>1. /\ s \in run.definition.slots /\ s \in SelectedSlots(run)
        /\ run.selected[s.key].kind = "connection"
    BY DEF BoundSlots, SelectedSlots
  <1>2. SourceFits(run.definition, run.deployed[1], run.deployed[2], s, run.selected[s.key])
    BY <1>1 DEF RunAdmitted
  <1>. QED
    BY <1>1, <1>2 DEF SourceFits, ResourceCapabilities, NoSource

\* The loop over the slots.
LEMMA SourceToolsFit ==
  ASSUME NEW run, RunAdmitted(run), ~Unresolvable(run), NEW t \in SourceTools(run)
  PROVE  BoundFor(run, t) \/ (FreeFor(run, t) /\ t.cap \in DocumentCapabilities)
  <1>1. CASE \E s \in BoundSlots(run) : t = BoundTool(run.selected[s.key].cap, run.selected[s.key], s.key)
    <2>1. PICK s \in BoundSlots(run) : t = BoundTool(run.selected[s.key].cap, run.selected[s.key], s.key)
      BY <1>1
    <2>. DEFINE source == run.selected[s.key]
    <2>2. /\ s \in SelectedSlots(run) /\ source.kind = "connection" /\ source.provider \in Providers
      BY BoundSource
    <2>3. /\ source.cap \in run.allowed \ EffectCapabilities
          /\ Resolves(features, source.cap, source.provider, run.definition.profile)
          /\ source.cap \in SlotCaps(run.definition, s, source)
      BY <2>2 DEF Unresolvable, SourceServed, SourceValid
    <2>4. source.cap \notin DocumentCapabilities /\ t.cap = source.cap
      BY <2>1, <2>2, <2>3, ServedAreReads DEF Resolves, BoundTool
    <2>5. t.cap = "repository.workspace" => source.provider = "git"
      BY <2>3, <2>4, CheckoutsAreGit DEF Resolves
    <2>. QED
      BY <2>1, <2>2, <2>3, <2>4, <2>5 DEF BoundFor, Resolves, BroughtBy
  <1>2. CASE \E s \in SelectedSlots(run) : /\ run.selected[s.key].kind = "documents"
                                           /\ t = FreeTool(run.selected[s.key].cap)
    <2>1. PICK s \in SelectedSlots(run) : /\ run.selected[s.key].kind = "documents"
                                          /\ t = FreeTool(run.selected[s.key].cap)
      BY <1>2
    <2>2. SourceFits(run.definition, run.deployed[1], run.deployed[2], s, run.selected[s.key])
      BY DEF RunAdmitted, SelectedSlots
    <2>3. t.cap = run.selected[s.key].cap /\ t.cap \in DocumentCapabilities
      BY <2>1, <2>2 DEF SourceFits, NoSource, FreeTool
    <2>4. t.cap \in run.allowed \ EffectCapabilities
      BY <2>1, <2>3 DEF Unresolvable, SourceServed
    <2>. QED
      BY <2>1, <2>3, <2>4 DEF FreeFor, NeedsAutonomy, DocumentCapabilities
  <1>. QED
    BY <1>1, <1>2 DEF SourceTools

\* The checkout of a Git source.
LEMMA CheckoutToolsFit ==
  ASSUME NEW run, RunAdmitted(run), ~Unresolvable(run), NEW t \in CheckoutTools(run)
  PROVE  BoundFor(run, t)
  <1>1. PICK s \in BoundSlots(run) :
          /\ "repository.workspace" \in run.allowed /\ run.selected[s.key].cap = "repository.read"
          /\ run.selected[s.key].provider = "git"
          /\ t = BoundTool("repository.workspace", run.selected[s.key], s.key)
    BY DEF CheckoutTools
  <1>2. t.cap = "repository.workspace"
    BY <1>1 DEF BoundTool
  <1>3. Resolves(features, t.cap, "git", run.definition.profile)
    BY DEF Unresolvable
  <1>4. t.cap \in ResourceCapabilities(run.selected[s.key])
    <2>1. s \in SelectedSlots(run) /\ run.selected[s.key].kind = "connection"
      BY BoundSource
    <2>2. run.selected[s.key].cap \in SlotCaps(run.definition, s, run.selected[s.key])
      BY <2>1 DEF Unresolvable, SourceValid
    <2>3. SourceFits(run.definition, run.deployed[1], run.deployed[2], s, run.selected[s.key])
      BY BoundSource DEF RunAdmitted
    <2>4. "repository.read" \in run.selected[s.key].caps
      <3>1. CASE run.definition.direct
        BY <1>1, <2>1, <2>3, <3>1 DEF SourceFits, NoSource
      <3>2. CASE ~run.definition.direct
        <4>1. "repository.read" \in SlotReads(s)
          BY <1>1, <2>2, <3>2 DEF SlotCaps, SlotReads, IsWrite
        <4>. QED
          BY <1>1, <2>1, <2>3, <3>2, <4>1 DEF SourceFits, NoSource
      <3>. QED
        BY <3>1, <3>2
    <2>. QED
      BY <1>1, <1>2, <2>1, <2>4 DEF ResourceCapabilities
  <1>. QED
    BY <1>1, <1>2, <1>3, <1>4 DEF BoundFor, Resolves, EffectCapabilities, DocumentCapabilities, BroughtBy

\* The tools that are declared, for every slot that brings them.
LEMMA DeclaredToolsFit ==
  ASSUME NEW run, RunAdmitted(run), NEW t \in BoundDeclared(run)
  PROVE  BoundFor(run, t)
  <1>1. PICK q \in DeclaredTools(run.definition, run) \X BoundSlots(run) :
          /\ q[2] \in SlotsWith(run, q[1].cap)
          /\ Resolves(features, q[1].cap, run.selected[q[2].key].provider, run.definition.profile)
          /\ t = BoundTool(q[1].cap, run.selected[q[2].key], q[2].key)
    BY DEF BoundDeclared
  <1>. DEFINE s == q[2]
              source == run.selected[s.key]
  <1>2. s \in BoundSlots(run) /\ t.cap = q[1].cap
    BY <1>1 DEF BoundTool
  <1>3. /\ t = BoundTool(t.cap, source, s.key)
        /\ t.cap \in SlotCaps(run.definition, s, source) \cap (run.allowed \ EffectCapabilities)
        /\ Resolves(features, t.cap, source.provider, run.definition.profile)
    BY <1>1, <1>2 DEF SlotsWith
  <1>. HIDE DEF s
  <1>4. source.provider \in Providers
    BY <1>2, BoundSource
  <1>5. t.cap \notin DocumentCapabilities
    BY <1>3, <1>4, ServedAreReads DEF Resolves
  <1>6. t.cap = "repository.workspace" => source.provider = "git"
    BY <1>3, CheckoutsAreGit DEF Resolves
  <1>. QED
    BY <1>2, <1>3, <1>5, <1>6 DEF BoundFor, Resolves, BroughtBy

\* Two tools of one capability are for two slots.
LEMMA ToolsAreKept ==
  ASSUME NEW run, RunAdmitted(run), ~Unresolvable(run)
  PROVE  ToolsKept(run, ResolvedTools(run))
  <1>. DEFINE sourced == SourceTools(run) \cup CheckoutTools(run)
              bound == sourced \cup BoundDeclared(run)
              free == FreeDeclared(run, Capabilities(bound))
              declared == bound \cup free
              platform == {FreeTool(cap) : cap \in (Platform \cap run.allowed) \ Capabilities(declared)}
              tools == ResolvedTools(run)
  <1>1. tools = declared \cup platform
    BY DEF ResolvedTools
  <1>2. \A t \in bound : BoundFor(run, t) \/ (FreeFor(run, t) /\ t.cap \in DocumentCapabilities)
    BY SourceToolsFit, CheckoutToolsFit, DeclaredToolsFit
  <1>3. \A t \in free : FreeFor(run, t) /\ t.cap \notin Capabilities(bound)
    <2>. SUFFICES ASSUME NEW t \in free
                  PROVE  FreeFor(run, t) /\ t.cap \notin Capabilities(bound)
      OBVIOUS
    <2>. HIDE DEF bound
    <2>1. PICK x \in DeclaredTools(run.definition, run) :
            /\ t = FreeTool(x.cap) /\ x.cap \notin Capabilities(bound)
            /\ x.cap \in run.allowed \ EffectCapabilities
            /\ x.cap \in DocumentCapabilities \/ ResolvesUnbound(features, x.cap, run.definition.profile)
      BY DEF FreeDeclared
    <2>2. t.cap = x.cap
      BY <2>1 DEF FreeTool
    <2>. QED
      BY <2>1, <2>2 DEF FreeFor, ResolvesUnbound, NeedsAutonomy, DocumentCapabilities
  <1>4. \A t \in platform : FreeFor(run, t) /\ t.cap \notin Capabilities(declared)
    <2>. SUFFICES ASSUME NEW t \in platform
                  PROVE  FreeFor(run, t) /\ t.cap \notin Capabilities(declared)
      OBVIOUS
    <2>. HIDE DEF declared
    <2>1. PICK cap \in (Platform \cap run.allowed) \ Capabilities(declared) : t = FreeTool(cap)
      OBVIOUS
    <2>2. t.cap = cap
      BY <2>1 DEF FreeTool
    <2>3. cap \notin EffectCapabilities
      BY DEF Platform, EffectCapabilities, DocumentCapabilities
    <2>4. NeedsAutonomy(cap) => run.definition.profile # "GUIDED"
      BY <2>1 DEF Unresolvable, ResolvesUnbound, NeedsAutonomy, DocumentCapabilities
    <2>. QED
      BY <2>1, <2>2, <2>3, <2>4 DEF FreeFor
  <1>5. ASSUME NEW t \in bound, NEW u \in bound, t.cap = u.cap, t # u
        PROVE  t.key # u.key /\ "none" \notin {t.key, u.key}
    <2>1. BoundFor(run, t) /\ BoundFor(run, u)
      BY <1>2, <1>5 DEF FreeFor, BoundFor
    <2>2. PICK s \in BoundSlots(run) : t = BoundTool(t.cap, run.selected[s.key], s.key)
      BY <2>1 DEF BoundFor
    <2>3. PICK r \in BoundSlots(run) : u = BoundTool(u.cap, run.selected[r.key], r.key)
      BY <2>1 DEF BoundFor
    <2>4. t.key = s.key /\ u.key = r.key
      BY <2>2, <2>3 DEF BoundTool
    <2>5. s \in run.definition.slots /\ r \in run.definition.slots /\ run.definition \in Definitions
      BY BoundSource DEF RunAdmitted
    <2>6. s # r
      BY <1>5, <2>2, <2>3
    <2>. QED
      BY <2>4, <2>5, <2>6, ContextAssumption
  <1>. HIDE DEF sourced, bound, free, platform, tools
  <1>6. RoutesDistinct(tools)
    <2>1. \A t \in bound, u \in free \cup platform : t.cap # u.cap
      BY <1>3, <1>4 DEF Capabilities
    <2>2. \A t \in free, u \in platform : t.cap # u.cap
      BY <1>4 DEF Capabilities
    <2>3. \A t, u \in free \cup platform : t.cap = u.cap => t = u
      BY <1>3, <1>4 DEF FreeFor
    <2>. QED
      BY <1>1, <1>5, <2>1, <2>2, <2>3 DEF RoutesDistinct
  <1>7. \A t \in tools : BoundFor(run, t) \/ FreeFor(run, t)
    BY <1>1, <1>2, <1>3, <1>4
  <1>8. \A t \in tools : /\ t.cap \in run.allowed \ EffectCapabilities
                         /\ NeedsAutonomy(t.cap) => run.definition.profile # "GUIDED"
    BY <1>7 DEF BoundFor, FreeFor
  <1>9. GatewayBuilds(run, tools) /\ Capabilities(tools) \cap EffectCapabilities = {}
    BY <1>6, <1>8 DEF GatewayBuilds, Capabilities
  <1>10. ASSUME NEW t \in tools, t.conn # "none"
         PROVE  \E s \in BoundSlots(run) :
                  /\ s.key = t.key /\ run.selected[s.key].conn = t.conn /\ t.cap \in BroughtBy(run, s)
                  /\ t.cap = "repository.workspace" => run.selected[s.key].provider = "git"
    <2>1. BoundFor(run, t)
      BY <1>7, <1>10 DEF FreeFor, FreeTool
    <2>2. PICK s \in BoundSlots(run) :
            /\ t = BoundTool(t.cap, run.selected[s.key], s.key) /\ t.cap \in BroughtBy(run, s)
            /\ t.cap = "repository.workspace" => run.selected[s.key].provider = "git"
      BY <2>1 DEF BoundFor
    <2>3. t.key = s.key /\ t.conn = run.selected[s.key].conn
      BY <2>2 DEF BoundTool
    <2>. QED
      BY <2>2, <2>3
  <1>11. \A s \in BoundSlots(run) : \E t \in tools : t.key = s.key
    <2>. SUFFICES ASSUME NEW s \in BoundSlots(run) PROVE \E t \in tools : t.key = s.key
      OBVIOUS
    <2>. DEFINE t == BoundTool(run.selected[s.key].cap, run.selected[s.key], s.key)
    <2>1. t \in SourceTools(run) /\ t.key = s.key
      BY DEF SourceTools, BoundTool
    <2>. QED
      BY <1>1, <2>1 DEF bound, sourced
  <1>. QED
    BY <1>9, <1>10, <1>11 DEF ToolsKept, tools

\* An attempt that is not refused is one of a Run that can start.
LEMMA ResolvedIsStartable ==
  ASSUME NEW run, RunAdmitted(run), ~SnapshotRefused(run), ~Unresolvable(run)
  PROVE  Startable(run)
  <1>. DEFINE d == run.definition
              on == run.deployed[1]
  <1>1. PrerequisitesMet(run)
    BY DEF SnapshotRefused
  <1>2. ASSUME d.profile = "GUIDED"
        PROVE  /\ Declared(d) \cap {"artifact.append", "document.files", "tool.sequence"} = {}
               /\ CheckoutTools(run) = {}
    <2>1. ASSUME NEW cap \in {"artifact.append", "document.files", "tool.sequence"}, cap \in Declared(d)
          PROVE  FALSE
      <3>1. cap \in run.allowed
        <4>1. CASE d.direct
          <5>1. cap \in GrantOf(on, d, run.selected) /\ cap \notin EffectCapabilities
            BY <2>1 DEF GrantOf, CapabilityEnabled, EffectCapabilities
          <5>. QED
            BY <4>1, <5>1 DEF RunAdmitted, AllowedOf
        <4>2. CASE ~d.direct
          BY <2>1, <4>2, DeclaredAllowed
        <4>. QED
          BY <4>1, <4>2
      <3>2. cap \in (Platform \ DocumentCapabilities) \cap run.allowed
        BY <3>1 DEF Platform, DocumentCapabilities
      <3>3. ResolvesUnbound(features, cap, d.profile)
        BY <3>2 DEF Unresolvable
      <3>. QED
        BY <1>2, <3>3 DEF ResolvesUnbound, NeedsAutonomy
    <2>2. ASSUME NEW tool \in CheckoutTools(run)
          PROVE  FALSE
      <3>1. tool.cap = "repository.workspace"
        BY DEF CheckoutTools, BoundTool
      <3>2. Resolves(features, tool.cap, "git", d.profile)
        BY DEF Unresolvable
      <3>. QED
        BY <1>2, <3>1, <3>2 DEF Resolves, NeedsAutonomy
    <2>. QED
      BY <2>1, <2>2
  <1>3. ASSUME ~d.direct, NEW s \in BoundSlots(run)
        PROVE  SlotReads(s) # {}
    <2>. DEFINE source == run.selected[s.key]
    <2>1. s \in SelectedSlots(run) /\ source.kind = "connection" /\ source.provider \in Providers
      BY BoundSource
    <2>2. SourceValid(d, s, source) /\ SourceServed(run, s, source)
      BY <2>1 DEF Unresolvable
    <2>3. source.cap \in s.caps /\ Resolves(features, source.cap, source.provider, d.profile)
      BY <1>3, <2>1, <2>2 DEF SourceValid, SourceServed, SlotCaps
    <2>4. ~IsWrite(source.cap)
      BY <2>1, <2>3, ServedAreReads DEF Resolves
    <2>. QED
      BY <2>3, <2>4 DEF SlotReads
  <1>4. ASSUME ~d.direct, NEW s \in SelectedSlots(run), run.selected[s.key].kind = "library"
        PROVE  d.intents # {} \/ "change.propose" \in Declared(d)
    <2>1. "change.propose" \in run.allowed
      BY <1>4 DEF Unresolvable, SourceServed
    <2>2. run.allowed = AllowedOf(on, d, run.selected)
      BY DEF RunAdmitted
    <2>. QED
      BY <1>4, <2>1, <2>2 DEF AllowedOf, DocumentCapabilities
  <1>5. ASSUME ~d.direct, NEW t \in d.tools, t.required
        PROVE  ServesTool(run, t)
    <2>1. t \in DeclaredTools(d, run)
      BY <1>5 DEF DeclaredTools
    <2>2. /\ t.cap \in run.allowed
          /\ \A s \in SlotsWith(run, t.cap) :
               Resolves(features, t.cap, run.selected[s.key].provider, d.profile)
          /\ SlotsWith(run, t.cap) = {} =>
               \/ t.cap \in EffectCapabilities \cup DocumentCapabilities
               \/ t.cap \in Capabilities(SourceTools(run) \cup CheckoutTools(run))
               \/ ResolvesUnbound(features, t.cap, d.profile)
      BY <1>5, <2>1 DEF Unresolvable
    <2>3. Installed(features, t.cap) = Installed(Switches, t.cap)
      BY <2>2, ServedAlike DEF SnapshotRefused
    <2>4. CASE t.cap \in EffectCapabilities
      BY <2>4 DEF ServesTool
    <2>5. CASE t.cap \notin EffectCapabilities
      <3>1. SlotsWith(run, t.cap) = {s \in BoundSlots(run) : t.cap \in s.caps}
        BY <1>5, <2>2, <2>5, DeclaringSlots
      <3>2. \A s \in {x \in BoundSlots(run) : t.cap \in x.caps} :
              Resolves(Switches, t.cap, run.selected[s.key].provider, d.profile)
        BY <2>2, <2>3, <3>1 DEF Resolves
      <3>3. {s \in BoundSlots(run) : t.cap \in s.caps} = {} =>
              \/ t.cap \in DocumentCapabilities \cup Capabilities(SourceTools(run) \cup CheckoutTools(run))
              \/ Unbound(t.cap) /\ (NeedsAutonomy(t.cap) => d.profile # "GUIDED")
        BY <2>2, <2>5, <3>1 DEF ResolvesUnbound
      <3>. QED
        BY <3>2, <3>3 DEF ServesTool
    <2>. QED
      BY <2>4, <2>5
  <1>. QED
    BY <1>1, <1>2, <1>3, <1>4, <1>5 DEF Startable

-----------------------------------------------------------------------------
(* The steps.                                                                *)

LEMMA ContextKeeps ==
  ASSUME ContextKept, [ContextNext]_contextVars
  PROVE  ContextKept'
  <1>. DEFINE kept == /\ connection \in [Connections -> [status : {"ACTIVE", "DISABLED"}, revision : Nat,
                                                         caps : SUBSET AllCapabilities]]
                      /\ \A c \in Connections : connection[c].caps \subseteq Offers[c]
  <1>1. ASSUME NEW d \in Definitions,
               NEW choose \in [{s.key : s \in d.slots} -> {"none", "library"} \cup Selections \cup Connections],
               CreateContextRun(d, choose)
        PROVE  ContextKept'
    <2>1. RunAdmitted(frozenRun') /\ SourcesRemembered(frozenRun')
      BY <1>1, CreatedIsAdmitted
    <2>2. /\ frozenRun = NoRunYet
          /\ UNCHANGED <<features, target, connection, frozenBrief, builds, context, reached>>
      BY <1>1 DEF CreateContextRun
    <2>. QED
      BY <2>1, <2>2 DEF ContextKept, Given, NotBuilt, CallsUseFrozenRevision, SourcesRemembered
  <1>2. CASE BuildContext
    <2>1. /\ frozenRun # NoRunYet /\ UNCHANGED <<features, target, connection, frozenRun, reached>>
      BY <1>2 DEF BuildContext
    <2>2. RunAdmitted(frozenRun) /\ frozenBrief \in {{}, BriefAt(frozenRun)}
      BY <2>1 DEF ContextKept
    <2>3. RunAdmitted(frozenRun')
      BY <2>1, <2>2
    <2>4. CASE \/ SnapshotRefused(frozenRun) \/ Unresolvable(frozenRun)
               \/ frozenBrief # {} /\ frozenBrief # BriefOf(frozenRun)
      <3>1. context' = [status |-> "refused", tools |-> {}] /\ frozenBrief' = frozenBrief
        BY <1>2, <2>4 DEF BuildContext
      <3>2. frozenRun.deployed # <<features, target>> \/ ~Startable(frozenRun)
        BY <2>2, <2>4, AdmittedIsServed, ToolsAlike
      <3>. QED
        BY <2>1, <2>2, <2>3, <3>1, <3>2
        DEF ContextKept, Given, CallsUseFrozenRevision, BriefAt, SourcesRemembered
    <2>5. CASE ~(\/ SnapshotRefused(frozenRun) \/ Unresolvable(frozenRun)
                 \/ frozenBrief # {} /\ frozenBrief # BriefOf(frozenRun))
      <3>1. /\ context' = [status |-> "ready", tools |-> ResolvedTools(frozenRun)]
            /\ FreezeBrief(frozenRun)
        BY <1>2, <2>5 DEF BuildContext
      <3>2. ToolsKept(frozenRun, ResolvedTools(frozenRun))
        BY <2>2, <2>5, ToolsAreKept
      <3>3. BriefOf(frozenRun) = BriefAt(frozenRun)
        BY <2>5, ToolsAlike
      <3>4. frozenBrief' \in {{}, BriefAt(frozenRun)}
        BY <2>2, <3>1, <3>3 DEF FreezeBrief
      <3>5. ToolsKept(frozenRun', context'.tools) /\ context'.status = "ready"
        BY <2>1, <3>1, <3>2
      <3>6. Startable(frozenRun')
        BY <2>1, <2>2, <2>5, ResolvedIsStartable
      <3>. QED
        BY <2>1, <2>3, <3>1, <3>4, <3>5, <3>6
        DEF ContextKept, Given, CallsUseFrozenRevision, BriefAt, SourcesRemembered
    <2>. QED
      BY <2>4, <2>5
  <1>3. CASE StartGateway
    <2>1. /\ context.status = "ready" /\ frozenRun # NoRunYet /\ ToolsKept(frozenRun, context.tools)
          /\ UNCHANGED <<features, target, connection, frozenRun, frozenBrief, builds, reached>>
      BY <1>3 DEF StartGateway, ContextKept, Given
    <2>2. context' = [context EXCEPT !.status = "started"]
      BY <1>3, <2>1 DEF StartGateway, ToolsKept
    <2>3. context' = [status |-> "started", tools |-> context.tools]
      BY <2>2 DEF ContextKept
    <2>. QED
      BY <2>1, <2>3 DEF ContextKept, Given, CallsUseFrozenRevision, SourcesRemembered
  <1>4. CASE AttemptLost \/ SegmentEnds
    <2>1. /\ context' = NotBuilt /\ frozenBrief' \in {{}, frozenBrief}
          /\ UNCHANGED <<features, target, connection, frozenRun, reached>>
      BY <1>4 DEF AttemptLost, SegmentEnds
    <2>. QED
      BY <2>1 DEF ContextKept, Given, NotBuilt, CallsUseFrozenRevision, BriefAt, SourcesRemembered
  <1>5. ASSUME NEW cap, NEW key, CallTool(cap, key)
        PROVE  ContextKept'
    <2>1. PICK tool \in Routed(cap, key) :
            /\ tool.conn # "none"
            /\ StillBound(frozenRun.selected[tool.key],
                          IF tool.cap = "repository.workspace" THEN "repository.read" ELSE tool.cap)
            /\ reached' = reached \cup {[key |-> tool.key, conn |-> tool.conn, cap |-> tool.cap,
                                         revision |-> connection[tool.conn].revision]}
      BY <1>5 DEF CallTool
    <2>2. /\ Given
          /\ UNCHANGED <<features, target, connection, frozenRun, frozenBrief, builds, context>>
      BY <1>5 DEF CallTool, Given
    <2>3. tool \in context.tools
      BY DEF Routed
    <2>4. frozenRun # NoRunYet /\ ToolsKept(frozenRun, context.tools) /\ SourcesRemembered(frozenRun)
      BY <2>2 DEF ContextKept
    <2>5. PICK s \in BoundSlots(frozenRun) :
            /\ s.key = tool.key /\ frozenRun.selected[s.key].conn = tool.conn
            /\ tool.cap = "repository.workspace" => frozenRun.selected[s.key].provider = "git"
      BY <2>1, <2>3, <2>4 DEF ToolsKept
    <2>. DEFINE source == frozenRun.selected[tool.key]
                row == connection[tool.conn]
    <2>6. /\ source.kind = "connection" /\ source.conn = tool.conn
          /\ source.revision = row.revision => source.caps = row.caps
          /\ tool.cap = "repository.workspace" => source.provider = "git"
      BY <2>4, <2>5 DEF BoundSlots, SelectedSlots, SourcesRemembered
    <2>7. /\ row.revision = source.revision
          /\ (IF tool.cap = "repository.workspace" THEN "repository.read" ELSE tool.cap) \in row.caps
      BY <2>1, <2>6 DEF StillBound
    <2>8. tool.cap \in ResourceCapabilities(source)
      BY <2>6, <2>7 DEF ResourceCapabilities
    <2>9. CallsUseFrozenRevision'
      BY <2>1, <2>2, <2>7, <2>8 DEF ContextKept, CallsUseFrozenRevision
    <2>. QED
      BY <2>2, <2>4, <2>9 DEF ContextKept, Given, SourcesRemembered
  <1>6. ASSUME NEW c \in Connections,
               \/ \E caps \in {Offers[c], {cap \in Offers[c] : ~IsWrite(cap)}} : EditConnection(c, caps)
               \/ DisableConnection(c)
        PROVE  ContextKept'
    <2>1. PICK status \in {"ACTIVE", "DISABLED"}, caps \in SUBSET Offers[c] :
            connection' = [connection EXCEPT ![c] =
                             [status |-> status, revision |-> connection[c].revision + 1, caps |-> caps]]
      <3>1. ASSUME NEW caps \in {Offers[c], {cap \in Offers[c] : ~IsWrite(cap)}}, EditConnection(c, caps)
            PROVE  connection' = [connection EXCEPT ![c] =
                                    [status |-> connection[c].status,
                                     revision |-> connection[c].revision + 1, caps |-> caps]]
        BY <3>1 DEF EditConnection, ContextKept
      <3>2. CASE DisableConnection(c)
        <4>1. connection' = [connection EXCEPT ![c] =
                               [status |-> "DISABLED", revision |-> connection[c].revision + 1,
                                caps |-> connection[c].caps]]
          BY <3>2 DEF DisableConnection, ContextKept
        <4>. QED
          BY <4>1 DEF ContextKept
      <3>3. connection[c].status \in {"ACTIVE", "DISABLED"}
        BY DEF ContextKept
      <3>. QED
        BY <1>6, <3>1, <3>2, <3>3
    <2>2. UNCHANGED <<features, target, frozenRun, frozenBrief, builds, context, reached>>
      BY <1>6 DEF EditConnection, DisableConnection
    <2>3. caps \subseteq Offers[c] /\ Offers[c] \subseteq AllCapabilities
      BY ContextAssumption, ConnectionsInOrder DEF Providers
    <2>4. kept'
      BY <2>1, <2>3 DEF ContextKept
    <2>5. ASSUME frozenRun # NoRunYet
          PROVE  SourcesRemembered(frozenRun)'
      <3>1. SourcesRemembered(frozenRun)
        BY <2>5 DEF ContextKept
      <3>2. \A e \in Connections : /\ connection[e].revision \in Nat
                                   /\ e # c => connection'[e] = connection[e]
        BY <2>1 DEF ContextKept
      <3>3. connection'[c].revision = connection[c].revision + 1
        BY <2>1 DEF ContextKept
      <3>. QED
        BY <2>2, <3>1, <3>2, <3>3 DEF SourcesRemembered
    <2>. QED
      BY <2>2, <2>4, <2>5 DEF ContextKept, Given, CallsUseFrozenRevision
  <1>7. ASSUME NEW on, NEW library, Redeploy(on, library)
        PROVE  ContextKept'
    BY <1>7 DEF Redeploy, ContextKept, Given, NotBuilt, CallsUseFrozenRevision, SourcesRemembered
  <1>8. CASE UNCHANGED contextVars
    BY <1>8 DEF contextVars, ContextKept, Given, CallsUseFrozenRevision, SourcesRemembered
  <1>. QED
    BY <1>1, <1>2, <1>3, <1>4, <1>5, <1>6, <1>7, <1>8 DEF ContextNext

\* For any definitions, a Run is started by the deployment that accepted it exactly when its
\* definition and its choice can start, with the tools and connections it was accepted with
\* (create_run, RunContextBuilder.build, load_bound_run_resource).
THEOREM ContextStaysFrozen == ContextSpec => []ContextIsFrozen
  <1>1. ContextInit => ContextKept
    <2>. SUFFICES ASSUME ContextInit PROVE ContextKept
      OBVIOUS
    <2>1. \A c \in Connections : Offers[c] \subseteq AllCapabilities
      BY ContextAssumption, ConnectionsInOrder DEF Providers
    <2>. QED
      BY <2>1 DEF ContextInit, ContextKept, Given, NotBuilt, CallsUseFrozenRevision
  <1>2. ContextKept /\ [ContextNext]_contextVars => ContextKept'
    BY ContextKeeps
  <1>3. ContextKept => ContextIsFrozen
    BY DEF ContextKept, ContextIsFrozen, AdmittedRunStarts, ToolsWithinRun, ToolsKept, GatewayBuilds, Given,
         BroughtBy
  <1>. QED
    BY <1>1, <1>2, <1>3, PTL DEF ContextSpec
=============================================================================
