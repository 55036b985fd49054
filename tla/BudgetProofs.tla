---------------------------- MODULE BudgetProofs ----------------------------
(***************************************************************************)
(* Proofs about RunBudget: the ledger of a Run balances, is never overdrawn  *)
(* in silence, lets each execution start once and counts each report once,   *)
(* for any attempts, children, recorders, reconcilers and limits.            *)
(*                                                                         *)
(* No property of the ledger is inductive alone. A balance cannot become     *)
(* negative because the account is the sum of its reservations; a charge     *)
(* stays within the limit because a reservation still holds what was granted *)
(* and not consumed; and that in turn rests on the statuses: only a stopped  *)
(* and finally reported execution is settled, only one that never started is *)
(* released. BudgetKept collects these facts.                                *)
(***************************************************************************)
EXTENDS RunBudget, FiniteSetTheorems, TLAPS

ReceiptRows ==
  {NoReceipt} \cup {[kind |-> "USAGE", report |-> p] : p \in Reports}
  \cup {[kind |-> t] : t \in {"STOP", "UNSTARTED", "UNVERIFIABLE"}}

\* Receipts are of the four kinds, and a reservation has finitely many.
ReceiptsKept ==
  /\ receipts \in [Keys -> [ReceiptKeys -> ReceiptRows]]
  /\ \A k \in Keys : IsFiniteSet({x \in ReceiptKeys : receipts[k][x] # NoReceipt})

\* What the status of a reservation says about its amounts.
RowKept(k) ==
  /\ res[k].status = "NONE" =>
       /\ res[k].consumed = Zero /\ res[k].reserved = Zero
       /\ lease[k] = Nobody
       /\ \A x \in ReceiptKeys : receipts[k][x] = NoReceipt
  /\ res[k].status = "RESERVED" =>
       res[k].consumed = Zero /\ res[k].reserved = res[k].granted /\ ~res[k].stop
  /\ res[k].status = "RELEASED" => res[k].consumed = Zero /\ res[k].reserved = Zero
  /\ res[k].status = "SETTLED" =>
       res[k].reserved = Zero /\ res[k].stop /\ res[k].final
  /\ ~account.blocked /\ res[k].status \in Live =>
       \A d \in Dims : res[k].consumed[d] + res[k].reserved[d] = res[k].granted[d]

\* A recorder past the gate is the one its reservation names.
RecorderKept(r) ==
  /\ rec[r].pc \in {"prepared", "bound", "running", "ended"} =>
       rec[r].key \in Keys /\ res[rec[r].key].status # "NONE"
  /\ rec[r].pc \in {"bound", "running", "ended"} =>
       res[rec[r].key].owner = r /\ res[rec[r].key].inv # Nobody
  /\ rec[r].pc \in {"running", "ended"} =>
       res[rec[r].key].status \in {"START_INTENT", "SETTLED"}
  /\ rec[r].pc = "running" => ~res[rec[r].key].stop

\* At most one primary execution is pending.
OnePrimary ==
  \A j, k \in Attempts :
    /\ res[j].status \in Live /\ ~res[j].stop
    /\ res[k].status \in Live /\ ~res[k].stop
    => j = k

\* UsageMatchesReceipts, for one reservation and one dimension; the highest
\* reading is named without CHOOSE.
UsageKeys(k, d) == {x \in ReceiptKeys : /\ receipts[k][x].kind = "USAGE"
                                        /\ d \in Given(receipts[k][x].report)}
Reading(k, d, x) == receipts[k][x].report.vals[d]
UsageKept(k, d) ==
  /\ mode = "INCREMENTAL" =>
       res[k].consumed[d]
         = Total([x \in UsageKeys(k, d) |-> Reading(k, d, x)], UsageKeys(k, d))
  /\ mode = "CUMULATIVE" =>
       /\ \A x \in UsageKeys(k, d) : Reading(k, d, x) <= res[k].consumed[d]
       /\ \/ res[k].consumed[d] = 0
          \/ \E x \in UsageKeys(k, d) : Reading(k, d, x) = res[k].consumed[d]

BudgetKept ==
  /\ BudgetTypeOK
  /\ ReceiptsKept
  /\ \A k \in Keys : RowKept(k)
  /\ \A r \in Recorders : RecorderKept(r)
  /\ OnePrimary
  /\ LedgerBalances
  /\ NoSilentOverrun
  /\ ~account.blocked => \A k \in Keys, d \in Dims : UsageKept(k, d)

-----------------------------------------------------------------------------
(* Sums.                                                                   *)

\* The units of one element are as many as its value.
LEMMA OneElement ==
  ASSUME NEW k, NEW n \in Nat
  PROVE  IsFiniteSet({k} \X (1..n)) /\ Cardinality({k} \X (1..n)) = n
  <1>1. IsFiniteSet({k}) /\ Cardinality({k}) = 1
    BY FS_Singleton
  <1>2. IsFiniteSet(1..n) /\ Cardinality(1..n) = n
    BY FS_Interval
  <1>3. /\ IsFiniteSet({k} \X (1..n))
        /\ Cardinality({k} \X (1..n)) = Cardinality({k}) * Cardinality(1..n)
    BY <1>1, <1>2, FS_Product
  <1>4. Cardinality({k}) * Cardinality(1..n) = 1 * n /\ 1 * n = n
    BY <1>1, <1>2
  <1>. QED
    BY <1>3, <1>4

\* A sum over a finite set is a number.
LEMMA TotalIsNat ==
  ASSUME NEW S, IsFiniteSet(S), NEW f, \A k \in S : f[k] \in Nat
  PROVE  IsFiniteSet(Units(f, S)) /\ Total(f, S) \in Nat
  <1>. DEFINE u == [k \in S |-> {k} \X (1..f[k])]
              R == {{k} \X (1..f[k]) : k \in S}
  <1>1. u \in Surjection(S, R)
    BY DEF Surjection
  <1>2. IsFiniteSet(R)
    BY <1>1, FS_Surjection
  <1>3. ASSUME NEW k \in S
        PROVE  IsFiniteSet({k} \X (1..f[k]))
    BY OneElement
  <1>4. \A T \in R : IsFiniteSet(T)
    BY <1>3
  <1>5. IsFiniteSet(UNION R)
    BY <1>2, <1>4, FS_UNION
  <1>. QED
    BY <1>5, FS_CardinalityType DEF Units, Total

\* Only the values on S matter.
LEMMA TotalSame ==
  ASSUME NEW S, NEW f, NEW g, \A k \in S : f[k] = g[k]
  PROVE  Total(f, S) = Total(g, S)
  <1>1. {{k} \X (1..f[k]) : k \in S} = {{k} \X (1..g[k]) : k \in S}
    OBVIOUS
  <1>. QED
    BY <1>1 DEF Total, Units

\* A sum over two disjoint sets.
LEMMA TotalSplit ==
  ASSUME NEW S, NEW T, IsFiniteSet(S), IsFiniteSet(T), S \cap T = {},
         NEW f, \A k \in S \cup T : f[k] \in Nat
  PROVE  Total(f, S \cup T) = Total(f, S) + Total(f, T)
  <1>1. Units(f, S \cup T) = Units(f, S) \cup Units(f, T)
    BY DEF Units
  <1>2. Units(f, S) \cap Units(f, T) = {}
    BY DEF Units
  <1>3. /\ IsFiniteSet(Units(f, S)) /\ Cardinality(Units(f, S)) \in Nat
        /\ IsFiniteSet(Units(f, T)) /\ Cardinality(Units(f, T)) \in Nat
    BY TotalIsNat DEF Total
  <1>4. Cardinality(Units(f, S) \cup Units(f, T))
          = Cardinality(Units(f, S)) + Cardinality(Units(f, T)) - Cardinality({})
    BY <1>2, <1>3, FS_Union
  <1>5. Cardinality({}) = 0
    BY FS_EmptySet
  <1>6. Cardinality(Units(f, S) \cup Units(f, T))
          = Cardinality(Units(f, S)) + Cardinality(Units(f, T))
    BY <1>3, <1>4, <1>5
  <1>. QED
    BY <1>1, <1>6 DEF Total

\* A sum over one element.
LEMMA TotalOne ==
  ASSUME NEW k, NEW f, f[k] \in Nat
  PROVE  Total(f, {k}) = f[k]
  <1>1. Units(f, {k}) = {k} \X (1..f[k])
    BY DEF Units
  <1>. QED
    BY <1>1, OneElement DEF Total

\* A sum of nothing but zeros.
LEMMA TotalZero ==
  ASSUME NEW S, NEW f, \A k \in S : f[k] = 0
  PROVE  Total(f, S) = 0
  <1>1. Units(f, S) = {}
    BY DEF Units
  <1>. QED
    BY <1>1, FS_EmptySet DEF Total

\* Changing one value changes the sum by as much.
LEMMA TotalUpdate ==
  ASSUME NEW S, IsFiniteSet(S), NEW k \in S, NEW f, NEW g,
         \A j \in S : f[j] \in Nat /\ g[j] \in Nat,
         \A j \in S \ {k} : g[j] = f[j]
  PROVE  /\ Total(g, S) = Total(f, S) - f[k] + g[k]
         /\ f[k] <= Total(f, S)
  <1>. DEFINE T == S \ {k}
  <1>1. IsFiniteSet(T) /\ IsFiniteSet({k})
    BY FS_RemoveElement, FS_Singleton
  <1>0. T \cap {k} = {} /\ S = T \cup {k}
    OBVIOUS
  <1>2. Total(f, S) = Total(f, T) + f[k] /\ Total(f, T) \in Nat
    <2>1. Total(f, T \cup {k}) = Total(f, T) + Total(f, {k})
      BY <1>1, <1>0, TotalSplit
    <2>2. Total(f, {k}) = f[k] /\ Total(f, T) \in Nat
      BY <1>1, TotalOne, TotalIsNat
    <2>. QED
      BY <1>0, <2>1, <2>2
  <1>3. Total(g, S) = Total(g, T) + g[k]
    <2>1. Total(g, T \cup {k}) = Total(g, T) + Total(g, {k})
      BY <1>1, <1>0, TotalSplit
    <2>2. Total(g, {k}) = g[k]
      BY TotalOne
    <2>. QED
      BY <1>0, <2>1, <2>2
  <1>4. Total(g, T) = Total(f, T)
    BY TotalSame
  <1>. QED
    BY <1>2, <1>3, <1>4

\* Giving values to a group that had none adds the sum of the group.
LEMMA TotalGroup ==
  ASSUME NEW S, IsFiniteSet(S), NEW T, T \subseteq S, NEW f, NEW g, NEW h,
         \A j \in S : f[j] \in Nat /\ g[j] \in Nat,
         \A j \in T : f[j] = 0 /\ g[j] = h[j],
         \A j \in S \ T : g[j] = f[j]
  PROVE  Total(g, S) = Total(f, S) + Total(h, T)
  <1>. DEFINE U == S \ T
  <1>1. /\ IsFiniteSet(T) /\ IsFiniteSet(U) /\ U \cap T = {} /\ S = U \cup T
    BY FS_Subset, FS_Difference
  <1>2. Total(f, S) = Total(f, U) + Total(f, T) /\ Total(f, U) \in Nat
    BY <1>1, TotalSplit, TotalIsNat
  <1>3. Total(g, S) = Total(g, U) + Total(g, T)
    BY <1>1, TotalSplit
  <1>4. Total(g, U) = Total(f, U) /\ Total(g, T) = Total(h, T) /\ Total(f, T) = 0
    BY TotalSame, TotalZero
  <1>. QED
    BY <1>2, <1>3, <1>4

\* The larger and the smaller of two numbers.
LEMMA MaxMin ==
  ASSUME NEW a \in Int, NEW b \in Int
  PROVE  /\ Max({a, b}) = IF a >= b THEN a ELSE b
         /\ Min({a, b}) = IF a <= b THEN a ELSE b
  BY DEF Max, Min

-----------------------------------------------------------------------------
(* What a step leaves alone.                                               *)

\* A Run has finitely many executions, and they are attempts or children.
LEMMA KeysAreFinite ==
  /\ IsFiniteSet(Keys)
  /\ Attempts \subseteq Keys /\ Children \subseteq Keys
  /\ Attempts \subseteq Nat \ {0} /\ Attempts \cap Children = {}
  BY BudgetAssumption DEF Keys

\* The amounts of an existing state are numbers.
LEMMA AmountsAreNumbers ==
  ASSUME BudgetTypeOK, NEW d \in Dims
  PROVE  /\ account.consumed[d] \in Nat /\ account.reserved[d] \in Nat
         /\ account.blocked \in BOOLEAN
         /\ Limit[d] \in Nat \ {0}
         /\ \A k \in Keys : /\ res[k].consumed[d] \in Nat
                            /\ res[k].reserved[d] \in Nat
                            /\ res[k].granted[d] \in Nat
                            /\ res[k].mark[d] \in Int
  <1>0. Limit[d] \in Nat \ {0}
    BY BudgetAssumption
  <1>1. /\ account.consumed \in [Dims -> Nat] /\ account.reserved \in [Dims -> Nat]
        /\ account.blocked \in BOOLEAN
    BY DEF BudgetTypeOK
  <1>2. ASSUME NEW k \in Keys
        PROVE  /\ res[k].consumed \in [Dims -> Nat] /\ res[k].reserved \in [Dims -> Nat]
               /\ res[k].granted \in [Dims -> Nat] /\ res[k].mark \in [Dims -> Nat \cup {-1}]
    BY DEF BudgetTypeOK, Rows
  <1>. QED
    BY <1>0, <1>1, <1>2

\* Only reservation k changes, and the account by as much.
Moves(k) ==
  /\ \A j \in Keys \ {k} : /\ res'[j].consumed = res[j].consumed
                           /\ res'[j].reserved = res[j].reserved
  /\ \A d \in Dims :
       /\ account'.consumed[d]
            = account.consumed[d] - res[k].consumed[d] + res'[k].consumed[d]
       /\ account'.reserved[d]
            = account.reserved[d] - res[k].reserved[d] + res'[k].reserved[d]

\* The ledger balances when one reservation and the account change by as much.
LEMMA BalancesKept ==
  ASSUME BudgetTypeOK, BudgetTypeOK', LedgerBalances, NEW k \in Keys, Moves(k)
  PROVE  LedgerBalances'
  <1>. SUFFICES ASSUME NEW d \in Dims
                PROVE  /\ account'.consumed[d] = Total([j \in Keys |-> res'[j].consumed[d]], Keys)
                       /\ account'.reserved[d] = Total([j \in Keys |-> res'[j].reserved[d]], Keys)
    BY DEF LedgerBalances
  <1>1. ASSUME NEW f, NEW g, \A j \in Keys : f[j] \in Nat /\ g[j] \in Nat,
               \A j \in Keys \ {k} : g[j] = f[j]
        PROVE  Total(g, Keys) = Total(f, Keys) - f[k] + g[k]
    <2>1. IsFiniteSet(Keys)
      BY KeysAreFinite
    <2>2. /\ Total(g, Keys) = Total(f, Keys) - f[k] + g[k]
          /\ f[k] <= Total(f, Keys)
      BY <1>1, <2>1, TotalUpdate
    <2>. QED
      BY <2>2
  <1>2. \A j \in Keys : /\ res[j].consumed[d] \in Nat /\ res'[j].consumed[d] \in Nat
                       /\ res[j].reserved[d] \in Nat /\ res'[j].reserved[d] \in Nat
    <2>1. \A j \in Keys : res[j].consumed[d] \in Nat /\ res[j].reserved[d] \in Nat
      BY AmountsAreNumbers
    <2>2. \A j \in Keys : res'[j].consumed[d] \in Nat /\ res'[j].reserved[d] \in Nat
      BY DEF BudgetTypeOK, Rows
    <2>. QED
      BY <2>1, <2>2
  <1>3. \A j \in Keys \ {k} : /\ res'[j].consumed[d] = res[j].consumed[d]
                             /\ res'[j].reserved[d] = res[j].reserved[d]
    BY DEF Moves
  <1>4. Total([j \in Keys |-> res'[j].consumed[d]], Keys)
          = Total([j \in Keys |-> res[j].consumed[d]], Keys)
              - res[k].consumed[d] + res'[k].consumed[d]
    <2>. DEFINE f == [j \in Keys |-> res[j].consumed[d]]
                g == [j \in Keys |-> res'[j].consumed[d]]
    <2>1. \A j \in Keys : f[j] \in Nat /\ g[j] \in Nat
      BY <1>2
    <2>2. \A j \in Keys \ {k} : g[j] = f[j]
      BY <1>3
    <2>3. f[k] = res[k].consumed[d] /\ g[k] = res'[k].consumed[d]
      OBVIOUS
    <2>. HIDE DEF f, g
    <2>4. Total(g, Keys) = Total(f, Keys) - f[k] + g[k]
      BY <1>1, <2>1, <2>2
    <2>. QED
      BY <2>3, <2>4 DEF f, g
  <1>5. Total([j \in Keys |-> res'[j].reserved[d]], Keys)
          = Total([j \in Keys |-> res[j].reserved[d]], Keys)
              - res[k].reserved[d] + res'[k].reserved[d]
    <2>. DEFINE f == [j \in Keys |-> res[j].reserved[d]]
                g == [j \in Keys |-> res'[j].reserved[d]]
    <2>1. \A j \in Keys : f[j] \in Nat /\ g[j] \in Nat
      BY <1>2
    <2>2. \A j \in Keys \ {k} : g[j] = f[j]
      BY <1>3
    <2>3. f[k] = res[k].reserved[d] /\ g[k] = res'[k].reserved[d]
      OBVIOUS
    <2>. HIDE DEF f, g
    <2>4. Total(g, Keys) = Total(f, Keys) - f[k] + g[k]
      BY <1>1, <2>1, <2>2
    <2>. QED
      BY <2>3, <2>4 DEF f, g
  <1>6. /\ account.consumed[d] = Total([j \in Keys |-> res[j].consumed[d]], Keys)
        /\ account.reserved[d] = Total([j \in Keys |-> res[j].reserved[d]], Keys)
    BY DEF LedgerBalances
  <1>. QED
    BY <1>4, <1>5, <1>6 DEF Moves

\* No reservation holds more than the account.
LEMMA AccountHoldsAll ==
  ASSUME BudgetTypeOK, LedgerBalances, NEW k \in Keys, NEW d \in Dims
  PROVE  res[k].reserved[d] <= account.reserved[d]
  <1>. DEFINE p == [j \in Keys |-> res[j].reserved[d]]
  <1>1. \A j \in Keys : p[j] \in Nat
    BY AmountsAreNumbers
  <1>2. p[k] <= Total(p, Keys)
    BY <1>1, KeysAreFinite, TotalUpdate
  <1>. QED
    BY <1>2 DEF LedgerBalances

\* What a reservation consumed still matches when neither it nor a usage
\* receipt changes.
LEMMA UsageSame ==
  ASSUME NEW k \in Keys, NEW d \in Dims, UsageKept(k, d), mode' = mode,
         res'[k].consumed[d] = res[k].consumed[d],
         UsageKeys(k, d)' = UsageKeys(k, d),
         \A x \in UsageKeys(k, d) : receipts'[k][x] = receipts[k][x]
  PROVE  UsageKept(k, d)'
  <1>1. \A x \in UsageKeys(k, d) : Reading(k, d, x)' = Reading(k, d, x)
    BY DEF Reading
  <1>2. [x \in UsageKeys(k, d)' |-> Reading(k, d, x)']
          = [x \in UsageKeys(k, d) |-> Reading(k, d, x)]
    BY <1>1
  <1>. QED
    BY <1>1, <1>2 DEF UsageKept

\* A step that leaves the amounts and the receipts alone.
LEMMA AmountsUntouched ==
  ASSUME BudgetKept, BudgetTypeOK', mode' = mode, receipts' = receipts,
         \A k \in Keys : /\ res'[k].consumed = res[k].consumed
                         /\ res'[k].reserved = res[k].reserved,
         account'.consumed = account.consumed, account'.reserved = account.reserved,
         account.blocked => account'.blocked
  PROVE  /\ LedgerBalances' /\ NoSilentOverrun' /\ ReceiptsKept'
         /\ ~account'.blocked => \A k \in Keys, d \in Dims : UsageKept(k, d)'
  <1>1. LedgerBalances'
    <2>1. \A d \in Dims : /\ [k \in Keys |-> res'[k].consumed[d]] = [k \in Keys |-> res[k].consumed[d]]
                          /\ [k \in Keys |-> res'[k].reserved[d]] = [k \in Keys |-> res[k].reserved[d]]
      OBVIOUS
    <2>. QED
      BY <2>1 DEF BudgetKept, LedgerBalances
  <1>2. NoSilentOverrun'
    BY DEF BudgetKept, NoSilentOverrun
  <1>3. ReceiptsKept'
    BY DEF BudgetKept, ReceiptsKept
  <1>4. ASSUME ~account'.blocked, NEW k \in Keys, NEW d \in Dims
        PROVE  UsageKept(k, d)'
    <2>1. UsageKept(k, d)
      BY <1>4 DEF BudgetKept
    <2>2. UsageKeys(k, d)' = UsageKeys(k, d)
      BY DEF UsageKeys
    <2>. QED
      BY <2>1, <2>2, UsageSame
  <1>. QED
    BY <1>1, <1>2, <1>3, <1>4

-----------------------------------------------------------------------------
(* Reservations.                                                           *)

\* A group of executions without a row is given one each.
ReservesGroup(group, grants, parent) ==
  /\ group \subseteq Keys /\ run \in Attempts /\ parent \in Keys \cup {Nobody}
  /\ grants \in [group -> [Dims -> Nat]]
  /\ \A k \in group : res[k].status = "NONE"
  /\ ~account.blocked
  /\ \A d \in Dims : Total([k \in group |-> grants[k][d]], group) <= Remaining(d)
  /\ \/ group \cap Attempts = {}
     \/ group = {run} /\ ~PrimaryPending
  /\ Reserve(grants, parent)
  /\ UNCHANGED <<mode, run, receipts, observed, lease>>

\* What a group asks for in all is a number.
LEMMA GroupTotal ==
  ASSUME NEW group, NEW grants, NEW parent, ReservesGroup(group, grants, parent),
         NEW d \in Dims
  PROVE  Total([k \in group |-> grants[k][d]], group) \in Nat
  <1>1. group \subseteq Keys /\ grants \in [group -> [Dims -> Nat]]
    BY DEF ReservesGroup
  <1>2. IsFiniteSet(group)
    BY <1>1, KeysAreFinite, FS_Subset
  <1>3. \A k \in group : [j \in group |-> grants[j][d]][k] \in Nat
    BY <1>1
  <1>. QED
    BY <1>2, <1>3, TotalIsNat

\* What a new reservation holds, and that the others are not touched.
LEMMA NewRows ==
  ASSUME BudgetKept, NEW group, NEW grants, NEW parent,
         ReservesGroup(group, grants, parent)
  PROVE  /\ \A k \in Keys \ group : res'[k] = res[k]
         /\ \A k \in group :
              /\ res'[k] \in Rows
              /\ res'[k].status = "RESERVED" /\ ~res'[k].stop
              /\ res'[k].consumed = Zero
              /\ res'[k].reserved = grants[k] /\ res'[k].granted = grants[k]
         /\ \A d \in Dims :
              /\ account'.consumed[d] = account.consumed[d]
              /\ account'.reserved[d] = account.reserved[d]
                   + Total([k \in group |-> grants[k][d]], group)
         /\ account' \in [consumed : [Dims -> Nat], reserved : [Dims -> Nat], blocked : BOOLEAN]
         /\ account'.blocked = account.blocked
  <1>1. /\ DOMAIN grants = group /\ group \subseteq Keys
        /\ res' = [k \in Keys |->
             IF k \in group
             THEN [NoRow EXCEPT !.status = "RESERVED", !.attempt = run, !.parent = parent,
                                !.granted = grants[k], !.reserved = grants[k]]
             ELSE res[k]]
        /\ account' = [account EXCEPT !.reserved = [d \in Dims |->
             account.reserved[d] + Total([k \in group |-> grants[k][d]], group)]]
    BY DEF ReservesGroup, Reserve
  <1>2. \A k \in Keys \ group : res'[k] = res[k]
    BY <1>1
  <1>3. ASSUME NEW k \in group
        PROVE  /\ res'[k] \in Rows
               /\ res'[k].status = "RESERVED" /\ ~res'[k].stop
               /\ res'[k].consumed = Zero
               /\ res'[k].reserved = grants[k] /\ res'[k].granted = grants[k]
    <2>1. /\ grants[k] \in [Dims -> Nat] /\ run \in Attempts
          /\ parent \in Keys \cup {Nobody} /\ k \in Keys
      BY DEF ReservesGroup
    <2>2. res'[k] = [status |-> "RESERVED", attempt |-> run, parent |-> parent,
                     granted |-> grants[k], reserved |-> grants[k], consumed |-> Zero,
                     mark |-> [d \in Dims |-> -1], inv |-> Nobody, owner |-> Nobody,
                     stop |-> FALSE, final |-> FALSE]
      BY <1>1, <2>1 DEF NoRow
    <2>3. Zero \in [Dims -> Nat] /\ [d \in Dims |-> -1] \in [Dims -> Nat \cup {-1}]
      BY DEF Zero
    <2>. QED
      BY <2>1, <2>2, <2>3 DEF Rows, Live
  <1>4. \A d \in Dims : Total([k \in group |-> grants[k][d]], group) \in Nat
    BY GroupTotal
  <1>5. /\ account.consumed \in [Dims -> Nat] /\ account.reserved \in [Dims -> Nat]
        /\ account.blocked \in BOOLEAN
        /\ account = [consumed |-> account.consumed, reserved |-> account.reserved,
                      blocked |-> account.blocked]
    BY DEF BudgetKept, BudgetTypeOK
  <1>6. account' = [consumed |-> account.consumed, blocked |-> account.blocked,
                    reserved |-> [d \in Dims |-> account.reserved[d]
                      + Total([k \in group |-> grants[k][d]], group)]]
    BY <1>1, <1>5
  <1>. QED
    BY <1>2, <1>3, <1>4, <1>5, <1>6

\* The ledger balances with the new rows, within the limit.
LEMMA NewRowsBalance ==
  ASSUME BudgetKept, NEW group, NEW grants, NEW parent,
         ReservesGroup(group, grants, parent)
  PROVE  LedgerBalances' /\ NoSilentOverrun'
  <1>1. /\ \A k \in group : res[k].consumed = Zero /\ res[k].reserved = Zero
        /\ group \subseteq Keys /\ BudgetTypeOK
    BY DEF BudgetKept, RowKept, ReservesGroup
  <1>2. ASSUME NEW d \in Dims
        PROVE  /\ account'.consumed[d] = Total([j \in Keys |-> res'[j].consumed[d]], Keys)
               /\ account'.reserved[d] = Total([j \in Keys |-> res'[j].reserved[d]], Keys)
    <2>. DEFINE h == [k \in group |-> grants[k][d]]
                f == [j \in Keys |-> res[j].reserved[d]]
                g == [j \in Keys |-> res'[j].reserved[d]]
    <2>1. /\ account.consumed[d] = Total([j \in Keys |-> res[j].consumed[d]], Keys)
          /\ account.reserved[d] = Total(f, Keys)
      BY DEF BudgetKept, LedgerBalances
    <2>2. [j \in Keys |-> res'[j].consumed[d]] = [j \in Keys |-> res[j].consumed[d]]
      <3>1. \A j \in Keys : res'[j].consumed = res[j].consumed
        BY <1>1, NewRows
      <3>. QED
        BY <3>1
    <2>3. \A j \in Keys : f[j] \in Nat /\ g[j] \in Nat
      <3>1. \A j \in Keys : f[j] \in Nat
        BY <1>1, AmountsAreNumbers
      <3>2. \A j \in group : res'[j].reserved[d] \in Nat
        BY NewRows DEF ReservesGroup
      <3>3. \A j \in Keys \ group : res'[j] = res[j]
        BY NewRows
      <3>. QED
        BY <3>1, <3>2, <3>3
    <2>4. \A j \in group : f[j] = 0 /\ g[j] = h[j]
      BY <1>1, NewRows DEF Zero
    <2>5. \A j \in Keys \ group : g[j] = f[j]
      BY NewRows
    <2>6. Total(g, Keys) = Total(f, Keys) + Total(h, group)
      <3>. HIDE DEF f, g, h
      <3>1. IsFiniteSet(Keys)
        BY KeysAreFinite
      <3>. QED
        BY <1>1, <2>3, <2>4, <2>5, <3>1, TotalGroup
    <2>7. /\ account'.consumed[d] = account.consumed[d]
          /\ account'.reserved[d] = account.reserved[d] + Total(h, group)
      BY NewRows
    <2>. QED
      BY <2>1, <2>2, <2>6, <2>7
  <1>3. ASSUME NEW d \in Dims
        PROVE  account'.consumed[d] + account'.reserved[d] <= Limit[d]
    <2>. DEFINE total == Total([k \in group |-> grants[k][d]], group)
    <2>1. total <= Limit[d] - account.consumed[d] - account.reserved[d]
      BY DEF ReservesGroup, Remaining
    <2>2. /\ account.consumed[d] \in Nat /\ account.reserved[d] \in Nat
          /\ Limit[d] \in Nat
      BY <1>1, AmountsAreNumbers
    <2>3. /\ total \in Nat
          /\ account'.consumed[d] = account.consumed[d]
          /\ account'.reserved[d] = account.reserved[d] + total
      <3>1. Total([k \in group |-> grants[k][d]], group) \in Nat
        BY GroupTotal
      <3>2. /\ account'.consumed[d] = account.consumed[d]
            /\ account'.reserved[d] = account.reserved[d]
                 + Total([k \in group |-> grants[k][d]], group)
        BY NewRows
      <3>. QED
        BY <3>1, <3>2
    <2>. HIDE DEF total
    <2>. QED
      BY <2>1, <2>2, <2>3
  <1>. QED
    BY <1>2, <1>3 DEF LedgerBalances, NoSilentOverrun

\* Recorders follow their reservations while those keep what they had.
LEMMA RecordersFollow ==
  ASSUME BudgetKept, NEW r \in Recorders, rec'[r] = rec[r],
         \A k \in Keys : res[k].status # "NONE" =>
           /\ res'[k].owner = res[k].owner
           /\ res'[k].inv = res[k].inv
           /\ res'[k].stop = res[k].stop
           /\ res'[k].status # "NONE"
           /\ res[k].status \in {"START_INTENT", "SETTLED"} =>
                res'[k].status \in {"START_INTENT", "SETTLED"}
  PROVE  RecorderKept(r)'
  <1>1. RecorderKept(r)
    BY DEF BudgetKept
  <1>. QED
    BY <1>1 DEF RecorderKept

\* Reserving for a group keeps the ledger as it has to be.
LEMMA ReservesKeeps ==
  ASSUME BudgetKept, NEW group, NEW grants, NEW parent,
         ReservesGroup(group, grants, parent),
         rec' \in [Recorders -> RecorderStates],
         \A r \in Recorders : \/ rec'[r] = rec[r]
                              \/ rec'[r].pc = "prepared" /\ rec'[r].key \in group
  PROVE  BudgetKept'
  <1>1. /\ group \subseteq Keys
        /\ \A k \in group : res[k].status = "NONE"
        /\ \A k \in Keys \ group : res'[k] = res[k]
        /\ UNCHANGED <<mode, run, receipts, observed, lease>>
        /\ ~account.blocked /\ account'.blocked = account.blocked
    BY NewRows DEF ReservesGroup
  <1>2. \A k \in group : /\ res'[k].status = "RESERVED" /\ ~res'[k].stop
                         /\ res'[k].consumed = Zero
                         /\ res'[k].reserved = grants[k] /\ res'[k].granted = grants[k]
                         /\ grants[k] \in [Dims -> Nat]
    BY NewRows DEF ReservesGroup
  <1>3. BudgetTypeOK'
    <2>1. res' \in [Keys -> Rows]
      <3>1. res' = [k \in Keys |-> res'[k]]
        BY DEF ReservesGroup, Reserve
      <3>2. \A k \in Keys : res'[k] \in Rows
        BY <1>1, NewRows DEF BudgetKept, BudgetTypeOK
      <3>. QED
        BY <3>1, <3>2
    <2>2. account' \in [consumed : [Dims -> Nat], reserved : [Dims -> Nat], blocked : BOOLEAN]
      BY NewRows
    <2>. QED
      BY <1>1, <2>1, <2>2 DEF BudgetKept, BudgetTypeOK
  <1>4. ReceiptsKept'
    BY <1>1 DEF BudgetKept, ReceiptsKept
  <1>5. ASSUME NEW k \in Keys
        PROVE  RowKept(k)'
    <2>1. CASE k \in group
      BY <1>2, <2>1 DEF RowKept, Zero, Live
    <2>2. CASE k \notin group
      <3>1. RowKept(k) /\ res'[k] = res[k]
        BY <1>1, <2>2 DEF BudgetKept
      <3>. QED
        BY <1>1, <3>1 DEF RowKept
    <2>. QED
      BY <2>1, <2>2
  <1>6. ASSUME NEW r \in Recorders
        PROVE  RecorderKept(r)'
    <2>1. CASE rec'[r] = rec[r]
      <3>1. \A k \in Keys : res[k].status # "NONE" => res'[k] = res[k]
        BY <1>1
      <3>. QED
        BY <2>1, <3>1, RecordersFollow
    <2>2. CASE rec'[r].pc = "prepared" /\ rec'[r].key \in group
      BY <1>1, <1>2, <2>2 DEF RecorderKept
    <2>. QED
      BY <2>1, <2>2
  <1>7. OnePrimary'
    <2>1. CASE group \cap Attempts = {}
      <3>1. \A k \in Attempts : res'[k] = res[k]
        BY <1>1, <2>1, KeysAreFinite
      <3>. QED
        BY <3>1 DEF BudgetKept, OnePrimary
    <2>2. CASE group = {run} /\ ~PrimaryPending
      <3>1. \A k \in Attempts : k # run => res'[k] = res[k]
        BY <1>1, <2>2, KeysAreFinite
      <3>2. \A k \in Attempts : ~(res[k].status \in Live /\ ~res[k].stop)
        BY <2>2 DEF PrimaryPending
      <3>. QED
        BY <3>1, <3>2 DEF OnePrimary
    <2>. QED
      BY <2>1, <2>2 DEF ReservesGroup
  <1>8. ASSUME NEW k \in Keys, NEW d \in Dims
        PROVE  UsageKept(k, d)'
    <2>1. UsageKeys(k, d)' = UsageKeys(k, d)
      BY <1>1 DEF UsageKeys
    <2>2. CASE k \notin group
      <3>1. UsageKept(k, d) /\ res'[k] = res[k]
        BY <1>1, <2>2 DEF BudgetKept
      <3>. QED
        BY <1>1, <2>1, <3>1, UsageSame
    <2>3. CASE k \in group
      <3>1. UsageKeys(k, d) = {}
        <4>1. \A x \in ReceiptKeys : receipts[k][x] = NoReceipt
          BY <1>1, <2>3 DEF BudgetKept, RowKept
        <4>. QED
          BY <4>1 DEF UsageKeys, NoReceipt
      <3>2. res'[k].consumed[d] = 0
        BY <1>2, <2>3 DEF Zero
      <3>3. Total([x \in UsageKeys(k, d)' |-> Reading(k, d, x)'], UsageKeys(k, d)') = 0
        BY <2>1, <3>1, TotalZero
      <3>. QED
        BY <2>1, <3>1, <3>2, <3>3 DEF UsageKept
    <2>. QED
      BY <2>2, <2>3
  <1>. QED
    BY <1>3, <1>4, <1>5, <1>6, <1>7, <1>8, NewRowsBalance DEF BudgetKept

\* Steps of a recorder on its way to the gate that touch no row.
LEMMA RecorderMoves ==
  ASSUME BudgetKept, UNCHANGED <<mode, account, res, receipts, observed, lease>>,
         run' \in Nat, rec' \in [Recorders -> RecorderStates],
         \A r \in Recorders :
           \/ rec'[r] = rec[r]
           \/ rec'[r].pc = "dead"
           \/ rec'[r].pc = "ended" /\ rec[r].pc = "running" /\ rec'[r].key = rec[r].key
           \/ /\ rec'[r].pc = "prepared" /\ rec'[r].key \in Keys
              /\ res[rec'[r].key].status # "NONE"
  PROVE  BudgetKept'
  <1>1. BudgetTypeOK'
    BY DEF BudgetKept, BudgetTypeOK
  <1>2. ASSUME NEW r \in Recorders
        PROVE  RecorderKept(r)'
    <2>1. RecorderKept(r)
      BY DEF BudgetKept
    <2>. QED
      BY <2>1 DEF RecorderKept
  <1>3. \A k \in Keys : RowKept(k)'
    BY DEF BudgetKept, RowKept
  <1>4. OnePrimary'
    BY DEF BudgetKept, OnePrimary
  <1>5. /\ LedgerBalances' /\ NoSilentOverrun' /\ ReceiptsKept'
        /\ ~account'.blocked => \A k \in Keys, d \in Dims : UsageKept(k, d)'
    BY <1>1, AmountsUntouched
  <1>. QED
    BY <1>1, <1>2, <1>3, <1>4, <1>5 DEF BudgetKept

\* The primary execution takes what is left, or finds its reservation.
LEMMA ReservePrimaryKeeps ==
  ASSUME BudgetKept, NEW r \in Recorders, ReservePrimary(r)
  PROVE  BudgetKept'
  <1>. DEFINE new == [pc |-> "prepared", key |-> run, attempt |-> run, inv |-> Nobody]
  <1>1. /\ run \in Attempts /\ run \in Keys
        /\ rec' = [rec EXCEPT ![r] = new]
        /\ UNCHANGED <<mode, run, receipts, observed, lease>>
    BY KeysAreFinite DEF ReservePrimary
  <1>2. /\ rec' \in [Recorders -> RecorderStates]
        /\ rec'[r].pc = "prepared" /\ rec'[r].key = run
        /\ \A q \in Recorders \ {r} : rec'[q] = rec[q]
    <2>1. new \in RecorderStates
      BY <1>1 DEF RecorderStates
    <2>2. rec \in [Recorders -> RecorderStates]
      BY DEF BudgetKept, BudgetTypeOK
    <2>3. new.pc = "prepared" /\ new.key = run
      OBVIOUS
    <2>. HIDE DEF new
    <2>. QED
      BY <1>1, <2>1, <2>2, <2>3
  <1>3. CASE res[run].status = "NONE"
    <2>. DEFINE grants == [k \in {run} |-> [d \in Dims |-> Remaining(d)]]
    <2>1. /\ MayReservePrimary
          /\ \A d \in Dims : Remaining(d) > 0
          /\ Reserve(grants, Nobody)
      BY <1>3 DEF ReservePrimary
    <2>2. \A d \in Dims : Remaining(d) \in Nat
      BY <2>1, AmountsAreNumbers DEF Remaining, BudgetKept
    <2>3. \A d \in Dims : Total([k \in {run} |-> grants[k][d]], {run}) = Remaining(d)
      <3>1. ASSUME NEW d \in Dims
            PROVE  Total([k \in {run} |-> grants[k][d]], {run}) = Remaining(d)
        <4>1. [k \in {run} |-> grants[k][d]][run] = Remaining(d)
          OBVIOUS
        <4>2. [k \in {run} |-> grants[k][d]][run] \in Nat
          BY <2>2, <4>1
        <4>3. Total([k \in {run} |-> grants[k][d]], {run})
                = [k \in {run} |-> grants[k][d]][run]
          BY <4>2, TotalOne
        <4>. QED
          BY <4>1, <4>3
      <3>. QED
        BY <3>1
    <2>4. grants \in [{run} -> [Dims -> Nat]]
      BY <2>2
    <2>. HIDE DEF grants
    <2>5. ReservesGroup({run}, grants, Nobody)
      <3>1. \A d \in Dims : Total([k \in {run} |-> grants[k][d]], {run}) <= Remaining(d)
        BY <2>2, <2>3
      <3>. QED
        BY <1>1, <1>3, <2>1, <2>4, <3>1 DEF ReservesGroup, MayReservePrimary
    <2>. QED
      BY <1>2, <2>5, ReservesKeeps
  <1>4. CASE res[run].status # "NONE"
    <2>1. UNCHANGED <<res, account>>
      BY <1>4 DEF ReservePrimary
    <2>2. run' \in Nat
      BY <1>1 DEF BudgetKept, BudgetTypeOK
    <2>. QED
      BY <1>1, <1>2, <1>4, <2>1, <2>2, RecorderMoves
  <1>. QED
    BY <1>3, <1>4

\* A group of children, or one primary, is reserved whole.
LEMMA ReserveGroupKeeps ==
  ASSUME BudgetKept, ReserveGroup
  PROVE  BudgetKept'
  <1>1. PICK group \in SUBSET Keys \ {{}}, parent \in Keys \cup {Nobody} :
          \E grants \in [group -> Grants] :
            /\ \A k \in group : res[k].status = "NONE" /\ k # parent
            /\ IF parent = Nobody
               THEN group = {run} /\ MayReservePrimary
               ELSE /\ group \subseteq Children /\ ~account.blocked
                    /\ RunningParent(parent, run)
            /\ \A d \in Dims :
                 Total([k \in group |-> grants[k][d]], group) <= Remaining(d)
            /\ Reserve(grants, parent)
    BY DEF ReserveGroup
  <1>2. PICK grants \in [group -> Grants] :
            /\ \A k \in group : res[k].status = "NONE" /\ k # parent
            /\ IF parent = Nobody
               THEN group = {run} /\ MayReservePrimary
               ELSE /\ group \subseteq Children /\ ~account.blocked
                    /\ RunningParent(parent, run)
            /\ \A d \in Dims :
                 Total([k \in group |-> grants[k][d]], group) <= Remaining(d)
            /\ Reserve(grants, parent)
    BY <1>1
  <1>3. grants \in [group -> [Dims -> Nat]]
    BY BudgetAssumption
  <1>4. UNCHANGED <<mode, run, receipts, observed, lease, rec>> /\ run \in Attempts
    BY DEF ReserveGroup
  <1>5. /\ ~account.blocked
        /\ group \cap Attempts = {} \/ (group = {run} /\ ~PrimaryPending)
    BY <1>2, KeysAreFinite DEF MayReservePrimary
  <1>6. ReservesGroup(group, grants, parent)
    BY <1>2, <1>3, <1>4, <1>5 DEF ReservesGroup
  <1>7. rec' \in [Recorders -> RecorderStates]
    BY <1>4 DEF BudgetKept, BudgetTypeOK
  <1>. QED
    BY <1>4, <1>6, <1>7, ReservesKeeps

\* The next attempt is claimed, and the steps of a recorder outside the gate.
LEMMA QuietStepsKeep ==
  ASSUME BudgetKept,
         \/ NextAttempt
         \/ \E r \in Recorders : PrepareChild(r) \/ GiveUpStart(r) \/ EndExecution(r)
  PROVE  BudgetKept'
  <1>0. /\ rec \in [Recorders -> RecorderStates] /\ run \in Nat
    BY DEF BudgetKept, BudgetTypeOK
  <1>1. CASE NextAttempt
    BY <1>0, <1>1, RecorderMoves DEF NextAttempt
  <1>2. ASSUME NEW r \in Recorders, GiveUpStart(r) \/ EndExecution(r)
        PROVE  BudgetKept'
    <2>1. DeadRecorder \in RecorderStates /\ [rec[r] EXCEPT !.pc = "ended"] \in RecorderStates
      BY <1>0 DEF DeadRecorder, RecorderStates
    <2>2. /\ rec' \in [Recorders -> RecorderStates]
          /\ \A q \in Recorders \ {r} : rec'[q] = rec[q]
          /\ \/ rec'[r].pc = "dead"
             \/ rec'[r].pc = "ended" /\ rec[r].pc = "running" /\ rec'[r].key = rec[r].key
      <3>1. CASE GiveUpStart(r)
        BY <1>0, <2>1, <3>1 DEF GiveUpStart, DeadRecorder
      <3>2. CASE EndExecution(r)
        <4>1. rec[r] \in RecorderStates /\ rec' = [rec EXCEPT ![r] = [rec[r] EXCEPT !.pc = "ended"]]
          BY <1>0, <3>2 DEF EndExecution
        <4>2. rec'[r] = [rec[r] EXCEPT !.pc = "ended"]
          BY <1>0, <4>1
        <4>3. rec'[r].pc = "ended" /\ rec'[r].key = rec[r].key
          BY <4>1, <4>2 DEF RecorderStates
        <4>. QED
          BY <1>0, <2>1, <3>2, <4>1, <4>3 DEF EndExecution
      <3>. QED
        BY <1>2, <3>1, <3>2
    <2>3. UNCHANGED <<mode, run, account, res, receipts, observed, lease>>
      BY <1>2 DEF GiveUpStart, EndExecution
    <2>. QED
      BY <1>0, <2>2, <2>3, RecorderMoves
  <1>3. ASSUME NEW r \in Recorders, PrepareChild(r)
        PROVE  BudgetKept'
    <2>1. PICK k \in Children :
            /\ res[k].status = "RESERVED" /\ run \in Attempts
            /\ rec' = [rec EXCEPT ![r] =
                 [pc |-> "prepared", key |-> k, attempt |-> run, inv |-> Nobody]]
      BY <1>3 DEF PrepareChild
    <2>. DEFINE new == [pc |-> "prepared", key |-> k, attempt |-> run, inv |-> Nobody]
    <2>2. k \in Keys
      BY KeysAreFinite
    <2>3. new \in RecorderStates /\ new.pc = "prepared" /\ new.key = k
      BY <2>1, <2>2 DEF RecorderStates
    <2>4. /\ rec' = [rec EXCEPT ![r] = new]
          /\ UNCHANGED <<mode, run, account, res, receipts, observed, lease>>
      BY <1>3, <2>1 DEF PrepareChild
    <2>. HIDE DEF new
    <2>5. /\ rec' \in [Recorders -> RecorderStates]
          /\ \A q \in Recorders \ {r} : rec'[q] = rec[q]
          /\ rec'[r].pc = "prepared" /\ rec'[r].key = k
      BY <1>0, <2>3, <2>4
    <2>. QED
      BY <1>0, <2>1, <2>2, <2>4, <2>5, RecorderMoves
  <1>. QED
    BY <1>1, <1>2, <1>3

-----------------------------------------------------------------------------
(* The start gate.                                                         *)

\* A recorder binds its reservation, or starts it.
LEMMA GateKeeps ==
  ASSUME BudgetKept, NEW r \in Recorders, NEW k \in Keys, k = rec[r].key,
         UNCHANGED <<mode, run, account, receipts, observed, lease>>,
         res' \in [Keys -> Rows], rec' \in [Recorders -> RecorderStates],
         \A j \in Keys \ {k} : res'[j] = res[j],
         \A q \in Recorders \ {r} : rec'[q] = rec[q],
         res[k].status = "RESERVED",
         /\ res'[k].consumed = res[k].consumed /\ res'[k].reserved = res[k].reserved
         /\ res'[k].granted = res[k].granted /\ res'[k].stop = res[k].stop,
         res[k].inv # Nobody => res'[k].owner = res[k].owner /\ res'[k].inv = res[k].inv,
         \/ /\ res'[k].status = "RESERVED"
            /\ res'[k].owner = r /\ res'[k].inv # Nobody
            /\ rec'[r].pc = "bound" /\ rec'[r].key = k
         \/ /\ res'[k].status = "START_INTENT"
            /\ res'[k].owner = r /\ res'[k].inv # Nobody
            /\ \/ rec'[r].pc = "dead"
               \/ rec'[r].pc = "running" /\ rec'[r].key = k
  PROVE  BudgetKept'
  <1>1. BudgetTypeOK'
    BY DEF BudgetKept, BudgetTypeOK
  <1>2. /\ RowKept(k) /\ ~res[k].stop
    BY DEF BudgetKept, RowKept
  <1>3. ASSUME NEW j \in Keys
        PROVE  RowKept(j)'
    <2>1. RowKept(j)
      BY DEF BudgetKept
    <2>2. CASE j = k
      BY <1>2, <2>2 DEF RowKept, Live
    <2>3. CASE j # k
      BY <2>1, <2>3 DEF RowKept
    <2>. QED
      BY <2>2, <2>3
  <1>4. ASSUME NEW q \in Recorders
        PROVE  RecorderKept(q)'
    <2>1. RecorderKept(q)
      BY DEF BudgetKept
    <2>2. CASE q = r
      BY <1>2, <2>2 DEF RecorderKept
    <2>3. CASE q # r
      <3>1. rec'[q] = rec[q]
        BY <2>3
      <3>2. CASE rec[q].key = k
        BY <2>1, <3>1, <3>2 DEF RecorderKept
      <3>3. CASE rec[q].key # k
        BY <2>1, <3>1, <3>3 DEF RecorderKept
      <3>. QED
        BY <3>2, <3>3
    <2>. QED
      BY <2>2, <2>3
  <1>5. OnePrimary'
    <2>1. \A j \in Attempts : res'[j].status \in Live /\ ~res'[j].stop
                                => res[j].status \in Live /\ ~res[j].stop
      BY <1>2, KeysAreFinite DEF Live
    <2>. QED
      BY <2>1 DEF BudgetKept, OnePrimary
  <1>6. /\ LedgerBalances' /\ NoSilentOverrun' /\ ReceiptsKept'
        /\ ~account'.blocked => \A j \in Keys, d \in Dims : UsageKept(j, d)'
    <2>1. \A j \in Keys : /\ res'[j].consumed = res[j].consumed
                          /\ res'[j].reserved = res[j].reserved
      OBVIOUS
    <2>. QED
      BY <1>1, <2>1, AmountsUntouched
  <1>. QED
    BY <1>1, <1>3, <1>4, <1>5, <1>6 DEF BudgetKept

\* Binding an invocation to an unbound reservation.
LEMMA BindInvocationKeeps ==
  ASSUME BudgetKept, NEW r \in Recorders, BindInvocation(r)
  PROVE  BudgetKept'
  <1>. DEFINE k == rec[r].key
  <1>1. /\ rec \in [Recorders -> RecorderStates] /\ res \in [Keys -> Rows]
        /\ RecorderKept(r)
    BY DEF BudgetKept, BudgetTypeOK
  <1>2. /\ rec[r].pc = "prepared" /\ res[k].inv = Nobody /\ res[k].status = "RESERVED"
        /\ UNCHANGED <<mode, run, account, receipts, observed, lease>>
    BY DEF BindInvocation
  <1>3. k \in Keys
    BY <1>1, <1>2 DEF RecorderKept
  <1>4. PICK i \in Invocations :
          /\ res' = [res EXCEPT ![k].inv = i, ![k].owner = r]
          /\ rec' = [rec EXCEPT ![r].pc = "bound", ![r].inv = i]
    BY DEF BindInvocation
  <1>5. i # Nobody
    BY BudgetAssumption
  <1>6. /\ res' \in [Keys -> Rows]
        /\ \A j \in Keys \ {k} : res'[j] = res[j]
        /\ res'[k].consumed = res[k].consumed /\ res'[k].reserved = res[k].reserved
        /\ res'[k].granted = res[k].granted /\ res'[k].stop = res[k].stop
        /\ res'[k].status = "RESERVED" /\ res'[k].owner = r /\ res'[k].inv = i
    <2>. DEFINE row == [res[k] EXCEPT !.inv = i, !.owner = r]
    <2>1. res[k] \in Rows
      BY <1>1, <1>3
    <2>2. /\ row \in Rows
          /\ row.consumed = res[k].consumed /\ row.reserved = res[k].reserved
          /\ row.granted = res[k].granted /\ row.stop = res[k].stop
          /\ row.status = res[k].status /\ row.owner = r /\ row.inv = i
      BY <2>1 DEF Rows
    <2>3. /\ res'[k] = row
          /\ \A j \in Keys \ {k} : res'[j] = res[j]
          /\ res' = [j \in Keys |-> res'[j]]
      BY <1>1, <1>3, <1>4
    <2>. HIDE DEF row
    <2>. QED
      BY <1>1, <1>2, <1>3, <2>2, <2>3
  <1>7. /\ rec' \in [Recorders -> RecorderStates]
        /\ \A q \in Recorders \ {r} : rec'[q] = rec[q]
        /\ rec'[r].pc = "bound" /\ rec'[r].key = k
    BY <1>1, <1>4 DEF RecorderStates
  <1>. HIDE DEF k
  <1>8. k = rec[r].key
    BY DEF k
  <1>. QED
    BY <1>2, <1>3, <1>5, <1>6, <1>7, <1>8, GateKeeps

\* Writing the start intent, whether or not the recorder hears of it.
LEMMA StartExecutionKeeps ==
  ASSUME BudgetKept, NEW r \in Recorders, StartExecution(r)
  PROVE  BudgetKept'
  <1>. DEFINE k == rec[r].key
  <1>1. /\ rec \in [Recorders -> RecorderStates] /\ res \in [Keys -> Rows]
        /\ RecorderKept(r)
    BY DEF BudgetKept, BudgetTypeOK
  <1>2. /\ rec[r].pc = "bound" /\ res[k].status = "RESERVED" /\ res[k].owner = r
        /\ res' = [res EXCEPT ![k].status = "START_INTENT"]
        /\ UNCHANGED <<mode, run, account, receipts, observed, lease>>
    BY DEF StartExecution
  <1>3. k \in Keys /\ res[k].inv # Nobody
    BY <1>1, <1>2 DEF RecorderKept
  <1>4. PICK after \in {DeadRecorder, [rec[r] EXCEPT !.pc = "running"]} :
          rec' = [rec EXCEPT ![r] = after]
    BY DEF StartExecution
  <1>5. /\ res' \in [Keys -> Rows]
        /\ \A j \in Keys \ {k} : res'[j] = res[j]
        /\ res'[k].consumed = res[k].consumed /\ res'[k].reserved = res[k].reserved
        /\ res'[k].granted = res[k].granted /\ res'[k].stop = res[k].stop
        /\ res'[k].status = "START_INTENT" /\ res'[k].owner = r
        /\ res'[k].inv = res[k].inv
    BY <1>1, <1>2, <1>3 DEF Rows, Live
  <1>6. /\ after \in RecorderStates
        /\ after.pc = "dead" \/ (after.pc = "running" /\ after.key = k)
    BY <1>1 DEF RecorderStates, DeadRecorder
  <1>7. /\ rec' \in [Recorders -> RecorderStates]
        /\ \A q \in Recorders \ {r} : rec'[q] = rec[q]
        /\ rec'[r].pc = "dead" \/ (rec'[r].pc = "running" /\ rec'[r].key = k)
    BY <1>1, <1>4, <1>6
  <1>. HIDE DEF k
  <1>8. k = rec[r].key
    BY DEF k
  <1>. QED
    BY <1>2, <1>3, <1>5, <1>7, <1>8, GateKeeps, SMTT(60)

-----------------------------------------------------------------------------
(* Reconciliation.                                                         *)

\* Leases on reservations change no amount; only existing rows are leased.
LEMMA LeasesKeep ==
  ASSUME BudgetKept,
         \/ \E w \in Reconcilers, k \in Keys : ClaimReconciliation(w, k)
         \/ \E k \in Keys : ExpireReconciliation(k)
  PROVE  BudgetKept'
  <1>1. /\ UNCHANGED <<mode, run, account, res, receipts, observed, rec>>
        /\ lease' \in [Keys -> Reconcilers \cup {Nobody}]
        /\ \A k \in Keys : res[k].status = "NONE" => lease'[k] = lease[k] \/ lease'[k] = Nobody
    BY ZenonT(60) DEF ClaimReconciliation, ExpireReconciliation, BudgetKept, BudgetTypeOK
  <1>2. BudgetTypeOK'
    BY <1>1 DEF BudgetKept, BudgetTypeOK
  <1>3. \A k \in Keys : RowKept(k)'
    BY <1>1 DEF BudgetKept, RowKept
  <1>4. \A r \in Recorders : RecorderKept(r)'
    BY <1>1 DEF BudgetKept, RecorderKept
  <1>5. OnePrimary'
    BY <1>1 DEF BudgetKept, OnePrimary
  <1>6. /\ LedgerBalances' /\ NoSilentOverrun' /\ ReceiptsKept'
        /\ ~account'.blocked => \A k \in Keys, d \in Dims : UsageKept(k, d)'
    BY <1>1, <1>2, AmountsUntouched
  <1>. QED
    BY <1>2, <1>3, <1>4, <1>5, <1>6 DEF BudgetKept

\* Blocking the account leaves its amounts; the receipt that goes with it need
\* only be a receipt of an existing row.
LEMMA BlockKeeps ==
  ASSUME BudgetKept, UNCHANGED <<mode, run, res, lease, rec>>,
         account' = [account EXCEPT !.blocked = TRUE],
         observed' \in [Keys -> Results \cup {Nobody}], ReceiptsKept',
         \A k \in Keys : res[k].status = "NONE" => receipts'[k] = receipts[k]
  PROVE  BudgetKept'
  <1>1. /\ account'.blocked /\ account'.consumed = account.consumed
        /\ account'.reserved = account.reserved
        /\ account' \in [consumed : [Dims -> Nat], reserved : [Dims -> Nat], blocked : BOOLEAN]
    BY DEF BudgetKept, BudgetTypeOK
  <1>2. BudgetTypeOK'
    BY <1>1 DEF BudgetKept, BudgetTypeOK
  <1>3. \A k \in Keys : RowKept(k)'
    BY <1>1 DEF BudgetKept, RowKept
  <1>4. \A r \in Recorders : RecorderKept(r)'
    BY DEF BudgetKept, RecorderKept
  <1>5. OnePrimary'
    BY DEF BudgetKept, OnePrimary
  <1>6. LedgerBalances'
    BY <1>1 DEF BudgetKept, LedgerBalances
  <1>. QED
    BY <1>1, <1>2, <1>3, <1>4, <1>5, <1>6 DEF BudgetKept, NoSilentOverrun

\* A receipt under a key that was free.
LEMMA ReceiptIsWritten ==
  ASSUME BudgetKept, NEW k \in Keys, NEW x \in ReceiptKeys, NEW payload \in ReceiptRows,
         receipts' = [receipts EXCEPT ![k][x] = payload]
  PROVE  /\ ReceiptsKept'
         /\ \A j \in Keys \ {k} : receipts'[j] = receipts[j]
         /\ \A y \in ReceiptKeys \ {x} : receipts'[k][y] = receipts[k][y]
         /\ receipts'[k][x] = payload
  <1>1. /\ receipts \in [Keys -> [ReceiptKeys -> ReceiptRows]]
        /\ \A j \in Keys : IsFiniteSet({y \in ReceiptKeys : receipts[j][y] # NoReceipt})
    BY DEF BudgetKept, ReceiptsKept
  <1>2. /\ receipts' \in [Keys -> [ReceiptKeys -> ReceiptRows]]
        /\ \A j \in Keys \ {k} : receipts'[j] = receipts[j]
        /\ \A y \in ReceiptKeys \ {x} : receipts'[k][y] = receipts[k][y]
        /\ receipts'[k][x] = payload
    BY <1>1
  <1>3. ASSUME NEW j \in Keys
        PROVE  IsFiniteSet({y \in ReceiptKeys : receipts'[j][y] # NoReceipt})
    <2>. DEFINE old == {y \in ReceiptKeys : receipts[j][y] # NoReceipt}
                new == {y \in ReceiptKeys : receipts'[j][y] # NoReceipt}
    <2>1. new \subseteq old \cup {x}
      BY <1>2
    <2>2. IsFiniteSet(old)
      BY <1>1
    <2>. HIDE DEF old, new
    <2>3. IsFiniteSet(old \cup {x})
      BY <2>2, FS_AddElement
    <2>4. IsFiniteSet(new)
      BY <2>1, <2>3, FS_Subset
    <2>. QED
      BY <2>4 DEF new
  <1>. QED
    BY <1>2, <1>3 DEF ReceiptsKept

\* Who holds the lease of a reservation holds it on an existing row.
LEMMA LeasedRowExists ==
  ASSUME BudgetKept, NEW k \in Keys, lease[k] \in Reconcilers
  PROVE  res[k].status # "NONE"
  BY BudgetAssumption DEF BudgetKept, RowKept

\* What a receipt does to the reservation it is about, when the account moves
\* by as much.
RowEffect(k) ==
  /\ UNCHANGED <<mode, run, observed, lease, rec>>
  /\ res' \in [Keys -> Rows] /\ \A j \in Keys \ {k} : res'[j] = res[j]
  /\ account' \in [consumed : [Dims -> Nat], reserved : [Dims -> Nat], blocked : BOOLEAN]
  /\ Moves(k)
  /\ account.blocked => account'.blocked
  /\ res[k].status # "NONE" /\ res'[k].status # "NONE"
  /\ res'[k].owner = res[k].owner /\ res'[k].inv = res[k].inv
  /\ res[k].status \in {"START_INTENT", "SETTLED"} =>
       res'[k].status \in {"START_INTENT", "SETTLED"}
  /\ res'[k].stop /\ ~res[k].stop => Stopped(k)
  /\ res'[k].status \in Live /\ ~res'[k].stop => res[k].status \in Live /\ ~res[k].stop

\* An operation that writes a receipt and its reservation keeps the rest.
LEMMA RowEffectKeeps ==
  ASSUME BudgetKept, NEW k \in Keys, NEW x \in ReceiptKeys, NEW payload \in ReceiptRows,
         receipts' = [receipts EXCEPT ![k][x] = payload],
         RowEffect(k), RowKept(k)', NoSilentOverrun',
         ~account'.blocked => \A d \in Dims : UsageKept(k, d)'
  PROVE  BudgetKept'
  <1>1. /\ UNCHANGED <<mode, run, observed, lease, rec>>
        /\ \A j \in Keys \ {k} : res'[j] = res[j] /\ receipts'[j] = receipts[j]
        /\ account.blocked => account'.blocked
    BY ReceiptIsWritten DEF RowEffect
  <1>2. BudgetTypeOK'
    BY DEF BudgetKept, BudgetTypeOK, RowEffect
  <1>3. ASSUME NEW j \in Keys
        PROVE  RowKept(j)'
    <2>1. CASE j # k
      <3>1. RowKept(j) /\ res'[j] = res[j] /\ receipts'[j] = receipts[j]
        BY <1>1, <2>1 DEF BudgetKept
      <3>. QED
        BY <1>1, <3>1 DEF RowKept
    <2>. QED
      BY <2>1
  <1>4. ASSUME NEW r \in Recorders
        PROVE  RecorderKept(r)'
    <2>1. RecorderKept(r) /\ rec'[r] = rec[r]
      BY <1>1 DEF BudgetKept
    <2>2. CASE rec[r].key = k
      BY <2>1, <2>2 DEF RecorderKept, RowEffect, Stopped
    <2>3. CASE rec[r].key # k
      BY <1>1, <2>1, <2>3 DEF RecorderKept
    <2>. QED
      BY <2>2, <2>3
  <1>5. OnePrimary'
    <2>1. \A j \in Attempts : res'[j].status \in Live /\ ~res'[j].stop
                                => res[j].status \in Live /\ ~res[j].stop
      BY <1>1, KeysAreFinite DEF RowEffect
    <2>. QED
      BY <2>1 DEF BudgetKept, OnePrimary
  <1>6. LedgerBalances'
    <2>1. LedgerBalances /\ BudgetTypeOK /\ Moves(k)
      BY DEF BudgetKept, RowEffect
    <2>. QED
      BY <1>2, <2>1, BalancesKept
  <1>7. ASSUME ~account'.blocked, NEW j \in Keys, NEW d \in Dims
        PROVE  UsageKept(j, d)'
    <2>1. CASE j # k
      <3>1. /\ UsageKept(j, d) /\ mode' = mode
            /\ res'[j] = res[j] /\ receipts'[j] = receipts[j]
        BY <1>1, <1>7, <2>1 DEF BudgetKept
      <3>2. UsageKeys(j, d)' = UsageKeys(j, d)
        BY <3>1 DEF UsageKeys
      <3>. QED
        BY <3>1, <3>2, UsageSame
    <2>. QED
      BY <1>7, <2>1
  <1>8. ReceiptsKept'
    BY ReceiptIsWritten
  <1>. QED
    BY <1>2, <1>3, <1>4, <1>5, <1>6, <1>7, <1>8 DEF BudgetKept

\* A receipt that reports no usage leaves what the reservation consumed alone.
LEMMA UsageUntouched ==
  ASSUME BudgetKept, NEW k \in Keys, NEW x \in ReceiptKeys, NEW payload \in ReceiptRows,
         receipts[k][x] = NoReceipt, payload.kind # "USAGE",
         receipts' = [receipts EXCEPT ![k][x] = payload], mode' = mode,
         res'[k].consumed = res[k].consumed, account.blocked => account'.blocked
  PROVE  ~account'.blocked => \A d \in Dims : UsageKept(k, d)'
  <1>. SUFFICES ASSUME ~account'.blocked, NEW d \in Dims
                PROVE  UsageKept(k, d)'
    OBVIOUS
  <1>1. UsageKept(k, d)
    BY DEF BudgetKept
  <1>2. UsageKeys(k, d)' = UsageKeys(k, d) /\ x \notin UsageKeys(k, d)
    BY ReceiptIsWritten DEF UsageKeys, NoReceipt
  <1>3. \A y \in UsageKeys(k, d) : receipts'[k][y] = receipts[k][y]
    BY <1>2, ReceiptIsWritten DEF UsageKeys
  <1>. QED
    BY <1>1, <1>2, <1>3, UsageSame

\* The rows of the account table.
Accounts == [consumed : [Dims -> Nat], reserved : [Dims -> Nat], blocked : BOOLEAN]

\* A row is written as it is.
LEMMA PutWrites ==
  ASSUME BudgetKept, NEW k \in Keys, NEW row \in Rows, NEW acct \in Accounts,
         Put(k, row, acct)
  PROVE  /\ res' \in [Keys -> Rows] /\ \A j \in Keys \ {k} : res'[j] = res[j]
         /\ res'[k] = row
         /\ account' = acct
  BY DEF Put, BudgetKept, BudgetTypeOK

\* What a released row held goes back to the account.
LEMMA ReleaseReturns ==
  ASSUME BudgetKept, NEW k \in Keys, NEW row \in Rows, NEW acct \in Accounts,
         NEW to \in {"SETTLED", "RELEASED"}, Release(k, row, acct, to),
         \A d \in Dims : row.reserved[d] <= acct.reserved[d]
  PROVE  /\ res' \in [Keys -> Rows] /\ \A j \in Keys \ {k} : res'[j] = res[j]
         /\ res'[k].status = to /\ res'[k].reserved = Zero
         /\ res'[k].consumed = row.consumed /\ res'[k].granted = row.granted
         /\ res'[k].stop = row.stop /\ res'[k].final = row.final
         /\ res'[k].owner = row.owner /\ res'[k].inv = row.inv
         /\ account' \in Accounts
         /\ account'.consumed = acct.consumed /\ account'.blocked = acct.blocked
         /\ \A d \in Dims : account'.reserved[d] = acct.reserved[d] - row.reserved[d]
  <1>. DEFINE new == [row EXCEPT !.reserved = Zero, !.status = to]
              rest == [d \in Dims |-> acct.reserved[d] - row.reserved[d]]
              left == [acct EXCEPT !.reserved = rest]
  <1>1. row.reserved \in [Dims -> Nat] /\ acct.reserved \in [Dims -> Nat]
    BY DEF Rows, Accounts
  <1>2. rest \in [Dims -> Nat]
    BY <1>1
  <1>3. /\ left \in Accounts /\ left.reserved = rest
        /\ left.consumed = acct.consumed /\ left.blocked = acct.blocked
    <2>. HIDE DEF rest
    <2>. QED
      BY <1>2 DEF Accounts
  <1>4. Zero \in [Dims -> Nat]
    BY DEF Zero
  <1>5. /\ new \in Rows /\ new.status = to /\ new.reserved = Zero
        /\ new.consumed = row.consumed /\ new.granted = row.granted
        /\ new.stop = row.stop /\ new.final = row.final
        /\ new.owner = row.owner /\ new.inv = row.inv
    BY <1>4 DEF Rows
  <1>6. Put(k, new, left)
    BY DEF Release
  <1>. HIDE DEF new, left
  <1>7. /\ res' \in [Keys -> Rows] /\ \A j \in Keys \ {k} : res'[j] = res[j]
        /\ res'[k] = new /\ account' = left
    BY <1>3, <1>5, <1>6, PutWrites
  <1>8. \A d \in Dims : rest[d] = acct.reserved[d] - row.reserved[d]
    OBVIOUS
  <1>. HIDE DEF rest
  <1>. QED
    BY <1>3, <1>5, <1>7, <1>8

\* A receipt under a key that is taken blocks the account, or is the same.
LEMMA TakenReceiptKeeps ==
  ASSUME BudgetKept, UNCHANGED <<mode, run, observed, lease, rec, res, receipts>>,
         account' = [account EXCEPT !.blocked = TRUE]
  PROVE  BudgetKept'
  <1>1. observed' \in [Keys -> Results \cup {Nobody}]
    BY DEF BudgetKept, BudgetTypeOK
  <1>2. ReceiptsKept'
    BY DEF BudgetKept, ReceiptsKept
  <1>. QED
    BY <1>1, <1>2, BlockKeeps

\* A receipt that only blocks the account.
LEMMA BlockingReceiptKeeps ==
  ASSUME BudgetKept, NEW k \in Keys, NEW x \in ReceiptKeys, NEW payload \in ReceiptRows,
         receipts' = [receipts EXCEPT ![k][x] = payload], res[k].status # "NONE",
         UNCHANGED <<mode, run, observed, lease, rec>>, Block
  PROVE  BudgetKept'
  <1>1. observed' \in [Keys -> Results \cup {Nobody}]
    BY DEF BudgetKept, BudgetTypeOK
  <1>2. ReceiptsKept' /\ \A j \in Keys \ {k} : receipts'[j] = receipts[j]
    BY ReceiptIsWritten
  <1>3. \A j \in Keys : res[j].status = "NONE" => receipts'[j] = receipts[j]
    BY <1>2
  <1>. QED
    BY <1>1, <1>2, <1>3, BlockKeeps DEF Block

\* The first raw result stands; another one blocks.
LEMMA RecordObservationKeeps ==
  ASSUME BudgetKept, NEW w \in Reconcilers, NEW k \in Keys, RecordObservation(w, k)
  PROVE  BudgetKept'
  <1>1. UNCHANGED <<mode, run, res, receipts, lease, rec>>
    BY DEF RecordObservation
  <1>2. PICK raw \in Results :
          \/ observed' = [observed EXCEPT ![k] = raw] /\ UNCHANGED account
          \/ account' = [account EXCEPT !.blocked = TRUE] /\ UNCHANGED observed
    BY DEF RecordObservation
  <1>3. CASE observed' = [observed EXCEPT ![k] = raw] /\ UNCHANGED account
    <2>1. BudgetTypeOK'
      BY <1>1, <1>3 DEF BudgetKept, BudgetTypeOK
    <2>2. (\A j \in Keys : RowKept(j)') /\ OnePrimary'
      BY <1>1, <1>3 DEF BudgetKept, RowKept, OnePrimary
    <2>3. \A r \in Recorders : RecorderKept(r)'
      BY <1>1, <1>3 DEF BudgetKept, RecorderKept
    <2>4. /\ LedgerBalances' /\ NoSilentOverrun' /\ ReceiptsKept'
          /\ ~account'.blocked => \A j \in Keys, d \in Dims : UsageKept(j, d)'
      BY <1>1, <1>3, <2>1, AmountsUntouched
    <2>. QED
      BY <2>1, <2>2, <2>3, <2>4 DEF BudgetKept
  <1>4. CASE account' = [account EXCEPT !.blocked = TRUE] /\ UNCHANGED observed
    BY <1>1, <1>4, TakenReceiptKeeps
  <1>. QED
    BY <1>2, <1>3, <1>4

\* Whose lease it is, the reservation exists and has the types of its columns.
LEMMA LeasedRow ==
  ASSUME BudgetKept, NEW w \in Reconcilers, NEW k \in Keys, lease[k] = w
  PROVE  /\ res[k].status # "NONE" /\ res[k] \in Rows /\ account \in Accounts
         /\ RowKept(k)
         /\ \A d \in Dims : res[k].reserved[d] <= account.reserved[d]
  BY LeasedRowExists, AccountHoldsAll DEF BudgetKept, BudgetTypeOK, Accounts

\* Returning what a reservation holds never brings the account over its limit.
LEMMA ReturnsMove ==
  ASSUME BudgetKept, NEW k \in Keys,
         \A j \in Keys \ {k} : res'[j] = res[j],
         res'[k].consumed = res[k].consumed, res'[k].reserved = Zero,
         account'.consumed = account.consumed, account'.blocked = account.blocked,
         \A d \in Dims : account'.reserved[d] = account.reserved[d] - res[k].reserved[d]
  PROVE  Moves(k) /\ NoSilentOverrun'
  <1>1. \A d \in Dims : /\ account.consumed[d] \in Nat /\ account.reserved[d] \in Nat
                        /\ res[k].consumed[d] \in Nat /\ res[k].reserved[d] \in Nat
                        /\ Limit[d] \in Nat
    BY AmountsAreNumbers DEF BudgetKept
  <1>2. Moves(k)
    BY <1>1 DEF Moves, Zero
  <1>3. NoSilentOverrun'
    BY <1>1 DEF BudgetKept, NoSilentOverrun
  <1>. QED
    BY <1>2, <1>3

\* A confirmed stop settles a reservation whose usage is final.
LEMMA ConfirmStoppedKeeps ==
  ASSUME BudgetKept, NEW w \in Reconcilers, NEW k \in Keys, NEW x \in ReceiptKeys,
         ConfirmStopped(w, k, x)
  PROVE  BudgetKept'
  <1>. DEFINE payload == [kind |-> "STOP"]
              row == [res[k] EXCEPT !.stop = TRUE]
  <1>1. /\ UNCHANGED <<mode, run, observed, lease, rec>> /\ lease[k] = w /\ Stopped(k)
    BY DEF ConfirmStopped
  <1>2. /\ res[k].status # "NONE" /\ res[k] \in Rows /\ account \in Accounts
        /\ RowKept(k)
        /\ \A d \in Dims : res[k].reserved[d] <= account.reserved[d]
    BY <1>1, LeasedRow
  <1>3. CASE receipts[k][x] # NoReceipt
    BY <1>1, <1>3, TakenReceiptKeeps DEF ConfirmStopped, WithReceipt
  <1>4. CASE receipts[k][x] = NoReceipt
    <2>1. /\ receipts' = [receipts EXCEPT ![k][x] = payload]
          /\ SettleIfConfirmed(k, row, account)
          /\ res[k].status \in {"START_INTENT", "SETTLED"}
      BY <1>4 DEF ConfirmStopped, WithReceipt
    <2>2. payload \in ReceiptRows /\ payload.kind # "USAGE"
      BY DEF ReceiptRows
    <2>3. /\ row \in Rows /\ row.stop /\ row.final = res[k].final
          /\ row.consumed = res[k].consumed /\ row.reserved = res[k].reserved
          /\ row.granted = res[k].granted /\ row.status = res[k].status
          /\ row.owner = res[k].owner /\ row.inv = res[k].inv
      BY <1>2 DEF Rows
    <2>. HIDE DEF row, payload
    <2>4. CASE res[k].final
      <3>1. Release(k, row, account, "SETTLED")
        BY <2>1, <2>3, <2>4 DEF SettleIfConfirmed
      <3>2. \A d \in Dims : row.reserved[d] <= account.reserved[d]
        BY <1>2, <2>3
      <3>3. /\ res' \in [Keys -> Rows] /\ \A j \in Keys \ {k} : res'[j] = res[j]
            /\ res'[k].status = "SETTLED" /\ res'[k].reserved = Zero
            /\ res'[k].consumed = res[k].consumed
            /\ res'[k].stop /\ res'[k].final
            /\ res'[k].owner = res[k].owner /\ res'[k].inv = res[k].inv
            /\ account' \in Accounts
            /\ account'.consumed = account.consumed /\ account'.blocked = account.blocked
            /\ \A d \in Dims : account'.reserved[d] = account.reserved[d] - res[k].reserved[d]
        <4>1. "SETTLED" \in {"SETTLED", "RELEASED"}
          OBVIOUS
        <4>2. /\ res' \in [Keys -> Rows] /\ \A j \in Keys \ {k} : res'[j] = res[j]
              /\ res'[k].status = "SETTLED" /\ res'[k].reserved = Zero
              /\ res'[k].consumed = row.consumed /\ res'[k].granted = row.granted
              /\ res'[k].stop = row.stop /\ res'[k].final = row.final
              /\ res'[k].owner = row.owner /\ res'[k].inv = row.inv
              /\ account' \in Accounts
              /\ account'.consumed = account.consumed /\ account'.blocked = account.blocked
              /\ \A d \in Dims : account'.reserved[d] = account.reserved[d] - row.reserved[d]
          BY <1>2, <2>3, <3>1, <3>2, <4>1, ReleaseReturns
        <4>. QED
          BY <2>3, <2>4, <4>2
      <3>4. Moves(k) /\ NoSilentOverrun'
        BY <3>3, ReturnsMove
      <3>5. RowEffect(k)
        BY <1>1, <1>2, <2>1, <3>3, <3>4 DEF RowEffect, Accounts, Live
      <3>6. RowKept(k)'
        BY <3>3 DEF RowKept, Live
      <3>7. ~account'.blocked => \A d \in Dims : UsageKept(k, d)'
        BY <1>1, <1>4, <2>1, <2>2, <3>3, UsageUntouched
      <3>. QED
        BY <2>1, <2>2, <3>4, <3>5, <3>6, <3>7, RowEffectKeeps
    <2>5. CASE ~res[k].final
      <3>1. Put(k, row, account)
        BY <2>1, <2>3, <2>5 DEF SettleIfConfirmed
      <3>2. /\ res' \in [Keys -> Rows] /\ \A j \in Keys \ {k} : res'[j] = res[j]
            /\ res'[k] = row /\ account' = account
        BY <1>2, <2>3, <3>1, PutWrites
      <3>3. Moves(k) /\ NoSilentOverrun'
        <4>1. \A d \in Dims : /\ account.consumed[d] \in Nat /\ account.reserved[d] \in Nat
                              /\ res[k].consumed[d] \in Nat /\ res[k].reserved[d] \in Nat
          BY AmountsAreNumbers DEF BudgetKept
        <4>2. Moves(k)
          BY <2>3, <3>2, <4>1 DEF Moves
        <4>3. NoSilentOverrun'
          BY <3>2 DEF BudgetKept, NoSilentOverrun
        <4>. QED
          BY <4>2, <4>3
      <3>4. RowEffect(k)
        BY <1>1, <1>2, <2>1, <2>3, <3>2, <3>3 DEF RowEffect, Accounts, Live
      <3>5. RowKept(k)'
        BY <1>2, <2>1, <2>3, <2>5, <3>2 DEF RowKept, Live
      <3>6. ~account'.blocked => \A d \in Dims : UsageKept(k, d)'
        BY <1>1, <1>4, <2>1, <2>2, <2>3, <3>2, UsageUntouched
      <3>. QED
        BY <2>1, <2>2, <3>3, <3>4, <3>5, <3>6, RowEffectKeeps
    <2>. QED
      BY <2>4, <2>5
  <1>. QED
    BY <1>3, <1>4

\* An execution that never started gives its reservation back.
LEMMA ReleaseUnstartedKeeps ==
  ASSUME BudgetKept, NEW w \in Reconcilers, NEW k \in Keys, NEW x \in ReceiptKeys,
         ReleaseUnstarted(w, k, x)
  PROVE  BudgetKept'
  <1>. DEFINE payload == [kind |-> "UNSTARTED"]
  <1>1. /\ UNCHANGED <<mode, run, observed, lease, rec>> /\ lease[k] = w
    BY DEF ReleaseUnstarted
  <1>2. /\ res[k].status # "NONE" /\ res[k] \in Rows /\ account \in Accounts
        /\ RowKept(k)
        /\ \A d \in Dims : res[k].reserved[d] <= account.reserved[d]
    BY <1>1, LeasedRow
  <1>3. CASE receipts[k][x] # NoReceipt
    BY <1>1, <1>3, TakenReceiptKeeps DEF ReleaseUnstarted, WithReceipt
  <1>4. CASE receipts[k][x] = NoReceipt
    <2>1. /\ receipts' = [receipts EXCEPT ![k][x] = payload]
          /\ Release(k, res[k], account, "RELEASED")
          /\ res[k].status \in {"RESERVED", "RELEASED"}
      BY <1>4 DEF ReleaseUnstarted, WithReceipt
    <2>2. payload \in ReceiptRows /\ payload.kind # "USAGE"
      BY DEF ReceiptRows
    <2>. HIDE DEF payload
    <2>3. /\ res' \in [Keys -> Rows] /\ \A j \in Keys \ {k} : res'[j] = res[j]
          /\ res'[k].status = "RELEASED" /\ res'[k].reserved = Zero
          /\ res'[k].consumed = res[k].consumed
          /\ res'[k].stop = res[k].stop
          /\ res'[k].owner = res[k].owner /\ res'[k].inv = res[k].inv
          /\ account' \in Accounts
          /\ account'.consumed = account.consumed /\ account'.blocked = account.blocked
          /\ \A d \in Dims : account'.reserved[d] = account.reserved[d] - res[k].reserved[d]
      BY <1>2, <2>1, ReleaseReturns
    <2>4. Moves(k) /\ NoSilentOverrun'
      BY <2>3, ReturnsMove
    <2>5. RowEffect(k)
      BY <1>1, <1>2, <2>1, <2>3, <2>4 DEF RowEffect, Accounts, Live
    <2>6. RowKept(k)'
      BY <1>2, <2>1, <2>3 DEF RowKept, Live
    <2>7. ~account'.blocked => \A d \in Dims : UsageKept(k, d)'
      BY <1>1, <1>4, <2>1, <2>2, <2>3, UsageUntouched
    <2>. QED
      BY <2>1, <2>2, <2>4, <2>5, <2>6, <2>7, RowEffectKeeps
  <1>. QED
    BY <1>3, <1>4

\* Usage nobody can verify blocks the account.
LEMMA MarkUnverifiableKeeps ==
  ASSUME BudgetKept, NEW w \in Reconcilers, NEW k \in Keys, NEW x \in ReceiptKeys,
         MarkUnverifiable(w, k, x)
  PROVE  BudgetKept'
  <1>. DEFINE payload == [kind |-> "UNVERIFIABLE"]
  <1>1. UNCHANGED <<mode, run, observed, lease, rec>> /\ lease[k] = w
    BY DEF MarkUnverifiable
  <1>2. res[k].status # "NONE" /\ payload \in ReceiptRows
    BY <1>1, LeasedRow DEF ReceiptRows
  <1>3. CASE receipts[k][x] # NoReceipt
    BY <1>1, <1>3, TakenReceiptKeeps DEF MarkUnverifiable, WithReceipt
  <1>4. CASE receipts[k][x] = NoReceipt
    <2>1. receipts' = [receipts EXCEPT ![k][x] = payload] /\ Block
      BY <1>4 DEF MarkUnverifiable, WithReceipt
    <2>. QED
      BY <1>1, <1>2, <2>1, BlockingReceiptKeeps
  <1>. QED
    BY <1>3, <1>4

-----------------------------------------------------------------------------
(* A usage report.                                                         *)

Deltas(k, p) == [d \in Dims |-> Delta(res[k], p, d)]
Moved(k, p) == [d \in Dims |-> Transfer(res[k].reserved[d], Deltas(k, p)[d])]
Charged(k, p) ==
  [res[k] EXCEPT
     !.consumed = [d \in Dims |-> res[k].consumed[d] + Deltas(k, p)[d]],
     !.reserved = [d \in Dims |-> res[k].reserved[d] - Moved(k, p)[d]],
     !.mark = [d \in Dims |-> IF d \in Given(p) /\ mode = "CUMULATIVE"
                              THEN Max({res[k].mark[d], p.mark}) ELSE res[k].mark[d]],
     !.final = res[k].final \/ (p.final /\ Given(p) = Dims)]
Suspect(k, p) ==
  \E d \in Given(p) : \/ Charged(k, p).consumed[d] > res[k].granted[d]
                      \/ res[k].final /\ Deltas(k, p)[d] > 0
ChargedAccount(k, p) ==
  [consumed |-> [d \in Dims |-> account.consumed[d] + Deltas(k, p)[d]],
   reserved |-> [d \in Dims |-> account.reserved[d] - Moved(k, p)[d]],
   blocked |-> account.blocked \/ Suspect(k, p)]

\* What a report charges is a number, and the reservation covers a part of it.
LEMMA ChargeIsNat ==
  ASSUME BudgetKept, NEW k \in Keys, NEW p \in Reports, NEW d \in Dims
  PROVE  /\ Deltas(k, p)[d] \in Nat /\ Moved(k, p)[d] \in Nat
         /\ Moved(k, p)[d] <= res[k].reserved[d]
         /\ Deltas(k, p)[d] <= res[k].reserved[d] => Moved(k, p)[d] = Deltas(k, p)[d]
         /\ d \notin Given(p) => Deltas(k, p)[d] = 0
         /\ d \in Given(p) /\ mode = "INCREMENTAL" => Deltas(k, p)[d] = p.vals[d]
         /\ d \in Given(p) /\ mode = "CUMULATIVE" =>
              res[k].consumed[d] + Deltas(k, p)[d]
                = IF p.vals[d] >= res[k].consumed[d] THEN p.vals[d] ELSE res[k].consumed[d]
         /\ d \in Given(p) => p.vals[d] \in Nat
  <1>1. /\ res[k].consumed[d] \in Nat /\ res[k].reserved[d] \in Nat
        /\ mode \in {"INCREMENTAL", "CUMULATIVE"}
    BY AmountsAreNumbers DEF BudgetKept, BudgetTypeOK
  <1>2. p.vals \in [Dims -> Nat \cup {Missing}]
    BY BudgetAssumption
  <1>3. d \in Given(p) => p.vals[d] \in Nat
    BY <1>2 DEF Given
  <1>4. Deltas(k, p)[d] = Delta(res[k], p, d)
    BY DEF Deltas
  <1>5. d \notin Given(p) => Deltas(k, p)[d] = 0
    BY <1>4 DEF Delta
  <1>6. d \in Given(p) /\ mode = "INCREMENTAL" => Deltas(k, p)[d] = p.vals[d]
    BY <1>4 DEF Delta
  <1>7. d \in Given(p) /\ mode = "CUMULATIVE" =>
          Deltas(k, p)[d] = IF 0 >= p.vals[d] - res[k].consumed[d]
                            THEN 0 ELSE p.vals[d] - res[k].consumed[d]
    <2>1. SUFFICES ASSUME d \in Given(p), mode = "CUMULATIVE"
                   PROVE  Max({0, p.vals[d] - res[k].consumed[d]})
                            = IF 0 >= p.vals[d] - res[k].consumed[d]
                              THEN 0 ELSE p.vals[d] - res[k].consumed[d]
      BY <1>4 DEF Delta
    <2>2. p.vals[d] - res[k].consumed[d] \in Int
      BY <1>1, <1>3, <2>1
    <2>. QED
      BY <2>2, MaxMin
  <1>8. Deltas(k, p)[d] \in Nat
    BY <1>1, <1>3, <1>5, <1>6, <1>7
  <1>9. Moved(k, p)[d] = IF res[k].reserved[d] <= Deltas(k, p)[d]
                         THEN res[k].reserved[d] ELSE Deltas(k, p)[d]
    <2>1. Moved(k, p)[d] = Min({res[k].reserved[d], Deltas(k, p)[d]})
      BY DEF Moved, Transfer
    <2>2. res[k].reserved[d] \in Int /\ Deltas(k, p)[d] \in Int
      BY <1>1, <1>8
    <2>. QED
      BY <2>1, <2>2, MaxMin
  <1>. QED
    BY <1>1, <1>3, <1>5, <1>6, <1>7, <1>8, <1>9

\* The charged row and the charged account are rows again.
LEMMA ChargedRow ==
  ASSUME BudgetKept, NEW k \in Keys, NEW p \in Reports
  PROVE  /\ Charged(k, p) \in Rows
         /\ Charged(k, p).status = res[k].status /\ Charged(k, p).granted = res[k].granted
         /\ Charged(k, p).owner = res[k].owner /\ Charged(k, p).inv = res[k].inv
         /\ Charged(k, p).stop = res[k].stop
         /\ res[k].final => Charged(k, p).final
         /\ \A d \in Dims :
              /\ Charged(k, p).consumed[d] = res[k].consumed[d] + Deltas(k, p)[d]
              /\ Charged(k, p).reserved[d] = res[k].reserved[d] - Moved(k, p)[d]
  <1>. DEFINE c == [d \in Dims |-> res[k].consumed[d] + Deltas(k, p)[d]]
              v == [d \in Dims |-> res[k].reserved[d] - Moved(k, p)[d]]
              m == [d \in Dims |-> IF d \in Given(p) /\ mode = "CUMULATIVE"
                                   THEN Max({res[k].mark[d], p.mark}) ELSE res[k].mark[d]]
              f == res[k].final \/ (p.final /\ Given(p) = Dims)
  <1>1. res[k] \in Rows
    BY DEF BudgetKept, BudgetTypeOK
  <1>2. c \in [Dims -> Nat] /\ v \in [Dims -> Nat]
    <2>1. \A d \in Dims : res[k].consumed[d] \in Nat /\ res[k].reserved[d] \in Nat
      BY AmountsAreNumbers DEF BudgetKept
    <2>2. \A d \in Dims : /\ Deltas(k, p)[d] \in Nat /\ Moved(k, p)[d] \in Nat
                          /\ Moved(k, p)[d] <= res[k].reserved[d]
      BY ChargeIsNat
    <2>. QED
      BY <2>1, <2>2
  <1>3. m \in [Dims -> Nat \cup {-1}]
    <2>1. ASSUME NEW d \in Dims
          PROVE  m[d] \in Nat \cup {-1}
      <3>1. res[k].mark[d] \in Nat \cup {-1} /\ p.mark \in Nat
        BY <1>1, BudgetAssumption DEF Rows
      <3>2. Max({res[k].mark[d], p.mark}) \in Nat \cup {-1}
        BY <3>1, MaxMin
      <3>. QED
        BY <3>1, <3>2
    <2>. QED
      BY <2>1
  <1>4. f \in BOOLEAN /\ (res[k].final => f)
    BY <1>1 DEF Rows
  <1>5. Charged(k, p) = [res[k] EXCEPT !.consumed = c, !.reserved = v, !.mark = m, !.final = f]
    BY DEF Charged
  <1>6. \A d \in Dims : /\ c[d] = res[k].consumed[d] + Deltas(k, p)[d]
                        /\ v[d] = res[k].reserved[d] - Moved(k, p)[d]
    OBVIOUS
  <1>. HIDE DEF c, v, m, f
  <1>7. /\ Charged(k, p).status = res[k].status /\ Charged(k, p).granted = res[k].granted
        /\ Charged(k, p).owner = res[k].owner /\ Charged(k, p).inv = res[k].inv
        /\ Charged(k, p).stop = res[k].stop
        /\ Charged(k, p).consumed = c /\ Charged(k, p).reserved = v
        /\ Charged(k, p).final = f
    BY <1>1, <1>5 DEF Rows
  <1>8. Charged(k, p) \in Rows
    BY <1>1, <1>2, <1>3, <1>4, <1>5 DEF Rows
  <1>. QED
    BY <1>4, <1>6, <1>7, <1>8

\* The charged account is an account again, and holds what the row holds.
LEMMA ChargedAccountIsOne ==
  ASSUME BudgetKept, NEW k \in Keys, NEW p \in Reports
  PROVE  /\ ChargedAccount(k, p) \in Accounts
         /\ ChargedAccount(k, p).blocked = (account.blocked \/ Suspect(k, p))
         /\ \A d \in Dims :
              /\ ChargedAccount(k, p).consumed[d] = account.consumed[d] + Deltas(k, p)[d]
              /\ ChargedAccount(k, p).reserved[d] = account.reserved[d] - Moved(k, p)[d]
              /\ Charged(k, p).reserved[d] <= ChargedAccount(k, p).reserved[d]
  <1>. DEFINE c == [d \in Dims |-> account.consumed[d] + Deltas(k, p)[d]]
              v == [d \in Dims |-> account.reserved[d] - Moved(k, p)[d]]
              b == account.blocked \/ Suspect(k, p)
  <1>1. ASSUME NEW d \in Dims
        PROVE  /\ c[d] \in Nat /\ v[d] \in Nat
               /\ res[k].reserved[d] - Moved(k, p)[d] <= v[d]
    <2>1. /\ account.consumed[d] \in Nat /\ account.reserved[d] \in Nat
          /\ res[k].reserved[d] \in Nat
      BY AmountsAreNumbers DEF BudgetKept
    <2>2. /\ Deltas(k, p)[d] \in Nat /\ Moved(k, p)[d] \in Nat
          /\ Moved(k, p)[d] <= res[k].reserved[d]
      BY ChargeIsNat
    <2>3. res[k].reserved[d] <= account.reserved[d]
      BY AccountHoldsAll DEF BudgetKept
    <2>. QED
      BY <2>1, <2>2, <2>3
  <1>2. c \in [Dims -> Nat] /\ v \in [Dims -> Nat] /\ b \in BOOLEAN
    BY <1>1
  <1>3. ChargedAccount(k, p) = [consumed |-> c, reserved |-> v, blocked |-> b]
    BY DEF ChargedAccount
  <1>4. \A d \in Dims : /\ c[d] = account.consumed[d] + Deltas(k, p)[d]
                        /\ v[d] = account.reserved[d] - Moved(k, p)[d]
                        /\ Charged(k, p).reserved[d] <= v[d]
    BY <1>1, ChargedRow
  <1>5. b = (account.blocked \/ Suspect(k, p))
    OBVIOUS
  <1>. HIDE DEF c, v, b
  <1>. QED
    BY <1>2, <1>3, <1>4, <1>5 DEF Accounts

\* A report is charged to its reservation and to the account alike; a stopped
\* execution with its last report is settled on the way.
LEMMA UsageCharges ==
  ASSUME BudgetKept, NEW k \in Keys, NEW p \in Reports, ApplyUsage(k, p)
  PROVE  /\ res' \in [Keys -> Rows] /\ \A j \in Keys \ {k} : res'[j] = res[j]
         /\ res'[k].granted = res[k].granted /\ res'[k].stop = res[k].stop
         /\ res'[k].owner = res[k].owner /\ res'[k].inv = res[k].inv
         /\ account' \in Accounts
         /\ account'.blocked = (account.blocked \/ Suspect(k, p))
         /\ \A d \in Dims :
              /\ res'[k].consumed[d] = res[k].consumed[d] + Deltas(k, p)[d]
              /\ account'.consumed[d] = account.consumed[d] + Deltas(k, p)[d]
         /\ \/ /\ res'[k].status = "SETTLED" /\ res'[k].reserved = Zero
               /\ res'[k].stop /\ res'[k].final
               /\ \A d \in Dims : account'.reserved[d] = account.reserved[d] - res[k].reserved[d]
            \/ /\ res'[k].status = res[k].status
               /\ ~(res[k].stop /\ res[k].final)
               /\ \A d \in Dims :
                    /\ res'[k].reserved[d] = res[k].reserved[d] - Moved(k, p)[d]
                    /\ account'.reserved[d] = account.reserved[d] - Moved(k, p)[d]
  <1>. DEFINE row == Charged(k, p)
              acct == ChargedAccount(k, p)
  <1>1. SettleIfConfirmed(k, row, acct)
    BY DEF ApplyUsage, Charged, ChargedAccount, Deltas, Moved, Suspect
  <1>2. /\ row \in Rows
        /\ row.status = res[k].status /\ row.granted = res[k].granted
        /\ row.owner = res[k].owner /\ row.inv = res[k].inv
        /\ row.stop = res[k].stop
        /\ res[k].final => row.final
        /\ \A d \in Dims :
             /\ row.consumed[d] = res[k].consumed[d] + Deltas(k, p)[d]
             /\ row.reserved[d] = res[k].reserved[d] - Moved(k, p)[d]
    BY ChargedRow
  <1>3. /\ acct \in Accounts
        /\ acct.blocked = (account.blocked \/ Suspect(k, p))
        /\ \A d \in Dims :
             /\ acct.consumed[d] = account.consumed[d] + Deltas(k, p)[d]
             /\ acct.reserved[d] = account.reserved[d] - Moved(k, p)[d]
             /\ row.reserved[d] <= acct.reserved[d]
    BY ChargedAccountIsOne
  <1>. HIDE DEF row, acct
  <1>4. CASE row.stop /\ row.final
    <2>1. Release(k, row, acct, "SETTLED")
      BY <1>1, <1>4 DEF SettleIfConfirmed
    <2>2. \A d \in Dims : row.reserved[d] <= acct.reserved[d]
      BY <1>3
    <2>3. /\ res' \in [Keys -> Rows] /\ \A j \in Keys \ {k} : res'[j] = res[j]
          /\ res'[k].status = "SETTLED" /\ res'[k].reserved = Zero
          /\ res'[k].consumed = row.consumed /\ res'[k].granted = row.granted
          /\ res'[k].stop = row.stop /\ res'[k].final = row.final
          /\ res'[k].owner = row.owner /\ res'[k].inv = row.inv
          /\ account' \in Accounts
          /\ account'.consumed = acct.consumed /\ account'.blocked = acct.blocked
          /\ \A d \in Dims : account'.reserved[d] = acct.reserved[d] - row.reserved[d]
      <3>1. "SETTLED" \in {"SETTLED", "RELEASED"}
        OBVIOUS
      <3>. QED
        BY <1>2, <1>3, <2>1, <2>2, <3>1, ReleaseReturns
    <2>4. ASSUME NEW d \in Dims
          PROVE  account'.reserved[d] = account.reserved[d] - res[k].reserved[d]
      <3>1. /\ account.reserved[d] \in Nat /\ res[k].reserved[d] \in Nat
            /\ Moved(k, p)[d] \in Nat
        BY AmountsAreNumbers, ChargeIsNat DEF BudgetKept
      <3>2. account'.reserved[d] = acct.reserved[d] - row.reserved[d]
        BY <2>3
      <3>3. /\ acct.reserved[d] = account.reserved[d] - Moved(k, p)[d]
            /\ row.reserved[d] = res[k].reserved[d] - Moved(k, p)[d]
        BY <1>2, <1>3
      <3>. QED
        BY <3>1, <3>2, <3>3
    <2>5. \A d \in Dims :
            /\ res'[k].consumed[d] = res[k].consumed[d] + Deltas(k, p)[d]
            /\ account'.consumed[d] = account.consumed[d] + Deltas(k, p)[d]
      BY <1>2, <1>3, <2>3
    <2>. QED
      BY <1>2, <1>3, <1>4, <2>3, <2>4, <2>5
  <1>5. CASE ~(row.stop /\ row.final)
    <2>1. Put(k, row, acct)
      BY <1>1, <1>5 DEF SettleIfConfirmed
    <2>2. /\ res' \in [Keys -> Rows] /\ \A j \in Keys \ {k} : res'[j] = res[j]
          /\ res'[k] = row /\ account' = acct
      BY <1>2, <1>3, <2>1, PutWrites
    <2>. QED
      BY <1>2, <1>3, <1>5, <2>2
  <1>. QED
    BY <1>4, <1>5

\* While the account is not blocked, a reservation covers what it is charged.
LEMMA ChargeIsCovered ==
  ASSUME BudgetKept, NEW k \in Keys, NEW p \in Reports,
         res[k].status \in {"START_INTENT", "SETTLED"},
         ~account.blocked, ~Suspect(k, p), NEW d \in Dims
  PROVE  /\ Moved(k, p)[d] = Deltas(k, p)[d]
         /\ res[k].status = "SETTLED" => Deltas(k, p)[d] = 0
  <1>1. /\ res[k].consumed[d] \in Nat /\ res[k].reserved[d] \in Nat
        /\ res[k].granted[d] \in Nat
    BY AmountsAreNumbers DEF BudgetKept
  <1>2. /\ Deltas(k, p)[d] \in Nat
        /\ Deltas(k, p)[d] <= res[k].reserved[d] => Moved(k, p)[d] = Deltas(k, p)[d]
        /\ d \notin Given(p) => Deltas(k, p)[d] = 0
    BY ChargeIsNat
  <1>3. Charged(k, p).consumed[d] = res[k].consumed[d] + Deltas(k, p)[d]
    BY ChargedRow
  <1>4. RowKept(k)
    BY DEF BudgetKept
  <1>5. d \in Given(p) => /\ ~(Charged(k, p).consumed[d] > res[k].granted[d])
                          /\ ~(res[k].final /\ Deltas(k, p)[d] > 0)
    BY DEF Suspect
  <1>6. CASE res[k].status = "START_INTENT"
    <2>1. res[k].consumed[d] + res[k].reserved[d] = res[k].granted[d]
      BY <1>4, <1>6 DEF RowKept, Live
    <2>2. Deltas(k, p)[d] <= res[k].reserved[d]
      BY <1>1, <1>2, <1>3, <1>5, <2>1
    <2>. QED
      BY <1>2, <1>6, <2>2
  <1>7. CASE res[k].status = "SETTLED"
    <2>1. res[k].final
      BY <1>4, <1>7 DEF RowKept
    <2>2. Deltas(k, p)[d] = 0
      BY <1>2, <1>5, <2>1
    <2>. QED
      BY <1>1, <1>2, <2>2
  <1>. QED
    BY <1>6, <1>7

\* What is charged stays within the limit, or the account is blocked.
LEMMA UsageWithinLimit ==
  ASSUME BudgetKept, NEW k \in Keys, NEW p \in Reports, ApplyUsage(k, p),
         res[k].status \in {"START_INTENT", "SETTLED"}
  PROVE  Moves(k) /\ NoSilentOverrun' /\ RowKept(k)'
  <1>1. ASSUME NEW d \in Dims
        PROVE  /\ account.consumed[d] \in Nat /\ account.reserved[d] \in Nat
               /\ res[k].consumed[d] \in Nat /\ res[k].reserved[d] \in Nat
               /\ res[k].granted[d] \in Nat /\ Limit[d] \in Nat
               /\ Deltas(k, p)[d] \in Nat /\ Moved(k, p)[d] \in Nat
               /\ Moved(k, p)[d] <= res[k].reserved[d]
    BY AmountsAreNumbers, ChargeIsNat DEF BudgetKept
  <1>2. /\ \A j \in Keys \ {k} : res'[j] = res[j]
        /\ res'[k].granted = res[k].granted /\ res'[k].stop = res[k].stop
        /\ account'.blocked = (account.blocked \/ Suspect(k, p))
        /\ \A d \in Dims :
             /\ res'[k].consumed[d] = res[k].consumed[d] + Deltas(k, p)[d]
             /\ account'.consumed[d] = account.consumed[d] + Deltas(k, p)[d]
        /\ \/ /\ res'[k].status = "SETTLED" /\ res'[k].reserved = Zero
              /\ res'[k].stop /\ res'[k].final
              /\ \A d \in Dims : account'.reserved[d] = account.reserved[d] - res[k].reserved[d]
           \/ /\ res'[k].status = res[k].status
              /\ ~(res[k].stop /\ res[k].final)
              /\ \A d \in Dims :
                   /\ res'[k].reserved[d] = res[k].reserved[d] - Moved(k, p)[d]
                   /\ account'.reserved[d] = account.reserved[d] - Moved(k, p)[d]
    BY UsageCharges
  <1>3. ASSUME NEW d \in Dims
        PROVE  /\ account'.consumed[d]
                    = account.consumed[d] - res[k].consumed[d] + res'[k].consumed[d]
               /\ account'.reserved[d]
                    = account.reserved[d] - res[k].reserved[d] + res'[k].reserved[d]
               /\ account'.reserved[d] <= account.reserved[d] - Moved(k, p)[d]
    <2>1. /\ res'[k].consumed[d] = res[k].consumed[d] + Deltas(k, p)[d]
          /\ account'.consumed[d] = account.consumed[d] + Deltas(k, p)[d]
      BY <1>2
    <2>2. \/ /\ res'[k].reserved[d] = 0
             /\ account'.reserved[d] = account.reserved[d] - res[k].reserved[d]
          \/ /\ res'[k].reserved[d] = res[k].reserved[d] - Moved(k, p)[d]
             /\ account'.reserved[d] = account.reserved[d] - Moved(k, p)[d]
      BY <1>2 DEF Zero
    <2>. QED
      BY <1>1, <2>1, <2>2
  <1>4. Moves(k)
    BY <1>2, <1>3 DEF Moves
  <1>5. NoSilentOverrun'
    <2>1. ASSUME ~account'.blocked, NEW d \in Dims
          PROVE  account'.consumed[d] + account'.reserved[d] <= Limit[d]
      <3>1. ~account.blocked /\ ~Suspect(k, p)
        BY <1>2, <2>1
      <3>2. Moved(k, p)[d] = Deltas(k, p)[d]
        BY <3>1, ChargeIsCovered
      <3>3. account.consumed[d] + account.reserved[d] <= Limit[d]
        BY <3>1 DEF BudgetKept, NoSilentOverrun
      <3>4. account'.consumed[d] = account.consumed[d] + Deltas(k, p)[d]
        BY <1>2
      <3>5. /\ account'.reserved[d] <= account.reserved[d] - Moved(k, p)[d]
            /\ account'.reserved[d] = account.reserved[d] - res[k].reserved[d] + res'[k].reserved[d]
        BY <1>3
      <3>6. res'[k].reserved[d] \in Int
        BY <1>1, <1>2 DEF Zero
      <3>. QED
        BY <1>1, <3>2, <3>3, <3>4, <3>5, <3>6
    <2>. QED
      BY <2>1 DEF NoSilentOverrun
  <1>6. RowKept(k)'
    <2>1. RowKept(k)
      BY DEF BudgetKept
    <2>2. CASE /\ res'[k].status = "SETTLED" /\ res'[k].reserved = Zero
               /\ res'[k].stop /\ res'[k].final
      BY <2>2 DEF RowKept, Live
    <2>3. CASE /\ res'[k].status = res[k].status
               /\ ~(res[k].stop /\ res[k].final)
               /\ \A d \in Dims :
                    /\ res'[k].reserved[d] = res[k].reserved[d] - Moved(k, p)[d]
                    /\ account'.reserved[d] = account.reserved[d] - Moved(k, p)[d]
      <3>1. res'[k].status = "START_INTENT"
        BY <2>1, <2>3 DEF RowKept
      <3>2. ASSUME ~account'.blocked, NEW d \in Dims
            PROVE  res'[k].consumed[d] + res'[k].reserved[d] = res'[k].granted[d]
        <4>1. ~account.blocked /\ ~Suspect(k, p)
          BY <1>2, <3>2
        <4>2. Moved(k, p)[d] = Deltas(k, p)[d]
          BY <4>1, ChargeIsCovered
        <4>3. res[k].consumed[d] + res[k].reserved[d] = res[k].granted[d]
          BY <2>1, <2>3, <3>1, <4>1 DEF RowKept, Live
        <4>4. /\ res'[k].consumed[d] = res[k].consumed[d] + Deltas(k, p)[d]
              /\ res'[k].reserved[d] = res[k].reserved[d] - Moved(k, p)[d]
              /\ res'[k].granted = res[k].granted
          BY <1>2, <2>3
        <4>. QED
          BY <1>1, <4>2, <4>3, <4>4
      <3>. QED
        BY <3>1, <3>2 DEF RowKept, Live
    <2>. QED
      BY <1>2, <2>2, <2>3
  <1>. QED
    BY <1>4, <1>5, <1>6

\* What a reservation consumed still matches its receipts when a new report is
\* charged to it: the sum grows by the report, the highest reading by no less.
LEMMA UsageMatches ==
  ASSUME BudgetKept, NEW k \in Keys, NEW x \in ReceiptKeys, NEW p \in Reports,
         receipts[k][x] = NoReceipt,
         receipts' = [receipts EXCEPT ![k][x] = [kind |-> "USAGE", report |-> p]],
         mode' = mode, NEW d \in Dims, UsageKept(k, d),
         res'[k].consumed[d] = res[k].consumed[d] + Deltas(k, p)[d]
  PROVE  UsageKept(k, d)'
  <1>. DEFINE payload == [kind |-> "USAGE", report |-> p]
              old == UsageKeys(k, d)
              new == UsageKeys(k, d)'
  <1>1. payload \in ReceiptRows /\ payload.kind = "USAGE" /\ payload.report = p
    BY DEF ReceiptRows
  <1>2. /\ \A y \in ReceiptKeys \ {x} : receipts'[k][y] = receipts[k][y]
        /\ receipts'[k][x] = payload
    <2>1. receipts \in [Keys -> [ReceiptKeys -> ReceiptRows]]
      BY DEF BudgetKept, ReceiptsKept
    <2>2. receipts' = [receipts EXCEPT ![k][x] = payload]
      OBVIOUS
    <2>. HIDE DEF payload
    <2>. QED
      BY <2>1, <2>2
  <1>3. /\ res[k].consumed[d] \in Nat /\ Deltas(k, p)[d] \in Nat
        /\ mode \in {"INCREMENTAL", "CUMULATIVE"}
    BY AmountsAreNumbers, ChargeIsNat DEF BudgetKept, BudgetTypeOK
  <1>4. x \notin old /\ old \subseteq ReceiptKeys
    BY DEF UsageKeys, NoReceipt
  <1>5. new = IF d \in Given(p) THEN old \cup {x} ELSE old
    <2>1. \A y \in ReceiptKeys \ {x} : y \in new <=> y \in old
      BY <1>2 DEF UsageKeys
    <2>2. x \in new <=> d \in Given(p)
      BY <1>1, <1>2 DEF UsageKeys
    <2>3. new \subseteq ReceiptKeys
      BY DEF UsageKeys
    <2>. QED
      BY <1>4, <2>1, <2>2, <2>3
  <1>6. /\ \A y \in old : Reading(k, d, y)' = Reading(k, d, y)
        /\ Reading(k, d, x)' = p.vals[d]
    BY <1>1, <1>2, <1>4 DEF Reading
  <1>7. ASSUME NEW y \in old
        PROVE  Reading(k, d, y) \in Nat
    <2>1. receipts[k][y] \in ReceiptRows /\ y \in ReceiptKeys
      BY <1>4 DEF BudgetKept, ReceiptsKept
    <2>2. receipts[k][y].kind = "USAGE" /\ d \in Given(receipts[k][y].report)
      BY DEF UsageKeys
    <2>3. receipts[k][y].report \in Reports
      BY <2>1, <2>2 DEF ReceiptRows, NoReceipt
    <2>. QED
      BY <2>2, <2>3, ChargeIsNat DEF Reading
  <1>8. CASE d \notin Given(p)
    <2>1. Deltas(k, p)[d] = 0
      BY <1>8, ChargeIsNat
    <2>2. res'[k].consumed[d] = res[k].consumed[d]
      BY <1>3, <2>1
    <2>3. UsageKeys(k, d)' = UsageKeys(k, d)
      BY <1>5, <1>8
    <2>4. \A y \in UsageKeys(k, d) : receipts'[k][y] = receipts[k][y]
      BY <1>2, <1>4
    <2>. QED
      BY <2>2, <2>3, <2>4, UsageSame
  <1>9. CASE d \in Given(p) /\ mode = "INCREMENTAL"
    <2>. DEFINE f == [y \in old |-> Reading(k, d, y)]
                g == [y \in new |-> Reading(k, d, y)']
    <2>1. res[k].consumed[d] = Total(f, old)
      BY <1>9 DEF UsageKept
    <2>2. new = old \cup {x}
      BY <1>5, <1>9
    <2>3. IsFiniteSet(old) /\ IsFiniteSet({x}) /\ old \cap {x} = {}
      <3>1. IsFiniteSet({y \in ReceiptKeys : receipts[k][y] # NoReceipt})
        BY DEF BudgetKept, ReceiptsKept
      <3>2. old \subseteq {y \in ReceiptKeys : receipts[k][y] # NoReceipt}
        BY DEF UsageKeys, NoReceipt
      <3>. HIDE DEF old
      <3>3. IsFiniteSet(old)
        BY <3>1, <3>2, FS_Subset
      <3>. QED
        BY <1>4, <3>3, FS_Singleton
    <2>4. /\ \A y \in old : g[y] = f[y] /\ g[y] \in Nat
          /\ g[x] = p.vals[d] /\ p.vals[d] \in Nat
      <3>1. p.vals[d] \in Nat
        BY <1>9, ChargeIsNat
      <3>2. \A y \in old : g[y] = Reading(k, d, y) /\ f[y] = Reading(k, d, y)
        BY <1>6, <2>2
      <3>3. g[x] = p.vals[d]
        BY <1>6, <2>2
      <3>. QED
        BY <1>7, <3>1, <3>2, <3>3
    <2>. HIDE DEF f, g
    <2>5. Total(g, old \cup {x}) = Total(g, old) + Total(g, {x})
      <3>. HIDE DEF old
      <3>1. \A y \in old \cup {x} : g[y] \in Nat
        BY <2>4
      <3>. QED
        BY <2>3, <3>1, TotalSplit
    <2>6. Total(g, {x}) = p.vals[d]
      BY <2>4, TotalOne
    <2>7. Total(g, old) = Total(f, old)
      <3>. HIDE DEF old
      <3>. QED
        BY <2>4, TotalSame
    <2>8. Deltas(k, p)[d] = p.vals[d]
      BY <1>9, ChargeIsNat
    <2>9. res'[k].consumed[d] = Total(g, new)
      BY <2>1, <2>2, <2>5, <2>6, <2>7, <2>8
    <2>. QED
      BY <1>9, <2>9 DEF UsageKept, f, g
  <1>10. CASE d \in Given(p) /\ mode = "CUMULATIVE"
    <2>1. /\ p.vals[d] \in Nat
          /\ res'[k].consumed[d]
               = IF p.vals[d] >= res[k].consumed[d] THEN p.vals[d] ELSE res[k].consumed[d]
      BY <1>10, ChargeIsNat
    <2>2. /\ \A y \in old : Reading(k, d, y) <= res[k].consumed[d]
          /\ \/ res[k].consumed[d] = 0
             \/ \E y \in old : Reading(k, d, y) = res[k].consumed[d]
      BY <1>10 DEF UsageKept
    <2>3. new = old \cup {x}
      BY <1>5, <1>10
    <2>. HIDE DEF old, new
    <2>4. \A y \in new : Reading(k, d, y)' <= res'[k].consumed[d]
      BY <1>3, <1>6, <1>7, <2>1, <2>2, <2>3
    <2>5. \/ res'[k].consumed[d] = 0
          \/ \E y \in new : Reading(k, d, y)' = res'[k].consumed[d]
      BY <1>3, <1>6, <2>1, <2>2, <2>3
    <2>. QED
      BY <1>10, <2>4, <2>5 DEF UsageKept, new
  <1>. QED
    BY <1>3, <1>8, <1>9, <1>10

\* A usage report is charged, refused, or changes nothing.
LEMMA RecordUsageKeeps ==
  ASSUME BudgetKept, NEW w \in Reconcilers, NEW k \in Keys, NEW x \in ReceiptKeys,
         RecordUsage(w, k, x)
  PROVE  BudgetKept'
  <1>1. UNCHANGED <<mode, run, observed, lease, rec>> /\ lease[k] = w
    BY DEF RecordUsage
  <1>2. res[k].status # "NONE" /\ res[k] \in Rows /\ RowKept(k)
    BY <1>1, LeasedRow
  <1>3. PICK p \in Reports :
          WithReceipt(k, x, [kind |-> "USAGE", report |-> p],
                      IF InvalidUsage(res[k], p) THEN Block ELSE ApplyUsage(k, p))
    BY DEF RecordUsage
  <1>. DEFINE payload == [kind |-> "USAGE", report |-> p]
  <1>4. payload \in ReceiptRows
    BY DEF ReceiptRows
  <1>5. CASE receipts[k][x] # NoReceipt
    BY <1>1, <1>3, <1>5, TakenReceiptKeeps DEF WithReceipt
  <1>6. CASE receipts[k][x] = NoReceipt /\ InvalidUsage(res[k], p)
    <2>1. receipts' = [receipts EXCEPT ![k][x] = payload] /\ Block
      BY <1>3, <1>6 DEF WithReceipt
    <2>. HIDE DEF payload
    <2>. QED
      BY <1>1, <1>2, <1>4, <2>1, BlockingReceiptKeeps
  <1>7. CASE receipts[k][x] = NoReceipt /\ ~InvalidUsage(res[k], p)
    <2>1. receipts' = [receipts EXCEPT ![k][x] = payload] /\ ApplyUsage(k, p)
      BY <1>3, <1>7 DEF WithReceipt
    <2>2. res[k].status \in {"START_INTENT", "SETTLED"}
      BY <1>2, <1>7 DEF InvalidUsage, Rows, Live
    <2>3. /\ res' \in [Keys -> Rows] /\ \A j \in Keys \ {k} : res'[j] = res[j]
          /\ res'[k].granted = res[k].granted /\ res'[k].stop = res[k].stop
          /\ res'[k].owner = res[k].owner /\ res'[k].inv = res[k].inv
          /\ account' \in Accounts
          /\ account'.blocked = (account.blocked \/ Suspect(k, p))
          /\ \A d \in Dims : res'[k].consumed[d] = res[k].consumed[d] + Deltas(k, p)[d]
          /\ \/ res'[k].status = "SETTLED" /\ res'[k].stop
             \/ res'[k].status = res[k].status
      BY <2>1, UsageCharges
    <2>4. Moves(k) /\ NoSilentOverrun' /\ RowKept(k)'
      BY <2>1, <2>2, UsageWithinLimit
    <2>5. RowEffect(k)
      BY <1>1, <1>2, <2>2, <2>3, <2>4 DEF RowEffect, Accounts, Live
    <2>6. ASSUME ~account'.blocked, NEW d \in Dims
          PROVE  UsageKept(k, d)'
      <3>1. UsageKept(k, d)
        BY <2>3, <2>6 DEF BudgetKept
      <3>2. /\ receipts' = [receipts EXCEPT ![k][x] = [kind |-> "USAGE", report |-> p]]
            /\ mode' = mode /\ receipts[k][x] = NoReceipt
            /\ res'[k].consumed[d] = res[k].consumed[d] + Deltas(k, p)[d]
        BY <1>1, <1>7, <2>1, <2>3
      <3>. QED
        BY <3>1, <3>2, UsageMatches
    <2>. HIDE DEF payload
    <2>. QED
      BY <1>4, <2>1, <2>4, <2>5, <2>6, RowEffectKeeps
  <1>. QED
    BY <1>5, <1>6, <1>7

-----------------------------------------------------------------------------
(* The ledger.                                                             *)

\* An empty ledger satisfies the invariant.
LEMMA BudgetInitial ==
  ASSUME BudgetInit
  PROVE  BudgetKept
  <1>0. Zero \in [Dims -> Nat] /\ \A d \in Dims : Zero[d] = 0 /\ Limit[d] \in Nat
    BY BudgetAssumption DEF Zero
  <1>1. /\ NoRow \in Rows /\ NoRow.status = "NONE" /\ NoRow.consumed = Zero
        /\ NoRow.reserved = Zero
    <2>1. [d \in Dims |-> -1] \in [Dims -> Nat \cup {-1}]
      OBVIOUS
    <2>. QED
      BY <1>0, <2>1 DEF NoRow, Rows
  <1>2. \A k \in Keys : /\ res[k] = NoRow /\ lease[k] = Nobody
                        /\ \A x \in ReceiptKeys : receipts[k][x] = NoReceipt
    BY DEF BudgetInit
  <1>3. BudgetTypeOK
    <2>1. account \in [consumed : [Dims -> Nat], reserved : [Dims -> Nat], blocked : BOOLEAN]
      BY <1>0 DEF BudgetInit
    <2>2. res \in [Keys -> Rows]
      BY <1>1 DEF BudgetInit
    <2>3. rec \in [Recorders -> RecorderStates]
      BY DEF BudgetInit, IdleRecorder, RecorderStates
    <2>. QED
      BY <2>1, <2>2, <2>3 DEF BudgetInit, BudgetTypeOK
  <1>4. ReceiptsKept
    <2>1. receipts \in [Keys -> [ReceiptKeys -> ReceiptRows]]
      BY DEF BudgetInit, ReceiptRows
    <2>2. \A k \in Keys : {x \in ReceiptKeys : receipts[k][x] # NoReceipt} = {}
      BY <1>2
    <2>3. IsFiniteSet({})
      BY FS_EmptySet
    <2>. QED
      BY <2>1, <2>2, <2>3 DEF ReceiptsKept
  <1>5. \A k \in Keys : RowKept(k)
    BY <1>1, <1>2 DEF RowKept, Live
  <1>6. \A r \in Recorders : RecorderKept(r)
    BY DEF BudgetInit, IdleRecorder, RecorderKept
  <1>7. OnePrimary
    BY <1>1, <1>2, KeysAreFinite DEF OnePrimary, Live
  <1>8. LedgerBalances
    <2>1. ASSUME NEW d \in Dims
          PROVE  /\ Total([k \in Keys |-> res[k].consumed[d]], Keys) = 0
                 /\ Total([k \in Keys |-> res[k].reserved[d]], Keys) = 0
      <3>. DEFINE f == [k \in Keys |-> res[k].consumed[d]]
                  g == [k \in Keys |-> res[k].reserved[d]]
      <3>1. (\A k \in Keys : f[k] = 0) /\ (\A k \in Keys : g[k] = 0)
        BY <1>0, <1>1, <1>2
      <3>. HIDE DEF f, g
      <3>2. Total(f, Keys) = 0 /\ Total(g, Keys) = 0
        BY <3>1, TotalZero
      <3>. QED
        BY <3>2 DEF f, g
    <2>2. \A d \in Dims : account.consumed[d] = 0 /\ account.reserved[d] = 0
      BY <1>0 DEF BudgetInit
    <2>. QED
      BY <2>1, <2>2 DEF LedgerBalances
  <1>9. NoSilentOverrun
    BY <1>0 DEF BudgetInit, NoSilentOverrun
  <1>10. ASSUME NEW k \in Keys, NEW d \in Dims
         PROVE  UsageKept(k, d)
    <2>1. UsageKeys(k, d) = {}
      BY <1>2 DEF UsageKeys, NoReceipt
    <2>2. res[k].consumed[d] = 0
      BY <1>0, <1>1, <1>2
    <2>3. Total([x \in {} |-> Reading(k, d, x)], {}) = 0
      BY TotalZero
    <2>. QED
      BY <2>1, <2>2, <2>3 DEF UsageKept
  <1>. QED
    BY <1>3, <1>4, <1>5, <1>6, <1>7, <1>8, <1>9, <1>10 DEF BudgetKept

\* Every step of the account keeps the invariant.
LEMMA BudgetNextKeeps ==
  ASSUME BudgetKept, BudgetNext \/ UNCHANGED budgetVars
  PROVE  BudgetKept'
  <1>1. CASE NextAttempt
    BY <1>1, QuietStepsKeep
  <1>2. CASE ReserveGroup
    BY <1>2, ReserveGroupKeeps
  <1>3. ASSUME NEW r \in Recorders,
               \/ ReservePrimary(r) \/ PrepareChild(r) \/ BindInvocation(r)
               \/ StartExecution(r) \/ GiveUpStart(r) \/ EndExecution(r)
        PROVE  BudgetKept'
    BY <1>3, ReservePrimaryKeeps, QuietStepsKeep, BindInvocationKeeps, StartExecutionKeeps
  <1>4. ASSUME NEW k \in Keys, ExpireReconciliation(k)
        PROVE  BudgetKept'
    BY <1>4, LeasesKeep
  <1>5. ASSUME NEW k \in Keys, NEW w \in Reconcilers,
               ClaimReconciliation(w, k) \/ RecordObservation(w, k)
        PROVE  BudgetKept'
    BY <1>5, LeasesKeep, RecordObservationKeeps
  <1>6. ASSUME NEW k \in Keys, NEW w \in Reconcilers, NEW x \in ReceiptKeys,
               \/ RecordUsage(w, k, x) \/ ConfirmStopped(w, k, x)
               \/ ReleaseUnstarted(w, k, x) \/ MarkUnverifiable(w, k, x)
        PROVE  BudgetKept'
    BY <1>6, RecordUsageKeeps, ConfirmStoppedKeeps, ReleaseUnstartedKeeps, MarkUnverifiableKeeps
  <1>7. CASE UNCHANGED budgetVars
    <2>1. /\ UNCHANGED <<mode, account, res, receipts, observed, lease>>
          /\ run' = run /\ rec' = rec
      BY <1>7 DEF budgetVars
    <2>2. run' \in Nat /\ rec' \in [Recorders -> RecorderStates]
      BY <2>1 DEF BudgetKept, BudgetTypeOK
    <2>. QED
      BY <2>1, <2>2, RecorderMoves
  <1>. QED
    BY <1>1, <1>2, <1>3, <1>4, <1>5, <1>6, <1>7 DEF BudgetNext

\* The invariant holds in every reachable state.
THEOREM BudgetInductive == BudgetSpec => []BudgetKept
  <1>1. BudgetInit => BudgetKept
    BY BudgetInitial
  <1>2. BudgetKept /\ [BudgetNext]_budgetVars => BudgetKept'
    BY BudgetNextKeeps
  <1>. QED
    BY <1>1, <1>2, PTL DEF BudgetSpec

\* The rows of the budget tables keep their types: no balance of an account or
\* of a reservation ever becomes negative (the CHECK constraints of the tables).
THEOREM BudgetTypeCorrect == BudgetSpec => []BudgetTypeOK
  <1>1. BudgetKept => BudgetTypeOK
    BY DEF BudgetKept
  <1>. QED
    BY <1>1, BudgetInductive, PTL

\* Each execution starts at most once, only executions that hold a start intent
\* have connected, and primary executions of a Run do not overlap.
LEMMA StartsOnce ==
  ASSUME BudgetKept
  PROVE  StartedOnce
  <1>. DEFINE connected(k) ==
                {r \in Recorders : rec[r].key = k /\ rec[r].pc \in {"running", "ended"}}
              primaries ==
                {r \in Recorders : rec[r].pc = "running" /\ rec[r].key \in Attempts}
  <1>1. ASSUME NEW S, \A q, r \in S : q = r
        PROVE  Cardinality(S) <= 1
    <2>1. CASE S = {}
      BY <2>1, FS_EmptySet
    <2>2. CASE S # {}
      <3>1. PICK r \in S : TRUE
        BY <2>2
      <3>2. S = {r}
        BY <1>1, <3>1
      <3>3. Cardinality({r}) = 1
        BY FS_Singleton
      <3>. QED
        BY <3>2, <3>3
    <2>. QED
      BY <2>1, <2>2
  <1>2. \A r \in Recorders : RecorderKept(r)
    BY DEF BudgetKept
  <1>3. ASSUME NEW k \in Keys
        PROVE  Cardinality(connected(k)) <= 1
    <2>1. \A r \in connected(k) : res[k].owner = r
      BY <1>2 DEF RecorderKept
    <2>. HIDE DEF connected
    <2>2. \A q, r \in connected(k) : q = r
      BY <2>1
    <2>. QED
      BY <1>1, <2>2
  <1>4. ASSUME NEW k \in Keys, connected(k) # {}
        PROVE  res[k].status \in {"START_INTENT", "SETTLED"}
    BY <1>2, <1>4 DEF RecorderKept
  <1>5. Cardinality(primaries) <= 1
    <2>1. ASSUME NEW r \in primaries
          PROVE  /\ rec[r].key \in Attempts /\ res[rec[r].key].owner = r
                 /\ res[rec[r].key].status \in Live /\ ~res[rec[r].key].stop
      <3>1. /\ rec[r].key \in Attempts /\ rec[r].key \in Keys
            /\ rec[r].pc = "running" /\ RecorderKept(r)
        BY <1>2, KeysAreFinite
      <3>2. RowKept(rec[r].key)
        BY <3>1 DEF BudgetKept
      <3>. QED
        BY <3>1, <3>2 DEF RecorderKept, RowKept, Live
    <2>. HIDE DEF primaries
    <2>2. \A q, r \in primaries : rec[q].key = rec[r].key
      BY <2>1 DEF BudgetKept, OnePrimary
    <2>3. \A q, r \in primaries : q = r
      BY <2>1, <2>2
    <2>. QED
      BY <1>1, <2>3
  <1>. QED
    BY <1>3, <1>4, <1>5 DEF StartedOnce

\* What a reservation has consumed is the sum of its receipts, or the highest
\* reading among them.
LEMMA ReceiptsAddUp ==
  ASSUME BudgetKept
  PROVE  UsageMatchesReceipts
  <1>. SUFFICES ASSUME ~account.blocked, NEW k \in Keys, NEW d \in Dims
                PROVE  res[k].consumed[d] =
                         IF mode = "INCREMENTAL"
                         THEN Total([x \in UsageKeys(k, d) |-> Reading(k, d, x)], UsageKeys(k, d))
                         ELSE Max({0} \cup {Reading(k, d, x) : x \in UsageKeys(k, d)})
    BY DEF UsageMatchesReceipts, UsageKeys, Reading
  <1>1. UsageKept(k, d) /\ mode \in {"INCREMENTAL", "CUMULATIVE"} /\ res[k].consumed[d] \in Nat
    BY AmountsAreNumbers DEF BudgetKept, BudgetTypeOK
  <1>2. CASE mode = "INCREMENTAL"
    BY <1>1, <1>2 DEF UsageKept
  <1>3. CASE mode = "CUMULATIVE"
    <2>. DEFINE c == res[k].consumed[d]
                S == {0} \cup {Reading(k, d, x) : x \in UsageKeys(k, d)}
    <2>1. \A x \in UsageKeys(k, d) : Reading(k, d, x) \in Nat
      <3>1. ASSUME NEW x \in UsageKeys(k, d)
            PROVE  Reading(k, d, x) \in Nat
        <4>1. /\ receipts[k][x] \in ReceiptRows
              /\ receipts[k][x].kind = "USAGE" /\ d \in Given(receipts[k][x].report)
          BY DEF BudgetKept, ReceiptsKept, UsageKeys
        <4>2. receipts[k][x].report \in Reports
          BY <4>1 DEF ReceiptRows, NoReceipt
        <4>. QED
          BY <4>1, <4>2, ChargeIsNat DEF Reading
      <3>. QED
        BY <3>1
    <2>2. c \in S /\ \A y \in S : y \in Nat /\ y <= c
      BY <1>1, <1>3, <2>1 DEF UsageKept
    <2>. HIDE DEF S, c
    <2>3. c \in Nat
      BY <2>2
    <2>4. \A y \in S : (\A z \in S : y >= z) => y = c
      BY <2>2, <2>3
    <2>5. Max(S) = c
      BY <2>2, <2>3, <2>4 DEF Max
    <2>. QED
      BY <1>3, <2>5 DEF S, c
  <1>. QED
    BY <1>1, <1>2, <1>3

\* The ledger of a Run can be trusted: its account is the sum of its
\* reservations and is never exceeded in silence, whatever children ran in
\* parallel, whichever answers were lost and however reports came; and each
\* execution starts once and each report counts once.
THEOREM BudgetStaysKept == BudgetSpec => []BudgetIsKept
  <1>1. BudgetKept => BudgetIsKept
    BY StartsOnce, ReceiptsAddUp DEF BudgetKept, BudgetIsKept
  <1>. QED
    BY <1>1, BudgetInductive, PTL

=============================================================================
