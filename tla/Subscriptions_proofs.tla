------------------------- MODULE Subscriptions_proofs -------------------------
(***************************************************************************)
(* Proofs about Subscriptions, for any sets of invoices, codes, workers    *)
(* and runs of the job and any bounds: an extension is never doubled and   *)
(* only lost where the code gives up its guard, a voucher is activated     *)
(* once per opening, and the job removes whom it found overdue.            *)
(***************************************************************************)
EXTENDS Subscriptions, FiniteSetTheorems, TLAPS

USE SubscriptionConstants DEF Vouchers, Goto, Leave, Return, Forever, ByHand,
    Afresh, Lifelong, Terms, Bump, rowVars, accessVars, workerVars, tickVars,
    closeVars, countVars

\* What a run read of the attempts is below their limit.
SeenBelow == \A t \in Ticks : tick[t] # "idle" => seen[t] < MaxAttempts

TypedInv == TypeOK /\ SeenBelow

LEMMA TypedInit == Init => TypedInv
<1> SUFFICES ASSUME Init PROVE TypeOK /\ SeenBelow
  BY DEF TypedInv
<1>1. /\ now \in 0 .. MaxTime /\ row \in {"absent", "active", "expired"}
      /\ expires \in Nat \cup {Forever} /\ attempts \in 0 .. MaxAttempts
      /\ extended \in Nat
      /\ manual \in 0 .. MaxManual /\ faults \in 0 .. MaxFaults
  BY DEF Init
<1>0. member \in BOOLEAN /\ joining \in BOOLEAN /\ slipped \in BOOLEAN /\ cut \in BOOLEAN
  BY Zenon DEF Init
<1>2. /\ status \in [Vouchers -> {"pending", "redeeming", "paid", "expired", "rejected"}]
      /\ started \in [Vouchers -> Nat] /\ granted \in Nat /\ again \in [Vouchers -> Nat]
  BY DEF Init
<1>3. /\ pc \in [Workers -> {"idle", "approve", "read", "write", "reread", "force",
                             "insert", "close", "undo", "batch", "recheck", "mark"}]
      /\ src \in [Workers -> Vouchers \cup Terms]
      /\ cur \in [Workers -> Nat \cup {Forever}]
      /\ tries \in [Workers -> 0 .. 2]
  BY DEF Init
<1>4. /\ tick \in [Ticks -> {"idle", "kick", "expire", "count"}]
      /\ seen \in [Ticks -> 0 .. MaxAttempts]
      /\ raced \in [Ticks -> BOOLEAN]
      /\ SeenBelow
  BY DEF Init, SeenBelow
<1>5. QED
  BY <1>0, <1>1, <1>2, <1>3, <1>4 DEF TypeOK

LEMMA TypedStep == TypedInv /\ [Next]_vars => TypedInv'
<1> SUFFICES ASSUME TypedInv, [Next]_vars PROVE TypedInv'
  OBVIOUS
<1>1. ASSUME NEW w \in Workers, NEW i \in Invoices, Claim(w, i) PROVE TypedInv'
  BY <1>1 DEF Claim, Claimable, Fault, Activate, TypedInv, TypeOK, SeenBelow
<1>2. ASSUME NEW w \in Workers, NEW i \in Invoices, Webhook(w, i) PROVE TypedInv'
  BY <1>2 DEF Webhook, Activate, TypedInv, TypeOK, SeenBelow
<1>3. ASSUME NEW w \in Workers, NEW i \in Invoices, ApproveRead(w, i) PROVE TypedInv'
  BY <1>3 DEF ApproveRead, Decided, TypedInv, TypeOK, SeenBelow
<1>4. ASSUME NEW w \in Workers, NEW g \in Gifts, Redeem(w, g) PROVE TypedInv'
  BY <1>4 DEF Redeem, Activate, TypedInv, TypeOK, SeenBelow
<1>5. ASSUME NEW w \in Workers, Approve(w) PROVE TypedInv'
  <2>1. /\ now' \in 0 .. MaxTime /\ row' \in {"absent", "active", "expired"}
        /\ expires' \in Nat \cup {Forever} /\ attempts' \in 0 .. MaxAttempts
        /\ extended' \in Nat /\ granted' \in Nat
        /\ manual' \in 0 .. MaxManual /\ faults' \in 0 .. MaxFaults
    BY <1>5 DEF Approve, Activate, TypedInv, TypeOK
  <2>2. member' \in BOOLEAN /\ joining' \in BOOLEAN /\ slipped' \in BOOLEAN /\ cut' \in BOOLEAN
    BY <1>5, Zenon DEF Approve, Activate, TypedInv, TypeOK
  <2>3. /\ status' \in [Vouchers -> {"pending", "redeeming", "paid", "expired", "rejected"}]
        /\ started' \in [Vouchers -> Nat] /\ again' \in [Vouchers -> Nat]
    <3>1. status' \in [Vouchers -> {"pending", "redeeming", "paid", "expired", "rejected"}]
      BY <1>5 DEF Approve, Activate, TypedInv, TypeOK
    <3>2. started' \in [Vouchers -> Nat]
      <4>1. started \in [Vouchers -> Nat]
        BY DEF TypedInv, TypeOK
      <4>2. started' = [started EXCEPT ![src[w]] = @ + 1] \/ started' = started
        BY <1>5 DEF Approve, Activate
      <4>3. started' = [v \in Vouchers |-> IF v = src[w] THEN started[v] + 1 ELSE started[v]]
              \/ started' = started
        BY <4>1, <4>2, Zenon
      <4>4. QED
        BY <4>1, <4>3
    <3>3. again' \in [Vouchers -> Nat]
      <4>1. again \in [Vouchers -> Nat]
        BY DEF TypedInv, TypeOK
      <4>2. again' = [again EXCEPT ![src[w]] = @ + 1] \/ again' = again
        BY <1>5 DEF Approve, Activate
      <4>3. again' = [v \in Vouchers |-> IF v = src[w] THEN again[v] + 1 ELSE again[v]]
              \/ again' = again
        BY <4>1, <4>2, Zenon
      <4>4. QED
        BY <4>1, <4>3
    <3>4. QED
      BY <3>1, <3>2, <3>3
  <2>4. /\ pc' \in [Workers -> {"idle", "approve", "read", "write", "reread", "force",
                                "insert", "close", "undo", "batch", "recheck", "mark"}]
        /\ src' \in [Workers -> Vouchers \cup Terms]
        /\ cur' \in [Workers -> Nat \cup {Forever}]
        /\ tries' \in [Workers -> 0 .. 2]
    BY <1>5 DEF Approve, Activate, TypedInv, TypeOK
  <2>5. /\ tick' \in [Ticks -> {"idle", "kick", "expire", "count"}]
        /\ seen' \in [Ticks -> 0 .. MaxAttempts]
        /\ raced' \in [Ticks -> BOOLEAN]
        /\ SeenBelow'
    BY <1>5 DEF Approve, Activate, TypedInv, TypeOK, SeenBelow
  <2>6. QED
    BY <2>1, <2>2, <2>3, <2>4, <2>5 DEF TypedInv, TypeOK
<1>6. ASSUME NEW w \in Workers, CloseCode(w) PROVE TypedInv'
  BY <1>6 DEF CloseCode, Fault, TypedInv, TypeOK, SeenBelow
<1>7. ASSUME NEW w \in Workers, UndoCode(w) PROVE TypedInv'
  BY <1>7 DEF UndoCode, TypedInv, TypeOK, SeenBelow
<1>8. ASSUME NEW w \in Workers, ReadRow(w) PROVE TypedInv'
  BY <1>8 DEF ReadRow, Fault, TypedInv, TypeOK, SeenBelow
<1>9. ASSUME NEW w \in Workers, InsertRow(w) PROVE TypedInv'
  <2>1. /\ now' \in 0 .. MaxTime /\ row' \in {"absent", "active", "expired"}
        /\ expires' \in Nat \cup {Forever} /\ attempts' \in 0 .. MaxAttempts
        /\ extended' \in Nat /\ granted' \in Nat
        /\ manual' \in 0 .. MaxManual /\ faults' \in 0 .. MaxFaults
    BY <1>9 DEF InsertRow, Write, Reopened, Done, Extended, TypedInv, TypeOK
  <2>2. member' \in BOOLEAN /\ joining' \in BOOLEAN /\ slipped' \in BOOLEAN /\ cut' \in BOOLEAN
    BY <1>9, Zenon DEF InsertRow, Write, Reopened, Done, TypedInv, TypeOK
  <2>3. /\ status' \in [Vouchers -> {"pending", "redeeming", "paid", "expired", "rejected"}]
        /\ started' \in [Vouchers -> Nat] /\ again' \in [Vouchers -> Nat]
    <3>1. status' \in [Vouchers -> {"pending", "redeeming", "paid", "expired", "rejected"}]
      BY <1>9 DEF InsertRow, Write, Reopened, Done, TypedInv, TypeOK
    <3>2. started' \in [Vouchers -> Nat]
      BY <1>9 DEF InsertRow, Write, Reopened, Done, TypedInv, TypeOK
    <3>3. again' \in [Vouchers -> Nat]
      BY <1>9 DEF InsertRow, Write, Reopened, Done, TypedInv, TypeOK
    <3>4. QED
      BY <3>1, <3>2, <3>3
  <2>4. /\ pc' \in [Workers -> {"idle", "approve", "read", "write", "reread", "force",
                                "insert", "close", "undo", "batch", "recheck", "mark"}]
        /\ src' \in [Workers -> Vouchers \cup Terms]
        /\ cur' \in [Workers -> Nat \cup {Forever}]
        /\ tries' \in [Workers -> 0 .. 2]
    BY <1>9 DEF InsertRow, Write, Reopened, Done, TypedInv, TypeOK
  <2>5. /\ tick' \in [Ticks -> {"idle", "kick", "expire", "count"}]
        /\ seen' \in [Ticks -> 0 .. MaxAttempts]
        /\ raced' \in [Ticks -> BOOLEAN]
        /\ SeenBelow'
    BY <1>9 DEF InsertRow, Write, Reopened, Done, TypedInv, TypeOK, SeenBelow
  <2>6. QED
    BY <2>1, <2>2, <2>3, <2>4, <2>5 DEF TypedInv, TypeOK
<1>10. ASSUME NEW w \in Workers, WriteRow(w) PROVE TypedInv'
  <2>1. /\ now' \in 0 .. MaxTime /\ row' \in {"absent", "active", "expired"}
        /\ expires' \in Nat \cup {Forever} /\ attempts' \in 0 .. MaxAttempts
        /\ extended' \in Nat /\ granted' \in Nat
        /\ manual' \in 0 .. MaxManual /\ faults' \in 0 .. MaxFaults
    BY <1>10 DEF WriteRow, Unmoved, Write, Reopened, Done, Fails, Fault, Extended, TypedInv, TypeOK
  <2>2. member' \in BOOLEAN /\ joining' \in BOOLEAN /\ slipped' \in BOOLEAN /\ cut' \in BOOLEAN
    BY <1>10, Zenon DEF WriteRow, Unmoved, Write, Reopened, Done, Fails, Fault, TypedInv, TypeOK
  <2>3. /\ status' \in [Vouchers -> {"pending", "redeeming", "paid", "expired", "rejected"}]
        /\ started' \in [Vouchers -> Nat] /\ again' \in [Vouchers -> Nat]
    <3>1. status' \in [Vouchers -> {"pending", "redeeming", "paid", "expired", "rejected"}]
      BY <1>10 DEF WriteRow, Unmoved, Write, Reopened, Done, Fails, Fault, TypedInv, TypeOK
    <3>2. started' \in [Vouchers -> Nat]
      BY <1>10 DEF WriteRow, Unmoved, Write, Reopened, Done, Fails, Fault, TypedInv, TypeOK
    <3>3. again' \in [Vouchers -> Nat]
      BY <1>10 DEF WriteRow, Unmoved, Write, Reopened, Done, Fails, Fault, TypedInv, TypeOK
    <3>4. QED
      BY <3>1, <3>2, <3>3
  <2>4. /\ pc' \in [Workers -> {"idle", "approve", "read", "write", "reread", "force",
                                "insert", "close", "undo", "batch", "recheck", "mark"}]
        /\ src' \in [Workers -> Vouchers \cup Terms]
        /\ cur' \in [Workers -> Nat \cup {Forever}]
        /\ tries' \in [Workers -> 0 .. 2]
    BY <1>10 DEF WriteRow, Unmoved, Write, Reopened, Done, Fails, Fault, TypedInv, TypeOK
  <2>5. /\ tick' \in [Ticks -> {"idle", "kick", "expire", "count"}]
        /\ seen' \in [Ticks -> 0 .. MaxAttempts]
        /\ raced' \in [Ticks -> BOOLEAN]
        /\ SeenBelow'
    BY <1>10 DEF WriteRow, Unmoved, Write, Reopened, Done, Fails, Fault, TypedInv, TypeOK, SeenBelow
  <2>6. QED
    BY <2>1, <2>2, <2>3, <2>4, <2>5 DEF TypedInv, TypeOK
<1>11. ASSUME NEW w \in Workers, RereadRow(w) PROVE TypedInv'
  BY <1>11 DEF RereadRow, TypedInv, TypeOK, SeenBelow
<1>12. ASSUME NEW w \in Workers, NEW term \in {ByHand, Lifelong},
              Grant(w, term) \/ AddDays(w, term) \/ Import(w, term) \/ BatchDays(w, term)
       PROVE  TypedInv'
  BY <1>12 DEF Grant, AddDays, Import, BatchDays, Decides, Chosen, Decided, TypedInv, TypeOK, SeenBelow
<1>13. ASSUME NEW w \in Workers, ForceRow(w) PROVE TypedInv'
  <2>1. /\ now' \in 0 .. MaxTime /\ row' \in {"absent", "active", "expired"}
        /\ expires' \in Nat \cup {Forever} /\ attempts' \in 0 .. MaxAttempts
        /\ extended' \in Nat /\ granted' \in Nat
        /\ manual' \in 0 .. MaxManual /\ faults' \in 0 .. MaxFaults
    BY <1>13 DEF ForceRow, Write, Reopened, Done, Extended, TypedInv, TypeOK
  <2>2. member' \in BOOLEAN /\ joining' \in BOOLEAN /\ slipped' \in BOOLEAN /\ cut' \in BOOLEAN
    BY <1>13, Zenon DEF ForceRow, Write, Reopened, Done, TypedInv, TypeOK
  <2>3. /\ status' \in [Vouchers -> {"pending", "redeeming", "paid", "expired", "rejected"}]
        /\ started' \in [Vouchers -> Nat] /\ again' \in [Vouchers -> Nat]
    BY <1>13 DEF ForceRow, Write, Reopened, Done, TypedInv, TypeOK
  <2>4. /\ pc' \in [Workers -> {"idle", "approve", "read", "write", "reread", "force",
                                "insert", "close", "undo", "batch", "recheck", "mark"}]
        /\ src' \in [Workers -> Vouchers \cup Terms]
        /\ cur' \in [Workers -> Nat \cup {Forever}]
        /\ tries' \in [Workers -> 0 .. 2]
    BY <1>13 DEF ForceRow, Write, Reopened, Done, TypedInv, TypeOK
  <2>5. /\ tick' \in [Ticks -> {"idle", "kick", "expire", "count"}]
        /\ seen' \in [Ticks -> 0 .. MaxAttempts]
        /\ raced' \in [Ticks -> BOOLEAN]
        /\ SeenBelow'
    <3>1. tick' = tick /\ seen' = seen
      BY <1>13 DEF ForceRow
    <3>2. raced' = [t \in Ticks |-> tick[t] # "idle"]
      BY <1>13 DEF ForceRow, Write
    <3>3. QED
      BY <3>1, <3>2 DEF TypedInv, TypeOK, SeenBelow
  <2>6. QED
    BY <2>1, <2>2, <2>3, <2>4, <2>5 DEF TypedInv, TypeOK
<1>14. ASSUME NEW t \in Ticks, TickRead(t) PROVE TypedInv'
  BY <1>14 DEF TickRead, Due, TypedInv, TypeOK, SeenBelow
<1>15. ASSUME NEW t \in Ticks, Kick(t) PROVE TypedInv'
  BY <1>15 DEF Kick, TypedInv, TypeOK, SeenBelow
<1>16. ASSUME NEW t \in Ticks, TickExpires(t) PROVE TypedInv'
  BY <1>16, SubscriptionConstants DEF TickExpires, Fault, TickEnds, TypedInv, TypeOK, SeenBelow
<1>17. ASSUME NEW t \in Ticks, TickCounts(t) PROVE TypedInv'
  BY <1>17, SubscriptionConstants DEF TickCounts, Fault, TickEnds, Counted, TypedInv, TypeOK, SeenBelow
<1>18. ASSUME NEW i \in Invoices, Reject(i) PROVE TypedInv'
  BY <1>18 DEF Reject, Decided, TypedInv, TypeOK, SeenBelow
<1>19. ASSUME NEW i \in Invoices, ExpireInvoice(i) PROVE TypedInv'
  BY <1>19 DEF ExpireInvoice, TypedInv, TypeOK, SeenBelow
<1>20. ASSUME JoinRequest PROVE TypedInv'
  BY <1>20 DEF JoinRequest, TypedInv, TypeOK, SeenBelow
<1>21. ASSUME JoinApproved PROVE TypedInv'
  BY <1>21 DEF JoinApproved, TypedInv, TypeOK, SeenBelow
<1>22. ASSUME TimePasses PROVE TypedInv'
  BY <1>22 DEF TimePasses, TypedInv, TypeOK, SeenBelow
<1>23. ASSUME Restart PROVE TypedInv'
  <2>1. /\ now' \in 0 .. MaxTime /\ row' \in {"absent", "active", "expired"}
        /\ expires' \in Nat \cup {Forever} /\ attempts' \in 0 .. MaxAttempts
        /\ extended' \in Nat /\ granted' \in Nat
        /\ manual' \in 0 .. MaxManual /\ faults' \in 0 .. MaxFaults
    BY <1>23 DEF Restart, Fault, TypedInv, TypeOK
  <2>2. member' \in BOOLEAN /\ joining' \in BOOLEAN /\ slipped' \in BOOLEAN /\ cut' \in BOOLEAN
    BY <1>23, Zenon DEF Restart, Fault, TypedInv, TypeOK
  <2>3. /\ status' \in [Vouchers -> {"pending", "redeeming", "paid", "expired", "rejected"}]
        /\ started' \in [Vouchers -> Nat] /\ again' \in [Vouchers -> Nat]
    <3>1. status' \in [Vouchers -> {"pending", "redeeming", "paid", "expired", "rejected"}]
      BY <1>23 DEF Restart, Fault, TypedInv, TypeOK
    <3>2. started' \in [Vouchers -> Nat]
      BY <1>23 DEF Restart, Fault, TypedInv, TypeOK
    <3>3. again' \in [Vouchers -> Nat]
      BY <1>23 DEF Restart, Fault, TypedInv, TypeOK
    <3>4. QED
      BY <3>1, <3>2, <3>3
  <2>4. /\ pc' \in [Workers -> {"idle", "approve", "read", "write", "reread", "force",
                                "insert", "close", "undo", "batch", "recheck", "mark"}]
        /\ src' \in [Workers -> Vouchers \cup Terms]
        /\ cur' \in [Workers -> Nat \cup {Forever}]
        /\ tries' \in [Workers -> 0 .. 2]
    BY <1>23 DEF Restart, Fault, TypedInv, TypeOK
  <2>5. /\ tick' \in [Ticks -> {"idle", "kick", "expire", "count"}]
        /\ seen' \in [Ticks -> 0 .. MaxAttempts]
        /\ raced' \in [Ticks -> BOOLEAN]
        /\ SeenBelow'
    BY <1>23 DEF Restart, Fault, TypedInv, TypeOK, SeenBelow
  <2>6. QED
    BY <2>1, <2>2, <2>3, <2>4, <2>5 DEF TypedInv, TypeOK
<1>24. ASSUME UNCHANGED vars PROVE TypedInv'
  BY <1>24 DEF vars, TypedInv, TypeOK, SeenBelow
<1>26. ASSUME NEW w \in Workers, BatchWrite(w) PROVE TypedInv'
  <2>1. /\ now' \in 0 .. MaxTime /\ row' \in {"absent", "active", "expired"}
        /\ expires' \in Nat \cup {Forever} /\ attempts' \in 0 .. MaxAttempts
        /\ extended' \in Nat /\ granted' \in Nat
        /\ manual' \in 0 .. MaxManual /\ faults' \in 0 .. MaxFaults
    BY <1>26 DEF BatchWrite, Write, Reopened, Fault, Extended, TypedInv, TypeOK
  <2>2. member' \in BOOLEAN /\ joining' \in BOOLEAN /\ slipped' \in BOOLEAN /\ cut' \in BOOLEAN
    BY <1>26, Zenon DEF BatchWrite, Write, Reopened, Fault, TypedInv, TypeOK
  <2>3. /\ status' \in [Vouchers -> {"pending", "redeeming", "paid", "expired", "rejected"}]
        /\ started' \in [Vouchers -> Nat] /\ again' \in [Vouchers -> Nat]
    BY <1>26 DEF BatchWrite, Write, Reopened, Fault, TypedInv, TypeOK
  <2>4. /\ pc' \in [Workers -> {"idle", "approve", "read", "write", "reread", "force",
                                "insert", "close", "undo", "batch", "recheck", "mark"}]
        /\ src' \in [Workers -> Vouchers \cup Terms]
        /\ cur' \in [Workers -> Nat \cup {Forever}]
        /\ tries' \in [Workers -> 0 .. 2]
    BY <1>26 DEF BatchWrite, Write, Reopened, Fault, TypedInv, TypeOK
  <2>5. /\ tick' \in [Ticks -> {"idle", "kick", "expire", "count"}]
        /\ seen' \in [Ticks -> 0 .. MaxAttempts]
        /\ raced' \in [Ticks -> BOOLEAN]
        /\ SeenBelow'
    <3>1. tick' = tick /\ seen' = seen
      BY <1>26 DEF BatchWrite
    <3>2. raced' = raced \/ raced' = [t \in Ticks |-> tick[t] # "idle"]
      BY <1>26 DEF BatchWrite, Write
    <3>3. QED
      BY <3>1, <3>2 DEF TypedInv, TypeOK, SeenBelow
  <2>6. QED
    BY <2>1, <2>2, <2>3, <2>4, <2>5 DEF TypedInv, TypeOK
<1>27. ASSUME NEW w \in Workers, Recheck(w) PROVE TypedInv'
  BY <1>27 DEF Recheck, Chosen, Fault, TypedInv, TypeOK, SeenBelow
<1>28. ASSUME NEW w \in Workers, OwnerKicks(w) PROVE TypedInv'
  <2>1. /\ now' \in 0 .. MaxTime /\ row' \in {"absent", "active", "expired"}
        /\ expires' \in Nat \cup {Forever} /\ attempts' \in 0 .. MaxAttempts
        /\ extended' \in Nat /\ granted' \in Nat
        /\ manual' \in 0 .. MaxManual /\ faults' \in 0 .. MaxFaults
    BY <1>28 DEF OwnerKicks, Decided, TypedInv, TypeOK
  <2>2. member' \in BOOLEAN /\ joining' \in BOOLEAN /\ slipped' \in BOOLEAN /\ cut' \in BOOLEAN
    BY <1>28, Zenon DEF OwnerKicks, Decided, TypedInv, TypeOK
  <2>3. /\ status' \in [Vouchers -> {"pending", "redeeming", "paid", "expired", "rejected"}]
        /\ started' \in [Vouchers -> Nat] /\ again' \in [Vouchers -> Nat]
    BY <1>28 DEF OwnerKicks, Decided, TypedInv, TypeOK
  <2>4. /\ pc' \in [Workers -> {"idle", "approve", "read", "write", "reread", "force",
                                "insert", "close", "undo", "batch", "recheck", "mark"}]
        /\ src' \in [Workers -> Vouchers \cup Terms]
        /\ cur' \in [Workers -> Nat \cup {Forever}]
        /\ tries' \in [Workers -> 0 .. 2]
    BY <1>28 DEF OwnerKicks, Decided, TypedInv, TypeOK
  <2>5. /\ tick' \in [Ticks -> {"idle", "kick", "expire", "count"}]
        /\ seen' \in [Ticks -> 0 .. MaxAttempts]
        /\ raced' \in [Ticks -> BOOLEAN]
        /\ SeenBelow'
    BY <1>28 DEF OwnerKicks, Decided, TypedInv, TypeOK, SeenBelow
  <2>6. QED
    BY <2>1, <2>2, <2>3, <2>4, <2>5 DEF TypedInv, TypeOK
<1>29. ASSUME NEW w \in Workers, MarkKicked(w) PROVE TypedInv'
  <2>1. /\ now' \in 0 .. MaxTime /\ row' \in {"absent", "active", "expired"}
        /\ expires' \in Nat \cup {Forever} /\ attempts' \in 0 .. MaxAttempts
        /\ extended' \in Nat /\ granted' \in Nat
        /\ manual' \in 0 .. MaxManual /\ faults' \in 0 .. MaxFaults
    BY <1>29 DEF MarkKicked, TypedInv, TypeOK
  <2>2. member' \in BOOLEAN /\ joining' \in BOOLEAN /\ slipped' \in BOOLEAN /\ cut' \in BOOLEAN
    BY <1>29, Zenon DEF MarkKicked, TypedInv, TypeOK
  <2>3. /\ status' \in [Vouchers -> {"pending", "redeeming", "paid", "expired", "rejected"}]
        /\ started' \in [Vouchers -> Nat] /\ again' \in [Vouchers -> Nat]
    BY <1>29 DEF MarkKicked, TypedInv, TypeOK
  <2>4. /\ pc' \in [Workers -> {"idle", "approve", "read", "write", "reread", "force",
                                "insert", "close", "undo", "batch", "recheck", "mark"}]
        /\ src' \in [Workers -> Vouchers \cup Terms]
        /\ cur' \in [Workers -> Nat \cup {Forever}]
        /\ tries' \in [Workers -> 0 .. 2]
    BY <1>29 DEF MarkKicked, TypedInv, TypeOK
  <2>5. /\ tick' \in [Ticks -> {"idle", "kick", "expire", "count"}]
        /\ seen' \in [Ticks -> 0 .. MaxAttempts]
        /\ raced' \in [Ticks -> BOOLEAN]
        /\ SeenBelow'
    BY <1>29 DEF MarkKicked, TypedInv, TypeOK, SeenBelow
  <2>6. QED
    BY <2>1, <2>2, <2>3, <2>4, <2>5 DEF TypedInv, TypeOK
<1>25. QED
  BY <1>1, <1>2, <1>3, <1>4, <1>5, <1>6, <1>7, <1>8, <1>9, <1>10, <1>11, <1>12, <1>13, <1>14, <1>15, <1>16, <1>17, <1>18, <1>19, <1>20, <1>21, <1>22, <1>23, <1>24,
     <1>26, <1>27, <1>28, <1>29 DEF Next, Worker, Owner, Tick

\* Every variable keeps its type.
THEOREM TypeCorrect == Spec => []TypeOK
<1>1. TypedInv /\ [Next]_vars => TypedInv'
  BY TypedStep
<1>2. TypedInv => TypeOK
  BY DEF TypedInv
<1>3. QED
  BY TypedInit, <1>1, <1>2, PTL DEF Spec
-----------------------------------------------------------------------------
(***************************************************************************)
(* Activations.                                                            *)
(***************************************************************************)
Closed == {"paid", "redeeming"}

\* A voucher that can still be claimed has had an activation fewer.
CountInv ==
  /\ \A v \in Vouchers :
       started[v] <= again[v] + (IF status[v] \in Closed THEN 1 ELSE 0)
  /\ \A i \in Invoices : status[i] # "redeeming"

LEMMA CountInit == Init => CountInv
  BY DEF Init, CountInv, Closed

LEMMA CountStep == TypedInv /\ CountInv /\ [Next]_vars => CountInv'
<1> SUFFICES ASSUME TypedInv /\ CountInv, [Next]_vars PROVE CountInv'
  OBVIOUS
<1>1. ASSUME NEW w \in Workers, NEW i \in Invoices, Claim(w, i) PROVE CountInv'
  BY <1>1 DEF Claim, Claimable, Fault, Activate, TypedInv, TypeOK, CountInv, Closed
<1>2. ASSUME NEW w \in Workers, NEW i \in Invoices, Webhook(w, i) PROVE CountInv'
  BY <1>2 DEF Webhook, Activate, TypedInv, TypeOK, CountInv, Closed
<1>3. ASSUME NEW w \in Workers, NEW i \in Invoices, ApproveRead(w, i) PROVE CountInv'
  BY <1>3 DEF ApproveRead, CountInv, Closed
<1>4. ASSUME NEW w \in Workers, NEW g \in Gifts, Redeem(w, g) PROVE CountInv'
  BY <1>4 DEF Redeem, Activate, TypedInv, TypeOK, CountInv, Closed
<1>5. ASSUME NEW w \in Workers, Approve(w) PROVE CountInv'
  BY <1>5 DEF Approve, Activate, TypedInv, TypeOK, CountInv, Closed
<1>6. ASSUME NEW w \in Workers, CloseCode(w) PROVE CountInv'
  BY <1>6 DEF CloseCode, Fault, TypedInv, TypeOK, CountInv, Closed
<1>7. ASSUME NEW w \in Workers, UndoCode(w) PROVE CountInv'
  BY <1>7 DEF UndoCode, TypedInv, TypeOK, CountInv, Closed
<1>8. ASSUME NEW w \in Workers, ReadRow(w) PROVE CountInv'
  BY <1>8 DEF ReadRow, CountInv, Closed
<1>9. ASSUME NEW w \in Workers, InsertRow(w) PROVE CountInv'
  BY <1>9 DEF InsertRow, CountInv, Closed
<1>10. ASSUME NEW w \in Workers, WriteRow(w) PROVE CountInv'
  BY <1>10 DEF WriteRow, CountInv, Closed
<1>11. ASSUME NEW w \in Workers, RereadRow(w) PROVE CountInv'
  BY <1>11 DEF RereadRow, CountInv, Closed
<1>12. ASSUME NEW w \in Workers, NEW term \in {ByHand, Lifelong},
              Grant(w, term) \/ AddDays(w, term) \/ Import(w, term) \/ BatchDays(w, term)
       PROVE  CountInv'
  BY <1>12 DEF Grant, AddDays, Import, BatchDays, Decides, Chosen, Decided, CountInv, Closed
<1>13. ASSUME NEW w \in Workers, ForceRow(w) PROVE CountInv'
  BY <1>13 DEF ForceRow, CountInv, Closed
<1>14. ASSUME NEW t \in Ticks, TickRead(t) PROVE CountInv'
  BY <1>14 DEF TickRead, CountInv, Closed
<1>15. ASSUME NEW t \in Ticks, Kick(t) PROVE CountInv'
  BY <1>15 DEF Kick, CountInv, Closed
<1>16. ASSUME NEW t \in Ticks, TickExpires(t) PROVE CountInv'
  BY <1>16 DEF TickExpires, CountInv, Closed
<1>17. ASSUME NEW t \in Ticks, TickCounts(t) PROVE CountInv'
  BY <1>17 DEF TickCounts, CountInv, Closed
<1>18. ASSUME NEW i \in Invoices, Reject(i) PROVE CountInv'
  BY <1>18 DEF Reject, Decided, TypedInv, TypeOK, CountInv, Closed
<1>19. ASSUME NEW i \in Invoices, ExpireInvoice(i) PROVE CountInv'
  BY <1>19 DEF ExpireInvoice, TypedInv, TypeOK, CountInv, Closed
<1>20. ASSUME JoinRequest PROVE CountInv'
  BY <1>20 DEF JoinRequest, CountInv, Closed
<1>21. ASSUME JoinApproved PROVE CountInv'
  BY <1>21 DEF JoinApproved, CountInv, Closed
<1>22. ASSUME TimePasses PROVE CountInv'
  BY <1>22 DEF TimePasses, CountInv, Closed
<1>23. ASSUME Restart PROVE CountInv'
  BY <1>23 DEF Restart, CountInv, Closed
<1>24. ASSUME UNCHANGED vars PROVE CountInv'
  BY <1>24 DEF vars, CountInv
<1>26. ASSUME NEW w \in Workers, BatchWrite(w) PROVE CountInv'
  BY <1>26 DEF BatchWrite, Unmoved, Write, Reopened, Fault, Extended, IsTimed, CountInv, Closed
<1>27. ASSUME NEW w \in Workers, Recheck(w) PROVE CountInv'
  BY <1>27 DEF Recheck, Chosen, Fault, CountInv, Closed
<1>28. ASSUME NEW w \in Workers, OwnerKicks(w) PROVE CountInv'
  BY <1>28 DEF OwnerKicks, Decided, CountInv, Closed
<1>29. ASSUME NEW w \in Workers, MarkKicked(w) PROVE CountInv'
  BY <1>29 DEF MarkKicked, CountInv, Closed
<1>25. QED
  BY <1>1, <1>2, <1>3, <1>4, <1>5, <1>6, <1>7, <1>8, <1>9, <1>10, <1>11, <1>12, <1>13, <1>14, <1>15, <1>16, <1>17, <1>18, <1>19, <1>20, <1>21, <1>22, <1>23, <1>24,
     <1>26, <1>27, <1>28, <1>29 DEF Next, Worker, Owner, Tick

\* A voucher is activated once, and once more per decision of an admin and per
\* failed redemption, however its claimants race.
THEOREM ActivatedOncePerOpening == Spec => []ActivatedOnce
<1>1. TypedInv /\ CountInv => ActivatedOnce
  BY DEF TypedInv, TypeOK, CountInv, ActivatedOnce
<1>2. Init => TypedInv /\ CountInv
  BY TypedInit, CountInit
<1>3. (TypedInv /\ CountInv) /\ [Next]_vars => (TypedInv /\ CountInv)'
  BY TypedStep, CountStep
<1>4. QED
  BY <1>1, <1>2, <1>3, PTL DEF Spec
-----------------------------------------------------------------------------
(***************************************************************************)
(* The row keeps every period added to it.                                 *)
(***************************************************************************)
KeepInv ==
  /\ row = "absent" => expires = Forever
  /\ ~slipped => IF expires = Forever THEN extended = 0 ELSE expires >= extended

LEMMA KeepInit == Init => KeepInv
  BY DEF Init, KeepInv

LEMMA KeepStep == TypedInv /\ KeepInv /\ [Next]_vars => KeepInv'
<1> SUFFICES ASSUME TypedInv /\ KeepInv, [Next]_vars PROVE KeepInv'
  OBVIOUS
<1>1. ASSUME NEW w \in Workers, NEW i \in Invoices, Claim(w, i) PROVE KeepInv'
  BY <1>1 DEF Claim, KeepInv
<1>2. ASSUME NEW w \in Workers, NEW i \in Invoices, Webhook(w, i) PROVE KeepInv'
  BY <1>2 DEF Webhook, KeepInv
<1>3. ASSUME NEW w \in Workers, NEW i \in Invoices, ApproveRead(w, i) PROVE KeepInv'
  BY <1>3 DEF ApproveRead, KeepInv
<1>4. ASSUME NEW w \in Workers, NEW g \in Gifts, Redeem(w, g) PROVE KeepInv'
  BY <1>4 DEF Redeem, KeepInv
<1>5. ASSUME NEW w \in Workers, Approve(w) PROVE KeepInv'
  BY <1>5 DEF Approve, KeepInv
<1>6. ASSUME NEW w \in Workers, CloseCode(w) PROVE KeepInv'
  BY <1>6 DEF CloseCode, KeepInv
<1>7. ASSUME NEW w \in Workers, UndoCode(w) PROVE KeepInv'
  BY <1>7 DEF UndoCode, KeepInv
<1>8. ASSUME NEW w \in Workers, ReadRow(w) PROVE KeepInv'
  BY <1>8 DEF ReadRow, KeepInv
<1>9. ASSUME NEW w \in Workers, InsertRow(w) PROVE KeepInv'
  BY <1>9 DEF InsertRow, Write, Reopened, Done, Extended, TypedInv, TypeOK, KeepInv
<1>10. ASSUME NEW w \in Workers, WriteRow(w) PROVE KeepInv'
  BY <1>10 DEF WriteRow, Unmoved, Write, Reopened, Done, Fails, Fault, Extended, TypedInv, TypeOK, KeepInv
<1>11. ASSUME NEW w \in Workers, RereadRow(w) PROVE KeepInv'
  BY <1>11 DEF RereadRow, KeepInv
<1>12. ASSUME NEW w \in Workers, NEW term \in {ByHand, Lifelong},
              Grant(w, term) \/ AddDays(w, term) \/ Import(w, term) \/ BatchDays(w, term)
       PROVE  KeepInv'
  BY <1>12 DEF Grant, AddDays, Import, BatchDays, Decides, Chosen, Decided, TypedInv, TypeOK, KeepInv
<1>13. ASSUME NEW w \in Workers, ForceRow(w) PROVE KeepInv'
  <2>1. row' = "active" /\ expires' = Extended(w)
    BY <1>13 DEF ForceRow, Write, Reopened
  <2>2. CASE ~slipped'
    <3>1. ~slipped /\ (expires = cur[w] \/ ~(expires > now))
      BY <1>13, <2>2 DEF ForceRow
    <3>2. extended' = IF ~IsTimed(w) THEN 0
                      ELSE IF src[w] = Afresh THEN 1 ELSE extended + 1
      BY <1>13 DEF ForceRow, Write
    <3>3. QED
      BY <2>1, <3>1, <3>2 DEF Extended, TypedInv, TypeOK, KeepInv
  <2>3. QED
    BY <2>1, <2>2 DEF KeepInv
<1>14. ASSUME NEW t \in Ticks, TickRead(t) PROVE KeepInv'
  BY <1>14 DEF TickRead, KeepInv
<1>15. ASSUME NEW t \in Ticks, Kick(t) PROVE KeepInv'
  BY <1>15 DEF Kick, KeepInv
<1>16. ASSUME NEW t \in Ticks, TickExpires(t) PROVE KeepInv'
  BY <1>16 DEF TickExpires, TickEnds, Extended, TypedInv, TypeOK, KeepInv
<1>17. ASSUME NEW t \in Ticks, TickCounts(t) PROVE KeepInv'
  BY <1>17 DEF TickCounts, KeepInv
<1>18. ASSUME NEW i \in Invoices, Reject(i) PROVE KeepInv'
  BY <1>18 DEF Reject, KeepInv
<1>19. ASSUME NEW i \in Invoices, ExpireInvoice(i) PROVE KeepInv'
  BY <1>19 DEF ExpireInvoice, KeepInv
<1>20. ASSUME JoinRequest PROVE KeepInv'
  BY <1>20 DEF JoinRequest, KeepInv
<1>21. ASSUME JoinApproved PROVE KeepInv'
  BY <1>21 DEF JoinApproved, KeepInv
<1>22. ASSUME TimePasses PROVE KeepInv'
  BY <1>22 DEF TimePasses, KeepInv
<1>23. ASSUME Restart PROVE KeepInv'
  BY <1>23 DEF Restart, KeepInv
<1>24. ASSUME UNCHANGED vars PROVE KeepInv'
  BY <1>24 DEF vars, KeepInv
<1>26. ASSUME NEW w \in Workers, BatchWrite(w) PROVE KeepInv'
  BY <1>26 DEF BatchWrite, Unmoved, Write, Reopened, Fault, Extended, IsTimed, TypedInv, TypeOK, KeepInv
<1>27. ASSUME NEW w \in Workers, Recheck(w) PROVE KeepInv'
  BY <1>27 DEF Recheck, Chosen, Fault, TypedInv, TypeOK, KeepInv
<1>28. ASSUME NEW w \in Workers, OwnerKicks(w) PROVE KeepInv'
  BY <1>28 DEF OwnerKicks, Decided, TypedInv, TypeOK, KeepInv
<1>29. ASSUME NEW w \in Workers, MarkKicked(w) PROVE KeepInv'
  BY <1>29 DEF MarkKicked, TypedInv, TypeOK, KeepInv
<1>25. QED
  BY <1>1, <1>2, <1>3, <1>4, <1>5, <1>6, <1>7, <1>8, <1>9, <1>10, <1>11, <1>12, <1>13, <1>14, <1>15, <1>16, <1>17, <1>18, <1>19, <1>20, <1>21, <1>22, <1>23, <1>24,
     <1>26, <1>27, <1>28, <1>29 DEF Next, Worker, Owner, Tick

\* No period is lost, but to an unguarded write of a moved row or a refused
\* insert.
THEOREM NothingIsLost == Spec => []NothingLost
<1>1. KeepInv => NothingLost
  BY DEF KeepInv, NothingLost
<1>2. Init => TypedInv /\ KeepInv
  BY TypedInit, KeepInit
<1>3. (TypedInv /\ KeepInv) /\ [Next]_vars => (TypedInv /\ KeepInv)'
  BY TypedStep, KeepStep
<1>4. QED
  BY <1>1, <1>2, <1>3, PTL DEF Spec
-----------------------------------------------------------------------------
(***************************************************************************)
(* The job.                                                                *)
(***************************************************************************)
\* A run is at work on a row that is over, or that a renewal has moved since; a
\* closed row is over, or the owner or such a run has closed it.
KickInv ==
  /\ \A t \in Ticks : tick[t] # "idle" => Over \/ raced[t]
  /\ row = "expired" => Over \/ cut

LEMMA KickInit == Init => KickInv
  BY DEF Init, KickInv

LEMMA KickStep == TypedInv /\ KickInv /\ [Next]_vars => KickInv'
<1> SUFFICES ASSUME TypedInv /\ KickInv, [Next]_vars PROVE KickInv'
  OBVIOUS
<1>1. ASSUME NEW w \in Workers, NEW i \in Invoices, Claim(w, i) PROVE KickInv'
  BY <1>1 DEF Claim, KickInv, Over
<1>2. ASSUME NEW w \in Workers, NEW i \in Invoices, Webhook(w, i) PROVE KickInv'
  BY <1>2 DEF Webhook, KickInv, Over
<1>3. ASSUME NEW w \in Workers, NEW i \in Invoices, ApproveRead(w, i) PROVE KickInv'
  BY <1>3 DEF ApproveRead, KickInv, Over
<1>4. ASSUME NEW w \in Workers, NEW g \in Gifts, Redeem(w, g) PROVE KickInv'
  BY <1>4 DEF Redeem, KickInv, Over
<1>5. ASSUME NEW w \in Workers, Approve(w) PROVE KickInv'
  BY <1>5 DEF Approve, KickInv, Over
<1>6. ASSUME NEW w \in Workers, CloseCode(w) PROVE KickInv'
  BY <1>6 DEF CloseCode, KickInv, Over
<1>7. ASSUME NEW w \in Workers, UndoCode(w) PROVE KickInv'
  BY <1>7 DEF UndoCode, KickInv, Over
<1>8. ASSUME NEW w \in Workers, ReadRow(w) PROVE KickInv'
  BY <1>8 DEF ReadRow, KickInv, Over
<1>9. ASSUME NEW w \in Workers, InsertRow(w) PROVE KickInv'
  <2>1. tick' = tick /\ now' = now
    BY <1>9 DEF InsertRow, tickVars
  <2>2. CASE UNCHANGED <<row, expires, raced, cut>>
    BY <2>1, <2>2 DEF KickInv, Over
  <2>3. CASE Write(w)
    BY <2>1, <2>3 DEF Write, Reopened, KickInv
  <2>4. QED
    BY <1>9, <2>2, <2>3 DEF InsertRow
<1>10. ASSUME NEW w \in Workers, WriteRow(w) PROVE KickInv'
  <2>1. tick' = tick /\ now' = now
    BY <1>10 DEF WriteRow, tickVars
  <2>2. CASE UNCHANGED <<row, expires, raced, cut>>
    BY <2>1, <2>2 DEF KickInv, Over
  <2>3. CASE Write(w)
    BY <2>1, <2>3 DEF Write, Reopened, KickInv
  <2>4. QED
    BY <1>10, <2>2, <2>3 DEF WriteRow
<1>11. ASSUME NEW w \in Workers, RereadRow(w) PROVE KickInv'
  BY <1>11 DEF RereadRow, KickInv, Over
<1>12. ASSUME NEW w \in Workers, NEW term \in {ByHand, Lifelong},
              Grant(w, term) \/ AddDays(w, term) \/ Import(w, term) \/ BatchDays(w, term)
       PROVE  KickInv'
  BY <1>12 DEF Grant, AddDays, Import, BatchDays, Decides, Chosen, Decided, TypedInv, TypeOK, KickInv, Over
<1>13. ASSUME NEW w \in Workers, ForceRow(w) PROVE KickInv'
  BY <1>13 DEF ForceRow, Write, Reopened, Done, TypedInv, TypeOK, KickInv, Over
<1>14. ASSUME NEW t \in Ticks, TickRead(t) PROVE KickInv'
  BY <1>14 DEF TickRead, Due, TypedInv, TypeOK, KickInv, Over
<1>15. ASSUME NEW t \in Ticks, Kick(t) PROVE KickInv'
  BY <1>15 DEF Kick, TypedInv, TypeOK, KickInv, Over
<1>16. ASSUME NEW t \in Ticks, TickExpires(t) PROVE KickInv'
  BY <1>16 DEF TickExpires, TickEnds, TypedInv, TypeOK, KickInv, Over
<1>17. ASSUME NEW t \in Ticks, TickCounts(t) PROVE KickInv'
  BY <1>17 DEF TickCounts, TickEnds, Counted, TypedInv, TypeOK, KickInv, Over
<1>18. ASSUME NEW i \in Invoices, Reject(i) PROVE KickInv'
  BY <1>18 DEF Reject, KickInv, Over
<1>19. ASSUME NEW i \in Invoices, ExpireInvoice(i) PROVE KickInv'
  BY <1>19 DEF ExpireInvoice, KickInv, Over
<1>20. ASSUME JoinRequest PROVE KickInv'
  BY <1>20 DEF JoinRequest, KickInv, Over
<1>21. ASSUME JoinApproved PROVE KickInv'
  BY <1>21 DEF JoinApproved, KickInv, Over
<1>22. ASSUME TimePasses PROVE KickInv'
  BY <1>22 DEF TimePasses, TypedInv, TypeOK, KickInv, Over
<1>23. ASSUME Restart PROVE KickInv'
  BY <1>23 DEF Restart, Fault, TypedInv, TypeOK, KickInv, Over
<1>24. ASSUME UNCHANGED vars PROVE KickInv'
  BY <1>24 DEF vars, KickInv, Over
<1>26. ASSUME NEW w \in Workers, BatchWrite(w) PROVE KickInv'
  BY <1>26 DEF BatchWrite, Unmoved, Write, Reopened, Fault, Extended, IsTimed, TypedInv, TypeOK, KickInv, Over
<1>27. ASSUME NEW w \in Workers, Recheck(w) PROVE KickInv'
  BY <1>27 DEF Recheck, Chosen, Fault, TypedInv, TypeOK, KickInv, Over
<1>28. ASSUME NEW w \in Workers, OwnerKicks(w) PROVE KickInv'
  BY <1>28 DEF OwnerKicks, Decided, TypedInv, TypeOK, KickInv, Over
<1>29. ASSUME NEW w \in Workers, MarkKicked(w) PROVE KickInv'
  BY <1>29 DEF MarkKicked, TypedInv, TypeOK, KickInv, Over
<1>25. QED
  BY <1>1, <1>2, <1>3, <1>4, <1>5, <1>6, <1>7, <1>8, <1>9, <1>10, <1>11, <1>12, <1>13, <1>14, <1>15, <1>16, <1>17, <1>18, <1>19, <1>20, <1>21, <1>22, <1>23, <1>24,
     <1>26, <1>27, <1>28, <1>29 DEF Next, Worker, Owner, Tick

\* Nobody is shut out before his time, but by the owner or by a run of the job
\* that a renewal overtook; and a renewal opens what was closed.
THEOREM ShutOutWhenOver == Spec => ShutOutIsOver
<1>1. ASSUME TypedInv, KickInv, [Next]_vars, member, ~member'
      PROVE  \/ Over \/ manual' > manual
             \/ \E t \in Ticks : tick[t] = "kick" /\ raced[t]
  <2>1. ASSUME NEW w \in Workers, Worker(w)  PROVE  member' = member
    BY <2>1 DEF Worker, Claim, Webhook, ApproveRead, Redeem, Approve, CloseCode,
       UndoCode, ReadRow, RereadRow, InsertRow, WriteRow, ForceRow
  <2>2. ASSUME NEW w \in Workers, Owner(w)
        PROVE  member' = member \/ manual' = manual + 1
    BY <2>2 DEF Owner, Grant, AddDays, Import, BatchDays, Decides, BatchWrite,
       Recheck, OwnerKicks, Decided, MarkKicked
  <2>3. ASSUME NEW t \in Ticks, Tick(t)
        PROVE  member' = member \/ tick[t] = "kick"
    BY <2>3 DEF Tick, TickRead, Kick, TickExpires, TickCounts
  <2>4. ASSUME NEW i \in Invoices, Reject(i) \/ ExpireInvoice(i)
        PROVE  member' = member
    BY <2>4 DEF Reject, ExpireInvoice
  <2>5. ASSUME JoinRequest \/ JoinApproved \/ TimePasses \/ Restart \/ UNCHANGED vars
        PROVE  member => member'
    BY <2>5 DEF JoinRequest, JoinApproved, TimePasses, Restart, vars
  <2>6. \/ \E w \in Workers : manual' = manual + 1
        \/ \E t \in Ticks : tick[t] = "kick"
    BY <1>1, <2>1, <2>2, <2>3, <2>4, <2>5 DEF Next
  <2>7. CASE \E t \in Ticks : tick[t] = "kick"
    BY <1>1, <2>7 DEF KickInv
  <2>8. CASE manual' = manual + 1
    BY <1>1, <2>8 DEF TypedInv, TypeOK
  <2>9. QED
    BY <2>6, <2>7, <2>8
<1>2. TypedInv /\ KickInv => (row = "expired" => Over \/ cut)
  BY DEF KickInv
<1>3. Init => TypedInv /\ KickInv
  BY TypedInit, KickInit
<1>4. (TypedInv /\ KickInv) /\ [Next]_vars => (TypedInv /\ KickInv)'
  BY TypedStep, KickStep
<1>5. (TypedInv /\ KickInv) /\ [Next]_vars =>
        [member /\ ~member' =>
           \/ Over \/ manual' > manual
           \/ \E t \in Ticks : tick[t] = "kick" /\ raced[t]]_vars
  BY <1>1
<1>6. QED
  BY <1>2, <1>3, <1>4, <1>5, PTL DEF Spec, ShutOutIsOver
-----------------------------------------------------------------------------
(***************************************************************************)
(* One period per activation.                                              *)
(***************************************************************************)
\* The workers whose extension is still to be written.
Places == {"read", "write", "reread", "force", "insert", "batch", "recheck"}
Flight == {w \in Workers : pc[w] \in Places}

\* What is on the row, and what a worker read of it, leave room for those.
RoomInv ==
  /\ Cardinality(Flight) <= granted
  /\ expires + Cardinality(Flight) <= now + granted
  /\ \A w \in Workers : cur[w] + Cardinality(Flight) <= now + granted

LEMMA FlightFinite == IsFiniteSet(Flight) /\ Cardinality(Flight) \in Nat
  BY FS_Subset, FS_CardinalityType DEF Flight

\* A worker that starts, goes on or stops: the others fly as before.
LEMMA FlightStep ==
  ASSUME NEW w \in Workers, \A v \in Workers : v # w => pc'[v] = pc[v]
  PROVE  /\ pc[w] \in Places /\ pc'[w] \in Places => Flight' = Flight
         /\ pc[w] \notin Places /\ pc'[w] \notin Places => Flight' = Flight
         /\ pc[w] \notin Places /\ pc'[w] \in Places =>
              Cardinality(Flight') = Cardinality(Flight) + 1
         /\ pc[w] \in Places /\ pc'[w] \notin Places =>
              Cardinality(Flight') = Cardinality(Flight) - 1
<1>1. CASE pc[w] \notin Places /\ pc'[w] \in Places
  <2>1. Flight' = Flight \cup {w} /\ w \notin Flight
    BY <1>1 DEF Flight
  <2>2. QED
    BY <1>1, <2>1, FlightFinite, FS_AddElement
<1>2. CASE pc[w] \in Places /\ pc'[w] \notin Places
  <2>1. Flight' = Flight \ {w} /\ w \in Flight
    BY <1>2 DEF Flight
  <2>2. QED
    BY <1>2, <2>1, FlightFinite, FS_RemoveElement
<1>3. QED
  BY <1>1, <1>2 DEF Flight

LEMMA RoomInit == Init => RoomInv
<1> SUFFICES ASSUME Init PROVE RoomInv
  OBVIOUS
<1>1. Flight = {}
  BY DEF Init, Flight, Places
<1>2. QED
  BY <1>1, FS_EmptySet DEF Init, RoomInv

LEMMA RoomStep == TypedInv /\ RoomInv /\ [Next]_vars => RoomInv'
<1> SUFFICES ASSUME TypedInv /\ RoomInv, [Next]_vars PROVE RoomInv'
  OBVIOUS
<1>1. ASSUME NEW w \in Workers, NEW i \in Invoices, Claim(w, i) PROVE RoomInv'
  <2>1. \A v \in Workers : v # w => pc'[v] = pc[v]
    BY <1>1 DEF Claim, Claimable, Fault, Activate, TypedInv, TypeOK
  <2>2. QED
    BY <1>1, <2>1, FlightStep, FlightFinite DEF Claim, Claimable, Fault, Activate, Places, TypedInv, TypeOK,
      RoomInv
<1>2. ASSUME NEW w \in Workers, NEW i \in Invoices, Webhook(w, i) PROVE RoomInv'
  <2>1. \A v \in Workers : v # w => pc'[v] = pc[v]
    BY <1>2 DEF Webhook, Activate, TypedInv, TypeOK
  <2>2. QED
    BY <1>2, <2>1, FlightStep, FlightFinite DEF Webhook, Activate, Places, TypedInv, TypeOK,
      RoomInv
<1>3. ASSUME NEW w \in Workers, NEW i \in Invoices, ApproveRead(w, i) PROVE RoomInv'
  <2>1. \A v \in Workers : v # w => pc'[v] = pc[v]
    BY <1>3 DEF ApproveRead, Decided, TypedInv, TypeOK
  <2>2. QED
    BY <1>3, <2>1, FlightStep, FlightFinite DEF ApproveRead, Decided, Places, TypedInv, TypeOK,
      RoomInv
<1>4. ASSUME NEW w \in Workers, NEW g \in Gifts, Redeem(w, g) PROVE RoomInv'
  <2>1. \A v \in Workers : v # w => pc'[v] = pc[v]
    BY <1>4 DEF Redeem, Activate, TypedInv, TypeOK
  <2>2. QED
    BY <1>4, <2>1, FlightStep, FlightFinite DEF Redeem, Activate, Places, TypedInv, TypeOK,
      RoomInv
<1>5. ASSUME NEW w \in Workers, Approve(w) PROVE RoomInv'
  <2>1. \A v \in Workers : v # w => pc'[v] = pc[v]
    BY <1>5 DEF Approve, Activate, TypedInv, TypeOK
  <2>2. QED
    BY <1>5, <2>1, FlightStep, FlightFinite DEF Approve, Activate, Places, TypedInv, TypeOK,
      RoomInv
<1>6. ASSUME NEW w \in Workers, CloseCode(w) PROVE RoomInv'
  <2>1. \A v \in Workers : v # w => pc'[v] = pc[v]
    BY <1>6 DEF CloseCode, Fault, TypedInv, TypeOK
  <2>2. QED
    BY <1>6, <2>1, FlightStep, FlightFinite DEF CloseCode, Fault, Places, TypedInv, TypeOK,
      RoomInv
<1>7. ASSUME NEW w \in Workers, UndoCode(w) PROVE RoomInv'
  <2>1. \A v \in Workers : v # w => pc'[v] = pc[v]
    BY <1>7 DEF UndoCode, TypedInv, TypeOK
  <2>2. QED
    BY <1>7, <2>1, FlightStep, FlightFinite DEF UndoCode, Places, TypedInv, TypeOK,
      RoomInv
<1>8. ASSUME NEW w \in Workers, ReadRow(w) PROVE RoomInv'
  <2>1. \A v \in Workers : v # w => pc'[v] = pc[v]
    BY <1>8 DEF ReadRow, Fault, TypedInv, TypeOK
  <2>2. QED
    BY <1>8, <2>1, FlightStep, FlightFinite DEF ReadRow, Fault, Places, TypedInv, TypeOK,
      RoomInv
<1>9. ASSUME NEW w \in Workers, InsertRow(w) PROVE RoomInv'
  <2>1. \A v \in Workers : v # w => pc'[v] = pc[v]
    BY <1>9 DEF InsertRow, Write, Reopened, Done, TypedInv, TypeOK
  <2>2. QED
    BY <1>9, <2>1, FlightStep, FlightFinite DEF InsertRow, Write, Reopened, Done, Extended, Places, TypedInv, TypeOK,
      RoomInv
<1>10. ASSUME NEW w \in Workers, WriteRow(w) PROVE RoomInv'
  <2>1. \A v \in Workers : v # w => pc'[v] = pc[v]
    BY <1>10 DEF WriteRow, Unmoved, Write, Reopened, Done, Fails, Fault, TypedInv, TypeOK
  <2>2. QED
    BY <1>10, <2>1, FlightStep, FlightFinite DEF WriteRow, Unmoved, Write, Reopened, Done, Fails, Fault, Extended, Places, TypedInv, TypeOK,
      RoomInv
<1>11. ASSUME NEW w \in Workers, RereadRow(w) PROVE RoomInv'
  <2>1. \A v \in Workers : v # w => pc'[v] = pc[v]
    BY <1>11 DEF RereadRow, TypedInv, TypeOK
  <2>2. QED
    BY <1>11, <2>1, FlightStep, FlightFinite DEF RereadRow, Places, TypedInv, TypeOK,
      RoomInv
<1>12. ASSUME NEW w \in Workers, NEW term \in {ByHand, Lifelong},
              Grant(w, term) \/ AddDays(w, term) \/ Import(w, term) \/ BatchDays(w, term)
       PROVE  RoomInv'
  <2>1. \A v \in Workers : v # w => pc'[v] = pc[v]
    BY <1>12 DEF Grant, AddDays, Import, BatchDays, Decides, Chosen, Decided, TypedInv, TypeOK
  <2>2. QED
    BY <1>12, <2>1, FlightStep, FlightFinite DEF Grant, AddDays, Import, BatchDays, Decides, Chosen, Decided, Places, TypedInv, TypeOK, RoomInv
<1>13. ASSUME NEW w \in Workers, ForceRow(w) PROVE RoomInv'
  <2>1. \A v \in Workers : v # w => pc'[v] = pc[v]
    BY <1>13 DEF ForceRow, Write, Reopened, Done, TypedInv, TypeOK
  <2>2. QED
    BY <1>13, <2>1, FlightStep, FlightFinite DEF ForceRow, Write, Reopened, Done, Extended, Places, TypedInv, TypeOK,
      RoomInv
<1>14. ASSUME NEW t \in Ticks, TickRead(t) PROVE RoomInv'
  BY <1>14 DEF TickRead, Flight, RoomInv
<1>15. ASSUME NEW t \in Ticks, Kick(t) PROVE RoomInv'
  BY <1>15 DEF Kick, Flight, RoomInv
<1>16. ASSUME NEW t \in Ticks, TickExpires(t) PROVE RoomInv'
  BY <1>16 DEF TickExpires, Flight, RoomInv, TickEnds
<1>17. ASSUME NEW t \in Ticks, TickCounts(t) PROVE RoomInv'
  BY <1>17 DEF TickCounts, Flight, RoomInv, TickEnds
<1>18. ASSUME NEW i \in Invoices, Reject(i) PROVE RoomInv'
  BY <1>18 DEF Reject, Flight, RoomInv
<1>19. ASSUME NEW i \in Invoices, ExpireInvoice(i) PROVE RoomInv'
  BY <1>19 DEF ExpireInvoice, Flight, RoomInv
<1>20. ASSUME JoinRequest PROVE RoomInv'
  BY <1>20 DEF JoinRequest, Flight, RoomInv
<1>21. ASSUME JoinApproved PROVE RoomInv'
  BY <1>21 DEF JoinApproved, Flight, RoomInv
<1>22. ASSUME TimePasses PROVE RoomInv'
  <2>1. Flight' = Flight
    BY <1>22 DEF TimePasses, Flight
  <2>2. QED
    BY <1>22, <2>1, FlightFinite DEF TimePasses, TypedInv, TypeOK, RoomInv
<1>23. ASSUME Restart PROVE RoomInv'
  <2>1. Flight' = {}
    BY <1>23 DEF Restart, Flight, Places
  <2>2. QED
    BY <1>23, <2>1, FlightFinite, FS_EmptySet DEF Restart, TypedInv, TypeOK, RoomInv
<1>24. ASSUME UNCHANGED vars PROVE RoomInv'
  BY <1>24 DEF vars, RoomInv, Flight
<1>26. ASSUME NEW w \in Workers, BatchWrite(w) PROVE RoomInv'
  <2>1. \A v \in Workers : v # w => pc'[v] = pc[v]
    BY <1>26 DEF BatchWrite, Unmoved, Write, Reopened, Fault, Extended, IsTimed, TypedInv, TypeOK
  <2>2. QED
    BY <1>26, <2>1, FlightStep, FlightFinite DEF BatchWrite, Unmoved, Write, Reopened, Fault, Extended, IsTimed, Places, TypedInv, TypeOK, RoomInv
<1>27. ASSUME NEW w \in Workers, Recheck(w) PROVE RoomInv'
  <2>1. \A v \in Workers : v # w => pc'[v] = pc[v]
    BY <1>27 DEF Recheck, Chosen, Fault, TypedInv, TypeOK
  <2>2. QED
    BY <1>27, <2>1, FlightStep, FlightFinite DEF Recheck, Chosen, Fault, Places, TypedInv, TypeOK, RoomInv
<1>28. ASSUME NEW w \in Workers, OwnerKicks(w) PROVE RoomInv'
  <2>1. \A v \in Workers : v # w => pc'[v] = pc[v]
    BY <1>28 DEF OwnerKicks, Decided, TypedInv, TypeOK
  <2>2. QED
    <3>1. UNCHANGED <<now, expires, cur, granted>>
      BY <1>28 DEF OwnerKicks
    <3>2. pc[w] = "idle" /\ pc'[w] \in {"idle", "mark"}
      BY <1>28 DEF OwnerKicks, TypedInv, TypeOK
    <3>3. Flight' = Flight
      BY <2>1, <3>2, FlightStep DEF Places
    <3>4. QED
      BY <3>1, <3>3 DEF RoomInv
<1>29. ASSUME NEW w \in Workers, MarkKicked(w) PROVE RoomInv'
  <2>1. \A v \in Workers : v # w => pc'[v] = pc[v]
    BY <1>29 DEF MarkKicked, TypedInv, TypeOK
  <2>2. QED
    BY <1>29, <2>1, FlightStep, FlightFinite DEF MarkKicked, Places, TypedInv, TypeOK, RoomInv
<1>25. QED
  BY <1>1, <1>2, <1>3, <1>4, <1>5, <1>6, <1>7, <1>8, <1>9, <1>10, <1>11, <1>12, <1>13, <1>14, <1>15, <1>16, <1>17, <1>18, <1>19, <1>20, <1>21, <1>22, <1>23, <1>24,
     <1>26, <1>27, <1>28, <1>29 DEF Next, Worker, Owner, Tick

\* The row never runs further ahead than one period per activation: conflicts,
\* retries, the unguarded write and lost replies do not double an extension.
THEOREM NeverDoubles == Spec => []NeverDoubled
<1>1. TypedInv /\ RoomInv => NeverDoubled
  BY FlightFinite DEF TypedInv, TypeOK, RoomInv, NeverDoubled
<1>2. Init => TypedInv /\ RoomInv
  BY TypedInit, RoomInit
<1>3. (TypedInv /\ RoomInv) /\ [Next]_vars => (TypedInv /\ RoomInv)'
  BY TypedStep, RoomStep
<1>4. QED
  BY <1>1, <1>2, <1>3, PTL DEF Spec
-----------------------------------------------------------------------------
(***************************************************************************)
(* What access rests on.                                                   *)
(***************************************************************************)
\* Nobody is in the channel, or about to be, without an invoice or a code that
\* was activated or a decision of the owner, and only a lifetime tariff or such
\* a decision gives a row without an end: not a retry, the fallback write, a
\* timed tariff or a late run of the job.
AccessWasBought ==
  /\ member \/ joining => manual > 0 \/ \E v \in Vouchers : started[v] > 0
  /\ row # "absent" /\ expires = Forever =>
       manual > 0 \/ \E v \in Vouchers \ Timed : started[v] > 0

\* A worker that is to write the row has activated a voucher, or acts for the
\* owner; an idle one has nothing in hand.
Entitled(w) ==
  /\ pc[w] = "idle" => src[w] = ByHand
  /\ pc[w] = "approve" => src[w] \in Vouchers
  /\ pc[w] \in {"batch", "recheck"} => src[w] \in Terms /\ manual > 0
  /\ pc[w] \in {"read", "insert", "write", "reread", "force"} =>
       manual > 0 \/ (src[w] \in Vouchers /\ started[src[w]] > 0)
  /\ pc[w] = "mark" => row # "absent"

AccessInv ==
  /\ \A w \in Workers : Entitled(w)
  /\ row # "absent" => manual > 0 \/ \E v \in Vouchers : started[v] > 0
  /\ row # "absent" /\ expires = Forever =>
       manual > 0 \/ \E v \in Vouchers \ Timed : started[v] > 0
  /\ member \/ joining \/ (\E t \in Ticks : tick[t] # "idle") => row # "absent"

LEMMA AccessInit == Init => AccessInv
  BY DEF Init, AccessInv, Entitled

LEMMA AccessStep == TypedInv /\ AccessInv /\ [Next]_vars => AccessInv'
<1> SUFFICES ASSUME TypedInv, AccessInv, [Next]_vars PROVE AccessInv'
  OBVIOUS
<1>1. ASSUME NEW w \in Workers, NEW i \in Invoices, Claim(w, i) PROVE AccessInv'
  BY <1>1 DEF Claim, Fault, Activate, TypedInv, TypeOK, AccessInv, Entitled
<1>2. ASSUME NEW w \in Workers, NEW i \in Invoices, Webhook(w, i) PROVE AccessInv'
  BY <1>2 DEF Webhook, Activate, TypedInv, TypeOK, AccessInv, Entitled
<1>3. ASSUME NEW w \in Workers, NEW i \in Invoices, ApproveRead(w, i) PROVE AccessInv'
  BY <1>3 DEF ApproveRead, Decided, TypedInv, TypeOK, AccessInv, Entitled
<1>4. ASSUME NEW w \in Workers, NEW g \in Gifts, Redeem(w, g) PROVE AccessInv'
  BY <1>4 DEF Redeem, Activate, TypedInv, TypeOK, AccessInv, Entitled
<1>5. ASSUME NEW w \in Workers, Approve(w) PROVE AccessInv'
  BY <1>5 DEF Approve, Activate, TypedInv, TypeOK, AccessInv, Entitled
<1>6. ASSUME NEW w \in Workers, CloseCode(w) PROVE AccessInv'
  BY <1>6 DEF CloseCode, Fault, TypedInv, TypeOK, AccessInv, Entitled
<1>7. ASSUME NEW w \in Workers, UndoCode(w) PROVE AccessInv'
  BY <1>7 DEF UndoCode, TypedInv, TypeOK, AccessInv, Entitled
<1>8. ASSUME NEW w \in Workers, ReadRow(w) PROVE AccessInv'
  BY <1>8 DEF ReadRow, Fault, TypedInv, TypeOK, AccessInv, Entitled
<1>9. ASSUME NEW w \in Workers, InsertRow(w) PROVE AccessInv'
  BY <1>9 DEF InsertRow, Write, Reopened, Done, Extended, IsTimed, TypedInv, TypeOK, AccessInv, Entitled
<1>10. ASSUME NEW w \in Workers, WriteRow(w) PROVE AccessInv'
  BY <1>10 DEF WriteRow, Write, Reopened, Done, Fails, Fault, Extended, IsTimed, TypedInv, TypeOK, AccessInv, Entitled
<1>11. ASSUME NEW w \in Workers, RereadRow(w) PROVE AccessInv'
  BY <1>11 DEF RereadRow, TypedInv, TypeOK, AccessInv, Entitled
<1>12. ASSUME NEW w \in Workers, NEW term \in {ByHand, Lifelong},
              Grant(w, term) \/ AddDays(w, term) \/ Import(w, term) \/ BatchDays(w, term)
       PROVE  AccessInv'
  BY <1>12 DEF Grant, AddDays, Import, BatchDays, Decides, Chosen, Decided, TypedInv, TypeOK, AccessInv, Entitled
<1>13. ASSUME NEW w \in Workers, ForceRow(w) PROVE AccessInv'
  BY <1>13 DEF ForceRow, Write, Reopened, Done, Extended, IsTimed, TypedInv, TypeOK, AccessInv, Entitled
<1>14. ASSUME NEW t \in Ticks, TickRead(t) PROVE AccessInv'
  BY <1>14 DEF TickRead, Due, TypedInv, TypeOK, AccessInv, Entitled
<1>15. ASSUME NEW t \in Ticks, Kick(t) PROVE AccessInv'
  BY <1>15 DEF Kick, TypedInv, TypeOK, AccessInv, Entitled
<1>16. ASSUME NEW t \in Ticks, TickExpires(t) PROVE AccessInv'
  BY <1>16 DEF TickExpires, TickEnds, TypedInv, TypeOK, AccessInv, Entitled
<1>17. ASSUME NEW t \in Ticks, TickCounts(t) PROVE AccessInv'
  BY <1>17 DEF TickCounts, TickEnds, TypedInv, TypeOK, AccessInv, Entitled
<1>18. ASSUME NEW i \in Invoices, Reject(i) PROVE AccessInv'
  BY <1>18 DEF Reject, Decided, TypedInv, TypeOK, AccessInv, Entitled
<1>19. ASSUME NEW i \in Invoices, ExpireInvoice(i) PROVE AccessInv'
  BY <1>19 DEF ExpireInvoice, TypedInv, TypeOK, AccessInv, Entitled
<1>20. ASSUME JoinRequest PROVE AccessInv'
  BY <1>20 DEF JoinRequest, HasAccess, TypedInv, TypeOK, AccessInv, Entitled
<1>21. ASSUME JoinApproved PROVE AccessInv'
  BY <1>21 DEF JoinApproved, TypedInv, TypeOK, AccessInv, Entitled
<1>22. ASSUME TimePasses PROVE AccessInv'
  BY <1>22 DEF TimePasses, TypedInv, TypeOK, AccessInv, Entitled
<1>23. ASSUME Restart PROVE AccessInv'
  BY <1>23 DEF Restart, TypedInv, TypeOK, AccessInv, Entitled
<1>24. ASSUME UNCHANGED vars PROVE AccessInv'
  BY <1>24 DEF vars, AccessInv, Entitled
<1>26. ASSUME NEW w \in Workers, BatchWrite(w) PROVE AccessInv'
  BY <1>26 DEF BatchWrite, Unmoved, Write, Reopened, Fault, Extended, IsTimed, TypedInv, TypeOK, AccessInv, Entitled
<1>27. ASSUME NEW w \in Workers, Recheck(w) PROVE AccessInv'
  <2>1. manual > 0
    BY <1>27 DEF Recheck, TypedInv, TypeOK, AccessInv, Entitled
  <2>2. src[w] \in Terms /\ src'[w] \in Terms
    BY <1>27 DEF Recheck, Chosen, TypedInv, TypeOK, AccessInv, Entitled
  <2>3. /\ UNCHANGED <<rowVars, accessVars, tick, started, manual>>
        /\ \A v \in Workers \ {w} : pc'[v] = pc[v] /\ src'[v] = src[v]
    BY <1>27 DEF Recheck, TypedInv, TypeOK
  <2>4. pc'[w] \in {"batch", "idle"} /\ (pc'[w] = "idle" => src'[w] = ByHand)
    BY <1>27 DEF Recheck, TypedInv, TypeOK
  <2>5. QED
    BY <2>1, <2>2, <2>3, <2>4 DEF AccessInv, Entitled
<1>28. ASSUME NEW w \in Workers, OwnerKicks(w) PROVE AccessInv'
  <2>1. manual' > 0 /\ row # "absent"
    BY <1>28 DEF OwnerKicks, Decided, TypedInv, TypeOK
  <2>2. /\ UNCHANGED <<rowVars, joining, tick, started, src>>
        /\ \A v \in Workers \ {w} : pc'[v] = pc[v]
        /\ pc'[w] \in {"mark", "idle"} /\ src[w] = ByHand
    BY <1>28 DEF OwnerKicks, TypedInv, TypeOK, AccessInv, Entitled
  <2>3. QED
    BY <2>1, <2>2 DEF AccessInv, Entitled
<1>29. ASSUME NEW w \in Workers, MarkKicked(w) PROVE AccessInv'
  BY <1>29 DEF MarkKicked, TypedInv, TypeOK, AccessInv, Entitled
<1>25. QED
  BY <1>1, <1>2, <1>3, <1>4, <1>5, <1>6, <1>7, <1>8, <1>9, <1>10, <1>11, <1>12, <1>13, <1>14, <1>15, <1>16, <1>17, <1>18, <1>19, <1>20, <1>21, <1>22, <1>23, <1>24,
     <1>26, <1>27, <1>28, <1>29 DEF Next, Worker, Owner, Tick

\* Whatever workers, retries, fallbacks and runs of the job race: access rests on
\* an activation, and access for ever on the activation of a lifetime tariff.
THEOREM AccessBought == Spec => []AccessWasBought
<1>1. AccessInv => AccessWasBought
  BY DEF AccessInv, AccessWasBought
<1>2. QED
  BY <1>1, TypedInit, TypedStep, AccessInit, AccessStep, PTL DEF Spec
=============================================================================
