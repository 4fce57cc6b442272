------------------------------- MODULE Pplns -------------------------------
(* What the pool splits its money by and how (hbit-pool/src/pool_core.rs,  *)
(* the owed ledger of lib.rs and the planning part of settle_once).  The   *)
(* accounting window gives a share credit for the time it stands in the    *)
(* window, banks it when the share is evicted and lets it age out.  A      *)
(* settlement pays the debts of failed chunks first and splits the rest.   *)
(*                                                                         *)
(* The steps of a payout after it is recorded are in module Settlement:    *)
(* here a chunk either stays or is owed back.  Times are small numbers,    *)
(* workers are numbers because ties are broken by name.                    *)
EXTENDS Integers, Sequences, FiniteSets, FiniteSetsExt, SequencesExt, Filter

CONSTANTS
    Workers,         \* payout addresses
    Window,          \* PPLNS_WINDOW: 4096 shares
    BankBuckets,     \* BANK_BUCKETS: 8
    BankWorkersMax,  \* BANK_WORKERS_MAX: 65536
    SaveEvery,       \* 16: shares between two snapshots for the state file
    Horizons,        \* credit horizons: one settlement interval each
    Pots,            \* what a settlement may have to distribute
    Starts,          \* what the clock may read when the pool first starts
    MaxTime,         \* bound on the clock
    Budgets          \* bounds: [shares, restarts, back, settles]

ASSUME PplnsAssumption ==
    /\ Workers \subseteq Nat /\ IsFiniteSet(Workers)
    /\ {Window, BankBuckets, BankWorkersMax, SaveEvery} \subseteq Nat \ {0}
    /\ Horizons \subseteq Nat \ {0} /\ Pots \subseteq Nat
    /\ Starts \subseteq Nat /\ MaxTime \in Nat
    /\ Budgets \subseteq [shares : Nat, restarts : Nat, back : Nat, settles : Nat]

VARIABLES
    now,       \* the pool's clock
    led,       \* the accounting: [order, counts, banked, horizon]
    saved,     \* the accounting as the state file has it
    unsaved,   \* shares since the last snapshot note_share_saved took
    owed,      \* sequence of [w, units]: the debts of failed chunks
    promised,  \* history: what was split for each worker in recorded chunks
    kept,      \* history: the units of the chunks that stayed
    top,       \* history: the latest clock reading so far
    left       \* what is left of the budget

vars == <<now, led, saved, unsaved, owed, promised, kept, top, left>>
-----------------------------------------------------------------------------
(* Accounting.                                                             *)
Monus(a, b) == IF a > b THEN a - b ELSE 0
Zero == [w \in Workers |-> 0]

BucketMs(h) == Max({1, h \div BankBuckets})
Earned(at, t, h) == Min({Monus(t, at), h})
Fresh(b, t, h) == Monus(t, b.bucket * BucketMs(h)) <= h

NewLedger(h) == [order |-> <<>>, counts |-> Zero, banked |-> <<>>, horizon |-> h]

\* Mutant: credit goes into the bucket of its own time behind a newer one.
MutOpens(banked, b) == banked = <<>> \/ b # Last(banked).bucket
\* bank: a new bucket only after the newest one, should the clock step back.
Opens(banked, b) == banked = <<>> \/ b > Last(banked).bucket

AddRows(rows, more) ==
    [w \in DOMAIN rows \cup DOMAIN more |->
        (IF w \in DOMAIN rows THEN rows[w] ELSE 0) + (IF w \in DOMAIN more THEN more[w] ELSE 0)]

\* A worker's row in a bucket; a full bucket takes no new worker.
AddRow(rows, w, ms) ==
    IF w \in DOMAIN rows \/ Cardinality(DOMAIN rows) < BankWorkersMax
    THEN AddRows(rows, [v \in {w} |-> ms]) ELSE rows

bank(L, w, ms, t) ==
    LET b == t \div BucketMs(L.horizon)
        bs == IF Opens(L.banked, b) THEN Append(L.banked, [bucket |-> b, rows |-> <<>>])
              ELSE L.banked
    IN IF ms = 0 THEN L.banked ELSE [bs EXCEPT ![Len(bs)].rows = AddRow(@, w, ms)]

\* expire_banked: whole buckets leave, from the front.
expire_banked(banked, t, h) ==
    LET alive == {i \in 1..Len(banked) : Fresh(banked[i], t, h)}
    IN IF alive = {} THEN <<>> ELSE SubSeq(banked, Min(alive), Len(banked))

\* Mutant: what the evicted share had earned is lost.
MutEvicted(L, t) == L.banked
\* The oldest share leaves a full window and what it earned is banked.
Evicted(L, t) ==
    bank(L, L.order[1].w, Earned(L.order[1].at, t, L.horizon), t)

record(L, w, t) ==
    LET full == Len(L.order) = Window
        order == Append(L.order, [w |-> w, at |-> t])
        counts == [L.counts EXCEPT ![w] = @ + 1]
    IN [L EXCEPT
          !.order = IF full THEN Tail(order) ELSE order,
          !.counts = IF full THEN [counts EXCEPT ![L.order[1].w] = @ - 1] ELSE counts,
          !.banked = expire_banked(IF full THEN Evicted(L, t) ELSE @, t, L.horizon)]

BankedOf(L, w, t) ==
    LET mine == {i \in 1..Len(L.banked) :
                   Fresh(L.banked[i], t, L.horizon) /\ w \in DOMAIN L.banked[i].rows}
    IN SumFunction([i \in mine |-> L.banked[i].rows[w]])
StandingOf(L, w, t) ==
    LET mine == {i \in 1..Len(L.order) : L.order[i].w = w}
    IN SumFunction([i \in mine |-> Earned(L.order[i].at, t, L.horizon)])

\* credit, and credit_share for one worker: milliseconds of residence.
\* Mutant: a settlement goes by the headcount of the window.
MutCredit(L, t) == L.counts
credit(L, t) == [w \in Workers |-> BankedOf(L, w, t) + StandingOf(L, w, t)]

\* banked_snapshot stores the time a bucket starts at.
\* Mutant: it stores the index of the bucket.
MutStamp(L, i) == L.banked[i].bucket
Stamp(L, i) == L.banked[i].bucket * BucketMs(L.horizon)
banked_snapshot(L) ==
    [i \in 1..Len(L.banked) |-> [at |-> Stamp(L, i), rows |-> L.banked[i].rows]]

\* The rows of a stored bucket are sorted by worker, and only the first are read.
FirstRows(rows) ==
    [w \in {x \in DOMAIN rows :
              Cardinality({v \in DOMAIN rows : v < x}) < BankWorkersMax} |-> rows[w]]

\* restore: the buckets are derived again for the horizon of this process; one
\* that does not come after the last is folded into it.
Refilled(h, bs, s) ==
    LET b == s.at \div BucketMs(h)
    IN IF bs # <<>> /\ b <= Last(bs).bucket
       THEN [bs EXCEPT ![Len(bs)].rows = AddRows(@, FirstRows(s.rows))]
       ELSE Append(bs, [bucket |-> b, rows |-> FirstRows(s.rows)])
Refill(h, stored) ==
    LET filled[n \in 0..Len(stored)] ==
          IF n = 0 THEN <<>> ELSE Refilled(h, filled[n - 1], stored[n])
    IN filled[Len(stored)]
restore(h, order, stored) ==
    [order |-> order,
     counts |-> [w \in Workers |-> Cardinality({i \in 1..Len(order) : order[i].w = w})],
     banked |-> Refill(h, stored),
     horizon |-> h]
-----------------------------------------------------------------------------
(* Splitting and owing.                                                    *)

\* Largest remainder: leftover units go to the largest remainders, ties by name.
\* Mutant: every worker gets its floor and the remainder is lost.
MutBonus(rem, w, leftover) == 0
Bonus(rem, w, leftover) ==
    LET ahead == {v \in DOMAIN rem : rem[v] > rem[w] \/ (rem[v] = rem[w] /\ v < w)}
    IN IF Cardinality(ahead) < leftover THEN 1 ELSE 0

\* split_payout with POOL_FEE_UNITS = 0 and PAYOUT_DUST_UNITS = 1.
split_payout(pot, cr) ==
    LET total == SumFunction(cr)
        floor == [w \in Workers |-> (pot * cr[w]) \div total]
        rem == [w \in {v \in Workers : cr[v] > 0} |-> (pot * cr[w]) % total]
        leftover == pot - SumFunction(floor)
    IN IF total = 0 THEN Zero
       ELSE [w \in Workers |->
               IF cr[w] = 0 THEN 0 ELSE floor[w] + Bonus(rem, w, leftover)]

\* worker_pending_units: what /earnings tells a worker.
worker_pending_units(pot, cr, w) ==
    IF SumFunction(cr) = 0 THEN 0 ELSE (pot * cr[w]) \div SumFunction(cr)

OwedTo(ow, w) ==
    SumFunction([i \in {j \in 1..Len(ow) : ow[j].w = w} |-> ow[i].units])
Before(ow, i) == SumFunction([j \in 1..(i - 1) |-> ow[j].units])
OwedTotal(ow) == Before(ow, Len(ow) + 1)

\* take_owed: in order, the last one in part, while there is something left.
TakenAt(ow, i, pot) == Min({ow[i].units, Monus(pot, Before(ow, i))})
take_owed(ow, pot) ==
    [w \in Workers |->
        SumFunction([i \in {j \in 1..Len(ow) : ow[j].w = w} |-> TakenAt(ow, i, pot)])]

Fresh_split(pot) == split_payout(Monus(pot, OwedTotal(owed)), credit(led, now))

\* The plan of a settlement, rows to one worker merged.
plan(pot) ==
    LET debts == take_owed(owed, pot)
        fresh == Fresh_split(pot)
    IN [w \in Workers |-> debts[w] + fresh[w]]

\* deduct_owed: saturating, and settled rows go.
\* Mutant: the rows of a payout clear the whole debt of the workers they name.
MutDeduct(ow, rows) == Filter(ow, {r \in Range(ow) : rows[r.w] = 0})
Lowered(ow, rows) ==
    [i \in 1..Len(ow) |-> [ow[i] EXCEPT !.units = Monus(@, rows[ow[i].w])]]
deduct_owed(ow, rows) ==
    Filter(Lowered(ow, rows), {r \in Range(Lowered(ow, rows)) : r.units > 0})

\* owe_rows: added to the debt there is, or at the end in the order of the rows.
InOrder(S) ==
    CHOOSE s \in [1..Cardinality(S) -> S] :
       \A i, j \in 1..Cardinality(S) : i < j => s[i] < s[j]
owe_rows(ow, rows) ==
    LET there == {ow[i].w : i \in 1..Len(ow)}
        new == InOrder({w \in Workers \ there : rows[w] > 0})
    IN [i \in 1..Len(ow) |-> [ow[i] EXCEPT !.units = @ + rows[ow[i].w]]]
       \o [i \in 1..Len(new) |-> [w |-> new[i], units |-> rows[new[i]]]]
-----------------------------------------------------------------------------
(* Actions.                                                                *)

\* A share of w is accepted; every SaveEvery-th is followed by a snapshot of the
\* accounting (note_share_saved), whose write may fail.
Share(w) ==
    /\ left.shares > 0
    /\ led' = record(led, w, now)
    /\ unsaved' = (unsaved + 1) % SaveEvery
    /\ saved' \in IF unsaved' = 0 THEN {saved, led'} ELSE {saved}
    /\ left' = [left EXCEPT !.shares = @ - 1]
    /\ UNCHANGED <<now, owed, promised, kept, top>>

\* A block, a confirmation or a payout writes the whole state file.
Save ==
    /\ saved' = led
    /\ UNCHANGED <<now, led, unsaved, owed, promised, kept, top, left>>

Tick ==
    /\ now < MaxTime
    /\ now' = now + 1
    /\ top' = Max({top, now + 1})
    /\ UNCHANGED <<led, saved, unsaved, owed, promised, kept, left>>

\* The wall clock is set back.
StepBack ==
    /\ left.back > 0 /\ now > 0
    /\ now' = now - 1
    /\ left' = [left EXCEPT !.back = @ - 1]
    /\ UNCHANGED <<led, saved, unsaved, owed, promised, kept, top>>

\* The server starts again from the state file, maybe with another settlement
\* interval.  Debts have durable snapshots of their own (module StateFile).
Restart(h) ==
    /\ left.restarts > 0
    /\ led' = restore(h, saved.order, banked_snapshot(saved))
    /\ unsaved' = 0
    /\ left' = [left EXCEPT !.restarts = @ - 1]
    /\ UNCHANGED <<now, saved, owed, promised, kept, top>>

\* settle_once: plan, record chunks, owe the failed ones back.  A chunk is the
\* row of one worker here.  A chunk that cannot be built or signed is skipped,
\* and after a record that did not reach the disk, which next cycle's poll owes
\* back, no further chunk is made: what was planned for those is neither deducted
\* nor promised.
Settle(pot, recorded, failed) ==
    LET Part(S) == [w \in Workers |-> IF w \in S THEN plan(pot)[w] ELSE 0]
    IN /\ left.settles > 0
       /\ SumFunction(plan(pot)) > 0
       /\ failed \subseteq recorded
       /\ owed' = owe_rows(deduct_owed(owed, Part(recorded)), Part(failed))
       /\ promised' = [w \in Workers |->
              promised[w] + IF w \in recorded THEN Fresh_split(pot)[w] ELSE 0]
       /\ kept' = [w \in Workers |-> kept[w] + Part(recorded \ failed)[w]]
       /\ left' = [left EXCEPT !.settles = @ - 1]
       /\ UNCHANGED <<now, led, saved, unsaved, top>>

Init ==
    /\ now \in Starts /\ top = now
    /\ \E h \in Horizons : led = NewLedger(h)
    /\ saved = led /\ unsaved = 0
    /\ owed = <<>>
    /\ promised = Zero /\ kept = Zero
    /\ left \in Budgets

Next ==
    \/ \E w \in Workers : Share(w)
    \/ Save
    \/ Tick
    \/ StepBack
    \/ \E h \in Horizons : Restart(h)
    \/ \E pot \in Pots, recorded, failed \in SUBSET Workers : Settle(pot, recorded, failed)

Spec == Init /\ [][Next]_vars
-----------------------------------------------------------------------------
(* Properties.                                                             *)

\* The ledger keeps its shape through evictions, restarts and a clock that is
\* set back: the counts are the headcount of the window, buckets are in order
\* (expiry pops from the front) and none is stamped after every clock reading
\* there has been, which could never expire (record, bank, restore).
LedgerShape ==
    /\ Len(led.order) <= Window
    /\ \A w \in Workers :
         led.counts[w] = Cardinality({i \in 1..Len(led.order) : led.order[i].w = w})
    /\ \A i, j \in 1..Len(led.banked) : i < j => led.banked[i].bucket < led.banked[j].bucket
    /\ \A i \in 1..Len(led.banked) : led.banked[i].bucket * BucketMs(led.horizon) <= top

\* "A share that has just arrived has earned nothing, so a burst is worth nothing
\* at the moment it lands, and the honest shares it evicted keep the credit they
\* had already earned" (Pplns): a share changes nobody's credit at that moment.
BurstErasesNothing ==
    [][(\E w \in Workers : led' = record(led, w, now)) /\ now' = now
       => credit(led', now) = credit(led, now)]_vars

\* No bucket has more rows than restore reads of one.  Only buckets that a restart
\* folded into one another can grow past that.
Fitting(L) ==
    \A i \in 1..Len(L.banked) : Cardinality(DOMAIN L.banked[i].rows) <= BankWorkersMax

\* A restart with the same interval gives everybody the credit of the ledger the
\* state file has; with another one, what was banked there well inside the new
\* horizon is still there ("a time survives any interval", banked_snapshot and
\* restore).  This is while no stored bucket has more rows than restore reads; the
\* shares since the snapshot are lost in any case.
RestartKeepsCredit ==
    [][left'.restarts < left.restarts /\ Fitting(saved) =>
         /\ led'.horizon = saved.horizon => credit(led', now) = credit(saved, now)
         /\ \A w \in Workers :
              LET young == {i \in 1..Len(saved.banked) :
                              /\ w \in DOMAIN saved.banked[i].rows
                              /\ Monus(now, saved.banked[i].bucket * BucketMs(saved.horizon))
                                   + BucketMs(led'.horizon) <= led'.horizon}
              IN BankedOf(led', w, now)
                   >= SumFunction([i \in young |-> saved.banked[i].rows[w]])]_vars

\* Every unit that was split for a worker in a chunk that was recorded is either in
\* a chunk that stayed or owed to that worker, once, and the debts of a chunk that
\* was not recorded stay owed: a debt is never both cleared and unpaid, and never
\* paid twice (take_owed, deduct_owed, owe_rows, settle_once).
EveryUnitOnce == \A w \in Workers : kept[w] + OwedTo(owed, w) = promised[w]

\* A plan spends the pot exactly when there is credit to split over, never more,
\* pays debts before anything is split, and pays no worker less than /earnings
\* computes for it from the same pot and credit (split_payout, take_owed,
\* worker_pending_units).  The pot behind /earnings itself may run a few units
\* ahead of the one that is settled, by fees not yet held back (server.rs 2664).
PlanSound ==
    \A pot \in Pots :
      LET p == plan(pot)
          cr == credit(led, now)
          rest == Monus(pot, OwedTotal(owed))
      IN /\ SumFunction(p) <= pot
         /\ SumFunction(cr) > 0 => SumFunction(p) = pot
         /\ pot >= OwedTotal(owed) => \A w \in Workers :
              p[w] >= OwedTo(owed, w) + worker_pending_units(rest, cr, w)

=============================================================================
