----------------------------- MODULE Settlement -----------------------------
(***************************************************************************)
(* The mining pool's settlement thread (settle_once of hbit-pool): poll    *)
(* the payouts in flight, credit what is buried, and only when none is     *)
(* left value the wallet, plan a payout and submit it transaction by       *)
(* transaction, each recorded on disk before it is posted.  Around it the  *)
(* node that holds, relays, loses or mines those transactions, and crashes *)
(* of the pool.                                                            *)
(*                                                                         *)
(* A transaction pays one miner (PAYOUT_CHUNK rows in the code: the ledger *)
(* moves of a chunk are those of its rows).  A record carries the signed   *)
(* bytes, and the tracked hashes are the hashes of the records: older      *)
(* records without bytes are left out.  Block income is matured when it    *)
(* arrives here.  Transaction fees come out of the reserve and are left    *)
(* out with it.                                                            *)
(***************************************************************************)
EXTENDS Integers, Sequences, FiniteSets, Functions

CONSTANTS
    Miner,        \* payout addresses
    MaxIncome,    \* bound: units the wallet earns in a behaviour
    MaxTx,        \* bound: payout transactions signed
    MaxCrash,     \* bound: crashes of the pool
    DiskFails     \* a snapshot can fail to reach the disk

ASSUME SettlementConstants ==
    /\ IsFiniteSet(Miner)
    /\ MaxIncome \in Nat /\ MaxTx \in Nat /\ MaxCrash \in Nat
    /\ DiskFails \in BOOLEAN

VARIABLES
    txs,      \* every payout ever signed, in order
    net,      \* where each of them is: in the node, with its peers, in a block
    bal,      \* the wallet's confirmed balance
    earned,   \* what it has been paid so far
    mem,      \* the pool's ledgers
    disk,     \* the ledgers in the state file
    pc,       \* settle_once: its step
    cycle,    \* settle_once: its locals
    written,  \* history: the accepted payouts whose record was dropped
    crashes

vars == <<txs, net, bal, earned, mem, disk, pc, cycle, written, crashes>>

Ids == DOMAIN txs
Zero == [m \in Miner |-> 0]
Locals == [todo |-> {}, still |-> {}, buried |-> {}, plan |-> Zero, cur |-> 0]

Units(ids) == SumFunctionOnSet([t \in Ids |-> txs[t].units], ids)

\* what these transactions pay one miner
Rows(ids, m) == Units({t \in ids : txs[t].to = m})

Init ==
    /\ txs = <<>> /\ net = <<>>
    /\ bal = 0 /\ earned = 0
    /\ mem = [recs |-> {}, owed |-> Zero, paid |-> Zero]
    /\ disk = mem
    /\ pc = "idle" /\ cycle = Locals
    /\ written = {} /\ crashes = 0
-----------------------------------------------------------------------------
(* The pool's node and the rest of the network *)

\* What /query/transaction answers, when it answers
Query(t) ==
    IF net[t].block # "no" THEN net[t].block
    ELSE IF net[t].node = "held" THEN "pending" ELSE "gone"

\* Not in a block, but some node can still put it there
Live(t) == net[t].block = "no" /\ (net[t].node # "none" \/ net[t].peers)

Pool == <<mem, disk, pc, cycle, written, crashes>>

Income ==
    /\ earned < MaxIncome
    /\ earned' = earned + 1 /\ bal' = bal + 1
    /\ UNCHANGED <<txs, net, Pool>>

\* handle_new_tx, of a post whose answer the pool did not wait for: the node
\* inserts the transaction and relays it
NodeInsert(t) ==
    /\ net[t].node = "queued" /\ net[t].block = "no"
    /\ net' = [net EXCEPT ![t].node = "held", ![t].peers = TRUE]
    /\ UNCHANGED <<txs, bal, earned, Pool>>

\* the node refuses such a transaction, or pushes one it holds out of a full
\* group or drains it; its peers may have it all the same
NodeDrop(t) ==
    /\ net[t].node \in {"queued", "held"}
    /\ net' = [net EXCEPT ![t].node = "none"]
    /\ UNCHANGED <<txs, bal, earned, Pool>>

\* the node's mempool is in memory
NodeRestart ==
    /\ \E t \in Ids : net[t].node # "none"
    /\ net' = [t \in Ids |-> [net[t] EXCEPT !.node = "none"]]
    /\ UNCHANGED <<txs, bal, earned, Pool>>

PeersForget(t) ==
    /\ net[t].peers
    /\ net' = [net EXCEPT ![t].peers = FALSE]
    /\ UNCHANGED <<txs, bal, earned, Pool>>

Mine(t) ==
    /\ net[t].block = "no" /\ (net[t].node = "held" \/ net[t].peers)
    /\ bal >= txs[t].units
    /\ net' = [net EXCEPT ![t].block = "mined", ![t].node = "none"]
    /\ bal' = bal - txs[t].units
    /\ UNCHANGED <<txs, earned, Pool>>

\* a shallow block is replaced and its transactions are pending again
Reorg(t) ==
    /\ net[t].block = "mined"
    /\ net' = [net EXCEPT ![t].block = "no", ![t].peers = TRUE]
    /\ bal' = bal + txs[t].units
    /\ UNCHANGED <<txs, earned, Pool>>

\* PAYOUT_MATURITY_DEPTH blocks on top, more than the node can reorganise
Bury(t) ==
    /\ net[t].block = "mined"
    /\ net' = [net EXCEPT ![t].block = "buried"]
    /\ UNCHANGED <<txs, bal, earned, Pool>>

Network ==
    \/ Income
    \/ NodeRestart
    \/ \E t \in Ids : NodeInsert(t)
    \/ \E t \in Ids : NodeDrop(t)
    \/ \E t \in Ids : PeersForget(t)
    \/ \E t \in Ids : Mine(t)
    \/ \E t \in Ids : Reorg(t)
    \/ \E t \in Ids : Bury(t)
-----------------------------------------------------------------------------
(* settle_once: resolving what is in flight *)

Chain == <<txs, net, bal, earned>>

\* the node's tip answers: poll what is tracked, if anything is
Start ==
    /\ pc = "idle"
    /\ pc' = IF mem.recs = {} THEN "plan" ELSE "poll"
    /\ cycle' = [Locals EXCEPT !.todo = mem.recs]
    /\ UNCHANGED <<Chain, mem, disk, written, crashes>>

\* a poll without a usable answer: nothing is concluded
PollUnknown(t) ==
    /\ pc = "poll" /\ t \in cycle.todo
    /\ cycle' = [cycle EXCEPT !.todo = @ \ {t}, !.still = @ \cup {t}]
    /\ UNCHANGED <<Chain, mem, disk, pc, written, crashes>>

\* a payout is done with as soon as a block has it
MutInFlight == {"pending"}

\* the states of a payout that stay tracked: in the mempool or shallow
InFlight == {"pending", "mined"}

\* what the poll takes for paid for good
Done == {"mined", "buried"} \ InFlight

PollHeld(t) ==
    /\ pc = "poll" /\ t \in cycle.todo
    /\ Query(t) \in InFlight
    /\ cycle' = [cycle EXCEPT !.todo = @ \ {t}, !.still = @ \cup {t}]
    /\ UNCHANGED <<Chain, mem, disk, pc, written, crashes>>

PollBuried(t) ==
    /\ pc = "poll" /\ t \in cycle.todo
    /\ Query(t) \in Done
    /\ cycle' = [cycle EXCEPT !.todo = @ \ {t}, !.buried = @ \cup {t}]
    /\ UNCHANGED <<Chain, mem, disk, pc, written, crashes>>

\* the payout is only watched
MutPosted(t) == net' = net

\* the bytes reach the node
Posted(t) == net' = [net EXCEPT ![t].node = "queued"]

\* gone_action, Rebroadcast: the identical bytes are posted and stay tracked
PollGone(t) ==
    /\ pc = "poll" /\ t \in cycle.todo
    /\ Query(t) = "gone"
    /\ Posted(t)
    /\ cycle' = [cycle EXCEPT !.todo = @ \ {t}, !.still = @ \cup {t}]
    /\ UNCHANGED <<txs, bal, earned, mem, disk, pc, written, crashes>>

\* the same, but the post is refused or lost
PollUnheard(t) ==
    /\ pc = "poll" /\ t \in cycle.todo
    /\ Query(t) = "gone"
    /\ cycle' = [cycle EXCEPT !.todo = @ \ {t}, !.still = @ \cup {t}]
    /\ UNCHANGED <<Chain, mem, disk, pc, written, crashes>>

\* confirm_payout: from in flight to paid in one locked step
Confirmed(led, ids) ==
    [recs |-> led.recs \ ids, owed |-> led.owed,
     paid |-> [m \in Miner |-> led.paid[m] + Rows(ids, m)]]

Resolve ==
    /\ pc = "poll" /\ cycle.todo = {}
    /\ mem' = Confirmed(mem, cycle.buried)
    /\ pc' = "resolved"
    /\ UNCHANGED <<Chain, disk, cycle, written, crashes>>

\* flush_state: the snapshot lands, or does not
Flushed == disk' = mem \/ (DiskFails /\ disk' = disk)

\* with anything still in flight the cycle ends, otherwise it may pay
FlushResolved ==
    /\ pc = "resolved"
    /\ Flushed
    /\ pc' = IF cycle.still = {} THEN "plan" ELSE "idle"
    /\ cycle' = Locals
    /\ UNCHANGED <<Chain, mem, written, crashes>>
-----------------------------------------------------------------------------
(* settle_once: paying *)

Sum(f) == SumFunctionOnSet(f, Miner)

\* distributable_units, beyond the reserve
Distributable == IF bal <= 1 THEN 0 ELSE bal

\* take_owed, plan_settlement and merge_payout_rows: debts first, as far as the
\* money goes, then a split of the rest that depends on the share window
Plans(funds) ==
    {p \in [Miner -> 0..funds] :
        /\ Sum(p) <= funds
        /\ \E old \in [Miner -> 0..funds] :
              /\ \A m \in Miner : old[m] <= mem.owed[m] /\ old[m] <= p[m]
              /\ Sum(old) = IF Sum(mem.owed) <= funds THEN Sum(mem.owed) ELSE funds}

\* the share target has halted, or the wallet cannot be valued
SkipPlan ==
    /\ pc = "plan"
    /\ pc' = "idle"
    /\ UNCHANGED <<Chain, mem, disk, cycle, written, crashes>>

MakePlan ==
    /\ pc = "plan"
    /\ \E p \in Plans(Distributable) :
          /\ cycle' = [cycle EXCEPT !.plan = p]
          /\ pc' = IF p = Zero THEN "idle" ELSE "sign"
    /\ UNCHANGED <<Chain, mem, disk, written, crashes>>

\* what a miner is owed is reduced without a floor
MutDeduct(owed, m, u) == [owed EXCEPT ![m] = @ - u]

\* deduct_owed: saturating
Deduct(owed, m, u) == [owed EXCEPT ![m] = IF @ <= u THEN 0 ELSE @ - u]

\* One transaction is signed and recorded in memory, off the owed ledger
Record(m) ==
    /\ pc = "sign" /\ cycle.plan[m] > 0
    /\ Len(txs) < MaxTx
    /\ txs' = Append(txs, [to |-> m, units |-> cycle.plan[m]])
    /\ net' = Append(net, [node |-> "none", peers |-> FALSE, block |-> "no"])
    /\ mem' = [mem EXCEPT !.recs = @ \cup {Len(txs')},
                          !.owed = Deduct(@, m, cycle.plan[m])]
    /\ cycle' = [cycle EXCEPT !.plan[m] = 0, !.cur = Len(txs')]
    /\ pc' = "record"
    /\ UNCHANGED <<bal, earned, disk, written, crashes>>

\* the chunk cannot be signed and is skipped
SignFails(m) ==
    /\ pc = "sign" /\ cycle.plan[m] > 0
    /\ cycle' = [cycle EXCEPT !.plan[m] = 0]
    /\ UNCHANGED <<Chain, mem, disk, pc, written, crashes>>

\* nothing left to sign, or the bound on transactions is reached
CycleEnds ==
    /\ pc = "sign" /\ (cycle.plan = Zero \/ Len(txs) = MaxTx)
    /\ pc' = "idle" /\ cycle' = Locals
    /\ UNCHANGED <<Chain, mem, disk, written, crashes>>

\* what the file holds once the record has been flushed
RecordFlushed == disk' = mem

\* the record is on disk before the post; if it is not, the cycle stops
FlushRecord ==
    /\ pc = "record"
    /\ \/ RecordFlushed /\ pc' = "post" /\ UNCHANGED cycle
       \/ DiskFails /\ disk' = disk /\ pc' = "idle" /\ cycle' = Locals
    /\ UNCHANGED <<Chain, mem, written, crashes>>

\* the record goes and its money rejoins the pot
MutOwedBack(led, t) == [led EXCEPT !.recs = @ \ {t}]

\* owe_back_failed_payout: the record goes, its row is owed again
OwedBack(led, t) ==
    [recs |-> led.recs \ {t}, paid |-> led.paid,
     owed |-> [led.owed EXCEPT ![txs[t].to] = @ + txs[t].units]]

\* submit_transaction answers when the node has inserted and relayed the bytes
PostAccepted ==
    /\ pc = "post"
    /\ net' = [net EXCEPT ![cycle.cur].node = "held", ![cycle.cur].peers = TRUE]
    /\ pc' = "verify"
    /\ UNCHANGED <<txs, bal, earned, mem, disk, cycle, written, crashes>>

\* the node's validator refused it
PostRejected ==
    /\ pc = "post"
    /\ mem' = OwedBack(mem, cycle.cur)
    /\ pc' = "owe"
    /\ UNCHANGED <<Chain, disk, cycle, written, crashes>>

\* a timeout is taken for a refusal
MutUnresolved == mem' = OwedBack(mem, cycle.cur)

\* a timeout is no refusal: the node may or may not have taken the bytes
Unresolved == mem' = mem

PostUnresolved ==
    /\ pc = "post"
    /\ net' \in {net, [net EXCEPT ![cycle.cur].node = "queued"]}
    /\ Unresolved
    /\ pc' = "sign" /\ cycle' = [cycle EXCEPT !.cur = 0]
    /\ UNCHANGED <<txs, bal, earned, disk, written, crashes>>

\* verify_admitted: the node holds it, or would not say
VerifyKept ==
    /\ pc = "verify"
    /\ pc' = "sign" /\ cycle' = [cycle EXCEPT !.cur = 0]
    /\ UNCHANGED <<Chain, mem, disk, written, crashes>>

\* verify_admitted, Missing: taken for never inserted and never relayed, while
\* it is one that the node accepted and has lost since
VerifyMissing ==
    /\ pc = "verify"
    /\ Query(cycle.cur) = "gone"
    /\ mem' = OwedBack(mem, cycle.cur)
    /\ written' = written \cup {cycle.cur}
    /\ pc' = "owe"
    /\ UNCHANGED <<Chain, disk, cycle, crashes>>

\* the verdict is flushed and the next chunk follows
FlushVerdict ==
    /\ pc = "owe"
    /\ Flushed
    /\ pc' = "sign" /\ cycle' = [cycle EXCEPT !.cur = 0]
    /\ UNCHANGED <<Chain, mem, written, crashes>>

\* another thread's snapshot of the same ledgers reaches the file
Snapshot ==
    /\ disk # mem
    /\ disk' = mem
    /\ UNCHANGED <<Chain, mem, pc, cycle, written, crashes>>

\* the pool dies and starts again from the state file, on which a verdict may be
\* missing: its record is then back
Crash ==
    /\ crashes < MaxCrash
    /\ crashes' = crashes + 1
    /\ mem' = disk
    /\ written' = written \ disk.recs
    /\ pc' = "idle" /\ cycle' = Locals
    /\ UNCHANGED <<Chain, disk>>
-----------------------------------------------------------------------------
Settle ==
    \/ Start
    \/ \E t \in Ids : PollUnknown(t)
    \/ \E t \in Ids : PollHeld(t)
    \/ \E t \in Ids : PollBuried(t)
    \/ \E t \in Ids : PollGone(t)
    \/ \E t \in Ids : PollUnheard(t)
    \/ Resolve
    \/ FlushResolved
    \/ SkipPlan
    \/ MakePlan
    \/ \E m \in Miner : Record(m)
    \/ \E m \in Miner : SignFails(m)
    \/ CycleEnds
    \/ FlushRecord
    \/ PostAccepted
    \/ PostRejected
    \/ PostUnresolved
    \/ VerifyKept
    \/ VerifyMissing
    \/ FlushVerdict

Next == Network \/ Settle \/ Snapshot \/ Crash

Spec == Init /\ [][Next]_vars

\* The settlement timer keeps running, and the node sooner or later answers a
\* poll, takes a post, inserts what it took, mines what it holds and buries what
\* it mined: none of them fails for ever.
FairSpec ==
    /\ Spec
    /\ WF_vars(Settle)
    /\ SF_vars(\E t \in Ids : PollGone(t))
    /\ SF_vars(\E t \in Ids : NodeInsert(t))
    /\ SF_vars(\E t \in Ids : Mine(t))
    /\ SF_vars(\E t \in Ids : Bury(t))
    /\ SF_vars(\E t \in Ids : PollBuried(t))
-----------------------------------------------------------------------------
(* Properties *)

Ledgers == [recs : SUBSET Ids, owed : [Miner -> Nat], paid : [Miner -> Nat]]

\* The ledgers in memory and on disk name signed transactions and hold whole
\* units, none below zero (deduct_owed saturates), and the wallet is never
\* overdrawn.
TypeOK ==
    /\ Len(net) = Len(txs)
    /\ \A t \in Ids : txs[t] \in [to : Miner, units : Nat]
    /\ mem \in Ledgers /\ disk \in Ledgers
    /\ bal \in Nat

\* Payouts that can still be mined: some node has them, or they are on record
\* and will be posted again
Pending == {t \in Ids : Live(t) \/ (net[t].block = "no" /\ t \in mem.recs)}

\* The pool never has more money in signed transactions that can still be mined
\* than its wallet holds: what the comments of verify_admitted promise ("It was
\* never inserted, so it was never relayed either").
Solvent == Units(Pending) <= bal

\* No income is paid out twice, whatever answers are lost, wherever the pool or
\* the node is restarted (gone_action, settle_once), but for the payouts that
\* the node accepted and that were written off when it answered Missing: the
\* wallet is short by no more than those of them that a block took after all.
SolventUpToMissing ==
    Units(Pending \ written) <= bal + Units({t \in written : net[t].block # "no"})

\* Miners are told they were paid only what is buried, and never twice, across
\* crashes between the credit and its flush (PaidLedger::credit).
PaidIsBuried ==
    \A m \in Miner : mem.paid[m] <= Rows({t \in Ids : net[t].block = "buried"}, m)

\* What the pool acknowledges to a miner: paid, in flight or owed
Claim(m) == mem.paid[m] + Rows(mem.recs, m) + mem.owed[m]

\* A unit once acknowledged is never dropped, by any step or crash, except the
\* record of a transaction that a crash kept from reaching the disk and so from
\* being posted (owe_rows, deduct_owed, confirm_payout).
ClaimsKept ==
    [][\A m \in Miner : Claim(m)' >= Claim(m) \/ (pc = "record" /\ pc' = "idle")]_vars

\* Payouts in flight do not freeze settlement for ever: whatever is lost,
\* restarted or reorganised, all of them leave the in-flight ledger, because the
\* bytes on record are posted again until a block buries them (gone_action); a
\* written-off payout that is mined can take the money of one on record.
PayoutsResolve ==
    mem.recs # {} ~> mem.recs = {} \/ \E t \in written : net[t].block # "no"
=============================================================================
