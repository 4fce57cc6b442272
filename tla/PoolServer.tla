----------------------------- MODULE PoolServer -----------------------------
(***************************************************************************)
(* The pool server between its workers and its node: the four phases of a  *)
(* share submission (handle_submission), the template and confirmation     *)
(* cycle (template_cycle), the valuation of the wallet that settlement     *)
(* pays from (balance, then count_immature_fees), and restarts.  A block,  *)
(* and a header that was hashed, is the sequence of what was mined from    *)
(* genesis on: a member of Other, or the <<body, nonce>> of this pool.     *)
(***************************************************************************)
EXTENDS Integers, Sequences, SequencesExt, FiniteSets, Filter

CONSTANTS
    Nonce,       \* (coinbase_nonce, block_nonce) pairs that beat the share target
    BlockNonce,  \* those that beat the network target
    Body,        \* header timestamps and packed transactions a template may carry
    Other,       \* blocks of the rest of the network
    Handler,     \* connection threads
    Level,       \* unstable_block of the node
    Maturity,    \* COINBASE_MATURITY_DEPTH
    SeenCap,     \* SEEN_CAP
    EasyHeights, \* heights whose difficulty leaves no usable share target
    MaxHeight,   \* bound: height of the chain
    Budgets      \* bounds: submissions per nonce, restarts and valuations of a behaviour

ASSUME NonceAssumption    == BlockNonce \subseteq Nonce
ASSUME OtherAssumption    == Other \cap (Body \X Nonce) = {}
ASSUME MaturityAssumption == Level \in Nat /\ Maturity \in Nat /\ Level < Maturity
ASSUME BoundAssumption    ==
    /\ MaxHeight \in Nat
    /\ Budgets \subseteq [share : [Nonce -> Nat], restart : Nat, valuation : Nat]

VARIABLES
    chain,      \* the node: its head chain
    sent,       \* the node: the blocks of this pool it was given
    rivalled,   \* history: members of sent whose height the node's chain gave to another
    tpl,        \* Pool.tpl
    seen,       \* Pool.seen
    window,     \* Pool.pplns: the headers credited
    loaded,     \* what window was at the start of the process
    submitted,  \* Pool.submitted
    immature,   \* Pool.immature
    file,       \* the state file
    hd,         \* per handler: its submission
    tc,         \* the template thread
    st,         \* the settlement thread
    budget      \* what is left of the chosen member of Budgets

poolVars == <<tpl, seen, window, loaded, submitted, immature>>
nodeVars == <<chain, sent, rivalled>>
vars == <<nodeVars, poolVars, file, hd, tc, st, budget>>
-----------------------------------------------------------------------------
(* Blocks and what the chain credits for them.                             *)
OnChain(b)   == IsPrefix(b, chain)
Buried(b, tip) == tip - Len(b) >= Maturity

Subsidy == 1
Fees    == 1

(* The wallet at the node: every block of this pool on the head chain pays *)
(* its subsidy and the fees of its transactions.                           *)
Balance == (Subsidy + Fees) * Cardinality({b \in sent : OnChain(b)})

distributable_units(balance, held) == IF held > balance THEN 0 ELSE balance - held

(* Templates: the block on top of parent.                                  *)
\* the height of the tip, not of the block on top of it
MutHeight(t) == Len(t.parent)

Height(t)    == Len(t.parent) + 1
Header(t, n) == Append(t.parent, <<t.body, n>>)
Key(t, n)    == <<Height(t), n>>

NoShare  == [pc |-> "idle"]
TplIdle  == [pc |-> "idle"]
StIdle   == [pc |-> "idle"]
EmptyWindow == [b \in {} |-> 0]

Credits(w, b) == IF b \in DOMAIN w THEN w[b] ELSE 0
Credit(w, b)  == [x \in DOMAIN w \cup {b} |-> IF x = b THEN Credits(w, b) + 1 ELSE w[x]]
-----------------------------------------------------------------------------
(* The node, which module ChainEngine details: insert moves its head to a  *)
(* chain that is not shorter and keeps what is final; of the blocks of     *)
(* this pool it can only hold those it was given.  A node that stops and   *)
(* comes back without its last blocks is left out: its height never drops. *)
Mined  == Other \cup (Body \X BlockNonce)
Chains == UNION {[1..n -> Mined] : n \in 0..MaxHeight}

Holds(c, bs) == \A n \in 1..Len(c) : c[n] \in Other \/ SubSeq(c, 1, n) \in bs
Rivals(c, bs) == {b \in bs : Len(b) <= Len(c) /\ ~IsPrefix(b, c)}

NodeMoves ==
    /\ chain' \in {c \in Chains : /\ Len(c) \in {Len(chain), Len(chain) + 1}
                                  /\ IsPrefix(SubSeq(chain, 1, Len(chain) - Level), c)
                                  /\ Holds(c, sent)}
    /\ chain' /= chain
    /\ rivalled' = rivalled \cup Rivals(chain', sent)
    /\ UNCHANGED <<sent, poolVars, file, hd, tc, st, budget>>
-----------------------------------------------------------------------------
\* the hold-back is not part of the snapshot
MutSave ==
    file' = [window |-> window', submitted |-> submitted', immature |-> file.immature]

(* state_shot and flush_state: the snapshot taken under the lock reaches   *)
(* the file before the thread goes on.  Module StateFile is about the way  *)
(* there; a process that ends on it restarts as if it had ended before.    *)
(* handle_submission does not look at the result of the flush: a write     *)
(* that fails is left out here.                                            *)
Save ==
    file' = [window |-> window', submitted |-> submitted', immature |-> immature']
-----------------------------------------------------------------------------
(* handle_submission *)

IsBlock(n) == n \in BlockNonce

(* Phase 1: the inputs are read under the lock.  A share on a header other *)
(* than the live one fails the hash of phase 2 and changes nothing, and    *)
(* one of a worker whose name is no payout address has been refused before *)
(* (is_payout_address): submissions here are of workers that can be paid.  *)
(* Every connection has a thread: which slot it takes is immaterial.       *)
Idle == {h \in Handler : hd[h].pc = "idle"}

Snapshot(n) ==
    /\ budget.share[n] > 0
    /\ budget' = [budget EXCEPT !.share[n] = @ - 1]
    /\ Idle /= {}
    /\ Key(tpl, n) \notin seen
    /\ hd' = [hd EXCEPT ![CHOOSE h \in Idle : TRUE] = [pc |-> "hashed", tpl |-> tpl, nonce |-> n]]
    /\ UNCHANGED <<nodeVars, poolVars, file, tc, st>>

(* recompute_share_target follows every change of the template             *)
share_halt == Height(tpl) \in EasyHeights

\* the cap is applied before the block check
MutLimiter(n) == Cardinality(seen) >= SeenCap

share_limiter_rejects(n) == ~IsBlock(n) /\ Cardinality(seen) >= SeenCap

(* Phase 3, what is refused: a height that is over, a duplicate, and, for  *)
(* a share that is no block, a halted or a full pool.                      *)
Refused(t, n) ==
    \/ Height(t) /= Height(tpl)
    \/ ~IsBlock(n) /\ share_halt
    \/ share_limiter_rejects(n)
    \/ Key(t, n) \in seen

(* rate_admits_share: the budget of a worker is a matter of time           *)
Throttled(n) == ~IsBlock(n)

Refuse(h) ==
    /\ hd[h].pc = "hashed"
    /\ Refused(hd[h].tpl, hd[h].nonce) \/ Throttled(hd[h].nonce)
    /\ hd' = [hd EXCEPT ![h] = NoShare]
    /\ UNCHANGED <<nodeVars, poolVars, file, tc, st, budget>>

(* Phase 3, credit: the share is remembered and recorded; a block is also  *)
(* watched and its income held back.  note_share_saved takes a snapshot    *)
(* for some shares only.                                                   *)
Commit(h) ==
    LET t == hd[h].tpl  n == hd[h].nonce  b == Header(t, n) IN
    /\ hd[h].pc = "hashed"
    /\ ~Refused(t, n)
    /\ seen' = seen \cup {Key(t, n)}
    /\ window' = Credit(window, b)
    /\ UNCHANGED <<tpl, loaded>>
    /\ IF IsBlock(n)
       THEN /\ submitted' = Append(submitted, b)
            /\ immature' = Append(immature, [blk |-> b, counted |-> FALSE])
            /\ Save
            /\ hd' = [hd EXCEPT ![h].pc = "send"]
       ELSE /\ UNCHANGED <<submitted, immature>>
            /\ Save \/ UNCHANGED file
            /\ hd' = [hd EXCEPT ![h] = NoShare]
    /\ UNCHANGED <<nodeVars, tc, st, budget>>

(* Phase 4: the block goes to the node, which may adopt it, or never       *)
SubmitBlock(h) ==
    /\ hd[h].pc = "send"
    /\ sent' = sent \cup {Header(hd[h].tpl, hd[h].nonce)}
    /\ rivalled' = rivalled \cup Rivals(chain, sent')
    /\ hd' = [hd EXCEPT ![h] = NoShare]
    /\ UNCHANGED <<chain, poolVars, file, tc, st, budget>>
-----------------------------------------------------------------------------
(* template_cycle *)

Blocks(entries) == {entries[i].blk : i \in DOMAIN entries}

(* The live state is copied under the lock, then the node names its height *)
TplLatest ==
    /\ tc.pc = "idle"
    /\ tc' = [pc |-> "intro", tip |-> Len(chain),
              pending |-> Range(submitted), immature |-> Blocks(immature)]
    /\ UNCHANGED <<nodeVars, poolVars, file, hd, st, budget>>

(* fetch_template_pinned: the block at that height becomes the parent; the *)
(* timestamp and the transactions are kept while the parent is the same    *)
template_body(parent) == IF tpl.parent = parent THEN {tpl.body} ELSE Body

TplIntro ==
    /\ tc.pc = "intro"
    /\ LET parent == SubSeq(chain, 1, tc.tip)
           watched == {Len(b) : b \in tc.pending \cup tc.immature}
       IN  \E body \in template_body(parent) :
           tc' = [pc |-> "hashes", tip |-> tc.tip,
                  pending |-> tc.pending, immature |-> tc.immature,
                  fresh |-> [parent |-> parent, body |-> body],
                  todo |-> {n \in watched : n <= tc.tip}, got |-> {}]
    /\ UNCHANGED <<nodeVars, poolVars, file, hd, st, budget>>

(* One query per watched height, which the node may leave unanswered       *)
TplHash ==
    /\ tc.pc = "hashes" /\ tc.todo /= {}
    /\ LET n == Min(tc.todo)
       IN  \E answer \in {{}, {SubSeq(chain, 1, n)}} :
           tc' = [tc EXCEPT !.todo = @ \ {n}, !.got = @ \cup answer]
    /\ UNCHANGED <<nodeVars, poolVars, file, hd, st, budget>>

\* a new template clears the whole set
MutPruneSeen(s, height) == {}

prune_seen(s, height) == {k \in s : k[1] >= height}

\* only a confirmation is acted on
MutOrphaned(bs) == {}

(* Confirmed and orphaned blocks leave submitted; the income of a buried   *)
(* or an orphaned block is no longer held back.                            *)
Confirmed(bs) == {b \in bs : b \in tc.got /\ Buried(b, tc.tip)}
Orphaned(bs)  == {b \in bs : \E g \in tc.got : Len(g) = Len(b) /\ g /= b}

TplApply ==
    LET settled  == Confirmed(tc.pending) \cup Orphaned(tc.pending)
        released == Confirmed(tc.immature) \cup Orphaned(tc.immature)
        changed  == tc.fresh.parent /= tpl.parent
        books    == settled \cup released /= {}
    IN
    /\ tc.pc = "hashes" /\ tc.todo = {}
    /\ IF changed
       THEN /\ tpl' = tc.fresh
            /\ seen' = prune_seen(seen, Height(tc.fresh))
       ELSE UNCHANGED <<tpl, seen>>
    /\ submitted' = Filter(submitted, Range(submitted) \ settled)
    /\ immature' = Filter(immature, {e \in Range(immature) : e.blk \notin released})
    /\ UNCHANGED <<window, loaded>>
    /\ IF books \/ changed THEN Save ELSE UNCHANGED file
    /\ tc' = TplIdle
    /\ UNCHANGED <<nodeVars, hd, st, budget>>
-----------------------------------------------------------------------------
(* settle_once, the valuation: balance first, hold-back after; nothing is  *)
(* valued while the pool is halted                                         *)

StBalance ==
    /\ budget.valuation > 0
    /\ budget' = [budget EXCEPT !.valuation = @ - 1]
    /\ st.pc = "idle" /\ ~share_halt
    /\ st' = [pc |-> "balance", bal |-> Balance]
    /\ UNCHANGED <<nodeVars, poolVars, file, hd, tc>>

Uncounted(entries) == {e \in Range(entries) : ~e.counted}

(* count_immature_fees: the blocks without fees are read under the lock    *)
(* and block_fees prices each at the node; one that is not on the chain    *)
(* has none.  Without a usable answer nothing is settled this cycle.       *)
StBlockFees ==
    /\ st.pc = "balance"
    /\ st' = [pc |-> "fees", bal |-> st.bal,
              priced |-> Filter(immature, {e \in Uncounted(immature) : OnChain(e.blk)})]
    /\ UNCHANGED <<nodeVars, poolVars, file, hd, tc, budget>>

StUnknown ==
    /\ st.pc = "balance"
    /\ st' = StIdle
    /\ UNCHANGED <<nodeVars, poolVars, file, hd, tc, budget>>

\* the hold-back stays the subsidy
MutFold(entries, e) == entries

(* fold_block_fees: into the first entry of the block without them         *)
fold_block_fees(entries, e) ==
    LET open == {i \in DOMAIN entries : entries[i].blk = e.blk /\ ~entries[i].counted}
    IN  IF open = {} THEN entries ELSE [entries EXCEPT ![Min(open)].counted = TRUE]

\* the fees counted outside the lock, folded in one after the other
FoldedFees(entries, counted) ==
    LET folded[k \in 0..Len(counted)] ==
          IF k = 0 THEN entries ELSE fold_block_fees(folded[k - 1], counted[k])
    IN  folded[Len(counted)]

HeldUnits(entries) ==
    Subsidy * Len(entries) + Fees * Cardinality({i \in DOMAIN entries : entries[i].counted})

(* What this cycle may distribute; the rest of it pays, module Settlement  *)
Priced == FoldedFees(immature, st.priced)
Value  == distributable_units(st.bal, HeldUnits(Priced))

StValue ==
    /\ st.pc = "fees"
    /\ immature' = Priced
    /\ UNCHANGED <<tpl, seen, window, loaded, submitted>>
    /\ IF st.priced /= <<>> THEN Save ELSE UNCHANGED file
    /\ st' = StIdle
    /\ UNCHANGED <<nodeVars, hd, tc, budget>>
-----------------------------------------------------------------------------
(* The process ends and is started again, which it refuses while there is  *)
(* no usable share target: a new template, whose timestamp may be pinned   *)
(* by the state file but whose transactions come from the node, and        *)
(* load_state.                                                             *)
Restart ==
    /\ budget.restart > 0
    /\ budget' = [budget EXCEPT !.restart = @ - 1]
    /\ tpl' \in [parent : {chain}, body : Body]
    /\ Height(tpl') \notin EasyHeights
    /\ seen' = {}
    /\ window' = file.window /\ loaded' = file.window
    /\ submitted' = file.submitted /\ immature' = file.immature
    /\ hd' = [h \in Handler |-> NoShare]
    /\ tc' = TplIdle /\ st' = StIdle
    /\ UNCHANGED <<nodeVars, file>>

Init ==
    /\ chain = <<>> /\ sent = {} /\ rivalled = {}
    /\ tpl \in [parent : {<<>>}, body : Body]
    /\ seen = {} /\ window = EmptyWindow /\ loaded = EmptyWindow
    /\ submitted = <<>> /\ immature = <<>>
    /\ file = [window |-> EmptyWindow, submitted |-> <<>>, immature |-> <<>>]
    /\ hd = [h \in Handler |-> NoShare]
    /\ tc = TplIdle /\ st = StIdle
    /\ budget \in Budgets

Submission(h) == Refuse(h) \/ Commit(h) \/ SubmitBlock(h)
TemplateCycle == TplLatest \/ TplIntro \/ TplHash \/ TplApply
Valuation     == StBalance \/ StBlockFees \/ StUnknown \/ StValue

Next ==
    \/ NodeMoves
    \/ \E n \in Nonce : Snapshot(n)
    \/ \E h \in Handler : Submission(h)
    \/ TemplateCycle
    \/ Valuation
    \/ Restart

Spec == Init /\ [][Next]_vars

(* The threads run and the chain grows; a query the cycle needs is         *)
(* answered again and again.                                               *)
FairSpec ==
    /\ Spec
    /\ WF_vars(TemplateCycle)
    /\ \A n \in 1..MaxHeight : SF_vars(TplHash /\ \E g \in tc'.got : Len(g) = n)
    /\ \A h \in Handler : WF_vars(Submission(h))
    /\ WF_vars(NodeMoves /\ Len(chain') > Len(chain))
-----------------------------------------------------------------------------
Ours == UNION {{Append(c, <<body, n>>) : c \in Chains, n \in Nonce} : body \in Body}

(* Types; what the pool remembers of its own blocks and replay keys is     *)
(* about heights the template can have (Pool, handle_submission).          *)
TypeOK ==
    /\ chain \in Chains /\ sent \subseteq Ours /\ rivalled \subseteq sent
    /\ tpl \in [parent : Chains, body : Body]
    /\ seen \subseteq (1..MaxHeight + 1) \X Nonce
    /\ \A e \in Range(immature) : e.blk \in Ours /\ e.counted \in BOOLEAN
    /\ Range(submitted) \subseteq Ours
    /\ \A h \in Handler : hd[h].pc \in {"idle", "hashed", "send"}
    /\ tc.pc \in {"idle", "intro", "hashes"}
    /\ st.pc \in {"idle", "balance", "fees"}

(* No header is credited twice while the process runs, whatever the        *)
(* template does between two submissions of it and whichever handlers race *)
(* (the seen set of handle_submission and prune_seen).                     *)
CreditedOncePerRun == \A b \in DOMAIN window : window[b] - Credits(loaded, b) <= 1

(* Every block the node may have is held back until it is buried, across   *)
(* restarts, unless the chain has shown another block in its place.        *)
Deep(b) == Len(chain) >= Len(b) + Maturity

SentIsHeld == \A b \in sent \ rivalled : b \in Blocks(immature) \/ Deep(b)

(* What settlement may distribute never contains the income of a block     *)
(* that is not buried, subsidy or fees, except of one that had a rival.    *)
IncomeOf(bs) == (Subsidy + Fees) * Cardinality(bs)
Safe == {b \in sent : OnChain(b) /\ Deep(b)}
HeldUntilBuried == st.pc = "fees" => Value <= IncomeOf(Safe \cup rivalled)

(* A block that beats the network target, of a worker that can be paid, is *)
(* given up only when its height is over or its solution was taken already.*)
BlockNeverShed ==
    [][\A h \in Handler :
          hd[h].pc = "hashed" /\ hd'[h].pc = "idle" /\ IsBlock(hd[h].nonce) =>
             \/ Height(hd[h].tpl) /= Height(tpl)
             \/ Key(hd[h].tpl, hd[h].nonce) \in seen
             \/ budget'.restart /= budget.restart]_vars

(* Income is not held back for ever: the entry of every block goes once    *)
(* the chain is deep enough, found, refused, orphaned or restored.         *)
HoldsReleased ==
    \A b \in {x \in Ours : Len(x) + Maturity <= MaxHeight /\ IsBlock(Last(x)[2])} :
        b \in Blocks(immature) ~> b \notin Blocks(immature)
=============================================================================
