----------------------------- MODULE StateFile ------------------------------
(***************************************************************************)
(* How the mining pool's accounting reaches its state file.  A snapshot is *)
(* taken under the pool lock (state_shot) and written after it is released *)
(* (flush_state), so snapshots of different threads reach the file in any  *)
(* order.  Every change of money takes a durable snapshot and the caller   *)
(* acts on its flush; the share path takes non-durable ones, which a power *)
(* cut may lose.  A non-durable write is renamed over the file before its  *)
(* bytes are on the disk: a power cut may then leave a file of no use.     *)
(*                                                                         *)
(* The ledgers are represented by the number of money changes they have    *)
(* seen: a snapshot with a larger number carries everything a smaller one  *)
(* carries.                                                                *)
(***************************************************************************)
EXTENDS Integers

CONSTANTS
    MaxSeq,      \* bound: snapshots taken between two starts
    MaxMoney     \* bound: changes of money on file

ASSUME StateFileConstants == MaxSeq \in Nat /\ MaxMoney \in Nat

VARIABLES
    money,     \* the ledgers in memory
    seq,       \* Pool.state_seq
    shots,     \* snapshots taken and not yet handed to the disk
    last,      \* PERSIST: newest snapshot in the file, newest one fsynced
    file,      \* what a reader of the file finds
    platter,   \* what a reader may find after a power cut, Torn included
    promised,  \* newest ledgers whose durable flush answered true, since the
               \* accounting was last empty
    failed     \* some write has failed since the start

fileVars == <<money, seq, shots, last, file, platter, promised, failed>>

\* A file whose name points at bytes that never reached the disk.
Torn == -1

Shot == [seq : Nat, money : Nat, durable : BOOLEAN]

FileInit ==
    /\ money = 0 /\ seq = 0 /\ shots = {}
    /\ last = [seq |-> 0, durable |-> 0]
    /\ file = 0 /\ platter = {0}
    /\ promised = 0
    /\ failed = FALSE
-----------------------------------------------------------------------------
(* Taking a snapshot, under the pool lock *)

\* state_shot(true): a ledger moves and the snapshot of it is taken
MoneyShot ==
    /\ seq < MaxSeq /\ money < MaxMoney
    /\ money' = money + 1 /\ seq' = seq + 1
    /\ shots' = shots \cup {[seq |-> seq', money |-> money', durable |-> TRUE]}
    /\ UNCHANGED <<last, file, platter, promised, failed>>

\* state_shot(false): every 16th share, or a new template
ShareShot ==
    /\ seq < MaxSeq
    /\ seq' = seq + 1
    /\ shots' = shots \cup {[seq |-> seq', money |-> money, durable |-> FALSE]}
    /\ UNCHANGED <<money, last, file, platter, promised, failed>>
-----------------------------------------------------------------------------
(* flush_state, under the PERSIST lock *)

\* the newest sequence written stands for every promise
MutAlready(s) == last.seq

\* the newest snapshot that promised at least as much as this one
Already(s) == IF s.durable THEN last.durable ELSE last.seq

\* flush_state answers true, and someone acts on it if the snapshot is durable
Answered(s) == IF s.durable /\ s.money > promised THEN s.money ELSE promised

\* A snapshot as good as this one is already there
FlushSkips(s) ==
    /\ s.seq <= Already(s)
    /\ shots' = shots \ {s}
    /\ promised' = Answered(s)
    /\ UNCHANGED <<money, seq, last, file, platter, failed>>

\* the sequence is remembered, the promise is not
MutWritten(s) == [seq |-> s.seq, durable |-> last.durable]

Written(s) == [seq |-> s.seq, durable |-> IF s.durable THEN s.seq ELSE last.durable]

\* atomic_write: the bytes and the directory are fsynced, or neither is, and then
\* the name may reach the disk without them
OnPlatter(s) == IF s.durable THEN {s.money} ELSE platter \cup {s.money, Torn}

FlushWrites(s) ==
    /\ s.seq > Already(s)
    /\ shots' = shots \ {s}
    /\ file' = s.money
    /\ platter' = OnPlatter(s)
    /\ last' = Written(s)
    /\ promised' = Answered(s)
    /\ UNCHANGED <<money, seq, failed>>

\* atomic_write fails before the rename, and flush_state answers false
FlushFails(s) ==
    /\ s.seq > Already(s)
    /\ shots' = shots \ {s}
    /\ failed' = TRUE
    /\ UNCHANGED <<money, seq, last, file, platter, promised>>

\* it fails after the rename, with the bytes fsynced: the file has the snapshot,
\* the platter may not
DirSyncFails(s) ==
    /\ s.durable /\ s.seq > Already(s)
    /\ shots' = shots \ {s}
    /\ file' = s.money
    /\ platter' = platter \cup {s.money}
    /\ failed' = TRUE
    /\ UNCHANGED <<money, seq, last, promised>>
-----------------------------------------------------------------------------
(* The pool stops and loads what the file has *)

\* load_state: a file that does not parse is put aside, and the accounting starts
\* empty
Loaded(v) == IF v = Torn THEN 0 ELSE v

Restarted(found) ==
    /\ money' = Loaded(found) /\ file' = Loaded(found)
    /\ seq' = 0 /\ shots' = {} /\ last' = [seq |-> 0, durable |-> 0]
    /\ failed' = FALSE
    /\ promised' = IF found = Torn THEN 0 ELSE promised

\* the name points at whole bytes as long as the machine runs
ProcessDies == Restarted(file) /\ UNCHANGED platter

PowerCut == \E v \in platter : Restarted(v) /\ platter' = {Loaded(v)}
-----------------------------------------------------------------------------
FileNext ==
    \/ MoneyShot
    \/ ShareShot
    \/ \E s \in shots : FlushSkips(s)
    \/ \E s \in shots : FlushWrites(s)
    \/ \E s \in shots : FlushFails(s)
    \/ \E s \in shots : DirSyncFails(s)
    \/ ProcessDies
    \/ PowerCut

FileSpec == FileInit /\ [][FileNext]_fileVars
-----------------------------------------------------------------------------
(* Properties *)

\* Snapshots, sequence numbers and ledgers are what StateShot and Persisted hold.
FileTypeOK ==
    /\ money \in Nat /\ seq \in Nat
    /\ shots \in SUBSET Shot
    /\ last \in [seq : Nat, durable : Nat]
    /\ file \in Nat /\ platter \in SUBSET (Nat \cup {Torn})
    /\ promised \in Nat
    /\ failed \in BOOLEAN

\* "A crash or a full disk mid-write can never leave a truncated or corrupt file
\* behind" (atomic_write, flush_state): once flush_state has answered true for a
\* change of money, no power cut loses it.
PromiseKept == \A v \in platter : promised <= Loaded(v)

\* Once flush_state has answered true for a change of money, no restart loses it
\* and no power cut that leaves a whole file, in whatever order the snapshots reach
\* the file and whichever of the writes fail; and from a durable write to the next
\* one without fsync the file is whole (flush_state, atomic_write, load_state).
PromiseOutlives ==
    /\ promised <= money
    /\ \A v \in platter : v = Torn \/ promised <= v
    /\ last.durable > 0 /\ last.durable = last.seq => Torn \notin platter

\* When every snapshot has been handed to the disk and no write has failed, the
\* file has every change of money, although flush_state lets an older durable
\* snapshot replace a newer one of the share path.
FileCatchesUp == shots = {} /\ ~failed => file = money

(* Why they hold *)

\* snapshots are numbered in the order they are taken, and only money is added
ShotsOrdered ==
    \A s \in shots :
        /\ s.seq <= seq /\ s.money <= money
        /\ \A r \in shots : r.seq < s.seq => r.money <= s.money
        /\ \A r \in shots : r.seq = s.seq => r = s

\* whatever can still be written has everything promised, whatever is skipped
\* adds nothing to it
PromiseBySeq ==
    /\ last.durable <= last.seq /\ last.seq <= seq
    /\ \A s \in shots : IF s.seq > last.durable THEN promised <= s.money
                                               ELSE s.money <= promised

\* without a failed write, the newest ledgers are on their way to the disk, or
\* promised, or nothing has moved since the start
NewestTravels ==
    ~failed => \/ \E s \in shots : s.durable /\ s.money = money
               \/ promised = money
               \/ file = money /\ \A s \in shots : s.money = money

FileInv ==
    /\ FileTypeOK
    /\ ShotsOrdered
    /\ PromiseBySeq
    /\ PromiseOutlives
    /\ NewestTravels
    /\ file \in platter /\ file <= money
=============================================================================
