------------------------------ MODULE TrieSync ------------------------------
(***************************************************************************)
(* How a new node obtains the accounts: TrieSync (triesync.cpp) with the   *)
(* message handlers and ActivateTrie of main.cpp.  The key space is cut    *)
(* into slices, each asked from one peer; a slice holds the accounts of    *)
(* its keys at the block MIN_HISTORY below the best header at the time of  *)
(* the request.  When the slices cover all keys the accounts are put       *)
(* together, compared with the account root of a block and forced into the *)
(* ledger, and the stored blocks above are connected.                      *)
(*                                                                         *)
(* Peers stop answering, refuse, answer wrongly, twice or late, and leave; *)
(* headers and blocks go on arriving.  Every handler runs under cs_main.   *)
(* Keys have Width bits instead of 160.  An account is its balance (0:     *)
(* none).  The id of a peer that left is never used again, so the model    *)
(* forgets it and gives it to the next peer.                               *)
(***************************************************************************)
EXTENDS Integers, Sequences, SequencesExt, FiniteSetsExt

CONSTANTS
    Peers,
    Faulty,         \* peers that may answer anything, at any time, or nothing
    Width,          \* bits of a key: 160
    MIN_HISTORY,    \* 1000
    Fudge,          \* 5: blocks below the best header that may be missing
    OldSlack,       \* 10: blocks a slice may be older than MIN_HISTORY
    StallTime,      \* 60 seconds
    MaxSlice,       \* accounts in MAX_TRIE_SLICE_SIZE bytes
    FirstTip,       \* the best header when the download starts
    MaxTip,         \* bound: headers above FirstTip
    MaxTime,        \* bound: readings of the clock
    ClockMayGoBack, \* somebody sets the clock of the machine back
    Credit, Debit,  \* keys a block adds a coin to, takes a coin from
    Ledger,         \* the accounts after a block, by height
    NoSlice         \* CSlice(): nothing was asked yet

MaxKey == 2^Width - 1
Keys == 0 .. MaxKey

\* One block: outputs first, then inputs; an account without coins is erased,
\* and an input of an unknown account is skipped.
ApplyTransactions(data, h) ==
    LET paid == [k \in Keys |-> data[k] + (IF k \in Credit[h] THEN 1 ELSE 0)]
    IN  [k \in Keys |-> IF k \in Debit[h] /\ paid[k] > 0 THEN paid[k] - 1 ELSE paid[k]]

ASSUME LedgerAssumption ==
    /\ \A h \in 0 .. MaxTip : Ledger[h] \in [Keys -> Nat]
    /\ \A h \in 1 .. MaxTip : Ledger[h] = ApplyTransactions(Ledger[h - 1], h)
ASSUME SizesAssumption ==
    /\ {Width, MIN_HISTORY, Fudge, OldSlack, StallTime, MaxSlice, FirstTip, MaxTip, MaxTime} \subseteq Nat
    /\ Width >= 2 /\ MIN_HISTORY >= 1 /\ FirstTip \in MIN_HISTORY .. MaxTip
    /\ Faulty \subseteq Peers

VARIABLES
    tip,            \* height of chainHeaders
    have,           \* heights with BLOCK_HAVE_DATA
    online,         \* fTrieOnline
    halted,         \* "no", or why the process ended
    now,            \* GetTime()
    nodes,          \* mapNodeState: connected peers
    sliced,         \* peers with fSliced
    asked,          \* CNode::slice: the last request to a peer
    sliceTime,      \* when it was sent
    leaving,        \* peers with fDisconnect
    slices,         \* slices at hand
    slicesRequested,\* slices under way
    log2size,       \* the largest slice has 2^(Width - 1 - log2size) keys
    bans,           \* peers that are not asked any more
    nodesTooBig     \* peers that refused a slice as too big

chain == <<tip, have>>
conn == <<sliced, asked, sliceTime>>
blame == <<bans, nodesTooBig>>
work == <<slices, slicesRequested, log2size>>
vars == <<tip, have, online, halted, now, nodes, sliced, asked, sliceTime, leaving,
          slices, slicesRequested, log2size, bans, nodesTooBig>>

CSlice == [at : 0 .. MaxTip, left : Keys, right : Keys]

KeysOf(ss) == UNION {s.left .. s.right : s \in ss}

-----------------------------------------------------------------------------
(* Headers and blocks                                                      *)

\* GetSyncPoint: enough blocks are stored below the best header.
CanSync ==
    /\ tip >= MIN_HISTORY
    /\ \A h \in tip - MIN_HISTORY + 1 .. tip : h \in have \/ h + Fudge >= tip

NewHeader ==
    /\ halted = "no" /\ tip < MaxTip
    /\ tip' = tip + 1
    /\ UNCHANGED <<have, online, halted, now, nodes, conn, leaving, work, blame>>

NewBlock(h) ==
    /\ halted = "no" /\ h \in (0 .. tip) \ have
    /\ have' = have \cup {h}
    /\ UNCHANGED <<tip, online, halted, now, nodes, conn, leaving, work, blame>>

\* A heavier branch of the same height replaces blocks above the sync point.
NewBranch(fork) ==
    /\ halted = "no" /\ fork \in tip - MIN_HISTORY .. tip - 1
    /\ have' = have \cap 0 .. fork
    /\ UNCHANGED <<tip, online, halted, now, nodes, conn, leaving, work, blame>>

SetClock(t) ==
    /\ halted = "no" /\ (t > now \/ (ClockMayGoBack /\ t < now))
    /\ now' = t
    /\ UNCHANGED <<chain, online, halted, nodes, conn, leaving, work, blame>>

-----------------------------------------------------------------------------
(* Requests                                                                *)

\* Variant: the request stays.
RemoveNothing(s) == slicesRequested

\* RemoveRequest: the requests without the one for slice s.
RemoveRequest(s) == slicesRequested \ {s}

\* Variants: without the limit, and without the increment.
IncLog2SizeUnlimited(n) == n + 1
IncLog2SizeNever(n) == n

IncLog2Size(n) == IF n >= Width - 2 THEN Width - 2 ELSE n + 1
DecLog2Size(n) == IF n <= 0 THEN 0 ELSE n - 1

\* AbortSlice: a peer failed to deliver s.  A refusal as too big counts twice
\* against a peer only when some other peer has not refused yet.
AbortSlice(s, tooBig, p) ==
    /\ slicesRequested' = RemoveRequest(s)
    /\ \/ /\ ~tooBig
          /\ bans' = bans \cup {p}
          /\ UNCHANGED <<nodesTooBig, log2size>>
       \/ /\ tooBig /\ p \notin nodesTooBig
          /\ nodesTooBig' = nodesTooBig \cup {p}
          /\ log2size' = IncLog2Size(log2size)
          /\ UNCHANGED bans
       \/ /\ tooBig /\ p \in nodesTooBig /\ ~(nodes \subseteq nodesTooBig)
          /\ bans' = bans \cup {p}
          /\ UNCHANGED <<nodesTooBig, log2size>>
       \/ /\ tooBig /\ p \in nodesTooBig /\ nodes \subseteq nodesTooBig
          /\ bans' = {} /\ nodesTooBig' = {}
          /\ log2size' = IncLog2Size(log2size)

\* GetSlice, the interval to ask for when the keys C are covered.  The
\* interval list is sorted and without gaps between neighbours, so the key
\* behind its first entry is the first one not covered.  intervals.begin()++ is
\* begin(): behind a first run the interval always reaches for the last key.
Lowest(C) == Min(Keys \ C)
Rightmost(C) == IF C = {} \/ 0 \in C THEN MaxKey ELSE Min(C) - 1
\* Variant: >= in the loop.
HalvedOnceMore(l, r) ==
    LET fits == {j \in 0 .. Width : (r - l) \div 2^j < 2^(Width - 1 - log2size)}
    IN  l + (r - l) \div 2^Min(fits)

Halved(l, r) ==
    LET fits == {j \in 0 .. Width : (r - l) \div 2^j <= 2^(Width - 1 - log2size)}
    IN  l + (r - l) \div 2^Min(fits)

\* What GetSlice returns to a peer that is not banned: at most one slice.
Wanted ==
    LET C == KeysOf(slices \cup slicesRequested)
        l == Lowest(C)
        r == Halved(l, Rightmost(C))
    IN  IF C = Keys \/ r <= l \/ tip < MIN_HISTORY THEN {}
        ELSE {[at |-> tip - MIN_HISTORY, left |-> l, right |-> r]}

GetSlice(p) == IF p \in bans THEN {} ELSE Wanted

-----------------------------------------------------------------------------
(* Putting the slices together                                             *)

\* Update drops slices with missing blocks between them and the tip.  The block of a
\* slice stays on chainHeaders: branches fork off above it (NewBranch).
Untenable(ss) ==
    {s \in ss : \/ tip - s.at < MIN_HISTORY
                \/ ~(s.at .. s.at + MIN_HISTORY - 1 \subseteq have)}

\* Variant: a gap of one key is not seen.
ReachedOverGap(ss) ==
    Min({r \in {0} \cup {s.right : s \in ss} :
            ~\E s \in ss : s.left <= r + 2 /\ s.right > r})

\* ReadyToBuild: how far slices reach from the left without a gap.
Reached(ss) ==
    Min({r \in {0} \cup {s.right : s \in ss} :
            ~\E s \in ss : s.left <= r + 1 /\ s.right > r})

ReadyToBuild(ss) == CanSync /\ Reached(ss) = MaxKey

\* Build: block h on accounts data, n times.
Replay(data, h, n) ==
    LET after[i \in 0 .. n] == IF i = 0 THEN data ELSE ApplyTransactions(after[i - 1], h)
    IN  after[n]

\* Variant: the block of a slice is replayed for the next slice, too.
AddSliceAgain(acc, s) ==
    LET rounds == IF acc.last = 0 \/ s.at < acc.last THEN 0 ELSE s.at - acc.last + 1
        data == Replay(acc.data, s.at, rounds)
    IN  [data |-> [k \in Keys |-> IF k \in s.left .. s.right /\ Ledger[s.at][k] > 0
                                  THEN Ledger[s.at][k] ELSE data[k]],
         last |-> s.at,
         at |-> s.at]

\* Build, one slice: the blocks since the last slice are replayed (each time
\* the block of this slice), then the accounts of the slice overwrite.
AddSlice(acc, s) ==
    LET rounds == IF acc.last = 0 \/ s.at < acc.last THEN 0 ELSE s.at - acc.last + 1
        data == Replay(acc.data, s.at, rounds)
    IN  [data |-> [k \in Keys |-> IF k \in s.left .. s.right /\ Ledger[s.at][k] > 0
                                  THEN Ledger[s.at][k] ELSE data[k]],
         last |-> s.at + 1,
         at |-> s.at]

Build(order) ==
    LET acc[i \in 0 .. Len(order)] ==
          IF i = 0 THEN [data |-> [k \in Keys |-> 0], last |-> 0, at |-> 0]
          ELSE AddSlice(acc[i - 1], order[i])
    IN  acc[Len(order)]

\* The order of the slices: they are sorted by CSlice::nHeight, which nothing
\* initialises.
Orders(ss) == SetToSeqs(ss)

\* ActivateBestChain connects the stored blocks above h.
Connected(h) == Max({t \in h .. tip : h + 1 .. t \subseteq have})

\* ActivateTrie, from the slices ss with the requests rq.
\* Update erases from the map it iterates over: either the process dies of it
\* or all slices in question are gone.
ActivateTrie(ss, rq, lg) ==
    LET kept == ss \ Untenable(ss)
    IN  \/ /\ kept # ss
           /\ halted' = "crashed"
           /\ slices' = ss /\ slicesRequested' = rq /\ log2size' = lg
           /\ UNCHANGED online
        \/ /\ ~ReadyToBuild(kept)
           /\ slices' = kept /\ slicesRequested' = rq /\ log2size' = lg
           /\ UNCHANGED <<online, halted>>
        \/ /\ ReadyToBuild(kept)
           /\ \E b \in {Build(order) : order \in Orders(kept)} :
                \/ /\ b.data # Ledger[b.at]
                   /\ halted' = "aborted"
                   /\ slices' = kept /\ slicesRequested' = rq /\ log2size' = lg
                   /\ UNCHANGED online
                \/ /\ b.data = Ledger[b.at]
                   /\ Connected(b.at) >= b.at + MIN_HISTORY
                   /\ online' = TRUE
                   /\ slices' = kept /\ slicesRequested' = rq /\ log2size' = lg
                   /\ UNCHANGED halted
                \/ /\ b.data = Ledger[b.at]
                   /\ Connected(b.at) < b.at + MIN_HISTORY
                   /\ slices' = {} /\ slicesRequested' = {} /\ log2size' = 0
                   /\ UNCHANGED <<online, halted>>

-----------------------------------------------------------------------------
(* Peers                                                                   *)

Connect(p) ==
    /\ halted = "no" /\ p \notin nodes
    /\ nodes' = nodes \cup {p}
    /\ asked' = [asked EXCEPT ![p] = NoSlice]
    /\ UNCHANGED <<chain, online, halted, now, sliced, sliceTime, leaving, work, blame>>

\* FinalizeNode: the request of a peer that leaves is given up; with the last
\* peer everything is (Reset).
Disconnect(p) ==
    /\ halted = "no" /\ p \in nodes
    /\ nodes' = nodes \ {p}
    /\ sliced' = sliced \ {p}
    /\ asked' = [asked EXCEPT ![p] = NoSlice]
    /\ sliceTime' = [sliceTime EXCEPT ![p] = 0]
    /\ leaving' = leaving \ {p}
    /\ bans' = bans \ {p} /\ nodesTooBig' = nodesTooBig \ {p}
    /\ IF nodes = {p}
       THEN slices' = {} /\ slicesRequested' = {} /\ log2size' = 0
       ELSE /\ slicesRequested' = IF p \in sliced THEN RemoveRequest(asked[p]) ELSE slicesRequested
            /\ UNCHANGED <<slices, log2size>>
    /\ UNCHANGED <<chain, online, halted, now>>

MaySend(p) == halted = "no" /\ ~online /\ p \in nodes \ leaving /\ CanSync

\* SendMessages: a request is under way for too long.
Stalled(p) ==
    /\ MaySend(p) /\ p \in sliced
    /\ sliceTime[p] > now + StallTime
    /\ leaving' = leaving \cup {p}
    /\ UNCHANGED <<chain, online, halted, now, nodes, conn, work, blame>>

\* SendMessages: ask for a slice.
Request(p) ==
    /\ MaySend(p) /\ p \notin sliced
    /\ sliced' = sliced \cup {p}
    /\ sliceTime' = [sliceTime EXCEPT ![p] = now]
    /\ \E s \in GetSlice(p) :
         /\ slicesRequested' = slicesRequested \cup {s}
         /\ asked' = [asked EXCEPT ![p] = s]
    /\ UNCHANGED <<chain, online, halted, now, nodes, leaving, slices, log2size, blame>>

\* SendMessages: nothing to ask for, so there may be enough.  With an empty
\* interval list GetSlice reads past its end, which may look like that too.
NothingToAsk(p) ==
    /\ MaySend(p) /\ p \notin sliced
    /\ UNCHANGED <<chain, now, nodes, conn, leaving, blame>>
    /\ slices \cup slicesRequested = {} \/ GetSlice(p) = {}
    /\ ActivateTrie(slices, slicesRequested, log2size)

\* The answers of a peer that runs this program ("getslice").  Its chain is as high as
\* the one of this node; one that is shorter than MIN_HISTORY is not sliced.
Fits(s) == Cardinality({k \in s.left .. s.right : Ledger[s.at][k] > 0}) <= MaxSlice
TooOld(s) == s.at + MIN_HISTORY + OldSlack < tip
Served(s) == tip > MIN_HISTORY /\ ~TooOld(s) /\ Fits(s)

\* A "slice" message comes from p: it answers the last request to p, if any.
Receives(p) == halted = "no" /\ p \in nodes \ leaving /\ sliced' = sliced \ {p}

\* A peer that runs this program may refuse for reasons of its own, too: it does not
\* know the block, is not online itself, or cannot read blocks of its chain.
Answers(p, good) ==
    \/ p \in Faulty /\ (good => asked[p] # NoSlice)
    \/ p \in sliced /\ asked[p] # NoSlice /\ (good => Served(asked[p]))

\* The slice is proved; it counts if it is still wanted.
SliceAccepted(p) ==
    /\ Receives(p) /\ Answers(p, TRUE)
    /\ UNCHANGED <<chain, now, nodes, asked, sliceTime, leaving, blame>>
    /\ ActivateTrie(slices \cup (slicesRequested \cap {asked[p]}), RemoveRequest(asked[p]),
                    DecLog2Size(log2size))

\* An empty slice: the peer refuses.
SliceRefused(p) ==
    /\ Receives(p) /\ Answers(p, FALSE)
    /\ AbortSlice(asked[p], TRUE, p)
    /\ UNCHANGED <<chain, online, halted, now, nodes, asked, sliceTime, leaving, slices>>

\* A slice of another block or of other bounds.
SliceMismatch(p) ==
    /\ Receives(p) /\ p \in Faulty
    /\ AbortSlice(asked[p], FALSE, p)
    /\ UNCHANGED <<chain, online, halted, now, nodes, asked, sliceTime, leaving, slices>>

\* A slice that cannot be read or has another root, or one without a proof.
SliceInvalid(p) ==
    /\ Receives(p) /\ p \in Faulty /\ asked[p] # NoSlice
    /\ slicesRequested' = RemoveRequest(asked[p])
    /\ log2size' \in {log2size, DecLog2Size(log2size)}
    /\ UNCHANGED <<chain, online, halted, now, nodes, asked, sliceTime, leaving, slices, blame>>

-----------------------------------------------------------------------------
Init ==
    /\ tip = FirstTip /\ have \in {0 .. FirstTip, 0 .. FirstTip - 1}
    /\ online = FALSE /\ halted = "no" /\ now = 0
    /\ nodes = {} /\ sliced = {} /\ leaving = {}
    /\ asked = [p \in Peers |-> NoSlice] /\ sliceTime = [p \in Peers |-> 0]
    /\ slices = {} /\ slicesRequested = {} /\ log2size = 0
    /\ bans = {} /\ nodesTooBig = {}

\* The process ends and is started again: the chain and, once the node was
\* online, the sync point are on disk.
Restart ==
    /\ halted' = "no"
    /\ nodes' = {} /\ sliced' = {} /\ leaving' = {}
    /\ asked' = [p \in Peers |-> NoSlice] /\ sliceTime' = [p \in Peers |-> 0]
    /\ slices' = {} /\ slicesRequested' = {} /\ log2size' = 0
    /\ bans' = {} /\ nodesTooBig' = {}
    /\ UNCHANGED <<chain, online, now>>

Next ==
    \/ NewHeader
    \/ \E h \in 0 .. MaxTip : NewBlock(h) \/ NewBranch(h)
    \/ \E t \in 0 .. MaxTime : SetClock(t)
    \/ Restart
    \/ \E p \in Peers :
         \/ Connect(p) \/ Disconnect(p)
         \/ Stalled(p) \/ Request(p) \/ NothingToAsk(p)
         \/ SliceAccepted(p) \/ SliceRefused(p) \/ SliceMismatch(p) \/ SliceInvalid(p)

\* The message thread serves every peer again and again, and a peer that runs this
\* program answers each request.
Fairness ==
    \A p \in Peers :
       /\ WF_vars(Stalled(p) \/ Request(p) \/ NothingToAsk(p))
       /\ p \notin Faulty => WF_vars(SliceRefused(p) \/ SliceAccepted(p))

Spec == Init /\ [][Next]_vars
FairSpec == Spec /\ Fairness
-----------------------------------------------------------------------------
TypeOK ==
    /\ tip \in FirstTip .. MaxTip /\ have \subseteq 0 .. tip
    /\ online \in BOOLEAN /\ halted \in {"no", "crashed", "aborted"}
    /\ now \in 0 .. MaxTime
    /\ nodes \subseteq Peers /\ sliced \subseteq nodes /\ leaving \subseteq nodes
    /\ asked \in [Peers -> CSlice \cup {NoSlice}]
    /\ sliceTime \in [Peers -> 0 .. MaxTime]
    /\ slices \subseteq CSlice /\ slicesRequested \subseteq CSlice
    /\ log2size \in 0 .. Width - 2
    /\ bans \subseteq nodes /\ nodesTooBig \subseteq nodes

\* RequestsOwned: every slice under way is the one a connected peer still owes
\* (fSliced), so that its answer or its leaving takes the request back.  A
\* request without such a peer would keep its keys from being asked again
\* (GetSlice, AbortSlice, RemoveRequest, FinalizeNode, Reset).
RequestsOwned ==
    \A s \in slicesRequested : \E p \in sliced : asked[p] = s

\* NoGapLeft: as long as some key is neither at hand nor under way, GetSlice
\* has something to ask for, and it starts at such a key - whatever was cut,
\* overlapped, refused and given up before (the single key that would be too
\* short for a slice never remains).
NoGapLeft ==
    LET C == KeysOf(slices \cup slicesRequested)
    IN  C # Keys => \E s \in Wanted : s.left \notin C

\* ReadyMeansCovered: when ReadyToBuild is content with its walk from left to
\* right, every key is in some slice, key 0 included, which it never tests.
ReadyMeansCovered == Reached(slices) = MaxKey => KeysOf(slices) = Keys

\* AbortsOnlyMixed: ActivateTrie ends the process only over slices of different
\* blocks: accounts collected at one block always give its account root,
\* whatever order Build takes them in and however they overlap.
AbortsOnlyMixed ==
    halted = "aborted" => \E s \in slices, u \in slices : s.at # u.at

\* Syncs: if from some time on exactly the peers that run this program stay
\* connected, none of them about to be dropped and one of them not banned, every
\* block is stored, and the peers refuse only what is too big or too old for a chain
\* that can be sliced, then the node comes online or ends: refusals, bans and slice
\* sizes never go round in circles, whatever earlier peers left behind (GetSlice,
\* AbortSlice, ActivateTrie).
Calm == /\ nodes = Peers \ Faulty /\ nodes \ bans # {} /\ leaving = {}
        /\ have = 0 .. tip /\ tip > MIN_HISTORY
InCondition(p) == SliceRefused(p) => ~Served(asked[p])
Syncs == <>[]Calm /\ <>[][\A p \in Peers \ Faulty : InCondition(p)]_vars => <>(online \/ halted # "no")

\* SilentDropped: a peer that has owed a slice for longer than StallTime is
\* disconnected, unless it answers after all or synchronisation is no longer
\* possible or needed (SendMessages, "check for stall").
SilentDropped ==
    \A p \in Peers :
        (p \in sliced /\ now > sliceTime[p] + StallTime)
            ~> (p \notin sliced \/ p \in leaving \/ online \/ halted # "no" \/ ~CanSync)

\* NeverAborts: with peers that run this program the accounts put together
\* always have the account root of their block (ActivateTrie).
NeverAborts == halted # "aborted"
=============================================================================
