----------------------------- MODULE TrieEngine -----------------------------
(***************************************************************************)
(* The radix trie that holds the accounts: trie.cpp and trieengine.cpp.    *)
(*                                                                         *)
(* A key has W bits, the first one the most significant.  A branch stands  *)
(* for the keys that agree in all the bits above its children: it keeps    *)
(* the bits it adds to the path (key, in their place, and their number)    *)
(* and a left and a right child, the next bit 0 and 1.  A node caches its  *)
(* hash and counts what is below it.  Nodes are nested records, so that a  *)
(* parent pointer is the record around a node, and a walk to the root is   *)
(* what Reattach does on the way out of the recursion.                     *)
(*                                                                         *)
(* accounts is what the callers have put in and taken out, in TempApply    *)
(* and Unapply.  The operators are recursive: this module is for TLC only. *)
(***************************************************************************)
EXTENDS Integers, FiniteSets, FiniteSetsExt, SequencesExt

CONSTANTS
    W,           \* the bits of a key (160)
    Keys,        \* the accounts that are used
    Borders,     \* the ends of the intervals peers ask for
    MaxBalance   \* bound: the largest balance of an account

ASSUME KeysFit ==
    /\ W \in Nat \ {0}
    /\ Keys \subseteq 0 .. 2^W - 1
    /\ Borders \subseteq 0 .. 2^W - 1

VARIABLES
    root,        \* m_root
    accounts     \* the balances the trie has to represent

vars == <<root, accounts>>

-----------------------------------------------------------------------------
(* Keys *)

\* The first n bits of a key, in their place (key & ~(ones >> n)).
First(key, n) == key - (key % 2^(W - n))

sub_key(key, left, size) == First(key, left + size) - First(key, left)

high_bit(key, shift) == (key \div 2^(W - shift - 1)) % 2

Side(key, shift) == IF high_bit(key, shift) = 1 THEN "right" ELSE "left"

-----------------------------------------------------------------------------
(* Nodes.  hash is the cached hash, Modified when it has to be computed.   *)

Modified == <<>>

Empty == [type |-> "none"]

Leaf(key, balance) ==
    [type |-> "leaf", key |-> key, balance |-> balance,
     children |-> 1, hash |-> Modified]

Branch(key, bits, left, right) ==
    [type |-> "branch", key |-> key, bits |-> bits, left |-> left, right |-> right,
     children |-> left.children + right.children, hash |-> Modified]

HashNode(hash) == [type |-> "hash", hash |-> hash, children |-> 0]

\* Variant: the new child is not added to the counts.
ReattachUncounted(node, side, child) ==
    [node EXCEPT ![side] = child,
                 !.children = @ - node[side].children,
                 !.hash = Modified]

\* Variant: the nodes above keep their cached hash.
ReattachClean(node, side, child) ==
    [node EXCEPT ![side] = child,
                 !.children = @ - node[side].children + child.children]

\* A child is put in the place of another: the counts of all the nodes above
\* follow it, and all of them are to be hashed again (Subtract, Add, Dirtify).
Reattach(node, side, child) ==
    [node EXCEPT ![side] = child,
                 !.children = @ - node[side].children + child.children,
                 !.hash = Modified]

\* The node with the caches that Hash() leaves; the hash it returns is .hash.
RECURSIVE Hash(_)
Hash(node) ==
    IF node.hash # Modified THEN node
    ELSE IF node.type = "leaf" THEN [node EXCEPT !.hash = <<node.key, node.balance>>]
    ELSE LET left == Hash(node.left)
             right == Hash(node.right)
         IN  [node EXCEPT !.left = left, !.right = right,
                          !.hash = <<node.key, node.bits, left.hash, right.hash>>]

-----------------------------------------------------------------------------
(* Insert, Find, Remove and the change of an account *)

\* The node that takes the place of node2 when the path of node leaves it
\* within the bits of node2.  A branch gives up the bits the new one takes.
Split(node2, node, bits) ==
    LET differ == {n \in 0 .. W - 1 - bits :
                      high_bit(node.key, bits + n) # high_bit(node2.key, bits + n)}
        new_bits == Min(differ)
        rest == IF node2.type = "branch"
                THEN [node2 EXCEPT !.bits = @ - new_bits - 1,
                                   !.key = sub_key(@, bits + new_bits + 1,
                                                   node2.bits - new_bits - 1),
                                   !.hash = Modified]
                ELSE node2
        key == sub_key(node.key, bits, new_bits)
    IN  IF node.key % 2^(W - bits) < node2.key % 2^(W - bits)
        THEN Branch(key, new_bits, node, rest)
        ELSE Branch(key, new_bits, rest, node)

RECURSIVE Insert(_, _, _)
Insert(node2, node, bits) ==
    IF node2 = Empty THEN node
    ELSE IF /\ node2.type = "branch"
            /\ sub_key(node.key, bits, node2.bits) = node2.key
         THEN LET side == Side(node.key, bits + node2.bits)
              IN  Reattach(node2, side,
                           Insert(node2[side], node, bits + node2.bits + 1))
         ELSE Split(node2, node, bits)

RECURSIVE FindBelow(_, _, _)
FindBelow(node, key, keybits) ==
    IF node.type = "branch"
    THEN IF sub_key(key, keybits, node.bits) = sub_key(node.key, keybits, node.bits)
         THEN FindBelow(node[Side(key, keybits + node.bits)], key, keybits + node.bits + 1)
         ELSE Empty
    ELSE IF node.type = "leaf" /\ node.key = key THEN node ELSE Empty

Find(key) == FindBelow(root, key, 0)

\* Variant: the bit that chose the child is forgotten.
MergeBitless(parent, side, total) ==
    LET peer == parent[side]
    IN  IF peer.type = "branch"
        THEN [peer EXCEPT !.bits = @ + parent.bits + 1,
                          !.key = @ + parent.key,
                          !.hash = Modified]
        ELSE peer

\* The peer of a removed leaf takes the place of their parent, and the bits
\* of the parent; total is parent->GetTotalBits().
Merge(parent, side, total) ==
    LET peer == parent[side]
    IN  IF peer.type = "branch"
        THEN [peer EXCEPT !.bits = @ + parent.bits + 1,
                          !.key = @ + parent.key
                                  + (IF side = "right" THEN 2^(W - total) ELSE 0),
                          !.hash = Modified]
        ELSE peer

\* Remove, given the leaf by its key; bits are those above node.
RECURSIVE RemoveBelow(_, _, _)
RemoveBelow(node, key, bits) ==
    IF node.type = "leaf" THEN Empty
    ELSE LET total == bits + node.bits + 1
             side == Side(key, bits + node.bits)
         IN  IF node[side].type = "leaf"
             THEN Merge(node, IF side = "left" THEN "right" ELSE "left", total)
             ELSE Reattach(node, side, RemoveBelow(node[side], key, total))

\* SetBalance on the leaf of a key, which Dirtify reports to all above it.
RECURSIVE SetBalance(_, _, _, _)
SetBalance(node, key, balance, bits) ==
    IF node.type = "leaf" THEN [node EXCEPT !.balance = balance, !.hash = Modified]
    ELSE LET side == Side(key, bits + node.bits)
         IN  Reattach(node, side, SetBalance(node[side], key, balance, bits + node.bits + 1))

-----------------------------------------------------------------------------
(* Slices and files *)

\* Variant: the right end of the interval is left out.
HashOnlyOpen(node, left, right, above, bits) ==
    IF node.type = "leaf" THEN <<FALSE, FALSE>>
    ELSE LET size == bits + node.bits
             ckey == above + node.key
             maxkey == ckey + 2^(W - size - 1)
         IN  << ckey < First(left, size + 1),
                maxkey < First(left, size + 1) \/ maxkey >= right >>

\* hashLeft and hashRight of SubTrie: which children of a branch are sent by
\* their hash alone.
HashOnly(node, left, right, above, bits) ==
    IF node.type = "leaf" THEN <<FALSE, FALSE>>
    ELSE LET size == bits + node.bits
             ckey == above + node.key
             maxkey == ckey + 2^(W - size - 1)
         IN  << ckey < First(left, size + 1),
                maxkey < First(left, size + 1) \/ maxkey > right >>

\* SubTrie and the Deserialize of what it has written: the nodes of the
\* interval, with their counts rebuilt by FindChildren, which counts the
\* branches too, and no hash but those that were sent.
RECURSIVE SubTrie(_, _, _, _, _)
SubTrie(node, left, right, above, bits) ==
    IF node.type = "leaf" THEN Leaf(node.key, node.balance)
    ELSE LET size == bits + node.bits + 1
             ckey == above + node.key
             only == HashOnly(node, left, right, above, bits)
             Child(child, hashed, key) ==
                 IF hashed THEN HashNode(Hash(child).hash)
                 ELSE SubTrie(child, left, right, key, size)
             FindChildren(child) ==
                 IF child.type = "branch" THEN child.children + 1 ELSE 1
             l == Child(node.left, only[1], ckey)
             r == Child(node.right, only[2], ckey + 2^(W - size))
         IN  [Branch(node.key, node.bits, l, r)
                 EXCEPT !.children = FindChildren(l) + FindChildren(r)]

\* What SubTrie leaves in the caches of the trie it has read.
RECURSIVE HashedBy(_, _, _, _, _)
HashedBy(node, left, right, above, bits) ==
    IF node.type = "leaf" THEN node
    ELSE LET size == bits + node.bits + 1
             ckey == above + node.key
             only == HashOnly(node, left, right, above, bits)
             Child(child, hashed, key) ==
                 IF hashed THEN Hash(child) ELSE HashedBy(child, left, right, key, size)
         IN  [node EXCEPT !.left = Child(@, only[1], ckey),
                          !.right = Child(@, only[2], ckey + 2^(W - size))]

\* FindAll(NODE_HASH): the nodes sent by their hash, by the place they have.
RECURSIVE FindAll(_, _, _)
FindAll(node, above, bits) ==
    CASE node.type = "hash" -> {<<above, bits>>}
      [] node.type = "leaf" -> {}
      [] node.type = "branch" ->
            LET size == bits + node.bits + 1
                tkey == above + node.key
            IN  FindAll(node.left, tkey, size) \cup FindAll(node.right, tkey + 2^(W - size), size)

\* bits is the parameter of the code, which does not count the bits that
\* choose a child; above and size are what GetTotalKey and GetTotalBits see.
RECURSIVE TraverseLeft(_, _, _, _, _)
TraverseLeft(node, left, bits, above, size) ==
    IF node.type # "branch" THEN {}
    ELSE LET masked == First(left, bits + node.bits + 1)
             total == size + node.bits + 1
             tkey == above + node.key
             rtkey == tkey + 2^(W - total)
         IN  (IF tkey < masked THEN FindAll(node, above, size)
              ELSE TraverseLeft(node.left, left, bits + node.bits, tkey, total))
             \cup
             (IF rtkey < masked THEN FindAll(node.right, rtkey, total)
              ELSE TraverseLeft(node.right, left, bits + node.bits, rtkey, total))

RECURSIVE TraverseRight(_, _, _, _, _)
TraverseRight(node, left, right, above, size) ==
    IF node.type # "branch" THEN {}
    ELSE LET total == size + node.bits + 1
             tkey == above + node.key
             rtkey == tkey + 2^(W - total)
         IN  (IF rtkey > right THEN FindAll(node, above, size)
              ELSE TraverseRight(node.right, left, right, rtkey, total))
             \cup
             (IF rtkey > left THEN FindAll(node.left, tkey, total)
              ELSE TraverseRight(node.left, left, right, tkey, total))

\* Variant: the nodes that the right traversal has found are not taken out.
ProveLeft(node, left, right) ==
    FindAll(node, 0, 0) \subseteq TraverseLeft(node, left, 0, 0, 0)

\* No node of the slice is sent by its hash but those the traversals expect.
Prove(node, left, right) ==
    FindAll(node, 0, 0) \subseteq
        TraverseLeft(node, left, 0, 0, 0) \cup TraverseRight(node, left, right, 0, 0)

Slice(left, right) == SubTrie(root, left, right, 0, 0)

-----------------------------------------------------------------------------
(* The calls *)

Init == root = Empty /\ accounts = <<>>

\* An output of TempApply: the account is looked up, and created if there is
\* none.
Deposit(key) ==
    LET node == Find(key)
        balance == IF node = Empty THEN 1 ELSE node.balance + 1
    IN  /\ balance <= MaxBalance
        /\ root' = IF node = Empty THEN Insert(root, Leaf(key, 1), 0)
                   ELSE SetBalance(root, key, balance, 0)
        /\ accounts' = [k \in DOMAIN accounts \cup {key} |->
                           IF k # key THEN accounts[k]
                           ELSE IF key \in DOMAIN accounts THEN accounts[key] + 1 ELSE 1]

\* An input of TempApply that pays one coin; an account without balance goes.
Withdraw(key) ==
    LET node == Find(key)
        changed == SetBalance(root, key, node.balance - 1, 0)
    IN  /\ node # Empty
        /\ root' = IF node.balance = 1 THEN RemoveBelow(changed, key, 0) ELSE changed
        /\ accounts' = [k \in {k \in DOMAIN accounts : k # key \/ accounts[k] > 1} |->
                           IF k = key THEN accounts[k] - 1 ELSE accounts[k]]

\* The hash of the whole trie is asked for (HashForBlock, Apply).
AskHash ==
    /\ root # Empty
    /\ root' = Hash(root)
    /\ UNCHANGED accounts

\* GetSlice for a peer.
GetSlice(left, right) ==
    /\ root # Empty
    /\ left <= right
    /\ root' = HashedBy(root, left, right, 0, 0)
    /\ UNCHANGED accounts

\* Flush writes the slice of all keys; the next start reads it.
FlushAndLoad ==
    /\ root # Empty
    /\ root' = Slice(0, 2^W - 1)
    /\ UNCHANGED accounts

\* TrieSync::Build inserts the accounts it has collected in the order of the
\* keys.
Build ==
    /\ root # Empty
    /\ root' = FoldLeft(LAMBDA trie, key : Insert(trie, Leaf(key, accounts[key]), 0),
                        Empty, SetToSortSeq(DOMAIN accounts, <))
    /\ UNCHANGED accounts

Next ==
    \/ \E key \in Keys : Deposit(key) \/ Withdraw(key)
    \/ AskHash
    \/ \E left, right \in Borders : GetSlice(left, right)
    \/ FlushAndLoad
    \/ Build

Spec == Init /\ [][Next]_vars

-----------------------------------------------------------------------------
(* The reference: the trie of a set of accounts, by the bits they share *)

Leaves(node) ==
    LET RECURSIVE Below(_)
        Below(n) == CASE n.type = "leaf" -> {n}
                      [] n.type = "branch" -> Below(n.left) \cup Below(n.right)
                      [] OTHER -> {}
    IN  Below(node)

Branches(node) ==
    LET RECURSIVE Below(_)
        Below(n) == IF n.type = "branch" THEN {n} \cup Below(n.left) \cup Below(n.right)
                    ELSE {}
    IN  Below(node)

\* The hash every node has to come to for the accounts of keys, which agree in
\* their first bits bits.
RECURSIVE HashOf(_, _)
HashOf(keys, bits) ==
    IF Cardinality(keys) = 1
    THEN LET key == Min(keys) IN <<key, accounts[key]>>
    ELSE LET shared == Max({n \in bits .. W : First(Min(keys), n) = First(Max(keys), n)})
             Half(b) == {k \in keys : high_bit(k, shared) = b}
         IN  << sub_key(Min(keys), bits, shared - bits), shared - bits,
                HashOf(Half(0), shared + 1), HashOf(Half(1), shared + 1) >>

-----------------------------------------------------------------------------
(* Properties *)

\* The hash a node computes, whatever is cached from before, depends on the
\* accounts only: not on the order of inserts and removals, on the slices it
\* has served, or on whether the trie was grown, loaded or built.  Blocks are
\* refused when it differs between nodes (Insert, Remove, Dirtify, Hash).
HashOfAccounts ==
    root # Empty => Hash(root).hash = HashOf(DOMAIN accounts, 0)

\* Find returns the account of a key, and nothing for a key that has none,
\* after any sequence of splits and merges of branches.
FindsExactly ==
    \A key \in 0 .. 2^W - 1 :
        IF key \in DOMAIN accounts
        THEN Find(key) # Empty /\ Find(key).balance = accounts[key]
        ELSE Find(key) = Empty

\* The count of a branch is at least the number of accounts below it, so that
\* no difference of counts wraps and the buffer of Flush, 200 bytes for each,
\* holds the trie.  Insert counts leaves and FindChildren all nodes: a trie
\* that was loaded and then changed mixes the two.
CountCoversLeaves ==
    \A node \in Branches(root) : node.children >= Cardinality(Leaves(node))

\* A slice has the hash of the whole trie, and holds every account of its
\* interval with its balance (SubTrie and Deserialize).
SliceCarriesAll ==
    root # Empty =>
        \A left, right \in Borders :
            left <= right =>
                LET slice == Slice(left, right)
                IN  /\ Hash(slice).hash = Hash(root).hash
                    /\ \A key \in (left .. right) \cap DOMAIN accounts :
                          \E leaf \in Leaves(slice) :
                              leaf.key = key /\ leaf.balance = accounts[key]

\* A slice that SubTrie has made passes Prove, although the two compute the
\* mask of the left end differently: TraverseLeft does not count the bits that
\* choose a child.
HonestSliceProves ==
    root # Empty =>
        \A left, right \in Borders :
            left <= right => Prove(Slice(left, right), left, right)

\* trie_persistence_tests.cpp, line 123, after a file of two accounts was
\* loaded: reader.Accounts() == 2.  Accounts() is the count of the root.
AccountsCounted ==
    root # Empty => root.children = Cardinality(DOMAIN accounts)
=============================================================================
