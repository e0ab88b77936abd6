----------------------- MODULE TrieViewRefinesProofs -----------------------
(***************************************************************************)
(* TrieView implements LedgerSpec for every block tree, every content of   *)
(* the blocks and every set of accounts.                                   *)
(***************************************************************************)
EXTENDS TrieViewRefines, TrieViewProofs

Steady == TypeOK /\ CallShape /\ LedgerInv

\* What the mapping sees is always the ledger of the block it names.
LEMMA SeenIs == Steady /\ ~stray => Seen = LedgerOf(Place)
<1> SUFFICES ASSUME TypeOK, CallShape, LedgerInv, ~stray PROVE Seen = LedgerOf(Place)
  BY Zenon DEF Steady
<1>1. Between /\ MidCall
  BY Zenon DEF LedgerInv
<1>2. CASE pc \in Quiet
  BY <1>1, <1>2 DEF Seen, Place, Between, Quiet, Busy
<1>3. CASE pc = "undo"
  BY <1>1, <1>3 DEF Seen, Place, MidCall, Quiet, Busy, CallShape
<1>4. CASE pc \notin Quiet \cup {"undo"}
  BY <1>4 DEF Seen
<1> QED
  BY <1>2, <1>3, <1>4

LEMMA PlaceType == Steady => Place \in Blocks \cup {NoBlock}
  BY DEF Steady, Place, TypeOK, CallShape, OnPath

\* The accounts of the abstract ledger.
LEMMA Mapped ==
    ASSUME NEW b \in Blocks \cup {NoBlock}
    PROVE  [c \in Blocks \cup {NoBlock} |-> LedgerOf(c)][b] = LedgerOf(b)
  OBVIOUS

LEMMA InitRefines == Init => Promise!Init
  BY ConstantsAssumption DEF Init, Promise!Init, Place, Seen, Busy, Quiet, LedgerOf
\* Seen from outside: where the ledger is, whether it is being saved, whether
\* the process runs.
Saving == pc \in {"flush", "rename", "cleanup"}
Up == pc \notin {"down", "aborted"}

\* A step that changes none of it is a stutter of the abstract ledger.
LEMMA Stutters ==
    ASSUME TypeOK, TypeOK', ~stray, ~stray', Seen = LedgerOf(Place), Seen' = LedgerOf(Place'),
           Place' = Place, UNCHANGED trieDat, Saving' <=> Saving, Up' <=> Up
    PROVE  UNCHANGED Promise!vars
<1>1. LedgerOf(Place') = LedgerOf(Place)
  BY Zenon
<1>2. stray' = stray
  BY Zenon DEF TypeOK
<1>3. Seen' = Seen
  BY <1>1, Zenon
<1>4. Saving' = Saving /\ Up' = Up
  BY DEF Saving, Up
<1> QED
  BY <1>2, <1>3, <1>4, Zenon DEF Promise!vars, Saving, Up
\* What a step has to show of itself to be a move of the abstract ledger.
LEMMA Connects ==
    ASSUME NEW b \in Blocks, Seen' = LedgerOf(Place'), Place' = b, Parent[b] = Place,
           UNCHANGED trieDat, Up, Up', ~Saving, ~Saving'
    PROVE  Promise!Moves
<1>1. Promise!MoveTo(b)
  BY Mapped DEF Promise!MoveTo
<1>2. Promise!Connect(b)
  BY <1>1 DEF Promise!Connect, Saving, Up
<1> QED
  BY <1>2, Zenon DEF Promise!Moves

LEMMA Disconnects ==
    ASSUME Seen' = LedgerOf(Place'), Place \in Blocks, Parent[Place] \in Blocks,
           Place' = Parent[Place], UNCHANGED trieDat, Up, Up', ~Saving, ~Saving'
    PROVE  Promise!Moves
<1>1. Promise!MoveTo(Parent[Place])
  BY Mapped DEF Promise!MoveTo
<1>2. Promise!Disconnect
  BY <1>1 DEF Promise!Disconnect, Saving, Up
<1> QED
  BY <1>2, Zenon DEF Promise!Moves

LEMMA Installs ==
    ASSUME NEW b \in Blocks, Seen' = LedgerOf(Place'), Place' = b,
           UNCHANGED trieDat, Up, Up', ~Saving, Saving'
    PROVE  Promise!Moves
<1>1. Promise!MoveTo(b)
  BY Mapped DEF Promise!MoveTo
<1>2. Promise!Install(b)
  BY <1>1 DEF Promise!Install, Saving, Up
<1> QED
  BY <1>2, Zenon DEF Promise!Moves

LEMMA StartsSaving ==
    ASSUME Seen = LedgerOf(Place), Seen' = LedgerOf(Place'), Place' = Place,
           UNCHANGED trieDat, Up, Up', ~Saving, Saving'
    PROVE  Promise!Moves
<1>1. LedgerOf(Place') = LedgerOf(Place)
  BY Zenon
<1>2. Promise!StartSave
  BY <1>1 DEF Promise!StartSave, Promise!place, Saving, Up
<1> QED
  BY <1>2, Zenon DEF Promise!Moves

LEMMA EndsSaving ==
    ASSUME Seen = LedgerOf(Place), Seen' = LedgerOf(Place'), Place' = Place,
           trieDat' \in {trieDat, [best |-> Place, trie |-> Seen]}, Up, Up', Saving, ~Saving'
    PROVE  Promise!Moves
<1>1. LedgerOf(Place') = LedgerOf(Place)
  BY Zenon
<1>2. Promise!EndSave
  BY <1>1 DEF Promise!EndSave, Promise!place, Saving, Up
<1> QED
  BY <1>2, Zenon DEF Promise!Moves

LEMMA Dies ==
    ASSUME Seen' = LedgerOf(Place'), pc' \in {"down", "aborted"}, UNCHANGED trieDat, Up
    PROVE  Promise!Moves
<1>1. Place' = NoBlock
  BY DEF Place
<1>2. ~Saving' /\ ~Up'
  BY DEF Saving, Up
<1>3. Promise!MoveTo(NoBlock)
  BY <1>1, Mapped DEF Promise!MoveTo
<1>4. Promise!Die
  BY <1>2, <1>3 DEF Promise!Die, Saving, Up
<1> QED
  BY <1>4, Zenon DEF Promise!Moves
\* Every step of the ledger is one of the abstract ledger or none.
LEMMA StepRefines == Steady /\ Steady' /\ [Next]_vars => [Promise!Next]_(Promise!vars)
<1> DEFINE Goal == Promise!Moves \/ UNCHANGED Promise!vars
<1> SUFFICES ASSUME Steady, Steady', [Next]_vars PROVE [Promise!Next]_(Promise!vars)
  OBVIOUS
<1> SUFFICES ASSUME ~stray' PROVE Goal
  <2>1. stray => stray'
    BY StrayStays, Zenon DEF Steady
  <2> QED
    BY <2>1, Zenon DEF Promise!Next
<1>a. TypeOK /\ CallShape /\ LedgerInv /\ TypeOK' /\ CallShape' /\ LedgerInv' /\ ~stray
  BY StrayStays, Zenon DEF Steady
<1>b. Seen = LedgerOf(Place) /\ Seen' = LedgerOf(Place')
  <2>1. (Steady /\ ~stray => Seen = LedgerOf(Place))'
    BY SeenIs, PTL
  <2> QED
    BY <1>a, <2>1, SeenIs, Zenon
<1>c. Place \in Blocks \cup {NoBlock}
  BY PlaceType
<1> HIDE DEF Goal
<1>1. ASSUME NEW b \in Blocks, Activate(b) PROVE Goal
  <2>1. UNCHANGED trieDat /\ Place = bestBlock /\ Up /\ ~Saving
    BY <1>1 DEF Activate, disk, Place, Busy, Up, Saving
  <2>2. CASE bestBlock \in Blocks
    <3>1. SetPath(bestBlock, b) /\ caller' = "chain" /\ UNCHANGED bestBlock
      BY <1>1, <2>2 DEF Activate
    <3>2. pc' = "undo" /\ LedgerAt' = bestBlock
      BY <2>2, <3>1, SetPathShape DEF SetPath, Walkers
    <3>3. Place' = bestBlock /\ Up' /\ ~Saving'
      BY <3>1, <3>2 DEF Place, Busy, Walkers, Up, Saving
    <3> QED
      BY <1>a, <1>b, <2>1, <3>3, Stutters DEF Goal
  <2>3. CASE bestBlock \notin Blocks
    <3>1. pc' = "idle" /\ bestBlock' = bestBlock
      BY <1>1, <2>3 DEF Activate
    <3>2. Place' = bestBlock /\ Up' /\ ~Saving'
      BY <3>1 DEF Place, Busy, Up, Saving
    <3> QED
      BY <1>a, <1>b, <2>1, <3>2, Stutters DEF Goal
  <2> QED
    BY <2>2, <2>3
<1>2. ASSUME NEW b \in Blocks, Visit(b) PROVE Goal
  <2>1. UNCHANGED trieDat /\ Place = bestBlock /\ Up /\ ~Saving
    BY <1>2 DEF Visit, disk, Place, Busy, Up, Saving
  <2>2. bestBlock \in Blocks /\ SetPath(bestBlock, b) /\ caller' = "visit"
        /\ oldHash' = bestBlock /\ UNCHANGED bestBlock
    BY <1>2 DEF Visit
  <2>3. pc' = "undo" /\ LedgerAt' = bestBlock
    BY <2>2, SetPathShape DEF SetPath, Walkers
  <2>4. Place' = bestBlock /\ Up' /\ ~Saving'
    BY <2>2, <2>3 DEF Place, Busy, Walkers, Up, Saving
  <2> QED
    BY <1>a, <1>b, <2>1, <2>4, Stutters DEF Goal
<1>3. ASSUME NEW b \in Blocks, ForceTrie(b) PROVE Goal
  <2>1. UNCHANGED trieDat /\ Up /\ ~Saving /\ Place' = b /\ Up' /\ Saving'
    BY <1>3 DEF ForceTrie, disk, Place, Busy, Up, Saving
  <2> QED
    BY <1>b, <2>1, Installs DEF Goal
<1>4. ASSUME NEW t \in Templates, HashForBlock(t) PROVE Goal
  <2>1. /\ UNCHANGED trieDat /\ Place = bestBlock /\ Up /\ ~Saving
        /\ Place' = bestBlock /\ Up' /\ ~Saving'
    BY <1>4 DEF HashForBlock, StartTempApply, disk, Place, Busy, Walkers, Up, Saving
  <2> QED
    BY <1>a, <1>b, <2>1, Stutters DEF Goal
<1>5. CASE ApplyGenesis
  <2>1. /\ UNCHANGED trieDat /\ Place = bestBlock /\ Up /\ ~Saving
        /\ Place' = bestBlock /\ Up' /\ ~Saving'
    BY <1>5 DEF ApplyGenesis, StartTempApply, Place, Busy, Walkers, Up, Saving
  <2> QED
    BY <1>a, <1>b, <2>1, Stutters DEF Goal
<1>6. CASE StartFlush
  <2>1. /\ UNCHANGED trieDat /\ Place = bestBlock /\ Up /\ ~Saving
        /\ Place' = bestBlock /\ Up' /\ Saving'
    BY <1>6 DEF StartFlush, disk, Place, Busy, Up, Saving
  <2> QED
    BY <1>b, <2>1, StartsSaving DEF Goal
<1>7. CASE UndoBlock
  <2>1. UNCHANGED trieDat /\ pc = "undo" /\ caller \in Walkers /\ oldSet # {}
    BY <1>7, <1>a DEF UndoBlock, disk, CallShape
  <2>2. Highest(oldSet) = LedgerAt /\ Place = LedgerAt /\ Up /\ ~Saving
    BY <1>a, <2>1, AtHighest DEF Place, Busy, Up, Saving
  <2>3. CASE Return(FALSE, bestBlock, Highest(oldSet) # bestBlock)
    <3>1. Highest(oldSet) = bestBlock
      BY <2>3, Zenon DEF Return
    <3>2. bestBlock' = bestBlock /\ pc' = "idle"
      BY <2>1, <2>3 DEF Return, Walkers
    <3>3. Place' = Place /\ Up' /\ ~Saving'
      BY <2>2, <3>1, <3>2 DEF Place, Busy, Up, Saving
    <3> QED
      BY <1>a, <1>b, <2>1, <2>2, <3>3, Stutters DEF Goal
  <2>4. CASE pc' = "disconnect" /\ UNCHANGED <<bestBlock, caller, path>>
    <3>1. Place' = Place /\ Up' /\ ~Saving'
      BY <2>1, <2>2, <2>4 DEF Place, LedgerAt, path, Busy, Up, Saving
    <3> QED
      BY <1>a, <1>b, <2>1, <2>2, <3>1, Stutters DEF Goal
  <2> QED
    BY <1>7, <2>3, <2>4 DEF UndoBlock
<1>8. CASE BlockUndone
  <2>1. /\ UNCHANGED <<trieDat, caller>>
        /\ pc = "disconnect" /\ pc' = "undo" /\ caller \in Walkers /\ oldSet # {}
    BY <1>8, <1>a DEF BlockUndone, disk, CallShape
  <2>2. LedgerAt \in Blocks /\ LedgerAt' = Parent[LedgerAt] /\ LedgerAt' \in Blocks
    BY <1>8, <1>a, <2>1, UndoneShape DEF CallShape, OnPath, Busy
  <2>3. Place = LedgerAt /\ Place' = LedgerAt' /\ Up /\ ~Saving /\ Up' /\ ~Saving'
    BY <2>1 DEF Place, Busy, Up, Saving
  <2> QED
    BY <1>b, <2>1, <2>2, <2>3, Disconnects DEF Goal
<1>9. CASE ApplyBlock
  <2>1. UNCHANGED trieDat /\ pc = "undo" /\ caller \in Walkers
    BY <1>9, <1>a DEF ApplyBlock, disk, CallShape
  <2>2. Place = LedgerAt /\ Up /\ ~Saving
    BY <2>1 DEF Place, Busy, Up, Saving
  <2>3. CASE Lowest(newSet) \in Unreadable
    <3>1. Return(FALSE, bestBlock, LedgerAt # bestBlock)
      BY <1>9, <2>3 DEF ApplyBlock
    <3>2. LedgerAt = bestBlock
      BY <3>1, Zenon DEF Return
    <3>3. bestBlock' = bestBlock /\ pc' = "idle"
      BY <2>1, <3>1 DEF Return, Walkers
    <3>4. Place' = Place /\ Up' /\ ~Saving'
      BY <2>2, <3>2, <3>3 DEF Place, Busy, Up, Saving
    <3> QED
      BY <1>a, <1>b, <2>1, <2>2, <3>4, Stutters DEF Goal
  <2>4. CASE Lowest(newSet) \notin Unreadable
    <3>1. pc' = "temp" /\ UNCHANGED <<bestBlock, caller, path>>
      BY <1>9, <2>4 DEF ApplyBlock, StartTempApply
    <3>2. Place' = Place /\ Up' /\ ~Saving'
      BY <2>1, <2>2, <3>1 DEF Place, LedgerAt, path, Busy, Up, Saving
    <3> QED
      BY <1>a, <1>b, <2>1, <2>2, <3>2, Stutters DEF Goal
  <2> QED
    BY <2>3, <2>4
<1>10. CASE ActivateDone
  <2>1. /\ UNCHANGED trieDat /\ pc = "undo" /\ caller \in Walkers
        /\ Return(TRUE, target, FALSE)
    BY <1>10, <1>a DEF ActivateDone, disk, CallShape
  <2>2. Place = target /\ Up /\ ~Saving
    BY <1>10, <2>1 DEF ActivateDone, Place, LedgerAt, Position, Busy, Up, Saving
  <2>3. target \in Blocks /\ (caller = "visit" => oldHash \in Blocks)
    BY <1>a, <2>1 DEF CallShape, Busy
  <2>4. CASE caller = "visit"
    <3>1. LedgerAt' = target /\ pc' = "undo" /\ caller' = "restore"
      BY <2>1, <2>3, <2>4, ReturnShape DEF Return, SetPath
    <3>2. Place' = target /\ Up' /\ ~Saving'
      BY <3>1 DEF Place, Busy, Walkers, Up, Saving
    <3> QED
      BY <1>a, <1>b, <2>1, <2>2, <3>2, Stutters DEF Goal
  <2>5. CASE caller = "chain"
    <3>1. bestBlock' = target /\ pc' = "flush"
      BY <2>1, <2>5 DEF Return
    <3>2. Place' = target /\ Up' /\ Saving'
      BY <3>1 DEF Place, Busy, Up, Saving
    <3> QED
      BY <1>b, <2>1, <2>2, <3>2, StartsSaving DEF Goal
  <2>6. CASE caller = "restore"
    <3>1. bestBlock' = target /\ pc' = "idle"
      BY <2>1, <2>6 DEF Return
    <3>2. Place' = target /\ Up' /\ ~Saving'
      BY <3>1 DEF Place, Busy, Up, Saving
    <3> QED
      BY <1>a, <1>b, <2>1, <2>2, <3>2, Stutters DEF Goal
  <2> QED
    BY <2>1, <2>4, <2>5, <2>6 DEF Walkers
<1>11. CASE ApplyOperation
  <2>1. /\ UNCHANGED <<trieDat, bestBlock, caller, path>>
        /\ pc = "temp" /\ pc' \in {"temp", "reject"}
    BY <1>11 DEF ApplyOperation, disk
  <2>2. Place' = Place /\ Up /\ ~Saving /\ Up' /\ ~Saving'
    BY <2>1 DEF Place, LedgerAt, path, Busy, Up, Saving
  <2> QED
    BY <1>a, <1>b, <2>1, <2>2, Stutters DEF Goal
<1>12. CASE Complete
  <2>1. /\ UNCHANGED <<trieDat, bestBlock, caller, path>>
        /\ pc = "temp" /\ pc' \in {"aborted", "accept", "reject"}
    BY <1>12 DEF Complete, disk
  <2>2. Up /\ ~Saving
    BY <2>1 DEF Up, Saving
  <2>3. CASE pc' = "aborted"
    BY <1>b, <2>1, <2>2, <2>3, Dies DEF Goal
  <2>4. CASE pc' \in {"accept", "reject"}
    <3>1. Place' = Place /\ Up' /\ ~Saving'
      BY <2>1, <2>4 DEF Place, LedgerAt, path, Busy, Up, Saving
    <3> QED
      BY <1>a, <1>b, <2>1, <2>2, <3>1, Stutters DEF Goal
  <2> QED
    BY <2>1, <2>3, <2>4
<1>13. CASE Accept
  <2>1. UNCHANGED trieDat /\ pc = "accept" /\ caller \in Walkers \cup {"init"}
    BY <1>13, <1>a DEF Accept, CallShape, Busy
  <2>2. Up /\ ~Saving
    BY <2>1 DEF Up, Saving
  <2>3. CASE caller \in Walkers
    <3>1. cur.hash \in Blocks /\ Parent[cur.hash] = LedgerAt /\ LedgerAt' = cur.hash
      BY <1>13, <1>a, <2>1, <2>3, AcceptShape
    <3>2. pc' = "undo" /\ caller' = caller
      BY <1>13, <2>3 DEF Accept, Walkers
    <3>3. Place = LedgerAt /\ Place' = cur.hash /\ Up' /\ ~Saving'
      BY <2>1, <2>3, <3>1, <3>2 DEF Place, Busy, Up, Saving
    <3> QED
      BY <1>b, <2>1, <2>2, <3>1, <3>3, Connects DEF Goal
  <2>4. CASE caller = "init"
    <3>1. cur.hash \in Blocks
      BY <1>a, <2>1, <2>4, CurBlock
    <3>2. bestBlock' = cur.hash /\ pc' = "flush"
      BY <1>13, <2>4 DEF Accept, Return
    <3>3. Place' = cur.hash /\ Up' /\ Saving'
      BY <3>2 DEF Place, Busy, Up, Saving
    <3> QED
      BY <1>b, <2>1, <2>2, <3>1, <3>3, Installs DEF Goal
  <2> QED
    BY <2>1, <2>3, <2>4
<1>14. CASE AcceptFails
  <2>1. stray' = (stray \/ TRUE)
    BY <1>14 DEF AcceptFails, Return
  <2> QED
    BY <2>1, Zenon
<1>15. CASE RejectDone
  <2> DEFINE strayed == caller \in {"chain", "visit", "restore"} /\ LedgerAt # bestBlock
  <2>1. /\ UNCHANGED trieDat /\ pc = "reject" /\ caller \in Walkers \cup {"hash", "init"}
        /\ Return(FALSE, bestBlock, strayed)
    BY <1>15, <1>a DEF RejectDone, disk, CallShape
  <2>2. ~strayed
    <3> HIDE DEF strayed
    <3> QED
      BY <2>1, Zenon DEF Return
  <2>3. Place = bestBlock /\ Up /\ ~Saving
    BY <2>1, <2>2 DEF Place, Walkers, Up, Saving
  <2>4. CASE caller = "init"
    <3>1. pc' = "down"
      BY <2>1, <2>4 DEF Return
    <3> QED
      BY <1>b, <2>1, <2>3, <3>1, Dies DEF Goal
  <2>5. CASE caller # "init"
    <3>1. pc' = "idle" /\ bestBlock' = bestBlock
      BY <2>1, <2>5 DEF Return
    <3>2. Place' = bestBlock /\ Up' /\ ~Saving'
      BY <3>1 DEF Place, Busy, Up, Saving
    <3> QED
      BY <1>a, <1>b, <2>1, <2>3, <3>2, Stutters DEF Goal
  <2> QED
    BY <2>4, <2>5
<1>16. CASE Unapply
  <2>1. /\ UNCHANGED <<trieDat, bestBlock, caller, path>>
        /\ pc \in {"disconnect", "reject"} /\ pc' \in {pc, "aborted"}
    BY <1>16 DEF Unapply, disk
  <2>2. Up /\ ~Saving
    BY <2>1 DEF Up, Saving
  <2>3. CASE pc' = "aborted"
    BY <1>b, <2>1, <2>2, <2>3, Dies DEF Goal
  <2>4. CASE pc' = pc
    <3>1. Place' = Place /\ Up' /\ ~Saving'
      BY <2>1, <2>4 DEF Place, LedgerAt, path, Busy, Up, Saving
    <3> QED
      BY <1>a, <1>b, <2>1, <2>2, <3>1, Stutters DEF Goal
  <2> QED
    BY <2>1, <2>3, <2>4
<1>17. CASE FlushFails \/ FlushCleanup
  <2>1. /\ UNCHANGED <<trieDat, bestBlock>>
        /\ pc \in {"flush", "rename", "cleanup"} /\ pc' \in {"down", "idle"}
    BY <1>17 DEF FlushFails, FlushCleanup, FlushOver, disk
  <2>2. Place = bestBlock /\ Up /\ Saving
    BY <2>1 DEF Place, Busy, Up, Saving
  <2>3. CASE pc' = "down"
    BY <1>b, <2>1, <2>2, <2>3, Dies DEF Goal
  <2>4. CASE pc' = "idle"
    <3>1. Place' = bestBlock /\ Up' /\ ~Saving'
      BY <2>1, <2>4 DEF Place, Busy, Up, Saving
    <3> QED
      BY <1>b, <2>1, <2>2, <3>1, EndsSaving DEF Goal
  <2> QED
    BY <2>1, <2>3, <2>4
<1>18. CASE FlushWrite
  <2>1. UNCHANGED <<trieDat, bestBlock>> /\ pc = "flush" /\ pc' \in {"rename", "cleanup"}
    BY <1>18 DEF FlushWrite
  <2>2. Place' = Place /\ Up /\ Saving /\ Up' /\ Saving'
    BY <2>1 DEF Place, Busy, Up, Saving
  <2> QED
    BY <1>a, <1>b, <2>1, <2>2, Stutters DEF Goal
<1>19. CASE FlushRename
  <2>1. UNCHANGED bestBlock /\ pc = "rename" /\ pc' = "idle" /\ trieDat' = trieTmp
    BY <1>19 DEF FlushRename, FlushOver
  <2>2. MidCall
    BY <1>a, Zenon DEF LedgerInv
  <2>3. trieTmp = [best |-> bestBlock, trie |-> root]
    BY <2>1, <2>2 DEF MidCall
  <2>4. /\ Place = bestBlock /\ Seen = root /\ Up /\ Saving
        /\ Place' = bestBlock /\ Up' /\ ~Saving'
    BY <2>1 DEF Place, Seen, Busy, Quiet, Up, Saving
  <2> QED
    BY <1>b, <2>1, <2>3, <2>4, EndsSaving DEF Goal
<1>20. CASE Crash
  <2>1. pc' = "down" /\ UNCHANGED trieDat /\ Up
    BY <1>20 DEF Crash, disk, Up
  <2> QED
    BY <1>b, <2>1, Dies DEF Goal
<1>21. CASE Rot
  <2>1. pc' = pc /\ pc \in {"down", "aborted"} /\ trieDat # NoFile /\ trieDat' = Damaged
    BY <1>21 DEF Rot
  <2>2. Place = NoBlock /\ Place' = NoBlock
    BY <2>1 DEF Place
  <2>3. Seen' = Seen
    BY <1>b, <2>2, Zenon
  <2>4. Promise!Rot
    BY <2>1, <2>2, <2>3 DEF Promise!Rot, Promise!place
  <2> QED
    BY <2>4, Zenon DEF Goal, Promise!Moves
<1>22. CASE Restart
  <2>1. /\ pc \in {"down", "aborted"} /\ pc' = "idle"
        /\ Place' = bestBlock' /\ Seen' = root'
    BY <1>22 DEF Restart, Place, Seen, Busy, Quiet
  <2>2. /\ pc \notin {"flush", "rename", "cleanup"} /\ pc' \notin {"flush", "rename", "cleanup"}
        /\ ~(pc \notin {"down", "aborted"}) /\ pc' \notin {"down", "aborted"}
    BY <2>1
  <2>3. CASE trieDat \in {NoFile, Damaged}
    <3>1. bestBlock' = NoBlock /\ trieDat' \in {trieDat, NoFile}
      BY <1>22, <2>3 DEF Restart
    <3>2. Promise!MoveTo(NoBlock)
      BY <1>b, <2>1, <3>1, Mapped DEF Promise!MoveTo
    <3> QED
      BY <2>2, <2>3, <3>1, <3>2 DEF Goal, Promise!Moves, Promise!Start
  <2>4. CASE trieDat \notin {NoFile, Damaged}
    <3>1. bestBlock' = trieDat.best /\ root' = trieDat.trie /\ trieDat' = trieDat
      BY <1>22, <2>4 DEF Restart
    <3> QED
      BY <2>1, <2>2, <2>4, <3>1 DEF Goal, Promise!Moves, Promise!Start
  <2> QED
    BY <2>3, <2>4
<1>23. CASE UNCHANGED vars
  <2>1. UNCHANGED <<trieDat, pc, caller, bestBlock, path>>
    BY <1>23 DEF vars, disk
  <2>2. Place' = Place /\ (Up' <=> Up) /\ (Saving' <=> Saving)
    BY <2>1 DEF Place, LedgerAt, path, Up, Saving
  <2> QED
    BY <1>a, <1>b, <2>1, <2>2, Stutters DEF Goal
<1> QED
  BY <1>1, <1>2, <1>3, <1>4, <1>5, <1>6, <1>7, <1>8, <1>9, <1>10, <1>11, <1>12, <1>13, <1>14,
     <1>15, <1>16, <1>17, <1>18, <1>19, <1>20, <1>21, <1>22, <1>23 DEF Next, Step

\* The steps of Activate, Apply, Unapply, HashForBlock, BalancesAt, GetSlice,
\* Force, Flush and the constructor are, seen from outside, moves of a ledger
\* that goes from block to block as a whole: for every block tree, every content
\* of the blocks and every point at which the process dies, up to the first
\* unwinding fault.
THEOREM LedgerImplemented == Spec => ImplementsLedger
<1>1. Init => Promise!Init
  BY InitRefines
<1>2. Spec => []Steady
  BY TypeCorrect, CallsKeepTheirShape, LedgerAlways, PTL DEF Steady
<1>3. Steady /\ Steady' /\ [Next]_vars => [Promise!Next]_(Promise!vars)
  BY StepRefines
<1> QED
  BY <1>1, <1>2, <1>3, PTL DEF Spec, ImplementsLedger, Promise!Spec
=============================================================================
