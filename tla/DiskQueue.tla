------------------------------ MODULE DiskQueue ------------------------------
(***************************************************************************)
(* The file-backed queue of lib/disk-queue/src/DiskQueue.cpp.  A message   *)
(* is one file, named by a number that grows from the front to the back.   *)
(* The list of files, the bytes they use and the settings are volatile;    *)
(* the files survive a power loss, which may tear the one being written.   *)
(* Every operation holds the same lock, which it takes after a first test  *)
(* of _running or _diskLimit; all are called on the application thread, so *)
(* that operations are atomic except for the power.                        *)
(***************************************************************************)
EXTENDS Integers, Sequences, SequencesExt, FiniteSetsExt

CONSTANTS
    Sizes,     \* the sizes of files, headers included
    Limits,    \* the disk limits start() is called with
    Inputs,    \* which of "crash", "stop" and "factory" may happen
    MaxItems,  \* bound on the number of messages pushed
    MaxBytes   \* bound on the bytes accounted for at a start

Policies == {"FifoDeleteOld", "FifoDeleteNew"}

ASSUME DiskAssumption ==
    /\ Sizes \subseteq Nat \ {0} /\ Limits \subseteq Nat /\ MaxItems \in Nat
    /\ MaxBytes \in Nat

VARIABLES
    disk,      \* the files: number -> [item, size, whole]
    list,      \* _fileList: sequence of [n, size]
    current,   \* _diskCurrent
    limit,     \* _diskLimit
    policy,   \* _policy
    running,  \* _running
    made,      \* messages pushed so far: the number of the last one
    returned,  \* what the last pushBack() returned
    fault      \* an eviction read past the end of an empty list

vars == <<disk, list, current, limit, policy, running, made, returned, fault>>

Files == [item : 1..MaxItems, size : Nat, whole : BOOLEAN]

TypeOK ==
    /\ DOMAIN disk \subseteq 0..MaxItems /\ \A n \in DOMAIN disk : disk[n] \in Files
    /\ list \in Seq([n : Nat, size : Nat])
    /\ current \in Nat /\ limit \in Limits \cup {0} /\ policy \in Policies
    /\ running \in BOOLEAN /\ made \in 0..MaxItems
    /\ returned \in BOOLEAN /\ fault \in BOOLEAN

(* The bytes of the first i entries, and of all. *)
Sums(l) ==
    LET sum[i \in 0..Len(l)] == IF i = 0 THEN 0 ELSE sum[i - 1] + l[i].size IN sum
Bytes(l) == Sums(l)[Len(l)]
Numbers(l) == {l[i].n : i \in DOMAIN l}
(* removeFileNode() never takes more than there is. *)
Less(used, gone) == IF used >= gone THEN used - gone ELSE 0

RestrictTo(f, S) == [n \in DOMAIN f \cap S |-> f[n]]

(* The i-th of a set of numbers, in their order. *)
Nth(S, i) == CHOOSE n \in S : Cardinality({m \in S : m < n}) = i - 1

(* getFilenames(): the files of the directory, sorted by their number. *)
Listed(files) ==
    [i \in 1..Cardinality(DOMAIN files) |->
       [n |-> Nth(DOMAIN files, i), size |-> files[Nth(DOMAIN files, i)].size]]

Init ==
    /\ disk = <<>> /\ list = <<>> /\ current = 0 /\ limit = 0
    /\ policy = "FifoDeleteOld" /\ running = FALSE
    /\ made = 0 /\ returned = FALSE /\ fault = FALSE

-----------------------------------------------------------------------------
(* start(path, limit, policy): the limit is set even when the queue runs,  *)
(* the policy only when it does not.  The sizes of the files found are     *)
(* added to what is already accounted for.                                 *)
Counted_none(l) == current
Counted(l) == current + Bytes(l)

Start(l, p) ==
    /\ running \/ Counted(Listed(disk)) <= MaxBytes
    /\ limit' = l
    /\ IF running THEN UNCHANGED <<list, current, policy, running>>
       ELSE /\ list' = list \o Listed(disk) /\ current' = Counted(Listed(disk))
            /\ policy' = p /\ running' = TRUE
    /\ UNCHANGED <<disk, made, returned, fault>>

(* stop() forgets the list; the bytes stay accounted for. *)
Stop ==
    /\ "stop" \in Inputs
    /\ running' = FALSE /\ list' = <<>>
    /\ UNCHANGED <<disk, current, limit, policy, made, returned, fault>>

(* EdgeLocationPublish::factoryReset(): unlinkFiles(), then stop(). *)
FactoryReset ==
    /\ "factory" \in Inputs
    /\ disk' = RestrictTo(disk, DOMAIN disk \ Numbers(list))
    /\ running' = FALSE /\ list' = <<>>
    /\ UNCHANGED <<current, limit, policy, made, returned, fault>>

-----------------------------------------------------------------------------
(* pushBack() *)

NextNumber_length == Len(list)
NextNumber_count == IF list = <<>> THEN 0 ELSE list[Len(list)].n + Len(list) + 1
NextNumber == IF list = <<>> THEN 0 ELSE list[Len(list)].n + 1

(* The list after k files were evicted from the end the policy gives. *)
Survivors(l, k) ==
    IF policy = "FifoDeleteOld" THEN SubSeq(l, k + 1, Len(l)) ELSE SubSeq(l, 1, Len(l) - k)

(* The bytes accounted for after these evictions from l, whose last file   *)
(* has just been added.                                                    *)
Used(l, k) ==
    Less(current + l[Len(l)].size, Bytes(l) - Bytes(Survivors(l, k)))

(* The numbers of evictions after which the limit is met; none when more   *)
(* bytes are accounted for than the files have.                            *)
Enough_once(l) == IF Used(l, 0) <= limit THEN {0} ELSE {1}
Enough(l) == {k \in 0..Len(l) : Used(l, k) <= limit}

Written(size) == Append(list, [n |-> NextNumber, size |-> size])
WithFile(size, whole) ==
    [n \in DOMAIN disk \cup {NextNumber} |->
       IF n = NextNumber THEN [item |-> made + 1, size |-> size, whole |-> whole] ELSE disk[n]]

Accepts == running /\ limit > 0 /\ made < MaxItems

PushRefused ==
    /\ (~running \/ limit = 0) /\ made < MaxItems
    /\ made' = made + 1 /\ returned' = FALSE
    /\ UNCHANGED <<disk, list, current, limit, policy, running, fault>>

Push(size) ==
    /\ Accepts /\ Enough(Written(size)) # {}
    /\ LET l == Written(size)
           k == Min(Enough(l))
       IN  /\ list' = Survivors(l, k) /\ current' = Used(l, k)
           /\ disk' = RestrictTo(WithFile(size, TRUE),
                        (DOMAIN disk \cup {NextNumber}) \ (Numbers(l) \ Numbers(list')))
    /\ made' = made + 1 /\ returned' = TRUE
    /\ UNCHANGED <<limit, policy, running, fault>>

(* The eviction loop empties the list and reads its first entry. *)
PushFaults(size) ==
    /\ Accepts /\ Enough(Written(size)) = {}
    /\ fault' = TRUE /\ list' = <<>> /\ made' = made + 1
    /\ disk' = RestrictTo(disk, DOMAIN disk \ Numbers(list))
    /\ UNCHANGED <<current, limit, policy, running, returned>>

(* A write fails: the file is unlinked. *)
PushFails ==
    /\ Accepts
    /\ made' = made + 1 /\ returned' = FALSE
    /\ UNCHANGED <<disk, list, current, limit, policy, running, fault>>

-----------------------------------------------------------------------------
(* peekFrontSize() and peekFront() discard the torn files at the front. *)
PeekFront ==
    /\ running /\ list # <<>> /\ ~disk[list[1].n].whole
    /\ LET torn == {k \in 1..Len(list) : \A i \in 1..k : ~disk[list[i].n].whole}
           k == Max(torn)
       IN  /\ list' = SubSeq(list, k + 1, Len(list))
           /\ current' = Less(current, Bytes(SubSeq(list, 1, k)))
           /\ disk' = RestrictTo(disk, DOMAIN disk \ Numbers(SubSeq(list, 1, k)))
    /\ UNCHANGED <<limit, policy, running, made, returned, fault>>

ReadIndex_last == Len(list)
ReadIndex == 1

PopFront ==
    /\ running /\ list # <<>>
    /\ list' = RemoveAt(list, ReadIndex) /\ current' = Less(current, list[ReadIndex].size)
    /\ disk' = RestrictTo(disk, DOMAIN disk \ {list[ReadIndex].n})
    /\ UNCHANGED <<limit, policy, running, made, returned, fault>>

-----------------------------------------------------------------------------
(* The power goes.  A push may leave a torn file, or its whole file with   *)
(* some of the evictions done.                                             *)

Reboot ==
    /\ list' = <<>> /\ current' = 0 /\ limit' = 0 /\ policy' = "FifoDeleteOld"
    /\ running' = FALSE
    /\ UNCHANGED <<returned, fault>>

(* The power goes while nothing is written, or while factoryReset()        *)
(* unlinks the files.                                                      *)
Crash == "crash" \in Inputs /\ Reboot /\ UNCHANGED <<disk, made>>

CrashInReset ==
    /\ {"crash", "factory"} \subseteq Inputs
    /\ \E k \in DOMAIN list :
         disk' = RestrictTo(disk, DOMAIN disk \ Numbers(SubSeq(list, 1, k)))
    /\ Reboot /\ UNCHANGED made

CrashTearsPush(size) ==
    /\ "crash" \in Inputs /\ Accepts
    /\ \E torn \in 0..size - 1 : disk' = WithFile(torn, FALSE)
    /\ made' = made + 1 /\ Reboot

CrashAfterPush(size) ==
    /\ "crash" \in Inputs /\ Accepts /\ Enough(Written(size)) # {}
    /\ LET l == Written(size)
       IN  \E k \in 0..Min(Enough(l)) :
             disk' = RestrictTo(WithFile(size, TRUE), (DOMAIN disk \cup {NextNumber})
                                  \ (Numbers(l) \ Numbers(Survivors(l, k))))
    /\ made' = made + 1 /\ Reboot

-----------------------------------------------------------------------------
Next ==
    /\ ~fault
    /\ \/ \E l \in Limits, p \in Policies : Start(l, p)
       \/ Stop \/ FactoryReset \/ Crash \/ CrashInReset
       \/ PushRefused \/ PushFails
       \/ \E size \in Sizes : Push(size) \/ PushFaults(size)
       \/ \E size \in Sizes : CrashTearsPush(size) \/ CrashAfterPush(size)
       \/ PeekFront \/ PopFront

Spec == Init /\ [][Next]_vars

-----------------------------------------------------------------------------
(* The list of a running queue is the directory, in the order of the       *)
(* numbers: no file is leaked, hidden or overwritten, across crashes and   *)
(* numbers used again, so that the next number is always free.             *)
Ordered == \A i, j \in DOMAIN list : i < j => list[i].n < list[j].n
ListIsDisk ==
    running => /\ Ordered /\ Numbers(list) = DOMAIN disk
               /\ \A i \in DOMAIN list : list[i].size = disk[list[i].n].size

(* The bytes of the files on the disk. *)
DiskBytes == Bytes(Listed(disk))

(* After a push that returned true the files fit the limit, also the files *)
(* found at start and those torn by a power loss.                          *)
QuotaRespected ==
    [][made' # made /\ returned' /\ running' => DiskBytes' <= limit]_vars

(* A running queue never accounts for less than is on the disk, across     *)
(* stops, evictions, torn files and power losses: an eviction loop that    *)
(* trusted a smaller figure would let the store grow past its limit.       *)
UsageCovers == running => current >= DiskBytes

(* What a running queue believes of its directory, the entries and the bytes,  *)
(* it may act on.                                                          *)
StateMatchesDisk == ListIsDisk /\ UsageCovers

(* The messages kept, in order: those of the files that are whole. *)
Whole(files) == {n \in DOMAIN files : files[n].whole}
Items(files) ==
    [i \in 1..Cardinality(Whole(files)) |-> files[Nth(Whole(files), i)].item]
Queue == Items(disk)

(* The files of the directory are a durable FIFO. *)
Fifo == INSTANCE DurableFifo WITH queue <- Queue
ImplementsDurableFifo == Fifo!Spec

(* So a message that was taken, evicted or torn is not seen again, and those   *)
(* that are kept are in the order of their pushes, although numbers of files   *)
(* are used again, after every boot.                                        *)
StoredItems == {Queue[i] : i \in DOMAIN Queue}
InOrder ==
    /\ StoredItems \subseteq 1 .. made
    /\ \A i, j \in DOMAIN Queue : i < j => Queue[i] < Queue[j]
NeverReturns ==
    [][\A x \in 1 .. made : x \notin StoredItems => x \notin StoredItems']_vars
=============================================================================
