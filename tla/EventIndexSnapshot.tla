------------------------- MODULE EventIndexSnapshot -------------------------
(***************************************************************************)
(* Snapshots of the event index: BaseEventIndex::dump, and the            *)
(* constructor that loads what dump wrote, running beside the updates     *)
(* and applies of module EventIndex.                                      *)
(*                                                                         *)
(* dump() writes the postings and then the expiration table, and, unlike  *)
(* every other method of the file, takes no lock of its own: the two      *)
(* writes are two steps here.  The design has the caller, the document    *)
(* index manager, acquire changeset_mutex_ around the call; DumpHoldsMutex *)
(* says whether it does.                                                  *)
(***************************************************************************)
EXTENDS EventIndex

CONSTANTS
    DumpHoldsMutex    \* TRUE: dump() runs with changeset_mutex_ held

ASSUME DumpHoldsMutex \in BOOLEAN

VARIABLES
    mutex,     \* changeset_mutex_: "free", or "dump" while a dump holds it
    stage,     \* the dump in progress: "idle", or "table" once the postings are out
    sink       \* the snapshot: the sections the dumper has received, in order

snapVars == <<vars, mutex, stage, sink>>

(* A snapshot that its dump has finished: the postings, then the table. *)
Whole(snapshot) == Len(snapshot) = 2

SnapTypeOK ==
    /\ TypeOK
    /\ mutex \in {"free", "dump"}
    /\ stage \in {"idle", "table"}
    /\ sink \in {<<>>} \cup {<<p>> : p \in PartialFunctions(Keys, Weights)}
               \cup (PartialFunctions(Keys, Weights) \X PartialFunctions(Keys, Times))

SnapInit ==
    /\ Init
    /\ mutex = "free"
    /\ stage = "idle"
    /\ sink = <<>>

(* The manager's part of a dump: it waits for the mutex and holds it. *)
Acquire ==
    IF DumpHoldsMutex THEN mutex = "free" /\ mutex' = "dump" ELSE UNCHANGED mutex

(* Mutant: the mutex is held for each write of the dump, not across them. *)
DumpPostingsThenUnlock ==
    /\ stage = "idle" /\ mutex = "free"
    /\ sink' = <<index>>
    /\ stage' = "table"
    /\ UNCHANGED <<vars, mutex>>

(* dump(), first half: dump_internal writes the published postings to a  *)
(* new snapshot.                                                          *)
DumpPostings ==
    /\ stage = "idle"
    /\ Acquire
    /\ sink' = <<index>>
    /\ stage' = "table"
    /\ UNCHANGED vars

(* dump(), second half: expire_.dump writes the table behind them; the   *)
(* dump returns and its caller lets go of the mutex.                      *)
DumpTable ==
    /\ stage = "table"
    /\ sink' = Append(sink, expire)
    /\ stage' = "idle"
    /\ mutex' = "free"
    /\ UNCHANGED vars

(* dump() throws ios_base::failure, with nothing written yet or with the  *)
(* postings out and the table not: the caller lets go of the mutex,      *)
(* server_main logs the failure and goes on.                              *)
DumpFails ==
    /\ \/ stage = "idle" /\ mutex = "free" /\ sink' = <<>>
       \/ stage = "table" /\ sink' = sink
    /\ stage' = "idle"
    /\ mutex' = "free"
    /\ UNCHANGED vars

(* The process ends, at any moment, and a new one constructs its index:   *)
(* what was staged and not published is gone, and so are the mutex and a  *)
(* dump that was under way.                                                *)
Restart(postings, table) ==
    /\ index' = postings
    /\ expire' = table
    /\ changeset' = <<>>
    /\ applied' = -1
    /\ mutex' = "free" /\ stage' = "idle"
    /\ UNCHANGED sink

(* Mutant: the table is constructed empty and not from the loader. *)
LoadPostingsOnly == Whole(sink) /\ Restart(sink[1], <<>>)

(* restore_on_startup: the constructor reads the snapshot in the order of *)
(* its initialisers, Base(initial_buckets, loader) the postings and       *)
(* expire_(loader) the table.                                              *)
Load == Whole(sink) /\ Restart(sink[1], sink[2])

(* server_main without restore_on_startup, or when the loading            *)
(* constructor throws ios_base::failure (no snapshot, one its dump did    *)
(* not finish, one that cannot be read): the exception is logged and the  *)
(* index is constructed empty.                                             *)
CreateEmpty == Restart(<<>>, <<>>)

(* update, batch_update and apply wait for the mutex. *)
Locked(A) == mutex = "free" /\ A /\ UNCHANGED <<mutex, stage, sink>>

SnapNext ==
    \/ Locked(Next)
    \/ DumpPostings
    \/ DumpTable
    \/ DumpFails
    \/ Load
    \/ CreateEmpty

SnapSpec == SnapInit /\ [][SnapNext]_snapVars

-----------------------------------------------------------------------------
(* Properties *)

(* A snapshot is a state the index was in: when dump() returns, the     *)
(* postings and the table it wrote are those the index holds at that    *)
(* moment, although an update or an apply may have been waiting all     *)
(* through the dump.  A snapshot pieced together from postings of one   *)
(* moment and a table of another restores postings without deadlines or *)
(* deadlines without postings.                                          *)
SnapshotIsAtomic ==
    [][~Whole(sink) /\ Whole(sink') => sink' = <<index', expire'>>]_snapVars

(* PostingsHaveDeadline of module EventIndex, here across dump and load: *)
(* a posting restored from a snapshot is restored with its deadline, so  *)
(* the applies of the new process will remove it when it is due.         *)
RestoredPostingsHaveDeadline == PostingsHaveDeadline

(* Scenario S5 of the design (populate, dump, destroy, restore, "assert   *)
(* full-index equality"): what the restored index tracks it also holds,   *)
(* as the index that was dumped did, counting its staged edits.  dump()   *)
(* writes expire_, which update() has refreshed already, and the          *)
(* published postings, but not changeset_.                                *)
RestoredTrackedIsPosted == TrackedIsPostedOrPending

=============================================================================
