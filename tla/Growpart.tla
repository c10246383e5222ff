------------------------------ MODULE Growpart -------------------------------
(***************************************************************************)
(* veron-growpart grow, run by flashd after a write and by                  *)
(* early-filesystems at boot: it extends the persist partition, the last    *)
(* one, by rewriting the GPT at both ends of the disk, tells the kernel,    *)
(* and grows the file system.  Between its writes there is no fsync, so     *)
(* they reach the disk in any order; a kill keeps the page cache, a power   *)
(* loss does not.                                                           *)
(*                                                                         *)
(* A table is its header's facts; a header and an entry array belong        *)
(* together when they are of the same table (the CRC).  Sector counts are   *)
(* scaled: Ent sectors of entries, MinGrow the 64 MiB below which nothing   *)
(* is done.                                                                 *)
(***************************************************************************)
EXTENDS Integers

CONSTANTS
  Totals,   \* disk sizes in sectors
  First,    \* first sector of persist
  Ent,      \* sectors of an entry array, 32 in the code
  MinGrow,  \* MIN_GROW_LBAS
  Sizes     \* sizes a person may choose; 0 stands for --fill

ASSUME GrowpartAssumption ==
  /\ Totals \subseteq Nat /\ Sizes \subseteq Nat
  /\ First \in Nat /\ Ent \in Nat \ {0} /\ MinGrow \in Nat \ {0}
  /\ \A t \in Totals : First + 1 < t - Ent - 1

VARIABLES
  total,    \* sectors of the disk
  cache,    \* the GPT as reads see it
  media,    \* the GPT as it is after a power loss
  fs,       \* sectors of the file system
  kern,     \* the size sysfs shows for p4
  follows,  \* another partition lies after persist
  job       \* veron-growpart: its place, the new table, the old alt_lba, and
            \* how it ended

growVars == <<total, cache, media, fs, kern, follows, job>>

(* A table: the last sector of persist and where its backup header is.      *)
Table(last, alt) == [last |-> last, alt |-> alt]
Gone == Table(-1, -1)

(* The parts of the GPT that are written one by one: both headers and both  *)
(* arrays, and the backup of the image, in the middle of a larger disk.     *)
Parts == {"header", "entries", "backup", "backupEntries", "oldBackup"}

Idle == [pc |-> "idle", new |-> Gone, alt |-> -1, how |-> "none"]
Places == {"idle", "backupEntries", "backup", "entries", "header", "mbr", "oldBackup",
           "sync", "kernel", "fsck", "resize"}

Tables == [last : -1 .. total - 1, alt : -1 .. total - 1]

GrowTypeOK ==
  /\ total \in Totals
  /\ cache \in [Parts -> Tables]
  /\ media \in [Parts -> Tables]
  /\ fs \in 0 .. total /\ kern \in 0 .. total /\ follows \in BOOLEAN
  /\ job \in [pc : Places, new : Tables, alt : -1 .. total - 1,
             how : {"none", "done", "refused"}]

(* An image of alt + 1 sectors was written to the disk; it may be the whole *)
(* disk.                                                                    *)
GrowInit ==
  /\ total \in Totals
  /\ follows \in BOOLEAN
  /\ \E alt \in (First + Ent + 2) .. (total - 1) :
       LET t == Table(alt - Ent - 1, alt)  end == IF alt = total - 1 THEN t ELSE Gone IN
       /\ cache = [header |-> t, entries |-> t, backup |-> end, backupEntries |-> end,
                   oldBackup |-> t]
       /\ fs = t.last - First + 1
  /\ media = cache
  /\ kern = fs
  /\ job = Idle

(* read_table: only the primary counts. *)
Reads(gpt) == gpt.header # Gone /\ gpt.header = gpt.entries

(* What the firmware accepts: the primary, or the backup at the end.        *)
Valid(gpt) ==
  \/ Reads(gpt)
  \/ gpt.backup # Gone /\ gpt.backup = gpt.backupEntries /\ gpt.backup.alt = total - 1

Size(t) == t.last - First + 1

-----------------------------------------------------------------------------
(* The last sector that a grow asks for: --fill, or First + size - 1. *)
LastUsable == total - 1 - Ent - 1
NewLast(n) == IF n = 0 THEN LastUsable ELSE First + n - 1

(* The refusals, in the code's order; p4 is not mounted. *)
Refused(n) ==
  \/ ~Reads(cache) \/ follows
  \/ NewLast(n) > LastUsable
  \/ NewLast(n) < cache.entries.last

(* Under 64 MiB to gain, and the backup is where it belongs. *)
NothingToDo(n) ==
  NewLast(n) - cache.entries.last < MinGrow /\ cache.header.alt = total - 1

Grow(n) ==
  /\ job.pc = "idle"
  /\ job' = IF Refused(n) THEN [Idle EXCEPT !.how = "refused"]
            ELSE IF NothingToDo(n) THEN [Idle EXCEPT !.how = "done"]
            ELSE [pc |-> "backupEntries", new |-> Table(NewLast(n), total - 1),
                  alt |-> cache.header.alt, how |-> "none"]
  /\ UNCHANGED <<total, cache, media, fs, kern, follows>>

(* Mutant: the primary table first. *)
OrderPrimaryFirst(p) ==
  CASE p = "backupEntries" -> "entries" [] p = "entries" -> "header" [] p = "header" -> "backup"
    [] p = "backup" -> "mbr" [] p = "mbr" -> "oldBackup" [] OTHER -> "sync"

(* The write that follows. *)
Order(p) ==
  CASE p = "backupEntries" -> "backup" [] p = "backup" -> "entries" [] p = "entries" -> "header"
    [] p = "header" -> "mbr" [] p = "mbr" -> "oldBackup" [] OTHER -> "sync"

(* The backup of the image is zeroed unless it is the one at the end of the *)
(* disk.  When the disk is hardly larger than the image, the zeroes also    *)
(* fall on the entries just written at its end.                             *)
Zeroed ==
  IF job.alt = total - 1 \/ job.alt <= First THEN {}
  ELSE {"oldBackup"} \cup (IF job.alt >= total - 1 - Ent THEN {"backupEntries"} ELSE {})

(* What goes where.  The protective MBR is no part of a table: its size     *)
(* field is all that changes.                                               *)
Written(p) ==
  CASE p = "mbr" -> cache
    [] p = "oldBackup" -> [q \in Parts |-> IF q \in Zeroed THEN Gone ELSE cache[q]]
    [] OTHER -> [cache EXCEPT ![p] = job.new]

WriteNext ==
  /\ job.pc \in Parts \cup {"mbr"}
  /\ cache' = Written(job.pc)
  /\ job' = [job EXCEPT !.pc = Order(job.pc)]
  /\ UNCHANGED <<total, media, fs, kern, follows>>

(* Mutant: no fsync. *)
SyncedNot == media

Synced == cache

Sync ==
  /\ job.pc = "sync"
  /\ media' = Synced
  /\ job' = [job EXCEPT !.pc = "kernel"]
  /\ UNCHANGED <<total, cache, fs, kern, follows>>

(* BLKRRPART, or BLKPG_RESIZE_PARTITION when a sibling is in use; both may  *)
(* be refused.                                                              *)
KernelRescan ==
  /\ job.pc = "kernel"
  /\ \/ kern' = Size(job.new) /\ job' = [job EXCEPT !.pc = "fsck"]
     \/ UNCHANGED kern /\ job' = [Idle EXCEPT !.how = "refused"]
  /\ UNCHANGED <<total, cache, media, fs, follows>>

Fsck ==
  /\ job.pc = "fsck"
  /\ job' \in {[job EXCEPT !.pc = "resize"], [Idle EXCEPT !.how = "refused"]}
  /\ UNCHANGED <<total, cache, media, fs, kern, follows>>

(* resize2fs grows to what the kernel shows. *)
Resize ==
  /\ job.pc = "resize"
  /\ \/ fs' = kern /\ job' = [Idle EXCEPT !.how = "done"]
     \/ UNCHANGED fs /\ job' = [Idle EXCEPT !.how = "refused"]
  /\ UNCHANGED <<total, cache, media, kern, follows>>

-----------------------------------------------------------------------------
(* The kernel writes a dirty part back when it pleases. *)
WriteBack(p) ==
  /\ media[p] # cache[p]
  /\ media' = [media EXCEPT ![p] = cache[p]]
  /\ UNCHANGED <<total, cache, fs, kern, follows, job>>

Kill ==
  /\ job.pc # "idle"
  /\ job' = Idle
  /\ UNCHANGED <<total, cache, media, fs, kern, follows>>

(* After a power loss the kernel shows what the table says, if it reads. *)
PowerLoss ==
  /\ cache' = media
  /\ kern' = IF Reads(media) THEN Size(media.entries) ELSE 0
  /\ job' = Idle
  /\ UNCHANGED <<total, media, fs, follows>>

GrowNext ==
  \/ \E n \in Sizes : Grow(n)
  \/ WriteNext \/ Sync \/ KernelRescan \/ Fsck \/ Resize
  \/ \E p \in Parts : WriteBack(p)
  \/ Kill \/ PowerLoss

GrowSpec == GrowInit /\ [][GrowNext]_growVars

-----------------------------------------------------------------------------
(* Properties.                                                              *)

(* A kill between any two writes leaves a table that the firmware accepts.  *)
TableSurvivesKill == [][WriteNext /\ Valid(cache) => Valid(cache')]_growVars

(* Whatever is lost with the power, when a table reads the file system lies *)
(* inside the partition and the partition before the backup GPT: a grow     *)
(* never shrinks, and resize2fs never runs ahead of the table on the disk.  *)
FsInsidePartition ==
  Reads(media) => fs <= Size(media.entries) /\ media.entries.last <= LastUsable

(* "if the primary write dies the old table still reads" (veron-growpart):  *)
(* some table is accepted after a power loss.                               *)
TableSurvivesPowerLoss == Valid(media)

(* "the ext4 inside it grows to match" (veron-growpart, flashd): a grow     *)
(* that ends well leaves a file system that fills the partition.            *)
GrowMatches == job.how = "done" => fs = Size(cache.entries)

=============================================================================
