--------------------------- MODULE SegmentWriter ---------------------------
(***************************************************************************)
(* The durable segment of the forward recorder (forward_recorder/          *)
(* segment.py): frames are appended and synced one by one, and finalize    *)
(* publishes the data file, then a manifest that describes it.             *)
(*                                                                         *)
(* Every file system call of an append or a finalization is a step of its  *)
(* own.  It can raise, which ends the operation where it stands, and the   *)
(* machine can lose power between any two of them: what was synced         *)
(* survives, what was not may or may not.  A frame is its receive time and *)
(* whether its whole payload follows the header, which is written first.   *)
(***************************************************************************)
EXTENDS Integers, Sequences, SequencesExt

CONSTANTS
    Times,      \* receive times of inbound payloads
    MaxFrames   \* bound on the frames of one segment

ASSUME SegmentAssumption ==
    /\ Times \subseteq Nat
    /\ MaxFrames \in Nat \ {0}

VARIABLES
    step,    \* where the writer stands, "none" when there is no writer
    count,   \* _record_count
    last,    \* _receive_end_ns, -1 before the first record
    acked,   \* frame positions whose append returned, over all crashes
    disk,    \* the artifacts as the calls of the writer left them
    safe     \* the artifacts as a loss of power leaves them at the least

writer == <<step, count, last, acked, disk, safe>>
memory == <<count, last>>

\* The writer's next file system call, or why there is none.
Steps == {"none", "open", "writing", "syncing", "finalizing", "naming", "syncingName",
          "describing", "publishing", "syncingManifest", "published", "stopped"}

Frame == [time : Times, whole : BOOLEAN]
Frames == BoundedSeq(Frame, MaxFrames)

\* What the manifest says: the frames its hash stands for and the record count.
NoManifest == [frames |-> <<>>, count |-> 0]
Manifest == [frames : Frames, count : 1..MaxFrames] \cup {NoManifest}

Artifacts == [data : {"absent", "partial", "final"}, frames : Frames,
              manifest : {"absent", "partial", "published"}, says : Manifest]

Nothing == [data |-> "absent", frames |-> <<>>, manifest |-> "absent", says |-> NoManifest]

WriterTypeOK ==
    /\ step \in Steps
    /\ count \in 0..MaxFrames
    /\ last \in Times \cup {-1}
    /\ acked \subseteq 1..MaxFrames
    /\ disk \in Artifacts
    /\ safe \in Artifacts

WriterInit ==
    /\ step = "none"
    /\ count = 0
    /\ last = -1
    /\ acked = {}
    /\ disk = Nothing
    /\ safe = Nothing

-----------------------------------------------------------------------------
\* __init__: the exclusive creation of the partial file.
Open ==
    /\ step = "none"
    /\ disk.data = "absent" /\ disk.manifest = "absent"
    /\ step' = "open"
    /\ count' = 0
    /\ last' = -1
    /\ disk' = [disk EXCEPT !.data = "partial"]
    /\ UNCHANGED <<acked, safe>>

\* append: the checks and the write of the header.
AppendHeader(time) ==
    /\ step = "open"
    /\ Len(disk.frames) < MaxFrames
    /\ time >= last
    /\ step' = "writing"
    /\ disk' = [disk EXCEPT !.frames = Append(@, [time |-> time, whole |-> FALSE])]
    /\ UNCHANGED <<memory, acked, safe>>

\* append: the write of the payload.
AppendPayload ==
    /\ step = "writing"
    /\ step' = "syncing"
    /\ disk' = [disk EXCEPT !.frames[Len(disk.frames)].whole = TRUE]
    /\ UNCHANGED <<memory, acked, safe>>

\* A sync makes the data durable, under the name the directory holds for it.
SyncedData == [safe EXCEPT !.frames = disk.frames,
                           !.data = IF @ = "absent" THEN "partial" ELSE @]

\* Faulty variant: the record is acknowledged without a sync.
AcknowledgeUnsynced ==
    /\ step = "syncing"
    /\ step' = "open"
    /\ count' = count + 1
    /\ last' = Last(disk.frames).time
    /\ acked' = acked \cup {Len(disk.frames)}
    /\ UNCHANGED <<disk, safe>>

\* append: the sync, and only then the record counts and is acknowledged.
AcknowledgeFrame ==
    /\ step = "syncing"
    /\ step' = "open"
    /\ safe' = SyncedData
    /\ count' = count + 1
    /\ last' = Last(disk.frames).time
    /\ acked' = acked \cup {Len(disk.frames)}
    /\ UNCHANGED disk

\* append: a write or the sync raises.  What was written of the frame stays (one
\* that is not whole is any part of it, also of its header), as the writer does.
AppendRaises ==
    /\ step \in {"writing", "syncing"}
    /\ step' = "open"
    /\ UNCHANGED <<memory, acked, disk, safe>>

\* finalize and abort require an open writer, finalize a record in it.
Finalize ==
    /\ step = "open"
    /\ count > 0
    /\ step' = "finalizing"
    /\ UNCHANGED <<memory, acked, disk, safe>>

\* finalize: flush, sync and close.  If this raises the writer stays open.
SyncData ==
    /\ step = "finalizing"
    /\ \/ step' = "naming" /\ safe' = SyncedData
       \/ step' = "open" /\ UNCHANGED safe
    /\ UNCHANGED <<memory, acked, disk>>

\* abort: flush, sync and close; the partial file is all that is left.
Abort ==
    /\ step = "open"
    /\ \/ step' = "stopped" /\ safe' = SyncedData
       \/ step' = "open" /\ UNCHANGED safe
    /\ UNCHANGED <<memory, acked, disk>>

\* finalize: the data file takes its final name.
NameData ==
    /\ step = "naming"
    /\ step' = "syncingName"
    /\ disk' = [disk EXCEPT !.data = "final"]
    /\ UNCHANGED <<memory, acked, safe>>

\* Faulty variant: the directory is not synced before the manifest is made.
NameUnsynced ==
    /\ step = "syncingName"
    /\ step' = "describing"
    /\ UNCHANGED <<memory, acked, disk, safe>>

\* finalize: the directory is synced.
SyncName ==
    /\ step = "syncingName"
    /\ step' = "describing"
    /\ safe' = [safe EXCEPT !.data = "final"]
    /\ UNCHANGED <<memory, acked, disk>>

\* _build_segment reads the final file; _publish_manifest writes and syncs.
DescribeData ==
    /\ step = "describing"
    /\ step' = "publishing"
    /\ disk' = [disk EXCEPT !.manifest = "partial",
                            !.says = [frames |-> disk.frames, count |-> count]]
    /\ safe' = [safe EXCEPT !.manifest = "partial", !.says = disk'.says]
    /\ UNCHANGED <<memory, acked>>

\* _publish_manifest: the manifest takes its name.
PublishManifest ==
    /\ step = "publishing"
    /\ step' = "syncingManifest"
    /\ disk' = [disk EXCEPT !.manifest = "published"]
    /\ UNCHANGED <<memory, acked, safe>>

\* _publish_manifest: the directory is synced and finalize returns.
SyncManifest ==
    /\ step = "syncingManifest"
    /\ step' = "published"
    /\ safe' = [safe EXCEPT !.manifest = "published"]
    /\ UNCHANGED <<memory, acked, disk>>

\* A call of a finalization raises once the file is closed: no later call of
\* the writer passes _require_open.
FinalizeRaises ==
    /\ step \in {"naming", "syncingName", "describing", "publishing", "syncingManifest"}
    /\ step' = "stopped"
    /\ UNCHANGED <<memory, acked, disk, safe>>

\* The first frames, of which the last one lost a part if it was not durable.
Remains(length, torn) ==
    [i \in 1..length |->
        IF torn /\ i = length /\ i > Len(safe.frames)
        THEN [disk.frames[i] EXCEPT !.whole = FALSE] ELSE disk.frames[i]]

\* Power is lost.  Each artifact survives as it was last synced or as it was.
Crash ==
    /\ step # "none"
    /\ step' = "none"
    /\ \E data \in {safe.data, disk.data},
          manifest \in {safe.manifest, disk.manifest},
          length \in Len(safe.frames)..Len(disk.frames), torn \in BOOLEAN :
        disk' = [data     |-> data,
                 frames   |-> IF data = "absent" THEN <<>> ELSE Remains(length, torn),
                 manifest |-> manifest,
                 says     |-> IF manifest = "absent" THEN NoManifest ELSE disk.says]
    /\ safe' = disk'
    /\ UNCHANGED <<memory, acked>>

WriterNext ==
    \/ Open
    \/ \E time \in Times : AppendHeader(time)
    \/ AppendPayload
    \/ AcknowledgeFrame
    \/ AppendRaises
    \/ Finalize
    \/ SyncData
    \/ Abort
    \/ NameData
    \/ SyncName
    \/ DescribeData
    \/ PublishManifest
    \/ SyncManifest
    \/ FinalizeRaises
    \/ Crash

WriterSpec == WriterInit /\ [][WriterNext]_writer

-----------------------------------------------------------------------------
\* A manifest at its published name describes a data file that is there, whole,
\* under the final name, and stays there when power is lost at any later moment
\* (forward_recorder/segment.py:178-202).
ManifestTellsTruth ==
    disk.manifest = "published" =>
        /\ disk.data = "final" /\ disk.frames = disk.says.frames
        /\ safe.data = "final" /\ safe.frames = disk.says.frames
        /\ disk.says.count <= Len(disk.frames)

\* The whole frame of every append that returned is durable, at its place,
\* whatever raised, whenever power was lost and whoever opened a writer since
\* (forward_recorder/segment.py:81-90 and 132-150).
AckedSurvive ==
    \A i \in acked : disk.data # "absent" /\ i <= Len(safe.frames) /\ safe.frames[i].whole

\* The reader finds the payload of every append that returned: it takes the length
\* of each frame from its header, so that a frame is read only after whole ones
\* (tests/integrations/hyperliquid/test_forward_recorder.py:18 and 41).
AckedReadable ==
    \A i \in acked : \A j \in 1..i : disk.frames[j].whole

=============================================================================
