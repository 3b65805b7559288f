-------------------------- MODULE RecorderSession --------------------------
(***************************************************************************)
(* A forward recorder session (forward_recorder/session.py).  It           *)
(* subscribes over an injected transport, counts a continuity epoch per    *)
(* reconnect attempt, and writes a continuity record when the first book   *)
(* after a reconnect has been persisted.  It says when a heartbeat or a    *)
(* reference is due and when the gap between references is too long.       *)
(*                                                                         *)
(* Each attempt to connect has a transport of its own, which can raise in  *)
(* each send and each fetch.  The owner of the session calls it in any     *)
(* order, with timestamps of one clock that never goes back; a payload is  *)
(* captured at most MaxLag after it was received.  Each epoch has one book *)
(* writer.  A send, fetch or append that raises changes nothing.           *)
(***************************************************************************)
EXTENDS Integers, Sequences, Functions

CONSTANTS
    HeartbeatInterval,  \* heartbeat_interval_ns
    ReferenceInterval,  \* reference_interval_ns
    MaxGapIntervals,    \* max_reference_gap_intervals
    MaxTime,            \* bound on the clock
    MaxBooks,           \* bound on the persisted books
    MaxEpoch,           \* bound on the reconnect attempts
    MaxLag              \* time from the receipt of a payload to its capture

ASSUME RecorderAssumption ==
    /\ {HeartbeatInterval, ReferenceInterval, MaxGapIntervals} \subseteq Nat \ {0}
    /\ {MaxTime, MaxBooks, MaxEpoch, MaxLag} \subseteq Nat

VARIABLES
    now,           \* the clock
    connected,     \* _connected
    everConnected, \* _ever_connected
    epoch,         \* _continuity_epoch
    disconnectAt,  \* _disconnect_ts_ns
    reconnectAt,   \* _reconnect_ts_ns
    awaiting,      \* _awaiting_authoritative_book
    records,       \* _continuity_records
    startedAt,     \* _connection_started_ns
    lastOutbound,  \* _last_outbound_ns
    lastReference, \* _last_reference_receive_ns
    books,         \* the books in segments: epoch, receive time, outages before,
                   \* and whether their capture returned
    outages,       \* the times of all disconnects
    heard,         \* when the present transport last took a message
    fetched        \* when the last reference was put in its segment

link == <<connected, everConnected>>
boundary == <<disconnectAt, reconnectAt, awaiting>>
cadence == <<startedAt, lastOutbound, lastReference, heard, fetched>>
history == <<books, outages>>
vars == <<now, link, epoch, boundary, records, cadence, history>>

Unset == -1
Clock == 0..MaxTime

ContinuityRecord == [epoch : 1..MaxEpoch, disconnect : Clock, reconnect : Clock, first : Clock]

TypeOK ==
    /\ now \in Clock
    /\ connected \in BOOLEAN /\ everConnected \in BOOLEAN /\ awaiting \in BOOLEAN
    /\ disconnectAt \in Clock \cup {Unset} /\ reconnectAt \in Clock \cup {Unset}
    /\ {startedAt, lastOutbound, lastReference, heard, fetched} \subseteq Clock \cup {Unset}
    /\ epoch \in 0..MaxEpoch
    /\ records \in Seq(ContinuityRecord)
    /\ books \in Seq([epoch : 0..MaxEpoch, time : Clock, outages : Nat, returned : BOOLEAN])
    /\ outages \in Seq(Clock)

Init ==
    /\ now = 0
    /\ connected = FALSE /\ everConnected = FALSE
    /\ epoch = 0
    /\ disconnectAt = Unset /\ reconnectAt = Unset /\ awaiting = FALSE
    /\ records = <<>>
    /\ startedAt = Unset /\ lastOutbound = Unset /\ lastReference = Unset
    /\ heard = Unset /\ fetched = Unset
    /\ books = <<>> /\ outages = <<>>

-----------------------------------------------------------------------------
Tick ==
    /\ now < MaxTime
    /\ now' = now + 1
    /\ UNCHANGED <<link, epoch, boundary, records, cadence, history>>

\* _send_subscriptions and the assignments after it: a new transport takes both
\* messages and the session is connected, or it raises after some of them.
SendSubscriptions ==
    /\ \/ /\ connected' = TRUE /\ everConnected' = TRUE
          /\ startedAt' = now /\ lastOutbound' = now /\ heard' = now
       \/ /\ lastOutbound' = now /\ heard' = now
          /\ UNCHANGED <<link, startedAt>>
       \/ /\ heard' = Unset
          /\ UNCHANGED <<link, startedAt, lastOutbound>>
    /\ UNCHANGED <<lastReference, fetched>>

Connect ==
    /\ ~everConnected
    /\ SendSubscriptions
    /\ UNCHANGED <<now, epoch, boundary, records, history>>

NoteDisconnect ==
    /\ connected
    /\ connected' = FALSE
    /\ disconnectAt' = now
    /\ reconnectAt' = Unset
    /\ awaiting' = FALSE
    /\ outages' = Append(outages, now)
    /\ UNCHANGED <<now, everConnected, epoch, records, cadence, books>>

\* Faulty variant: the reconnected session does not wait for a book.
ReconnectQuietly ==
    /\ ~connected /\ disconnectAt # Unset
    /\ epoch < MaxEpoch
    /\ epoch' = epoch + 1
    /\ reconnectAt' = now
    /\ SendSubscriptions
    /\ UNCHANGED <<now, disconnectAt, awaiting, records, history>>

\* The epoch advances before the subscriptions are sent, also when that raises.
Reconnect ==
    /\ ~connected /\ disconnectAt # Unset
    /\ epoch < MaxEpoch
    /\ epoch' = epoch + 1
    /\ reconnectAt' = now
    /\ awaiting' = TRUE
    /\ SendSubscriptions
    /\ UNCHANGED <<now, disconnectAt, records, history>>

\* Faulty variant: the record is made from the wrong stamps.
SwappedBoundary(stamp) ==
    IF awaiting
    THEN /\ records' = Append(records, [epoch |-> epoch, disconnect |-> reconnectAt,
                                        reconnect |-> disconnectAt, first |-> stamp])
         /\ awaiting' = FALSE
         /\ disconnectAt' = Unset /\ reconnectAt' = Unset
    ELSE UNCHANGED <<records, boundary>>

\* ContinuityRecord refuses a book that was received before the reconnect.
IsRefused(stamp) == awaiting /\ stamp < reconnectAt

\* The first book after a reconnect closes the outage with a record.
RecordBoundary(stamp) ==
    IF awaiting /\ ~IsRefused(stamp)
    THEN /\ records' = Append(records, [epoch |-> epoch, disconnect |-> disconnectAt,
                                        reconnect |-> reconnectAt, first |-> stamp])
         /\ awaiting' = FALSE
         /\ disconnectAt' = Unset /\ reconnectAt' = Unset
    ELSE UNCHANGED <<records, boundary>>

\* ForwardSegmentWriter.append of a book: the stamps of a segment do not fall.
AppendBook(writerEpoch, stamp) ==
    /\ Len(books) < MaxBooks
    /\ \A i \in DOMAIN books : books[i].epoch = writerEpoch => books[i].time <= stamp
    /\ books' = Append(books, [epoch |-> writerEpoch, time |-> stamp, outages |-> Len(outages),
                              returned |-> ~IsRefused(stamp)])

\* Faulty variant: the epoch of the writer is not checked.
CaptureByAnyWriter(writerEpoch, stamp) ==
    /\ connected /\ writerEpoch <= epoch
    /\ AppendBook(writerEpoch, stamp)
    /\ RecordBoundary(stamp)
    /\ UNCHANGED <<now, link, epoch, cadence, outages>>

\* capture_l2_book: a book arrives with a writer of some epoch, passes
\* _validate_writer, and its append returns.  Only then the boundary is made,
\* and the book stays in the segment when that raises.
CaptureBook(writerEpoch, stamp) ==
    /\ connected /\ writerEpoch = epoch
    /\ AppendBook(writerEpoch, stamp)
    /\ RecordBoundary(stamp)
    /\ UNCHANGED <<now, link, epoch, cadence, outages>>

\* Faulty variant: the heartbeat is stamped whether or not the send returns.
StampedHeartbeat ==
    /\ connected
    /\ lastOutbound' = now
    /\ heard' \in {heard, now}
    /\ UNCHANGED <<now, link, epoch, boundary, records, startedAt, lastReference, fetched, history>>

\* send_heartbeat.
SendHeartbeat ==
    /\ connected
    /\ lastOutbound' = now
    /\ heard' = now
    /\ UNCHANGED <<now, link, epoch, boundary, records, startedAt, lastReference, fetched, history>>

\* Faulty variant: the reference is stamped whether or not it was appended.
StampedReference ==
    /\ connected
    /\ lastReference' = now
    /\ fetched' \in {fetched, now}
    /\ UNCHANGED <<now, link, epoch, boundary, records, startedAt, lastOutbound, heard, history>>

\* capture_reference, with a writer of the present epoch.
CaptureReference ==
    /\ connected
    /\ lastReference' = now
    /\ fetched' = now
    /\ UNCHANGED <<now, link, epoch, boundary, records, startedAt, lastOutbound, heard, history>>

Next ==
    \/ Tick
    \/ Connect
    \/ NoteDisconnect
    \/ Reconnect
    \/ SendHeartbeat
    \/ CaptureReference
    \/ \E writerEpoch \in 0..MaxEpoch, stamp \in (now - MaxLag)..now :
        stamp >= 0 /\ CaptureBook(writerEpoch, stamp)

Spec == Init /\ [][Next]_vars

-----------------------------------------------------------------------------
(* The questions a caller asks of the session.                             *)

HeartbeatDue ==
    connected /\ lastOutbound # Unset /\ now - lastOutbound >= HeartbeatInterval

ReferenceDue ==
    connected /\ (lastReference = Unset \/ now - lastReference >= ReferenceInterval)

GapAllowed == ReferenceInterval * MaxGapIntervals

\* Without any reference the gap is counted from the start of the connection.
Baseline == IF lastReference # Unset THEN lastReference ELSE startedAt

\* reference_gap_exceeded.
GapExceeded == connected /\ Baseline # Unset /\ now - Baseline > GapAllowed

-----------------------------------------------------------------------------
\* The first book of its epoch whose capture returned to the owner.
IsFirstOfEpoch(i) ==
    /\ books[i].returned
    /\ \A j \in 1..(i - 1) : books[j].returned => books[j].epoch # books[i].epoch

\* Books of one epoch, which are read as one continuous segment, have no
\* disconnect between them, however many reconnect attempts raised
\* (forward_recorder/session.py:100-116 and 156-172).
EpochSeparates ==
    \A i, j \in DOMAIN books :
        books[i].epoch = books[j].epoch => books[i].outages = books[j].outages

\* The first book of an epoch after a reconnect whose capture returns is the
\* authoritative boundary of a continuity record made at that book, and the
\* records of later epochs start after it (forward_recorder/session.py:205-239).
BoundaryRecorded ==
    /\ \A i \in DOMAIN books : books[i].epoch > 0 /\ IsFirstOfEpoch(i) =>
        \E r \in Range(records) : r.epoch = books[i].epoch /\ r.first = books[i].time
    /\ \A i, j \in DOMAIN records : i < j =>
        records[i].epoch < records[j].epoch /\ records[i].first <= records[j].disconnect

\* An interval that a record calls uncovered starts at a disconnect that
\* happened, and no captured book was received inside it
\* (forward_recorder/contracts.py:47-79).
UncoveredIsUncovered ==
    \A r \in Range(records) :
        /\ r.disconnect \in Range(outages)
        /\ \A b \in Range(books) : b.returned => ~(r.disconnect < b.time /\ b.time < r.first)

\* While a connected session asks for no heartbeat, the transport of this very
\* connection took a message less than an interval ago: no send that raised and
\* none over an earlier transport counts (forward_recorder/session.py:118-134).
QuietLinkIsAlive ==
    connected /\ ~HeartbeatDue => heard # Unset /\ now - heard < HeartbeatInterval

\* A session that ever captured a reference reports the gap once the last one in
\* a segment is older than allowed, across reconnects and failed fetches, and it
\* has asked for a reference by then; it reports none while that one is recent
\* (forward_recorder/session.py:136-154 and 174-189).
CapturedGapReported ==
    connected /\ fetched # Unset =>
        IF now - fetched > GapAllowed THEN GapExceeded /\ ReferenceDue ELSE ~GapExceeded

\* "Every disconnect/reconnect produces a continuity record containing
\* disconnect time, ..., and uncovered interval": once a later book shows the
\* session covered again, each disconnect lies in the interval of a record.
EveryOutageRecorded ==
    \A k \in DOMAIN outages :
        (\E b \in Range(books) : b.returned /\ b.outages >= k) =>
            \E r \in Range(records) : r.disconnect <= outages[k] /\ outages[k] <= r.first

=============================================================================
