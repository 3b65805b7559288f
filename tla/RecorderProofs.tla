--------------------------- MODULE RecorderProofs ---------------------------
(***************************************************************************)
(* Proofs about RecorderSession, for every interval, bound and lag, and    *)
(* about the SegmentWriter that it appends to.                             *)
(*                                                                         *)
(* The properties of books and records are not inductive: that a record    *)
(* starts where nothing was captured needs that an outage is open from its *)
(* disconnect to its record with no capture that returned, and that a      *)
(* connected session that waits for no boundary has captured a book of its *)
(* epoch after every record.                                               *)
(***************************************************************************)
EXTENDS RecorderSession, SegmentWriter, TLAPS

\* A session that never connected has nothing, and only its sends may fail.
Links ==
    /\ connected => everConnected
    /\ ~everConnected =>
        books = <<>> /\ records = <<>> /\ epoch = 0 /\ disconnectAt = Unset /\ ~awaiting

\* No book is of a later epoch, and those of the present one follow the last outage.
BooksOfEpochs ==
    \A i \in DOMAIN books :
        /\ books[i].epoch <= epoch /\ books[i].time <= now
        /\ connected /\ books[i].epoch = epoch => books[i].outages = Len(outages)

\* An outage is open from its disconnect on, with no capture or record since.
OpenOutage ==
    /\ awaiting => disconnectAt # Unset /\ reconnectAt # Unset /\ epoch > 0
                    /\ disconnectAt <= reconnectAt
    /\ disconnectAt # Unset =>
        /\ disconnectAt <= now
        /\ \E k \in DOMAIN outages : outages[k] = disconnectAt
        /\ connected => awaiting
        /\ \A i \in DOMAIN books : books[i].returned => books[i].time <= disconnectAt
        /\ \A k \in DOMAIN records : records[k].first <= disconnectAt

RecordsOfEpochs ==
    \A k \in DOMAIN records :
        /\ records[k].epoch <= epoch /\ records[k].first <= now
        /\ awaiting => records[k].epoch < epoch

\* After its boundary an epoch has a captured book that no record follows.
Resumed ==
    connected /\ ~awaiting /\ epoch > 0 =>
        \E i \in DOMAIN books :
            /\ books[i].epoch = epoch /\ books[i].returned
            /\ \A k \in DOMAIN records : records[k].first <= books[i].time

\* The stamps that the cadence goes by are those of what happened.
Stamped ==
    /\ connected => heard = lastOutbound /\ heard # Unset
    /\ fetched = lastReference

\* The properties, read by positions.
Separated ==
    \A i, j \in DOMAIN books :
        books[i].epoch = books[j].epoch => books[i].outages = books[j].outages

Opened ==
    \A i \in DOMAIN books : books[i].epoch > 0 /\ IsFirstOfEpoch(i) =>
        \E k \in DOMAIN records : records[k].epoch = books[i].epoch /\ records[k].first = books[i].time

InOrder ==
    \A i, j \in DOMAIN records : i < j =>
        records[i].epoch < records[j].epoch /\ records[i].first <= records[j].disconnect

Uncovered ==
    \A k \in DOMAIN records :
        /\ \E n \in DOMAIN outages : outages[n] = records[k].disconnect
        /\ \A i \in DOMAIN books : books[i].returned =>
            ~(records[k].disconnect < books[i].time /\ books[i].time < records[k].first)

IInv ==
    /\ TypeOK /\ Links /\ BooksOfEpochs /\ OpenOutage /\ RecordsOfEpochs /\ Resumed /\ Stamped
    /\ Separated /\ Opened /\ InOrder /\ Uncovered

-----------------------------------------------------------------------------
\* What an appended element changes.
LEMMA Appended ==
    ASSUME NEW S, NEW s \in Seq(S), NEW e \in S
    PROVE  /\ Append(s, e) \in Seq(S)
           /\ Len(Append(s, e)) = Len(s) + 1
           /\ DOMAIN s = 1..Len(s) /\ DOMAIN Append(s, e) = 1..(Len(s) + 1)
           /\ \A i \in 1..Len(s) : Append(s, e)[i] = s[i]
           /\ Append(s, e)[Len(s) + 1] = e
           /\ Len(s) \in Nat
  OBVIOUS

LEMMA NoElements ==
    ASSUME NEW S
    PROVE  <<>> \in Seq(S) /\ Len(<<>>) = 0 /\ \A s \in Seq(S) : DOMAIN s = 1..Len(s)
  OBVIOUS

LEMMA ElementOf ==
    ASSUME NEW S, NEW s \in Seq(S)
    PROVE  Len(s) \in Nat /\ DOMAIN s = 1..Len(s) /\ \A i \in DOMAIN s : s[i] \in S
  OBVIOUS

\* The elements of the histories and the stamps are numbers.
LEMMA Elements ==
    ASSUME TypeOK
    PROVE  /\ now \in Nat /\ now <= MaxTime /\ epoch \in Nat /\ Len(outages) \in Nat
           /\ disconnectAt \in Int /\ reconnectAt \in Int
           /\ {startedAt, lastOutbound, lastReference, heard, fetched} \subseteq Int
           /\ \A i \in DOMAIN books :
                /\ books[i].epoch \in Nat /\ books[i].time \in Nat
                /\ books[i].returned \in BOOLEAN /\ books[i].outages \in Nat
           /\ \A k \in DOMAIN records :
                /\ records[k].epoch \in Nat \ {0}
                /\ {records[k].first, records[k].disconnect, records[k].reconnect} \subseteq Nat
           /\ \A k \in DOMAIN outages : outages[k] \in Nat
<1>1. MaxTime \in Nat /\ MaxEpoch \in Nat
  BY RecorderAssumption
<1>2. /\ now \in Nat /\ now <= MaxTime /\ epoch \in Nat
      /\ disconnectAt \in Int /\ reconnectAt \in Int
  BY <1>1 DEF TypeOK, Clock, Unset
<1>3. {startedAt, lastOutbound, lastReference, heard, fetched} \subseteq Int
  BY <1>1 DEF TypeOK, Clock, Unset
<1>4. Len(outages) \in Nat /\ \A k \in DOMAIN outages : outages[k] \in Nat
  <2>1. outages \in Seq(Clock)
    BY DEF TypeOK
  <2>2. Clock \subseteq Nat
    BY <1>1 DEF Clock
  <2> QED
    BY <2>1, <2>2, ElementOf
<1>5. ASSUME NEW i \in DOMAIN books
      PROVE  /\ books[i].epoch \in Nat /\ books[i].time \in Nat
             /\ books[i].returned \in BOOLEAN /\ books[i].outages \in Nat
  <2>1. books[i] \in [epoch : 0..MaxEpoch, time : Clock, outages : Nat, returned : BOOLEAN]
    BY ElementOf DEF TypeOK
  <2> QED
    BY <1>1, <2>1 DEF Clock
<1>6. ASSUME NEW k \in DOMAIN records
      PROVE  /\ records[k].epoch \in Nat \ {0}
             /\ {records[k].first, records[k].disconnect, records[k].reconnect} \subseteq Nat
  <2>1. records[k] \in ContinuityRecord
    BY ElementOf DEF TypeOK
  <2> QED
    BY <1>1, <2>1 DEF Clock, ContinuityRecord
<1> QED
  BY <1>2, <1>3, <1>4, <1>5, <1>6

LEMMA InitIInv == Init => IInv
<1> SUFFICES ASSUME Init PROVE IInv
  OBVIOUS
<1> USE RecorderAssumption DEF Init, Unset, Clock
<1>1. TypeOK
  <2>1. now \in Clock /\ epoch \in 0..MaxEpoch
    OBVIOUS
  <2>4. connected \in BOOLEAN /\ everConnected \in BOOLEAN /\ awaiting \in BOOLEAN
    BY Zenon
  <2>2. records \in Seq(ContinuityRecord) /\ outages \in Seq(Clock)
        /\ books \in Seq([epoch : 0..MaxEpoch, time : Clock, outages : Nat, returned : BOOLEAN])
    BY NoElements
  <2>3. /\ disconnectAt \in Clock \cup {Unset} /\ reconnectAt \in Clock \cup {Unset}
        /\ {startedAt, lastOutbound, lastReference, heard, fetched} \subseteq Clock \cup {Unset}
    OBVIOUS
  <2> QED
    BY <2>1, <2>2, <2>3, <2>4 DEF TypeOK
<1>2. Links /\ BooksOfEpochs /\ OpenOutage /\ RecordsOfEpochs /\ Resumed /\ Stamped
  BY DEF Links, BooksOfEpochs, OpenOutage, RecordsOfEpochs, Resumed, Stamped
<1>3. Separated /\ Opened /\ InOrder /\ Uncovered
  BY DEF Separated, Opened, InOrder, Uncovered
<1> QED
  BY <1>1, <1>2, <1>3 DEF IInv

\* The clock and the cadence.
LEMMA QuietSteps ==
    ASSUME IInv, Tick \/ SendHeartbeat \/ CaptureReference
    PROVE  IInv'
<1>1. /\ now \in Clock /\ now' \in Clock /\ now <= now'
      /\ UNCHANGED <<connected, everConnected, epoch, disconnectAt, reconnectAt, awaiting,
                     records, books, outages>>
  <2>1. TypeOK /\ MaxTime \in Nat
    BY RecorderAssumption DEF IInv
  <2>2. CASE Tick
    BY <2>1, <2>2 DEF TypeOK, Tick, Clock, link, boundary, history
  <2>3. CASE SendHeartbeat \/ CaptureReference
    <3>1. UNCHANGED <<now, connected, everConnected, epoch, disconnectAt, reconnectAt, awaiting,
                      records, books, outages>>
      BY <2>3 DEF SendHeartbeat, CaptureReference, link, boundary, history
    <3>2. now \in Clock /\ now \in Int
      BY <2>1 DEF TypeOK, Clock
    <3> QED
      BY <3>1, <3>2
  <2> QED
    BY <2>2, <2>3
<1>2. {startedAt', lastOutbound', lastReference', heard', fetched'} \subseteq Clock \cup {Unset}
  BY DEF TypeOK, IInv, Tick, SendHeartbeat, CaptureReference, cadence
<1>3. Stamped'
  <2>1. Stamped /\ now \in Clock /\ Unset \notin Clock
    BY <1>1 DEF IInv, Clock, Unset
  <2> QED
    BY <2>1 DEF Stamped, Tick, SendHeartbeat, CaptureReference, link, cadence
<1>4. TypeOK'
  BY <1>1, <1>2, Zenon DEF TypeOK, IInv
<1>5. now \in Int /\ now' \in Int /\ TypeOK /\ BooksOfEpochs /\ RecordsOfEpochs /\ OpenOutage
  BY <1>1 DEF Clock, IInv
<1>6. BooksOfEpochs'
  <2> SUFFICES ASSUME NEW i \in DOMAIN books
               PROVE  books[i].time <= now'
    BY <1>1, <1>5 DEF BooksOfEpochs
  <2> QED
    BY <1>1, <1>5, Elements DEF BooksOfEpochs
<1>7. RecordsOfEpochs'
  <2> SUFFICES ASSUME NEW k \in DOMAIN records
               PROVE  records[k].first <= now'
    BY <1>1, <1>5 DEF RecordsOfEpochs
  <2>1. records[k].first \in Nat
    BY <1>5, Elements
  <2> QED
    BY <1>1, <1>5, <2>1 DEF RecordsOfEpochs
<1>8. OpenOutage'
  <2>1. disconnectAt \in Int
    BY <1>5, Elements
  <2>2. disconnectAt # Unset => disconnectAt <= now'
    BY <1>1, <1>5, <2>1 DEF OpenOutage
  <2> QED
    BY <1>1, <1>5, <2>2 DEF OpenOutage
<1>9. Links' /\ Resumed' /\ Separated' /\ Opened' /\ InOrder' /\ Uncovered'
  BY <1>1 DEF IInv, Links, Resumed, Separated, Opened, InOrder, Uncovered, IsFirstOfEpoch
<1> QED
  BY <1>3, <1>4, <1>6, <1>7, <1>8, <1>9 DEF IInv

LEMMA ConnectStep == ASSUME IInv, Connect PROVE IInv'
<1> USE RecorderAssumption DEF Unset, Clock, IInv, Connect, SendSubscriptions,
                              link, boundary, cadence, history
<1>1. TypeOK'
  BY DEF TypeOK
<1>2. /\ books = <<>> /\ records = <<>> /\ epoch = 0 /\ disconnectAt = Unset /\ ~awaiting
      /\ UNCHANGED <<now, epoch, disconnectAt, reconnectAt, awaiting, records, books, outages>>
  BY DEF Links
<1>3. Links' /\ Stamped'
  BY <1>2 DEF Links, Stamped, TypeOK
<1>4. BooksOfEpochs' /\ OpenOutage' /\ RecordsOfEpochs' /\ Resumed'
  BY <1>2 DEF BooksOfEpochs, OpenOutage, RecordsOfEpochs, Resumed
<1>5. Separated' /\ Opened' /\ InOrder' /\ Uncovered'
  BY <1>2 DEF Separated, Opened, InOrder, Uncovered
<1> QED
  BY <1>1, <1>3, <1>4, <1>5

LEMMA DisconnectStep == ASSUME IInv, NoteDisconnect PROVE IInv'
<1> USE RecorderAssumption DEF Unset, Clock, IInv, NoteDisconnect, link, boundary, cadence, history
<1>1. /\ outages \in Seq(Clock) /\ now \in Clock /\ now \in Nat
      /\ outages' = Append(outages, now)
      /\ DOMAIN outages = 1..Len(outages) /\ DOMAIN outages' = 1..(Len(outages) + 1)
      /\ \A k \in DOMAIN outages : k \in DOMAIN outages' /\ outages'[k] = outages[k]
      /\ Len(outages) + 1 \in DOMAIN outages' /\ outages'[Len(outages) + 1] = now
      /\ outages' \in Seq(Clock)
  <2>1. outages \in Seq(Clock) /\ now \in Clock /\ now \in Nat /\ outages' = Append(outages, now)
    BY DEF TypeOK
  <2> QED
    BY <2>1, Appended
<1>2. TypeOK'
  BY <1>1 DEF TypeOK
<1>3. Links' /\ Stamped' /\ Resumed'
  BY <1>1 DEF Links, Stamped, Resumed
<1>4. BooksOfEpochs' /\ RecordsOfEpochs'
  BY <1>1 DEF BooksOfEpochs, RecordsOfEpochs
<1>5. OpenOutage'
  BY <1>1 DEF OpenOutage, BooksOfEpochs, RecordsOfEpochs
<1>6. Separated' /\ Opened' /\ InOrder'
  BY DEF Separated, Opened, InOrder, IsFirstOfEpoch
<1>7. Uncovered'
  BY <1>1 DEF Uncovered
<1> QED
  BY <1>2, <1>3, <1>4, <1>5, <1>6, <1>7

LEMMA ReconnectStep == ASSUME IInv, Reconnect PROVE IInv'
<1>1. /\ TypeOK /\ Links /\ BooksOfEpochs /\ OpenOutage /\ RecordsOfEpochs /\ Stamped
      /\ Separated /\ Opened /\ InOrder /\ Uncovered
  BY DEF IInv
<1>2. /\ epoch' = epoch + 1 /\ epoch + 1 \in 0..MaxEpoch
      /\ everConnected' /\ everConnected
      /\ UNCHANGED <<now, disconnectAt, records, books, outages>>
      /\ ~connected /\ disconnectAt # Unset /\ reconnectAt' = now /\ awaiting'
  <2>1. MaxEpoch \in Nat /\ epoch \in 0..MaxEpoch
    BY <1>1, RecorderAssumption DEF TypeOK
  <2>2. everConnected
    BY <1>1 DEF Links, Reconnect
  <2>3. everConnected'
    BY <2>2 DEF Reconnect, SendSubscriptions, link
  <2> QED
    BY <2>1, <2>2, <2>3 DEF Reconnect, history
<1>3. /\ connected' \in BOOLEAN
      /\ {startedAt', lastOutbound', lastReference', heard', fetched'} \subseteq Clock \cup {Unset}
      /\ connected' => heard' = lastOutbound' /\ heard' = now
      /\ fetched' = fetched /\ lastReference' = lastReference
  <2>1. CASE connected' = TRUE /\ startedAt' = now /\ lastOutbound' = now /\ heard' = now
    BY <1>1, <1>2, <2>1 DEF TypeOK, Reconnect, SendSubscriptions
  <2>2. CASE /\ lastOutbound' \in {lastOutbound, now} /\ heard' \in {now, Unset}
             /\ UNCHANGED <<connected, startedAt>>
    BY <1>1, <1>2, <2>2 DEF TypeOK, Reconnect, SendSubscriptions
  <2> QED
    BY <2>1, <2>2, Zenon DEF Reconnect, SendSubscriptions, link
<1>4. now \in Clock /\ now \in Nat /\ epoch \in Nat /\ now # Unset
  BY <1>1, Elements DEF TypeOK, Unset
<1>5. TypeOK'
  BY <1>1, <1>2, <1>3, <1>4, Zenon DEF TypeOK
<1>6. Links' /\ Stamped' /\ Resumed'
  BY <1>1, <1>2, <1>3, <1>4 DEF Links, Stamped, Resumed
<1>7. BooksOfEpochs'
  <2> SUFFICES ASSUME NEW i \in DOMAIN books
               PROVE  books[i].epoch <= epoch + 1 /\ books[i].epoch # epoch + 1
                        /\ books[i].time <= now
    BY <1>2 DEF BooksOfEpochs
  <2>1. books[i].epoch \in Nat /\ books[i].epoch <= epoch /\ books[i].time <= now
    BY <1>1, Elements DEF BooksOfEpochs
  <2> QED
    BY <1>4, <2>1
<1>8. RecordsOfEpochs'
  <2> SUFFICES ASSUME NEW k \in DOMAIN records
               PROVE  records[k].epoch < epoch + 1 /\ records[k].epoch <= epoch + 1
                        /\ records[k].first <= now
    BY <1>2 DEF RecordsOfEpochs
  <2>1. records[k].epoch \in Nat /\ records[k].epoch <= epoch /\ records[k].first <= now
    BY <1>1, Elements DEF RecordsOfEpochs
  <2> QED
    BY <1>4, <2>1
<1>9. OpenOutage'
  BY <1>1, <1>2, <1>4 DEF OpenOutage, Unset
<1>10. Separated' /\ Opened' /\ InOrder' /\ Uncovered'
  BY <1>1, <1>2 DEF Separated, Opened, InOrder, Uncovered, IsFirstOfEpoch
<1> QED
  BY <1>5, <1>6, <1>7, <1>8, <1>9, <1>10 DEF IInv

-----------------------------------------------------------------------------
\* What an appended book changes.
LEMMA BookAppended ==
    ASSUME TypeOK, NEW stamp \in Clock, AppendBook(epoch, stamp)
    PROVE  /\ books' \in Seq([epoch : 0..MaxEpoch, time : Clock, outages : Nat,
                              returned : BOOLEAN])
           /\ Len(books) \in Nat /\ DOMAIN books = 1..Len(books)
           /\ DOMAIN books' = 1..(Len(books) + 1)
           /\ \A i \in DOMAIN books : books'[i] = books[i] /\ books[i].time \in Nat
           /\ \A i \in DOMAIN books : books[i].epoch = epoch => books[i].time <= stamp
           /\ books'[Len(books) + 1].epoch = epoch
           /\ books'[Len(books) + 1].time = stamp
           /\ books'[Len(books) + 1].outages = Len(outages)
           /\ books'[Len(books) + 1].returned = ~IsRefused(stamp)
<1> DEFINE Book == [epoch : 0..MaxEpoch, time : Clock, outages : Nat, returned : BOOLEAN]
           book == [epoch |-> epoch, time |-> stamp, outages |-> Len(outages),
                    returned |-> ~IsRefused(stamp)]
<1>1. books \in Seq(Book) /\ Len(outages) \in Nat /\ epoch \in 0..MaxEpoch
  BY Elements DEF TypeOK
<1>2. (~IsRefused(stamp)) \in BOOLEAN
  BY DEF IsRefused
<1>3. book \in Book
  BY <1>1, <1>2
<1>4. books' = Append(books, book)
  BY DEF AppendBook
<1>5. \A i \in DOMAIN books : books[i].time \in Nat
  BY Elements
<1>6. \A i \in DOMAIN books : books[i].epoch = epoch => books[i].time <= stamp
  BY DEF AppendBook
<1>7. /\ books' \in Seq(Book) /\ Len(books) \in Nat
      /\ DOMAIN books = 1..Len(books) /\ DOMAIN books' = 1..(Len(books) + 1)
      /\ \A i \in 1..Len(books) : books'[i] = books[i]
      /\ books'[Len(books) + 1] = book
  <2> HIDE DEF Book, book
  <2> QED
    BY <1>1, <1>3, <1>4, Appended
<1> QED
  BY <1>5, <1>6, <1>7

\* What an appended record changes.
LEMMA RecordAppended ==
    ASSUME TypeOK, OpenOutage, NEW stamp \in Clock, RecordBoundary(stamp),
           awaiting, ~IsRefused(stamp)
    PROVE  /\ records' \in Seq(ContinuityRecord)
           /\ Len(records) \in Nat /\ DOMAIN records = 1..Len(records)
           /\ DOMAIN records' = 1..(Len(records) + 1)
           /\ \A k \in DOMAIN records : records'[k] = records[k]
           /\ records'[Len(records) + 1].epoch = epoch
           /\ records'[Len(records) + 1].first = stamp
           /\ records'[Len(records) + 1].disconnect = disconnectAt
           /\ ~awaiting' /\ disconnectAt' = Unset /\ reconnectAt' = Unset
<1> DEFINE record == [epoch |-> epoch, disconnect |-> disconnectAt,
                      reconnect |-> reconnectAt, first |-> stamp]
<1>1. disconnectAt \in Clock /\ reconnectAt \in Clock /\ epoch \in 1..MaxEpoch
  BY Elements, RecorderAssumption DEF TypeOK, OpenOutage
<1>2. record \in ContinuityRecord
  BY <1>1 DEF ContinuityRecord
<1>3. records' = Append(records, record) /\ ~awaiting' /\ disconnectAt' = Unset /\ reconnectAt' = Unset
  BY DEF RecordBoundary
<1>4. /\ records' \in Seq(ContinuityRecord) /\ Len(records) \in Nat
      /\ DOMAIN records = 1..Len(records) /\ DOMAIN records' = 1..(Len(records) + 1)
      /\ \A k \in 1..Len(records) : records'[k] = records[k]
      /\ records'[Len(records) + 1] = record
  <2> HIDE DEF record
  <2>1. records \in Seq(ContinuityRecord)
    BY DEF TypeOK
  <2> QED
    BY <1>2, <1>3, <2>1, Appended
<1> QED
  BY <1>3, <1>4

\* A book that closes the outage, with its record.
LEMMA BoundaryStep ==
    ASSUME IInv, NEW stamp \in Clock, stamp <= now, CaptureBook(epoch, stamp),
           awaiting, ~IsRefused(stamp)
    PROVE  IInv'
<1> DEFINE n == Len(books) + 1
           m == Len(records) + 1
<1>1. /\ TypeOK /\ Links /\ BooksOfEpochs /\ OpenOutage /\ RecordsOfEpochs /\ Stamped
      /\ Separated /\ Opened /\ InOrder /\ Uncovered
  BY DEF IInv
<1>2. /\ connected /\ AppendBook(epoch, stamp) /\ RecordBoundary(stamp)
      /\ UNCHANGED <<now, connected, everConnected, epoch, startedAt, lastOutbound,
                     lastReference, heard, fetched, outages>>
  BY DEF CaptureBook, link, cadence
<1>3. /\ books' \in Seq([epoch : 0..MaxEpoch, time : Clock, outages : Nat, returned : BOOLEAN])
      /\ Len(books) \in Nat /\ DOMAIN books = 1..Len(books) /\ DOMAIN books' = 1..n
      /\ \A i \in DOMAIN books : books'[i] = books[i] /\ books[i].time \in Nat
      /\ books'[n].epoch = epoch /\ books'[n].time = stamp
      /\ books'[n].outages = Len(outages) /\ books'[n].returned
  BY <1>1, <1>2, BookAppended
<1>4. /\ records' \in Seq(ContinuityRecord)
      /\ Len(records) \in Nat /\ DOMAIN records = 1..Len(records) /\ DOMAIN records' = 1..m
      /\ \A k \in DOMAIN records : records'[k] = records[k]
      /\ records'[m].epoch = epoch /\ records'[m].first = stamp
      /\ records'[m].disconnect = disconnectAt
      /\ ~awaiting' /\ disconnectAt' = Unset /\ reconnectAt' = Unset
  BY <1>1, <1>2, RecordAppended
<1>5. /\ epoch \in Nat /\ epoch > 0 /\ now \in Nat /\ stamp \in Nat
      /\ disconnectAt \in Nat /\ reconnectAt \in Nat
      /\ disconnectAt <= reconnectAt /\ reconnectAt <= stamp
  BY <1>1, Elements, RecorderAssumption DEF OpenOutage, IsRefused, TypeOK, Clock, Unset
<1>6. \A k \in DOMAIN records :
        /\ records[k].first \in Nat /\ records[k].first <= disconnectAt
        /\ records[k].epoch \in Nat /\ records[k].epoch < epoch
  BY <1>1, <1>5, Elements DEF OpenOutage, RecordsOfEpochs
<1> HIDE DEF n, m
<1>7. TypeOK'
  <2>1. awaiting' \in BOOLEAN
    BY <1>2, <1>4 DEF RecordBoundary
  <2> QED
    BY <1>1, <1>2, <1>3, <1>4, <2>1 DEF TypeOK
<1>8. Links' /\ Stamped'
  BY <1>1, <1>2 DEF Links, Stamped
<1>9. BooksOfEpochs'
  <2> SUFFICES ASSUME NEW i \in DOMAIN books'
               PROVE  /\ books'[i].epoch <= epoch' /\ books'[i].time <= now'
                      /\ connected' /\ books'[i].epoch = epoch' =>
                            books'[i].outages = Len(outages')
    BY DEF BooksOfEpochs
  <2>1. CASE i \in DOMAIN books
    BY <1>1, <1>2, <1>3, <2>1 DEF BooksOfEpochs
  <2>2. CASE i = n
    BY <1>1, <1>2, <1>3, <1>5, <2>2
  <2> QED
    BY <1>3, <2>1, <2>2 DEF n
<1>10. OpenOutage'
  BY <1>4 DEF OpenOutage
<1>11. RecordsOfEpochs'
  BY <1>2, <1>4, <1>5, <1>6, <1>1 DEF RecordsOfEpochs, m
<1>12. Resumed'
  <2>1. \A k \in DOMAIN records' : records'[k].first <= stamp
    BY <1>4, <1>5, <1>6 DEF m
  <2>2. n \in DOMAIN books'
    BY <1>3 DEF n
  <2> QED
    BY <1>2, <1>3, <2>1, <2>2 DEF Resumed
<1>13. Separated'
  <2> SUFFICES ASSUME NEW i \in DOMAIN books', NEW j \in DOMAIN books',
                      books'[i].epoch = books'[j].epoch
               PROVE  books'[i].outages = books'[j].outages
    BY DEF Separated
  <2>1. \A k \in DOMAIN books : books[k].epoch = epoch => books[k].outages = Len(outages)
    BY <1>1, <1>2 DEF BooksOfEpochs
  <2>2. CASE i \in DOMAIN books /\ j \in DOMAIN books
    BY <1>1, <1>3, <2>2 DEF Separated
  <2>3. \A k \in DOMAIN books' : books'[k].epoch = epoch => books'[k].outages = Len(outages)
    <3> SUFFICES ASSUME NEW k \in DOMAIN books', books'[k].epoch = epoch
                 PROVE  books'[k].outages = Len(outages)
      OBVIOUS
    <3>1. CASE k \in DOMAIN books
      BY <1>3, <2>1, <3>1
    <3>2. CASE k = n
      BY <1>3, <3>2
    <3> QED
      BY <1>3, <3>1, <3>2 DEF n
  <2>4. CASE i = n \/ j = n
    BY <1>3, <2>3, <2>4
  <2> QED
    BY <1>3, <2>2, <2>4 DEF n
<1>14. Opened'
  <2> SUFFICES ASSUME NEW i \in DOMAIN books', books'[i].epoch > 0, IsFirstOfEpoch(i)'
               PROVE  \E k \in DOMAIN records' :
                        records'[k].epoch = books'[i].epoch /\ records'[k].first = books'[i].time
    BY DEF Opened
  <2>1. CASE i = n
    <3>1. m \in DOMAIN records'
      BY <1>4 DEF m
    <3> QED
      BY <1>3, <1>4, <2>1, <3>1
  <2>2. CASE i \in DOMAIN books
    <3>5. \A j \in 1..(i - 1) : j \in DOMAIN books
      BY <1>3, <2>2
    <3>1. books'[i] = books[i] /\ \A j \in 1..(i - 1) : books'[j] = books[j]
      BY <1>3, <2>2, <3>5
    <3>2. IsFirstOfEpoch(i) /\ books[i].epoch > 0
      BY <3>1 DEF IsFirstOfEpoch
    <3>3. PICK k \in DOMAIN records :
            records[k].epoch = books[i].epoch /\ records[k].first = books[i].time
      BY <1>1, <2>2, <3>2 DEF Opened
    <3>4. k \in DOMAIN records' /\ records'[k] = records[k]
      BY <1>4 DEF m
    <3> QED
      BY <3>1, <3>3, <3>4
  <2> QED
    BY <1>3, <2>1, <2>2 DEF n
<1>15. InOrder'
  <2> SUFFICES ASSUME NEW i \in DOMAIN records', NEW j \in DOMAIN records', i < j
               PROVE  /\ records'[i].epoch < records'[j].epoch
                      /\ records'[i].first <= records'[j].disconnect
    BY DEF InOrder
  <2>1. i \in DOMAIN records /\ records'[i] = records[i]
    BY <1>4 DEF m
  <2>2. CASE j \in DOMAIN records
    BY <1>1, <1>4, <2>1, <2>2 DEF InOrder
  <2>3. CASE j = m
    BY <1>4, <1>6, <2>1, <2>3
  <2> QED
    BY <1>4, <2>2, <2>3 DEF m
<1>16. Uncovered'
  <2> SUFFICES ASSUME NEW k \in DOMAIN records'
               PROVE  /\ \E x \in DOMAIN outages : outages[x] = records'[k].disconnect
                      /\ \A i \in DOMAIN books' : books'[i].returned =>
                            ~(records'[k].disconnect < books'[i].time
                                /\ books'[i].time < records'[k].first)
    BY <1>2 DEF Uncovered
  <2>1. CASE k = m
    <3>1. \E x \in DOMAIN outages : outages[x] = disconnectAt
      BY <1>1, <1>5 DEF OpenOutage, Unset
    <3>2. \A i \in DOMAIN books : books[i].returned => books[i].time <= disconnectAt
      BY <1>1, <1>5 DEF OpenOutage, Unset
    <3>3. \A i \in DOMAIN books' : books'[i].returned =>
            ~(disconnectAt < books'[i].time /\ books'[i].time < stamp)
      <4> SUFFICES ASSUME NEW i \in DOMAIN books', books'[i].returned
                   PROVE  ~(disconnectAt < books'[i].time /\ books'[i].time < stamp)
        OBVIOUS
      <4>1. CASE i \in DOMAIN books
        BY <1>3, <1>5, <3>2, <4>1
      <4>2. CASE i = n
        BY <1>3, <1>5, <4>2
      <4> QED
        BY <1>3, <4>1, <4>2 DEF n
    <3> QED
      BY <1>4, <2>1, <3>1, <3>3
  <2>2. CASE k \in DOMAIN records
    <3>1. records'[k] = records[k] /\ records[k].first <= stamp /\ records[k].first \in Nat
      BY <1>4, <1>5, <1>6, <2>2
    <3>2. \E x \in DOMAIN outages : outages[x] = records[k].disconnect
      BY <1>1, <2>2 DEF Uncovered
    <3>3. ASSUME NEW i \in DOMAIN books', books'[i].returned
          PROVE  ~(records[k].disconnect < books'[i].time /\ books'[i].time < records[k].first)
      <4>1. CASE i \in DOMAIN books
        BY <1>1, <1>3, <2>2, <3>3, <4>1 DEF Uncovered
      <4>2. CASE i = n
        BY <1>3, <1>5, <3>1, <4>2
      <4> QED
        BY <1>3, <4>1, <4>2 DEF n
    <3> QED
      BY <3>1, <3>2, <3>3
  <2> QED
    BY <1>4, <2>1, <2>2 DEF m
<1> QED
  BY <1>7, <1>8, <1>9, <1>10, <1>11, <1>12, <1>13, <1>14, <1>15, <1>16 DEF IInv

\* A book after the boundary of its epoch, or one that no record can be made of.
LEMMA PlainBookStep ==
    ASSUME IInv, NEW stamp \in Clock, stamp <= now, CaptureBook(epoch, stamp),
           ~awaiting \/ IsRefused(stamp)
    PROVE  IInv'
<1> DEFINE n == Len(books) + 1
<1>1. /\ TypeOK /\ Links /\ BooksOfEpochs /\ OpenOutage /\ RecordsOfEpochs /\ Resumed /\ Stamped
      /\ Separated /\ Opened /\ InOrder /\ Uncovered
  BY DEF IInv
<1>2. /\ connected /\ AppendBook(epoch, stamp)
      /\ UNCHANGED <<now, connected, everConnected, epoch, startedAt, lastOutbound, lastReference,
                     heard, fetched, outages, records, disconnectAt, reconnectAt, awaiting>>
  BY DEF CaptureBook, link, cadence, RecordBoundary, boundary
<1>3. /\ books' \in Seq([epoch : 0..MaxEpoch, time : Clock, outages : Nat, returned : BOOLEAN])
      /\ Len(books) \in Nat /\ DOMAIN books = 1..Len(books) /\ DOMAIN books' = 1..n
      /\ \A i \in DOMAIN books : books'[i] = books[i] /\ books[i].time \in Nat
      /\ \A i \in DOMAIN books : books[i].epoch = epoch => books[i].time <= stamp
      /\ books'[n].epoch = epoch /\ books'[n].time = stamp
      /\ books'[n].outages = Len(outages) /\ books'[n].returned = ~IsRefused(stamp)
  BY <1>1, <1>2, BookAppended
<1>4. /\ books'[n].returned => ~awaiting
      /\ awaiting => ~books'[n].returned
  BY <1>3 DEF IsRefused
<1>5. epoch \in Nat /\ now \in Nat /\ stamp \in Nat
  BY <1>1, Elements, RecorderAssumption DEF Clock
\* A book before this one in the epoch, which no record follows.
<1>6. ASSUME ~awaiting, epoch > 0
      PROVE  \E i \in DOMAIN books :
                /\ books[i].epoch = epoch /\ books[i].returned /\ books[i].time <= stamp
                /\ \A k \in DOMAIN records : records[k].first <= books[i].time
  BY <1>1, <1>2, <1>3, <1>6 DEF Resumed
<1> HIDE DEF n
<1>7. TypeOK'
  BY <1>1, <1>2, <1>3, Zenon DEF TypeOK
<1>8. Links' /\ Stamped' /\ RecordsOfEpochs' /\ InOrder'
  BY <1>1, <1>2 DEF Links, Stamped, RecordsOfEpochs, InOrder
<1>9. BooksOfEpochs'
  <2> SUFFICES ASSUME NEW i \in DOMAIN books'
               PROVE  /\ books'[i].epoch <= epoch /\ books'[i].time <= now
                      /\ books'[i].epoch = epoch => books'[i].outages = Len(outages)
    BY <1>2 DEF BooksOfEpochs
  <2>1. CASE i \in DOMAIN books
    BY <1>1, <1>2, <1>3, <2>1 DEF BooksOfEpochs
  <2>2. CASE i = n
    BY <1>3, <1>5, <2>2
  <2> QED
    BY <1>3, <2>1, <2>2 DEF n
<1>10. OpenOutage'
  <2>1. CASE ~awaiting
    <3>1. disconnectAt = Unset
      BY <1>1, <1>2, <2>1 DEF OpenOutage
    <3> QED
      BY <1>2, <2>1, <3>1 DEF OpenOutage
  <2>2. CASE awaiting
    <3>1. \A i \in DOMAIN books' : books'[i].returned => books'[i].time <= disconnectAt
      <4> SUFFICES ASSUME NEW i \in DOMAIN books', books'[i].returned
                   PROVE  i \in DOMAIN books /\ books'[i] = books[i]
        BY <1>1, <2>2 DEF OpenOutage
      <4> QED
        BY <1>3, <1>4, <2>2 DEF n
    <3> QED
      BY <1>1, <1>2, <3>1 DEF OpenOutage
  <2> QED
    BY <2>1, <2>2
<1>11. Resumed'
  <2> SUFFICES ASSUME ~awaiting, epoch > 0
               PROVE  \E i \in DOMAIN books' :
                        /\ books'[i].epoch = epoch /\ books'[i].returned
                        /\ \A k \in DOMAIN records : records[k].first <= books'[i].time
    BY <1>2 DEF Resumed
  <2>1. PICK i \in DOMAIN books :
            /\ books[i].epoch = epoch /\ books[i].returned
            /\ \A k \in DOMAIN records : records[k].first <= books[i].time
    BY <1>6
  <2>2. i \in DOMAIN books' /\ books'[i] = books[i]
    BY <1>3 DEF n
  <2> QED
    BY <2>1, <2>2
<1>12. Separated'
  <2> SUFFICES ASSUME NEW i \in DOMAIN books', NEW j \in DOMAIN books',
                      books'[i].epoch = books'[j].epoch
               PROVE  books'[i].outages = books'[j].outages
    BY DEF Separated
  <2>1. \A k \in DOMAIN books' : books'[k].epoch = epoch => books'[k].outages = Len(outages)
    BY <1>2, <1>9 DEF BooksOfEpochs
  <2>2. CASE i \in DOMAIN books /\ j \in DOMAIN books
    BY <1>1, <1>3, <2>2 DEF Separated
  <2>3. CASE i = n \/ j = n
    BY <1>3, <2>1, <2>3
  <2> QED
    BY <1>3, <2>2, <2>3 DEF n
<1>13. Opened'
  <2> SUFFICES ASSUME NEW i \in DOMAIN books', books'[i].epoch > 0, IsFirstOfEpoch(i)'
               PROVE  \E k \in DOMAIN records :
                        records[k].epoch = books'[i].epoch /\ records[k].first = books'[i].time
    BY <1>2 DEF Opened
  <2>1. CASE i \in DOMAIN books
    <3>1. \A j \in 1..(i - 1) : j \in DOMAIN books
      BY <1>3, <2>1
    <3>2. books'[i] = books[i] /\ \A j \in 1..(i - 1) : books'[j] = books[j]
      BY <1>3, <2>1, <3>1
    <3>3. IsFirstOfEpoch(i) /\ books[i].epoch > 0
      BY <3>2 DEF IsFirstOfEpoch
    <3> QED
      BY <1>1, <2>1, <3>2, <3>3 DEF Opened
  <2>2. CASE i = n
    <3>1. ~awaiting /\ epoch > 0
      BY <1>3, <1>4, <2>2 DEF IsFirstOfEpoch
    <3>2. PICK j \in DOMAIN books : books[j].epoch = epoch /\ books[j].returned
      BY <1>6, <3>1
    <3>3. j \in 1..(n - 1) /\ books'[j] = books[j]
      BY <1>3 DEF n
    <3> QED
      BY <1>3, <2>2, <3>2, <3>3 DEF IsFirstOfEpoch
  <2> QED
    BY <1>3, <2>1, <2>2 DEF n
<1>14. Uncovered'
  <2> SUFFICES ASSUME NEW k \in DOMAIN records, NEW i \in DOMAIN books', books'[i].returned
               PROVE  ~(records[k].disconnect < books'[i].time /\ books'[i].time < records[k].first)
    BY <1>1, <1>2 DEF Uncovered
  <2>1. CASE i \in DOMAIN books
    BY <1>1, <1>3, <2>1 DEF Uncovered
  <2>2. CASE i = n
    <3>1. ~awaiting
      BY <1>4, <2>2
    <3>2. epoch > 0
      BY <1>1, <1>5, Elements DEF RecordsOfEpochs
    <3>3. records[k].first <= stamp
      <4>1. PICK j \in DOMAIN books :
                books[j].time <= stamp /\ records[k].first <= books[j].time
        BY <1>6, <3>1, <3>2
      <4>2. records[k].first \in Nat /\ books[j].time \in Nat
        BY <1>1, Elements
      <4> QED
        BY <1>5, <4>1, <4>2
    <3>4. records[k].first \in Nat
      BY <1>1, Elements
    <3> QED
      BY <1>3, <1>5, <2>2, <3>3, <3>4
  <2> QED
    BY <1>3, <2>1, <2>2 DEF n
<1> QED
  BY <1>7, <1>8, <1>9, <1>10, <1>11, <1>12, <1>13, <1>14 DEF IInv

-----------------------------------------------------------------------------
LEMMA NextIInv == IInv /\ [Next]_vars => IInv'
<1> SUFFICES ASSUME IInv, [Next]_vars PROVE IInv'
  OBVIOUS
<1>1. CASE Tick \/ SendHeartbeat \/ CaptureReference
  BY <1>1, QuietSteps
<1>2. CASE Connect
  BY <1>2, ConnectStep
<1>3. CASE NoteDisconnect
  BY <1>3, DisconnectStep
<1>4. CASE Reconnect
  BY <1>4, ReconnectStep
<1>5. CASE \E writerEpoch \in 0..MaxEpoch, stamp \in (now - MaxLag)..now :
              stamp >= 0 /\ CaptureBook(writerEpoch, stamp)
  <2>1. PICK writerEpoch \in 0..MaxEpoch, stamp \in (now - MaxLag)..now :
            stamp >= 0 /\ CaptureBook(writerEpoch, stamp)
    BY <1>5
  <2>2. stamp \in Clock /\ stamp <= now
    <3>1. now \in Nat /\ now <= MaxTime /\ MaxTime \in Nat /\ MaxLag \in Nat
      BY Elements, RecorderAssumption DEF IInv
    <3> QED
      BY <2>1, <3>1 DEF Clock
  <2>3. CaptureBook(epoch, stamp)
    BY <2>1 DEF CaptureBook
  <2>4. CASE awaiting /\ ~IsRefused(stamp)
    BY <2>2, <2>3, <2>4, BoundaryStep
  <2>5. CASE ~awaiting \/ IsRefused(stamp)
    BY <2>2, <2>3, <2>5, PlainBookStep
  <2> QED
    BY <2>4, <2>5
<1>6. CASE UNCHANGED vars
  BY <1>6 DEF vars, link, boundary, cadence, history, IInv, TypeOK, Links, BooksOfEpochs, OpenOutage,
              RecordsOfEpochs, Resumed, Stamped, Separated, Opened, InOrder, Uncovered,
              IsFirstOfEpoch
<1> QED
  BY <1>1, <1>2, <1>3, <1>4, <1>5, <1>6 DEF Next

LEMMA IInvHolds == Spec => []IInv
  BY InitIInv, NextIInv, PTL DEF Spec

-----------------------------------------------------------------------------
\* Every stamp, epoch and record keeps its type
\* (forward_recorder/session.py:100-239, contracts.py:47-79).
THEOREM TypeCorrect == Spec => []TypeOK
<1>1. IInv => TypeOK
  BY DEF IInv
<1> QED
  BY <1>1, IInvHolds, PTL

\* Books of one epoch have no disconnect between them, however many attempts to
\* reconnect raised (forward_recorder/session.py:100-116 and 156-172).
THEOREM EpochSeparatesHolds == Spec => []EpochSeparates
<1>1. IInv => EpochSeparates
  BY DEF IInv, Separated, EpochSeparates
<1> QED
  BY <1>1, IInvHolds, PTL

\* The first captured book after a reconnect is the boundary of a record
\* (forward_recorder/session.py:205-239).
THEOREM BoundaryRecordedHolds == Spec => []BoundaryRecorded
<1>1. IInv => BoundaryRecorded
  BY DEF IInv, Opened, InOrder, BoundaryRecorded, Range
<1> QED
  BY <1>1, IInvHolds, PTL

\* No captured book was received in an interval that a record calls uncovered
\* (forward_recorder/contracts.py:47-79).
THEOREM UncoveredIsUncoveredHolds == Spec => []UncoveredIsUncovered
<1>1. IInv => UncoveredIsUncovered
  BY DEF IInv, Uncovered, UncoveredIsUncovered, Range
<1> QED
  BY <1>1, IInvHolds, PTL

\* A connected session that asks for no heartbeat has been heard by this very
\* transport (forward_recorder/session.py:118-134).
THEOREM QuietLinkIsAliveHolds == Spec => []QuietLinkIsAlive
<1>1. ASSUME IInv PROVE QuietLinkIsAlive
  <2>1. now \in Nat /\ lastOutbound \in Int /\ heard \in Int
    BY <1>1, Elements DEF IInv
  <2>2. HeartbeatInterval \in Nat
    BY RecorderAssumption
  <2> QED
    BY <1>1, <2>1, <2>2 DEF IInv, Stamped, QuietLinkIsAlive, HeartbeatDue
<1> QED
  BY <1>1, IInvHolds, PTL

\* A gap after a captured reference is reported, and asked about by then
\* (forward_recorder/session.py:136-154 and 174-189).
THEOREM CapturedGapReportedHolds == Spec => []CapturedGapReported
<1>1. ASSUME IInv PROVE CapturedGapReported
  <2>1. now \in Nat /\ fetched \in Int /\ fetched = lastReference
    BY <1>1, Elements DEF IInv, Stamped
  <2>2. GapAllowed \in Nat /\ GapAllowed >= ReferenceInterval /\ ReferenceInterval \in Nat
    <3>1. ReferenceInterval \in Nat \ {0} /\ MaxGapIntervals \in Nat \ {0}
      BY RecorderAssumption
    <3> QED
      BY <3>1 DEF GapAllowed
  <2> QED
    BY <2>1, <2>2 DEF CapturedGapReported, GapExceeded, ReferenceDue, Baseline
<1> QED
  BY <1>1, IInvHolds, PTL

-----------------------------------------------------------------------------
(***************************************************************************)
(* The segment writer, for every set of receive times and every bound on   *)
(* the frames of a segment.                                                *)
(*                                                                         *)
(* Neither property is inductive.  What a loss of power leaves must be     *)
(* tied to what was written (a prefix of it, under a name that is not      *)
(* later), and both to the call the writer stands at: a frame that is being*)
(* written is after all durable ones, a manifest is only made once all that*)
(* the data file holds is durable under its final name, and nothing touches*)
(* the data after that.                                                    *)
(***************************************************************************)

\* A loss of power leaves a prefix of the frames, none when there is no file.
Prefixed ==
    /\ Len(safe.frames) <= Len(disk.frames)
    /\ \A i \in 1..Len(safe.frames) : safe.frames[i] = disk.frames[i]
    /\ disk.data = "absent" => disk.frames = <<>> /\ safe.data = "absent"
    /\ safe.data = "absent" => safe.frames = <<>>
    /\ step = "none" => safe = disk

\* What was acknowledged was synced with its whole payload.
Synced ==
    /\ acked \subseteq 1..Len(safe.frames)
    /\ \A i \in acked : safe.frames[i].whole

\* The frame that is being written is none of the durable ones.
Written ==
    /\ step \in {"writing", "syncing"} => Len(safe.frames) < Len(disk.frames)
    /\ step = "syncing" => disk.frames[Len(disk.frames)].whole

\* Every record that counts is one of the frames; a frame that is being synced
\* does not count yet.
Counted ==
    /\ step # "none" => count <= Len(disk.frames)
    /\ step \in {"writing", "syncing"} => count < Len(disk.frames)
    /\ step \in {"finalizing", "naming", "syncingName", "describing"} => count > 0

\* The calls of a finalization have done their work when the next one is made.
Ordered ==
    /\ step \in {"open", "writing", "syncing", "finalizing", "naming"} => disk.data = "partial"
    /\ step \in {"open", "writing", "syncing", "finalizing", "naming", "syncingName", "describing"} =>
        disk.manifest = "absent"
    /\ step \in {"naming", "syncingName", "describing"} =>
        safe.frames = disk.frames /\ safe.data # "absent"
    /\ step \in {"syncingName", "describing"} => disk.data = "final"
    /\ step = "describing" => safe.data = "final"
    /\ step \in {"publishing", "syncingManifest"} => disk.manifest # "absent"

\* A manifest, published or not, describes a whole and durable data file.
Described ==
    /\ disk.manifest = "absent" => safe.manifest = "absent"
    /\ disk.manifest # "absent" =>
        /\ disk.data = "final" /\ safe.data = "final"
        /\ safe.frames = disk.frames /\ disk.says.frames = disk.frames
        /\ disk.says.count <= Len(disk.frames)

WriterInv == WriterTypeOK /\ Prefixed /\ Synced /\ Written /\ Counted /\ Ordered /\ Described

-----------------------------------------------------------------------------
\* Frames are the sequences of frames that fit in a segment.
LEMMA FramesAreBounded ==
    ASSUME NEW s
    PROVE  s \in Frames <=> s \in Seq(Frame) /\ Len(s) <= MaxFrames
  <1>1. MaxFrames \in Nat
    BY SegmentAssumption
  <1>2. ASSUME s \in Frames PROVE s \in Seq(Frame) /\ Len(s) <= MaxFrames
    <2>1. PICK n \in 0..MaxFrames : s \in [1..n -> Frame]
      BY <1>2 DEF Frames, BoundedSeq, SeqOf
    <2>2. s \in Seq(Frame) /\ Len(s) = n
      BY <1>1, <2>1
    <2> QED
      BY <1>1, <2>2
  <1>3. ASSUME s \in Seq(Frame), Len(s) <= MaxFrames PROVE s \in Frames
    <2>1. Len(s) \in 0..MaxFrames /\ s \in [1..Len(s) -> Frame]
      BY <1>1, <1>3
    <2> QED
      BY <2>1 DEF Frames, BoundedSeq, SeqOf
  <1> QED
    BY <1>2, <1>3

\* One more frame leaves the earlier ones where they are.
LEMMA AppendedFrames ==
    ASSUME NEW s \in Frames, NEW frame \in Frame, Len(s) < MaxFrames
    PROVE  /\ Append(s, frame) \in Frames
           /\ Len(Append(s, frame)) = Len(s) + 1
           /\ \A i \in 1..Len(s) : Append(s, frame)[i] = s[i]
  <1>1. s \in Seq(Frame) /\ Len(s) \in Nat
    BY FramesAreBounded
  <1>2. /\ Append(s, frame) \in Seq(Frame)
        /\ Len(Append(s, frame)) = Len(s) + 1
        /\ \A i \in 1..Len(s) : Append(s, frame)[i] = s[i]
    BY <1>1
  <1>3. Len(Append(s, frame)) <= MaxFrames
    BY <1>1, <1>2, SegmentAssumption
  <1> QED
    BY <1>2, <1>3, FramesAreBounded

\* With its payload the last frame is whole, and the others are what they were.
LEMMA CompletedFrames ==
    ASSUME NEW s \in Frames, Len(s) > 0
    PROVE  LET more == [s EXCEPT ![Len(s)].whole = TRUE]
           IN  /\ more \in Frames /\ Len(more) = Len(s)
               /\ more[Len(s)].whole
               /\ \A i \in 1..Len(s) : i # Len(s) => more[i] = s[i]
  <1> DEFINE n == Len(s)
             more == [s EXCEPT ![n].whole = TRUE]
  <1>1. s \in Seq(Frame) /\ n \in Nat /\ n <= MaxFrames /\ n \in 1..n
    BY FramesAreBounded
  <1>2. s \in [1..n -> Frame]
    BY <1>1
  <1> HIDE DEF n
  <1>3. more \in [1..n -> Frame]
    BY <1>1, <1>2 DEF Frame
  <1>4. more \in Seq(Frame) /\ Len(more) = n
    BY <1>1, <1>3
  <1>5. more[n].whole /\ \A i \in 1..n : i # n => more[i] = s[i]
    BY <1>1, <1>2 DEF Frame
  <1>6. more \in Frames
    BY <1>1, <1>4, FramesAreBounded
  <1> QED
    BY <1>4, <1>5, <1>6 DEF n

\* A crash cuts the frames at some length and may tear the last one, if that was
\* not durable.
LEMMA CutFrames ==
    ASSUME disk.frames \in Frames, safe.frames \in Frames,
           NEW length \in Len(safe.frames)..Len(disk.frames), NEW torn \in BOOLEAN
    PROVE  /\ Remains(length, torn) \in Frames
           /\ Len(Remains(length, torn)) = length
           /\ \A i \in 1..Len(safe.frames) : Remains(length, torn)[i] = disk.frames[i]
           /\ Len(safe.frames) = Len(disk.frames) => Remains(length, torn) = disk.frames
  <1> DEFINE r == Remains(length, torn)
  <1>1. /\ disk.frames \in Seq(Frame) /\ Len(disk.frames) \in Nat /\ Len(disk.frames) <= MaxFrames
        /\ safe.frames \in Seq(Frame) /\ Len(safe.frames) \in Nat
    BY FramesAreBounded
  <1>2. length \in Nat /\ length <= Len(disk.frames) /\ length <= MaxFrames /\ Len(safe.frames) <= length
    BY <1>1, SegmentAssumption
  <1>3. \A i \in 1..length : disk.frames[i] \in Frame
    BY <1>1, <1>2
  <1>4. r \in [1..length -> Frame]
    BY <1>3 DEF Remains, Frame
  <1>5. r \in Seq(Frame) /\ Len(r) = length
    BY <1>2, <1>4
  <1>6. \A i \in 1..Len(safe.frames) : r[i] = disk.frames[i]
    BY <1>1, <1>2 DEF Remains
  <1>7. Len(safe.frames) = Len(disk.frames) => r = disk.frames
    BY <1>1, <1>2, <1>4, <1>6
  <1> QED
    BY <1>2, <1>5, <1>6, <1>7, FramesAreBounded

LEMMA NoFrames == <<>> \in Frames /\ Len(<<>>) = 0
  <1>1. \A s : s \in Seq(Frame) /\ Len(s) <= MaxFrames => s \in Frames
    BY FramesAreBounded
  <1>2. <<>> \in Seq(Frame) /\ Len(<<>>) = 0
    OBVIOUS
  <1>3. Len(<<>>) <= MaxFrames
    BY <1>2, SegmentAssumption
  <1> QED
    BY <1>1, <1>2, <1>3

LEMMA WriterInitEstablishes == WriterInit => WriterInv
  <1>1. <<>> \in Frames
    BY NoFrames
  <1>2. Nothing \in Artifacts
    BY <1>1 DEF Nothing, Artifacts, Manifest, NoManifest
  <1> QED
    BY <1>2, SegmentAssumption DEF WriterInit, WriterInv, WriterTypeOK, Steps, Prefixed, Synced, Written, Counted, Ordered, Described, Nothing, NoManifest

\* The types that the steps need, with the lengths as numbers.
LEMMA ArtifactsAreTyped ==
    ASSUME WriterTypeOK
    PROVE  /\ disk \in Artifacts /\ safe \in Artifacts
           /\ disk.frames \in Frames /\ safe.frames \in Frames
           /\ Len(disk.frames) \in 0..MaxFrames /\ Len(safe.frames) \in 0..MaxFrames
           /\ count \in Nat /\ MaxFrames \in Nat
  <1>1. disk.frames \in Frames /\ safe.frames \in Frames
    BY DEF WriterTypeOK, Artifacts
  <1>2. /\ disk.frames \in Seq(Frame) /\ Len(disk.frames) <= MaxFrames
        /\ safe.frames \in Seq(Frame) /\ Len(safe.frames) <= MaxFrames
    BY <1>1, FramesAreBounded
  <1> QED
    BY <1>1, <1>2, SegmentAssumption DEF WriterTypeOK

\* A sync keeps the order of what is safe and what is on the disk.
LEMMA SyncKeepsTypes ==
    ASSUME WriterInv
    PROVE  /\ SyncedData \in Artifacts
           /\ SyncedData.frames = disk.frames
           /\ SyncedData.data # "absent"
           /\ SyncedData.data = IF safe.data = "absent" THEN "partial" ELSE safe.data
           /\ SyncedData.manifest = safe.manifest /\ SyncedData.says = safe.says
  BY ArtifactsAreTyped DEF WriterInv, SyncedData, Artifacts

LEMMA WriterNextKeeps == WriterInv /\ [WriterNext]_writer => WriterInv'
  <1> SUFFICES ASSUME WriterInv, [WriterNext]_writer PROVE WriterInv'
    OBVIOUS
  <1>0. /\ WriterTypeOK /\ Prefixed /\ Synced /\ Written /\ Counted /\ Ordered /\ Described
        /\ disk \in Artifacts /\ safe \in Artifacts
        /\ disk.frames \in Frames /\ safe.frames \in Frames
        /\ Len(disk.frames) \in 0..MaxFrames /\ Len(safe.frames) \in 0..MaxFrames
        /\ count \in Nat /\ MaxFrames \in Nat
    BY ArtifactsAreTyped DEF WriterInv
  <1>1. CASE Open
    BY <1>0, <1>1 DEF Open, WriterInv, WriterTypeOK, Steps, Artifacts, Prefixed, Synced, Written, Counted, Ordered, Described
  <1>2. ASSUME NEW time \in Times, AppendHeader(time) PROVE WriterInv'
    <2> DEFINE frame == [time |-> time, whole |-> FALSE]
    <2>1. frame \in Frame
      BY DEF Frame
    <2>2. /\ step = "open" /\ step' = "writing" /\ Len(disk.frames) < MaxFrames
          /\ disk' = [disk EXCEPT !.frames = Append(@, frame)]
          /\ UNCHANGED <<count, last, acked, safe>>
      BY <1>2 DEF AppendHeader, memory
    <2> HIDE DEF frame
    <2>3. /\ disk' \in Artifacts /\ disk'.data = disk.data /\ disk'.manifest = disk.manifest
          /\ disk'.says = disk.says
          /\ disk'.frames = Append(disk.frames, frame) /\ disk'.frames \in Frames
          /\ Len(disk'.frames) = Len(disk.frames) + 1
          /\ \A i \in 1..Len(disk.frames) : disk'.frames[i] = disk.frames[i]
      BY <1>0, <2>1, <2>2, AppendedFrames DEF Artifacts
    <2>4. WriterTypeOK' /\ Prefixed' /\ Synced' /\ Written' /\ Counted'
      BY <1>0, <2>2, <2>3 DEF WriterTypeOK, Steps, Prefixed, Synced, Written, Counted, Ordered
    <2>5. Ordered' /\ Described'
      BY <1>0, <2>2, <2>3 DEF Ordered, Described
    <2> QED
      BY <2>4, <2>5 DEF WriterInv
  <1>16. CASE AppendPayload
    <2>1. /\ step = "writing" /\ step' = "syncing"
          /\ disk' = [disk EXCEPT !.frames[Len(disk.frames)].whole = TRUE]
          /\ UNCHANGED <<count, last, acked, safe>>
      BY <1>16 DEF AppendPayload, memory
    <2>2. Len(safe.frames) < Len(disk.frames) /\ Len(disk.frames) > 0
      BY <1>0, <2>1 DEF Written
    <2>3. /\ disk' \in Artifacts /\ disk'.data = disk.data /\ disk'.manifest = disk.manifest
          /\ disk'.frames = [disk.frames EXCEPT ![Len(disk.frames)].whole = TRUE]
      <3>1. [disk.frames EXCEPT ![Len(disk.frames)].whole = TRUE] \in Frames
        BY <1>0, <2>2, CompletedFrames
      <3> QED
        BY <1>0, <2>1, <3>1 DEF Artifacts
    <2>4. /\ Len(disk'.frames) = Len(disk.frames)
          /\ disk'.frames[Len(disk.frames)].whole
          /\ \A i \in 1..Len(safe.frames) : disk'.frames[i] = disk.frames[i]
      BY <1>0, <2>2, <2>3, CompletedFrames
    <2>5. WriterTypeOK' /\ Prefixed' /\ Synced' /\ Written' /\ Counted'
      BY <1>0, <2>1, <2>2, <2>3, <2>4 DEF WriterTypeOK, Steps, Prefixed, Synced, Written, Counted, Ordered
    <2>6. Ordered' /\ Described'
      BY <1>0, <2>1, <2>3 DEF Ordered, Described
    <2> QED
      BY <2>5, <2>6 DEF WriterInv
  <1>3. CASE AcknowledgeFrame
    <2>1. Len(disk.frames) \in 1..MaxFrames /\ count + 1 \in 0..MaxFrames
      BY <1>0, <1>3 DEF AcknowledgeFrame, Counted
    <2>2. Last(disk.frames).time \in Times
      <3>1. disk.frames \in Seq(Frame)
        BY <1>0, FramesAreBounded
      <3>2. disk.frames[Len(disk.frames)] \in Frame
        BY <2>1, <3>1
      <3> QED
        BY <3>2 DEF Last, Frame
    <2>3. WriterTypeOK'
      BY <1>0, <1>3, <2>1, <2>2, SyncKeepsTypes DEF AcknowledgeFrame, WriterTypeOK, Steps
    <2>4. disk' = disk /\ safe' = SyncedData /\ step = "syncing" /\ step' = "open"
      BY <1>3 DEF AcknowledgeFrame
    <2>5. Prefixed'
      BY <1>0, <2>1, <2>4, SyncKeepsTypes DEF Prefixed, WriterInv, Ordered
    <2>6. /\ acked' = acked \cup {Len(disk.frames)} /\ count' = count + 1
          /\ Len(safe'.frames) = Len(disk.frames) /\ count < Len(disk.frames)
          /\ safe'.frames = disk.frames
      BY <1>0, <1>3, <2>4, SyncKeepsTypes DEF AcknowledgeFrame, Counted, WriterInv
    <2>7. 1..Len(safe.frames) \subseteq 1..Len(disk.frames) /\ Len(disk.frames) \in 1..Len(disk.frames)
      BY <1>0, <2>1 DEF Prefixed
    <2>8. Synced'
      <3>1. \A i \in acked : disk.frames[i].whole
        BY <1>0 DEF Synced, Prefixed
      <3>2. disk.frames[Len(disk.frames)].whole
        BY <1>0, <2>4 DEF Written
      <3> QED
        BY <1>0, <2>6, <2>7, <3>1, <3>2 DEF Synced
    <2>9. Counted' /\ Written'
      BY <1>0, <2>4, <2>6 DEF Counted, Written
    <2>10. Ordered' /\ Described'
      BY <1>0, <2>4, SyncKeepsTypes DEF Ordered, Described, WriterInv
    <2> QED
      BY <2>3, <2>5, <2>8, <2>9, <2>10 DEF WriterInv
  <1>4. CASE AppendRaises
    BY <1>0, <1>4 DEF AppendRaises, memory, WriterInv, WriterTypeOK, Steps, Prefixed, Synced, Written, Counted, Ordered, Described
  <1>5. CASE Finalize
    BY <1>0, <1>5 DEF Finalize, memory, WriterInv, WriterTypeOK, Steps, Prefixed, Synced, Written, Counted, Ordered, Described
  <1>6. CASE SyncData
    BY <1>0, <1>6, SyncKeepsTypes
       DEF SyncData, memory, WriterInv, WriterTypeOK, Steps, Prefixed, Synced, Written, Counted, Ordered, Described
  <1>7. CASE Abort
    BY <1>0, <1>7, SyncKeepsTypes
       DEF Abort, memory, WriterInv, WriterTypeOK, Steps, Prefixed, Synced, Written, Counted, Ordered, Described
  <1>8. CASE NameData
    BY <1>0, <1>8
       DEF NameData, memory, WriterInv, WriterTypeOK, Steps, Artifacts, Prefixed, Synced, Written, Counted, Ordered, Described
  <1>9. CASE SyncName
    BY <1>0, <1>9
       DEF SyncName, memory, WriterInv, WriterTypeOK, Steps, Artifacts, Prefixed, Synced, Written, Counted, Ordered, Described
  <1>10. CASE DescribeData
    <2>1. [frames |-> disk.frames, count |-> count] \in Manifest
      BY <1>0, <1>10 DEF DescribeData, Manifest, Counted
    <2> QED
      BY <1>0, <1>10, <2>1
         DEF DescribeData, memory, WriterInv, WriterTypeOK, Steps, Artifacts, Prefixed, Synced, Written, Counted, Ordered, Described
  <1>11. CASE PublishManifest
    BY <1>0, <1>11
       DEF PublishManifest, memory, WriterInv, WriterTypeOK, Steps, Artifacts, Prefixed, Synced, Written, Counted, Ordered, Described
  <1>12. CASE SyncManifest
    BY <1>0, <1>12
       DEF SyncManifest, memory, WriterInv, WriterTypeOK, Steps, Artifacts, Prefixed, Synced, Written, Counted, Ordered, Described
  <1>13. CASE FinalizeRaises
    BY <1>0, <1>13
       DEF FinalizeRaises, memory, WriterInv, WriterTypeOK, Steps, Prefixed, Synced, Written, Counted, Ordered, Described
  <1>14. CASE Crash
    <2>1. PICK data \in {safe.data, disk.data},
               manifest \in {safe.manifest, disk.manifest},
               length \in Len(safe.frames)..Len(disk.frames), torn \in BOOLEAN :
            disk' = [data     |-> data,
                     frames   |-> IF data = "absent" THEN <<>> ELSE Remains(length, torn),
                     manifest |-> manifest,
                     says     |-> IF manifest = "absent" THEN NoManifest ELSE disk.says]
      BY <1>14 DEF Crash
    <2> DEFINE rest == Remains(length, torn)
    <2>2. /\ rest \in Frames /\ Len(rest) = length
          /\ \A i \in 1..Len(safe.frames) : rest[i] = disk.frames[i]
          /\ Len(safe.frames) = Len(disk.frames) => rest = disk.frames
      BY <1>0, <2>1, CutFrames
    <2>20. disk' = [data     |-> data,
                    frames   |-> IF data = "absent" THEN <<>> ELSE rest,
                    manifest |-> manifest,
                    says     |-> IF manifest = "absent" THEN NoManifest ELSE disk.says]
      BY <2>1
    <2> HIDE DEF rest
    <2>3. <<>> \in Frames /\ Len(<<>>) = 0
      BY NoFrames
    <2>4. disk' \in Artifacts /\ safe' = disk'
      BY <1>0, <1>14, <2>20, <2>2, <2>3 DEF Crash, Artifacts, Manifest
    <2>5. WriterTypeOK'
      BY <1>0, <1>14, <2>4 DEF Crash, memory, WriterTypeOK, Steps
    <2>6. Prefixed'
      BY <1>0, <1>14, <2>20, <2>2, <2>3, <2>4 DEF Crash, Prefixed
    <2>7. Synced'
      BY <1>0, <1>14, <2>20, <2>2, <2>3, <2>4 DEF Crash, Prefixed, Synced
    <2>8. Counted' /\ Ordered' /\ Written'
      BY <1>14 DEF Crash, Counted, Ordered, Written
    <2>9. Described'
      <3>1. ASSUME manifest # "absent"
            PROVE  /\ data = "final" /\ rest = disk.frames
                   /\ disk.says.frames = disk.frames
                   /\ disk.says.count <= Len(disk.frames)
        <4>1. disk.manifest # "absent"
          BY <1>0, <2>1, <3>1 DEF Described
        <4> QED
          BY <1>0, <2>1, <2>2, <4>1 DEF Described
      <3>2. /\ disk'.manifest = manifest /\ disk'.data = data
            /\ manifest # "absent" => disk'.says = disk.says
            /\ data # "absent" => disk'.frames = rest
        BY <2>20
      <3> QED
        BY <2>4, <3>1, <3>2 DEF Described
    <2> QED
      BY <2>5, <2>6, <2>7, <2>8, <2>9 DEF WriterInv
  <1>15. CASE UNCHANGED writer
    BY <1>0, <1>15 DEF writer, WriterInv, WriterTypeOK, Prefixed, Synced, Written, Counted, Ordered, Described
  <1> QED
    BY <1>1, <1>2, <1>3, <1>4, <1>5, <1>6, <1>7, <1>8, <1>9, <1>10, <1>11, <1>12, <1>13, <1>14, <1>15, <1>16
       DEF WriterNext

\* The inductive invariant holds in every state of the writer.
THEOREM WriterInductive == WriterSpec => []WriterInv
  <1>1. WriterInit => WriterInv
    BY WriterInitEstablishes
  <1>2. WriterInv /\ [WriterNext]_writer => WriterInv'
    BY WriterNextKeeps
  <1> QED
    BY <1>1, <1>2, PTL DEF WriterSpec

\* The writer's memory and artifacts stay what forward_recorder/segment.py says
\* they are: no segment holds more frames than the bound, and the manifest
\* counts at least one record and no more than that.
THEOREM WriterTypeInvariant == WriterSpec => []WriterTypeOK
  <1>1. WriterInv => WriterTypeOK
    BY DEF WriterInv
  <1> QED
    BY WriterInductive, <1>1, PTL

\* A manifest at its published name describes a data file that is whole, under
\* its final name and durable, at whatever call finalize raised or power was
\* lost (forward_recorder/segment.py:178-202).
THEOREM PublishedManifestsTellTheTruth == WriterSpec => []ManifestTellsTruth
  <1>1. WriterInv => ManifestTellsTruth
    BY DEF WriterInv, Described, ManifestTellsTruth
  <1> QED
    BY WriterInductive, <1>1, PTL

\* The whole frame of every append that returned survives every loss of power at
\* its place, also when another append raises between its header and its payload
\* or the finalization raises (forward_recorder/segment.py:81-90 and 132-150).
THEOREM AcknowledgedPayloadsSurvive == WriterSpec => []AckedSurvive
  <1>1. WriterInv => AckedSurvive
    <2> SUFFICES ASSUME WriterInv, NEW i \in acked
                 PROVE  disk.data # "absent" /\ i <= Len(safe.frames) /\ safe.frames[i].whole
      BY DEF AckedSurvive
    <2>1. i \in 1..Len(safe.frames) /\ Len(safe.frames) \in Nat /\ safe.frames[i].whole
      BY ArtifactsAreTyped DEF WriterInv, Synced
    <2>2. Len(safe.frames) > 0
      BY <2>1
    <2>3. safe.frames # <<>>
      BY <2>2
    <2> QED
      BY <2>1, <2>3 DEF WriterInv, Prefixed
  <1> QED
    BY WriterInductive, <1>1, PTL

=============================================================================
