----------------------------- MODULE MCDataset -----------------------------
(***************************************************************************)
(* A dataset of canonical events: what its books show, and what an audit   *)
(* and a calibrated candidate make of it.  BookVisibility and              *)
(* Tier2Candidate share no variable, so that no interleaving of the two    *)
(* shows more than each alone does: one works while the other is at its    *)
(* start.  The payloads of the candidate are small: a book, a one-sided    *)
(* book (mid 0), a trade and another with the same identity, an untraced   *)
(* trade, and funding with and without a rate.                             *)
(***************************************************************************)
EXTENDS Tier2Candidate, BookVisibility

Clocks == 1..MaxTime
Mids == [what : {"book"}, time : Clocks, traced : {TRUE}, mid : {0, 1}]
Trades(economics, traced) ==
    [what : {"trade"}, time : Clocks, traced : traced, identity : {1}, economics : economics]
Fundings == [what : {"funding"}, time : Clocks, traced : {TRUE}, rate : {"rate", NoRate}]

EveryEvent == Mids \cup Trades({1, 2}, {TRUE}) \cup Trades({1}, {FALSE}) \cup Fundings

Demanding ==
    [expectations : [start : {Unbounded, 1}, end : {Unbounded, 3}, overlap : BOOLEAN],
     required     : {{}, {3}}]
EveryInterval == 1..MaxTime

DatasetInit == Init /\ BookInit

DatasetNext ==
    \/ BookInit /\ Next /\ UNCHANGED bookVars
    \/ Init /\ BookNext /\ UNCHANGED vars

DatasetSpec == DatasetInit /\ [][DatasetNext]_<<vars, bookVars>>
=============================================================================
