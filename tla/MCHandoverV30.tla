--------------------------- MODULE MCHandoverV30 ---------------------------
(* Small instances of HandoverV30 for TLC: the sets of definitions that    *)
(* the oracles of a run can vote in.                                       *)
EXTENDS HandoverV30

Live(format, res) ==
    [format |-> format, tombstone |-> FALSE, disableNil |-> FALSE, streams |-> {},
     opts |-> [res |-> res, target |-> Absent, rows |-> {}]]

Tombstoned(d) == [d EXCEPT !.tombstone = TRUE]

Waiting(d, streams) == [d EXCEPT !.disableNil = TRUE, !.streams = streams]

Backfill(target, rows) ==
    [format |-> "backfill", tombstone |-> FALSE, disableNil |-> FALSE, streams |-> {},
     opts |-> [res |-> "s", target |-> target, rows |-> rows]]

(* A channel that is paused and resumed.                                   *)
PausedChannel == [c \in Channels |-> {Live("json", "ns"), Tombstoned(Live("json", "ns"))}]

(* A channel that reports only complete values.                            *)
WaitingChannel == [c \in Channels |-> {Waiting(Live("json", "ns"), Streams)}]

(* Channels that are only ever added and removed.                          *)
FixedChannels == [c \in Channels |-> {Live("json", "ns")}]

(* Channel 1 changes its resolution; channel 2 is a backfill of it.        *)
ChangingChannels ==
    [c \in Channels |->
        IF c = 1 THEN {Live("unpacked", "ns"), Live("unpacked", "s")}
                 ELSE {Backfill(1, {1, 2, 3})}]

(* Channel 2 is a backfill of channel 1 that is paused and resumed.        *)
PausedBackfill ==
    [c \in Channels |->
        IF c = 1 THEN {Live("unpacked", "ns")}
                 ELSE {Backfill(1, {1, 2, 3}), Tombstoned(Backfill(1, {1, 2, 3}))}]
=============================================================================
