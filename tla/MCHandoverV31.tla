--------------------------- MODULE MCHandoverV31 ---------------------------
(* Small instances of HandoverV31 for TLC.                                 *)
EXTENDS HandoverV31

Channel(format, res) ==
    [format |-> format, tombstone |-> FALSE, res |-> res, target |-> 0, rows |-> {}, bad |-> {}]

Tombstoned(d) == [d EXCEPT !.tombstone = TRUE]

Backfill(target, rows, bad) ==
    [format |-> "backfill", tombstone |-> FALSE, res |-> "s", target |-> target,
     rows |-> rows, bad |-> bad]

(* A channel that is paused, removed and added again.                      *)
PausedChannel ==
    [c \in Channels |->
        IF c = 1 THEN {Channel("json", "ns"), Tombstoned(Channel("json", "ns"))} ELSE {}]

(* A channel that changes its resolution, and a backfill of it with        *)
(* several observations to choose from.                                    *)
BackfilledChannel ==
    [c \in Channels |->
        IF c = 1 THEN {Channel("unpacked", "ns"), Channel("unpacked", "s")}
                 ELSE {Backfill(1, {1, 2, 3}, {})}]

(* A channel that turns into a backfill, with a row that cannot be         *)
(* emitted, and back.                                                      *)
TurnedChannel ==
    [c \in Channels |->
        IF c = 1 THEN {Channel("json", "ns")}
                 ELSE {Channel("json", "ns"), Backfill(1, {1, 2}, {1})}]

OneHandover == {[instances |-> 2, maxTime |-> 2, sources |-> PausedChannel]}

FourScenes ==
    OneHandover \cup {[instances |-> 1, maxTime |-> 4, sources |-> PausedChannel],
                      [instances |-> 1, maxTime |-> 4, sources |-> BackfilledChannel],
                      [instances |-> 1, maxTime |-> 3, sources |-> TurnedChannel]}
=============================================================================
