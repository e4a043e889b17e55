---------------------------- MODULE MCSnapshots ----------------------------
(* A small instance of Snapshots for TLC. *)
EXTENDS Snapshots, TLC

CONSTANTS u1, u2, i1, i2, lb, fw

Doc(x, y, included) == [cfg |-> (lb :> x @@ fw :> y), included |-> included]

MCFirst == lb :> 0 @@ fw :> 0

\* One snapshot covers one domain and says so, one covers both and does not
\* say anything.
MCUploads == {Doc(1, None, {lb}), Doc(1, 1, {})}

MCSelections == {Omitted, {}, {fw}}
MCTargets == {None, i2}

\* The first instance has a pinned snapshot and one that was flagged under
\* another key.
MCStored == 1 :> [inst |-> i1, doc |-> Doc(0, 1, {lb, fw}), trigger |-> "manual",
                  pinned |-> FALSE, ok |-> FALSE]
         @@ 2 :> [inst |-> i1, doc |-> Doc(1, 1, {}), trigger |-> "scheduled",
                  pinned |-> TRUE, ok |-> TRUE]

\* One request works on documents, one on the rows.
MCAsks == u1 :> {"take", "upload", "restore", "download"}
       @@ u2 :> {"update", "delete", "putSchedule"}
============================================================================
