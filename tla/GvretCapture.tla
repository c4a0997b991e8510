---------------------------- MODULE GvretCapture ----------------------------
(***************************************************************************)
(* lib/gvret: from the rows of a capture to the frames a replay may use.   *)
(* A cell is a natural number, Empty when it has no text, or Bad when its  *)
(* text does not parse; a payload is the sequence of the row's payload     *)
(* cells.                                                                  *)
(***************************************************************************)
EXTENDS Integers, Sequences, SequencesExt, FiniteSets

CONSTANTS MaxPayload  \* kCanClassicPayloadBytes

ASSUME PayloadAssumption == MaxPayload \in Nat

Bad == -1
Empty == -2
None == -1            \* an absent std::optional time

Headers == {"V1", "V2"}

(* RawCanFrame::is_valid() reads the identifier against its format: a      *)
(* standard identifier has one bit here, an extended one two.              *)
IdentifierValid(row) == row.id < IF row.ext = 1 THEN 4 ELSE 2

(* The checks of one row.  V1 has no direction column; a last cell without *)
(* text is a trailing comma and does not count.                            *)
RowParses(header, row) ==
  /\ row.complete
  /\ {Bad, Empty} \cap {row.time, row.id, row.ext, row.bus, row.dlc} = {}
  /\ header = "V2" => row.dir \in {"Rx", "Tx"}
  /\ row.dlc <= MaxPayload
  /\ LET filled == IF row.payload # <<>> /\ Last(row.payload) = Empty
                     THEN Len(row.payload) - 1 ELSE Len(row.payload)
     IN  row.dlc <= filled /\ filled <= MaxPayload
  /\ \A i \in 1..row.dlc : row.payload[i] \in 0..255
  /\ IdentifierValid(row)

(* One bad row fails the whole capture.                                    *)
ParseCsv(csv) ==
  IF csv.header \in Headers /\ \A i \in DOMAIN csv.rows : RowParses(csv.header, csv.rows[i])
    THEN [ok |-> TRUE,
          frames |-> [i \in DOMAIN csv.rows |->
                       [time |-> csv.rows[i].time, bus |-> csv.rows[i].bus,
                        dir |-> IF csv.header = "V2" THEN csv.rows[i].dir ELSE "Rx"]]]
    ELSE [ok |-> FALSE, frames |-> <<>>]

(* The positions in S, from the first to the last.                         *)
Ascending(S) ==
  CHOOSE f \in [1..Cardinality(S) -> S] :
    \A i, j \in 1..Cardinality(S) : i < j => f[i] < f[j]

(* The received rows of one bus, with times from the first of them; a time *)
(* that goes back fails the capture.                                       *)
PrepareReplay(parsed, bus) ==
  LET kept == Ascending({i \in DOMAIN parsed : parsed[i].bus = bus /\ parsed[i].dir = "Rx"})
      rows == [i \in DOMAIN kept |-> parsed[kept[i]]]
  IN  IF \E i \in 2..Len(rows) : rows[i].time < rows[i - 1].time
        THEN [ok |-> FALSE, frames |-> <<>>]
        ELSE [ok |-> TRUE,
              frames |-> [i \in DOMAIN rows |-> rows[i].time - rows[1].time]]

(* Reading the file may fail before any of it is parsed.                   *)
LoadFile(csv, bus, readable) ==
  LET parsed == ParseCsv(csv)
  IN  IF readable /\ parsed.ok THEN PrepareReplay(parsed.frames, bus)
                               ELSE [ok |-> FALSE, frames |-> <<>>]
=============================================================================
