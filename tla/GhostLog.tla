------------------------------ MODULE GhostLog ------------------------------
(***************************************************************************)
(* The ledger's log of ghost trades, one JSON record per line, appended to *)
(* by every run of the muscle (crate metabolic-ledger, external) and read  *)
(* by train_ghost.rs.  A record is an atom.  A process killed while it     *)
(* appends leaves a line that is not ended: part of a record, or all of it *)
(* but the newline; the next append goes on in that line.  A cut in the    *)
(* middle of a character (a ticker of the JSON wire may hold any) leaves a *)
(* line that is no text.                                                   *)
(***************************************************************************)
EXTENDS Naturals, Sequences

CONSTANTS Torn,   \* what is left of a record that was cut
          Garbled \* what is left of one that was cut within a character

ASSUME TornAssumption == Torn \notin Nat /\ Garbled \notin Nat /\ Torn # Garbled

(* A line: what it holds, one after the other, and whether it was ended. *)
Line(parts, ended) == [parts |-> parts, ended |-> ended]

(* External: the next write goes behind the last one. *)
Write(log, part, ended) ==
  LET last == Len(log)
  IN IF last > 0 /\ ~log[last].ended
       THEN [log EXCEPT ![last] = Line(Append(@.parts, part), ended)]
       ELSE Append(log, Line(<<part>>, ended))

(* External: what a kill during the write of a record leaves of it. *)
CutWrites(log, record) ==
  {log} \cup {Write(log, part, FALSE) : part \in {Torn, Garbled, record}}

(* GhostTradeRecord: a line that is one whole record, no more and no less. *)
Parses(line) == Len(line.parts) = 1 /\ line.parts[1] \notin {Torn, Garbled}

(* A line that is no text ends load_ghost_trades, and train_ghost, in error. *)
LoadFails(log) == \E k \in 1..Len(log) : \E j \in 1..Len(log[k].parts) : log[k].parts[j] = Garbled

(* Mutated LoadGhostTrades: the first line that does not parse ends it. *)
LoadToFirstError(log) ==
  LET bad == {k \in 1..Len(log) : ~Parses(log[k])}
      good == IF bad = {} THEN log
              ELSE SubSeq(log, 1, (CHOOSE k \in bad : \A j \in bad : k <= j) - 1)
  IN [k \in 1..Len(good) |-> good[k].parts[1]]

(* load_ghost_trades when it does not fail, over the lines in turn: one     *)
(* that does not parse is skipped with a warning.                          *)
LoadGhostTrades(log) ==
  LET trades[k \in 0..Len(log)] ==
        IF k = 0 THEN <<>>
        ELSE IF Parses(log[k]) THEN Append(trades[k - 1], log[k].parts[1])
        ELSE trades[k - 1]
  IN trades[Len(log)]
=============================================================================
