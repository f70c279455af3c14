--------------------------- MODULE MCSchedulePage ---------------------------
(***************************************************************************)
(* Two participants, one meeting and one deletion.  A load of an earlier   *)
(* visit may have read the tables empty, with one participant who meets    *)
(* alone, or with both.                                                    *)
(***************************************************************************)
EXTENDS SchedulePage

Data(them, blocked) == [calendars |-> [n \in Names |-> IF n \in them THEN blocked ELSE Absent],
                        meetings |-> [m \in Created |-> IF them = {} THEN Absent ELSE them]]

MCEarlierData == {Data({}, Free)} \cup {Data({n}, Free) : n \in Names}
                    \cup {Data(Names, blocked) : blocked \in Blocked \ {Free}}

\* A page that has parted from the tables, or is muddled, is followed to the next
\* request that it sends.
Bound == astray \/ muddled => requests = <<>> /\ unsaved = {}

Symmetry == Permutations(Names)
=============================================================================
