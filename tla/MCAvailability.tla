--------------------------- MODULE MCAvailability ---------------------------
(***************************************************************************)
(* Requests over the slots 0..MAX: two available ranges and one blocked,   *)
(* and almost everything available with up to three ranges blocked by two  *)
(* participants.                                                           *)
(***************************************************************************)
EXTENDS PageEstimate

\* The order of ranges in a request does not matter to time_merge, which
\* sorts, so one order of each choice is enough.
NotAfter(a, b) == a.start < b.start \/ (a.start = b.start /\ a.end <= b.end)
UpTo(n) ==
    {s \in BoundedSeq(SlotRange, n) : \A i \in 1 .. Len(s) - 1 : NotAfter(s[i], s[i + 1])}

Asked(open, busy) ==
    [available : open, participants : busy, duration : {1, 2, MAX}]

MostOfIt == {<<[start |-> 0, end |-> MAX]>>, <<[start |-> 1, end |-> MAX]>>,
             <<[start |-> 0, end |-> MAX - 1]>>}

MCRequests ==
    Asked(UpTo(2), {<<b>> : b \in UpTo(1)})
        \cup Asked(MostOfIt, {<<b, c>> : b \in UpTo(2), c \in UpTo(1)})
=============================================================================
