------------------------------ MODULE EventWindow ------------------------------
(* Facts about one decision (packs/replay_reduction/event_window.py): what    *)
(* trades of complete blocks said by the decision, and what followed it.  A   *)
(* row also has a symbol, a time and a block.  The value of an as-of or       *)
(* future fact is the row it is read from, that of a trailing fact the rows   *)
(* summed and counted.                                                        *)
EXTENDS Canonicalize

CONSTANT NoRow \* the value of a fact nothing qualifies for

\* The default tie_break_columns: the timestamp alone.
TieBreak(r) == r.time
AsOfPreferred(r, best) == best = NoRow \/ TieBreak(r) > TieBreak(best)
FuturePreferred(r, best) == best = NoRow \/ TieBreak(r) < TieBreak(best)

\* The rows of the symbol, without witnesses; the last row of a group of equal
\* identities stands for it, also when the group goes on in the next file.
Represent(out, r) ==
    IF out # <<>> /\ Last(out).identity = r.identity
    THEN Append(Front(out), r)
    ELSE Append(out, r)

Representatives(files, symbol) ==
    LET rows == FlattenSeq(files)
        kept == Those(rows, {r \in ToSet(rows) : r.symbol = symbol /\ ~IsWitness(r)})
        out[n \in 0 .. Len(kept)] ==
            IF n = 0 THEN <<>> ELSE Represent(out[n - 1], kept[n])
    IN  out[Len(kept)]

\* Mutant: a trailing window closed at both ends.
TrailingClosed(request, width, r) ==
    /\ r.block <= request.cutoff
    /\ r.time >= request.decision - width /\ r.time <= request.decision

Trailing(request, width, r) ==
    /\ r.block <= request.cutoff
    /\ r.time > request.decision - width /\ r.time <= request.decision

AsOfCandidate(request, offset, r) ==
    r.block <= request.cutoff /\ r.time <= request.decision - offset

\* A future window is closed at both ends.
FutureCandidate(request, window, r) ==
    /\ r.time >= request.decision + window.start
    /\ r.time <= request.decision + window.end
    /\ r.block > window.minBlock

FreshFacts(request) ==
    [trailing |-> [w \in request.widths |-> <<>>],
     asOf     |-> [o \in request.offsets |-> NoRow],
     future   |-> [w \in request.windows |-> NoRow]]

IngestRow(request, facts, r) ==
    [trailing |-> [w \in request.widths |->
                      IF Trailing(request, w, r)
                      THEN Append(facts.trailing[w], r) ELSE facts.trailing[w]],
     asOf |-> [o \in request.offsets |->
                  IF AsOfCandidate(request, o, r) /\ AsOfPreferred(r, facts.asOf[o])
                  THEN r ELSE facts.asOf[o]],
     future |-> [w \in request.windows |->
                    IF FutureCandidate(request, w, r) /\ FuturePreferred(r, facts.future[w])
                    THEN r ELSE facts.future[w]]]

Ingested(rows, request) ==
    LET facts[n \in 0 .. Len(rows)] ==
            IF n = 0 THEN FreshFacts(request)
            ELSE IngestRow(request, facts[n - 1], rows[n])
    IN  facts[Len(rows)]

\* The files are canonicalized first, only to reject what that rejects; the
\* checks repeated on the rows of the symbol then cannot fail.
EventWindowFacts(files, request) ==
    IF ~ExecuteStructuralCanonicalize(files).ok
    THEN Failed
    ELSE [ok |-> TRUE,
          facts |-> Ingested(Representatives(files, request.symbol), request)]
=============================================================================
