---------------------------- MODULE OutputBuffer ----------------------------
(***************************************************************************)
(* src/runner/src/runtime/output-buffer.ts: the retained tail of what a    *)
(* process printed.  A buffer is [chunks, dropped]; a chunk is a sequence  *)
(* of characters, and evicting drops whole chunks from the front and then  *)
(* cuts into the oldest one left.                                          *)
(***************************************************************************)
EXTENDS Naturals, SequencesExt

CONSTANT Limit

ASSUME LimitAssumption == Limit \in Nat \ {0}

EmptyBuffer == [chunks |-> <<>>, dropped |-> 0]

Length(chunks) == FoldLeft(LAMBDA n, c : n + Len(c), 0, chunks)

(* The loop's body for the chunks from the oldest on, while characters are  *)
(* over the limit.                                                          *)
Evicted(chunks, overflow) ==
  LET cut(acc, c) ==
        IF Len(c) <= acc.over
          THEN [acc EXCEPT !.over = @ - Len(c)]
          ELSE [kept |-> Append(acc.kept, SubSeq(c, acc.over + 1, Len(c))), over |-> 0]
  IN FoldLeft(cut, [kept |-> <<>>, over |-> overflow], chunks).kept

(* push *)
PushKeepsHead(buffer, chunk) ==
  LET room == Limit - Length(buffer.chunks)
      kept == SubSeq(chunk, 1, IF Len(chunk) < room THEN Len(chunk) ELSE room)
  IN [chunks |-> Append(buffer.chunks, kept), dropped |-> buffer.dropped + Len(chunk) - Len(kept)]

Push(buffer, chunk) ==
  LET all  == Append(buffer.chunks, chunk)
      over == IF Length(all) > Limit THEN Length(all) - Limit ELSE 0
  IN [chunks |-> Evicted(all, over), dropped |-> buffer.dropped + over]

(* The getters. *)
Text(buffer) == FlattenSeq(buffer.chunks)
Truncated(buffer) == buffer.dropped > 0
=============================================================================
