---------------------------- MODULE ContentGate ----------------------------
(***************************************************************************)
(* The content gate of the streaming tool loop (stream.go): content deltas *)
(* are forwarded as they arrive, except what may be the start of a textual *)
(* tool call.  Text is a sequence of tokens, and Tag is toolCallTag, in as *)
(* many tokens as deltas may split it into.                                *)
(***************************************************************************)
EXTENDS Integers, Sequences, SequencesExt

CONSTANT Tag

(* The tag is a word, not the empty one.                                   *)
ASSUME TagAssumption == Tag \in Seq(ToSet(Tag)) /\ Len(Tag) > 0

NewGate == [pending |-> <<>>, capturing |-> FALSE, captured |-> <<>>]

(* The places where the tag begins (strings.Index takes the first).        *)
TagAt(s) ==
  {i \in 1 .. Len(s) - Len(Tag) + 1 : SubSeq(s, i, i + Len(Tag) - 1) = Tag}

Least(S) == CHOOSE i \in S : \A j \in S : i <= j

(* Mutant: nothing is held back before a whole tag was seen.               *)
TagPrefixSuffixNone(s) == 0

(* The longest suffix of s that is a proper prefix of the tag.             *)
TagPrefixSuffix(s) ==
  LET held == {n \in 0 .. Len(Tag) - 1 : IsSuffix(SubSeq(Tag, 1, n), s)}
  IN  CHOOSE n \in held : \A m \in held : m <= n

(* Mutant: what follows the delta with the tag is lost.                    *)
CaptureOnce(g, delta) == g

Capture(g, delta) == [g EXCEPT !.captured = @ \o delta]

(* push: the gate after a delta, and what may be forwarded now.            *)
Push(g, delta) ==
  LET s == g.pending \o delta
      open == Least(TagAt(s))
      cut == Len(s) - TagPrefixSuffix(s)
  IN CASE g.capturing ->
            [gate |-> Capture(g, delta), out |-> <<>>]
       [] ~g.capturing /\ TagAt(s) # {} ->
            [gate |-> [pending |-> <<>>, capturing |-> TRUE,
                       captured |-> SubSeq(s, open, Len(s))],
             out |-> SubSeq(s, 1, open - 1)]
       [] OTHER ->
            [gate |-> [g EXCEPT !.pending = SubSeq(s, cut + 1, Len(s))],
             out |-> SubSeq(s, 1, cut)]
=============================================================================
