--------------------------- MODULE MCTrustAnchor ---------------------------
(***************************************************************************)
(* The texts TrustAnchor is run with: up to three or four lines, and a     *)
(* second block after them or none.                                        *)
(***************************************************************************)
EXTENDS TrustAnchor, SequencesExt

(* Markers alone, indented, with trailing space, or all on one line.       *)
AnchorLines ==
  { << >>, <<"begin">>, <<"space", "begin">>, <<"begin", "space">>,
    <<"end">>, <<"space", "end">>, <<"certificate">>,
    <<"certificate", "space">>, <<"sequence">>, <<"key">>, <<"text">>,
    <<"latin1">>, <<"begin", "certificate", "end">> }

(* No further block, a second certificate, and one that is none.           *)
AnchorBlocks ==
  { << >>,
    << <<"begin">>, <<"certificate">>, <<"end">> >>,
    << <<"begin">>, <<"sequence">>, <<"end">> >> }

Written(lines) ==
  FlattenSeq([i \in DOMAIN lines |-> lines[i] \o <<"line end">>])

OfLines(n) ==
  {Written(lines \o block) :
     lines \in BoundedSeq(AnchorLines, n), block \in AnchorBlocks}

ThreeLines == OfLines(3)
FourLines  == OfLines(4)
=============================================================================
