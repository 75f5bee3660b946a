------------------------ MODULE MCStreamAggregator ------------------------
(* The runs of StreamAggregator.                                           *)
EXTENDS StreamAggregator, TLC

StreamSymmetry == Permutations(Streams)
=============================================================================
